------------------------------- MODULE AgentTurn -------------------------------
(* The agent's turns on one thread: the durable workflow of
   jobs/src/functions/agent-turn.ts and the tools it executes through
   agent/src/define-tool.ts.

   A turn is a sequence of steps.  The platform checkpoints the result of each, and
   runs again a step whose attempt failed or whose result was lost after its
   transaction committed, up to MaxRetries times; then the turn fails.  It executes
   one step of a thread at a time, so an attempt is one action, but the steps of two
   turns of the thread may alternate.                                             *)
EXTENDS Integers, Sequences, FiniteSets

CONSTANTS
    Turns,          \* the turns users have sent on the thread
    MaxIters,       \* plans of a turn (6)
    Cap,            \* the workspace's cost cap of a turn
    PlanCosts,      \* what a call of the model can cost
    MaxCost,
    MaxCalls,       \* tool calls in one plan
    Kinds,          \* kinds of tool calls the model makes
    MaxRetries,     \* retries of a step (2)
    MaxFailures     \* bound on the failed and lost attempts

(* A call of a keyed tool inserts a task under a unique key, the same for all calls of
   the thread, and one of an unkeyed tool inserts it unconditionally; the domain function
   of a throwing one rejects the call, and a failing one violates a constraint of the
   database.  The input of a malformed call does not parse.                       *)
AllKinds == {"keyed", "unkeyed", "throwing", "failing", "denied", "malformed", "unknown"}

ASSUME TurnAssumption ==
    /\ MaxIters \in Nat \ {0}
    /\ Cap \in Nat /\ MaxCost \in Nat
    /\ PlanCosts \subseteq 0 .. MaxCost
    /\ MaxCalls \in Nat
    /\ Kinds \subseteq AllKinds
    /\ MaxRetries \in Nat /\ MaxFailures \in Nat

Plans == UNION {[1 .. n -> Kinds] : n \in 0 .. MaxCalls}

Call == [turn : Turns, iter : 1 .. MaxIters, call : 1 .. MaxCalls]

Labels == {"unsent", "load", "persist", "hydrate", "plan", "execute", "commit",
           "done", "failed"}

VARIABLES
    at,         \* the step each turn is to execute next
    tries,      \* failed attempts of that step
    iter,       \* which plan the turn is at
    call,       \* which tool call of the plan
    plan,       \* tool calls of the last plan
    cost,       \* costUsd: the sum of the checkpointed plans
    spent,      \* what the model has charged for the turn
    reports,    \* results given to the model, as [turn, iter, call, kind, ok]
    messages,   \* agent_messages of the thread
    total,      \* total_cost_usd of the thread
    tasks,      \* tasks the tools created, as [by, kind, nth]
    audit,      \* audit_log rows, as [by, attempt]
    failures

progressVars == <<at, tries>>
turnVars == <<iter, call, plan, cost, spent, reports>>
rowVars == <<messages, total, tasks, audit>>
vars == <<progressVars, turnVars, rowVars, failures>>

Init ==
    /\ at = [t \in Turns |-> "unsent"]
    /\ tries = [t \in Turns |-> 0]
    /\ iter = [t \in Turns |-> 1]
    /\ call = [t \in Turns |-> 1]
    /\ plan = [t \in Turns |-> <<>>]
    /\ cost = [t \in Turns |-> 0]
    /\ spent = [t \in Turns |-> 0]
    /\ reports = {}
    /\ messages = <<>>
    /\ total = 0
    /\ tasks = {}
    /\ audit = {}
    /\ failures = 0

-------------------------------------------------------------------------------
(* Attempts of a step.                                                         *)

Checkpoint(t, next) ==
    /\ at' = [at EXCEPT ![t] = next]
    /\ tries' = [tries EXCEPT ![t] = 0]

\* Mutant: the platform never gives a step up.
RetryForever(t) == UNCHANGED <<at, tries>>

Retry(t) ==
    IF tries[t] < MaxRetries
    THEN /\ tries' = [tries EXCEPT ![t] = @ + 1]
         /\ UNCHANGED at
    ELSE /\ at' = [at EXCEPT ![t] = "failed"]
         /\ UNCHANGED tries

\* The network, the model or the process fails, or a result is lost on its way back.
Break(t) ==
    /\ failures < MaxFailures
    /\ failures' = failures + 1
    /\ Retry(t)

CheckpointOrLose(t, next) ==
    \/ Checkpoint(t, next) /\ UNCHANGED failures
    \/ Break(t)

-------------------------------------------------------------------------------
(* The turn.                                                                   *)

\* External: the route of a message sends agent.turn.requested.
Send(t) ==
    /\ at[t] = "unsent"
    /\ at' = [at EXCEPT ![t] = "load"]
    /\ UNCHANGED <<tries, turnVars, rowVars, failures>>

\* Mutant: the memory is hydrated before the user's message is persisted.
LoadThenHydrate(t) ==
    /\ at[t] = "load"
    /\ CheckpointOrLose(t, "hydrate")
    /\ UNCHANGED <<turnVars, rowVars>>

LoadContext(t) ==
    /\ at[t] = "load"
    /\ CheckpointOrLose(t, "persist")
    /\ UNCHANGED <<turnVars, rowVars>>

PersistUserTurn(t) ==
    /\ at[t] = "persist"
    /\ CheckpointOrLose(t, "hydrate")
    /\ messages' = Append(messages, [turn |-> t, role |-> "user", cost |-> 0])
    /\ UNCHANGED <<turnVars, total, tasks, audit>>

\* Its errors are caught inside the step.
HydrateMemory(t) ==
    /\ at[t] = "hydrate"
    /\ CheckpointOrLose(t, "plan")
    /\ UNCHANGED <<turnVars, rowVars>>

Plan(t) ==
    /\ at[t] = "plan"
    /\ \E c \in PlanCosts, calls \in Plans :
           /\ spent' = [spent EXCEPT ![t] = @ + c]
           /\ \/ /\ Checkpoint(t, IF calls = <<>> THEN "commit" ELSE "execute")
                 /\ plan' = [plan EXCEPT ![t] = calls]
                 /\ call' = [call EXCEPT ![t] = 1]
                 /\ cost' = [cost EXCEPT ![t] = @ + c]
                 /\ UNCHANGED failures
              \/ /\ Break(t)
                 /\ UNCHANGED <<plan, call, cost>>
    /\ UNCHANGED <<iter, reports, rowVars>>

\* Mutant: the loop does not look at the cost cap.
AfterToolsUncapped(t) ==
    IF iter[t] = MaxIters THEN "commit" ELSE "plan"

\* Where the turn goes after the last tool call of a plan.
AfterTools(t) ==
    IF cost[t] >= Cap \/ iter[t] = MaxIters THEN "commit" ELSE "plan"

\* Mutant: the loop runs one call past the end of the plan.
LastCallAfter(t) == call[t] > Len(plan[t])

LastCall(t) == call[t] = Len(plan[t])

\* The result of the current call goes to the model; the turn moves to the next call,
\* the next plan or the commit.
Report(t, ok) ==
    LET next == IF LastCall(t) THEN AfterTools(t) ELSE "execute"
    IN  /\ Checkpoint(t, next)
        /\ reports' = reports \cup {[turn |-> t, iter |-> iter[t], call |-> call[t],
                                     kind |-> plan[t][call[t]], ok |-> ok]}
        /\ iter' = IF next = "plan" THEN [iter EXCEPT ![t] = @ + 1] ELSE iter
        /\ call' = IF LastCall(t) THEN call ELSE [call EXCEPT ![t] = @ + 1]
        /\ UNCHANGED failures

ReportOrLose(t, ok) ==
    \/ Report(t, ok)
    \/ Break(t) /\ UNCHANGED <<iter, call, reports>>

Current(t) == [turn |-> t, iter |-> iter[t], call |-> call[t]]
Created(kind) == {k \in tasks : k.kind = kind}
AuditOf(c) == {r \in audit : r.by = c}

Executing(t, kinds) ==
    /\ at[t] = "execute"
    /\ plan[t][call[t]] \in kinds

\* No step runs for a tool that does not exist.
UnknownTool(t) ==
    /\ Executing(t, {"unknown"})
    /\ Report(t, FALSE)
    /\ UNCHANGED <<plan, cost, spent, rowVars>>

\* authorize says no: nothing runs and nothing is logged.
ToolDenied(t) ==
    /\ Executing(t, {"denied"})
    /\ ReportOrLose(t, FALSE)
    /\ UNCHANGED <<plan, cost, spent, rowVars>>

\* The tasks of one kind are numbered in the order they are created.
Insert(c, kind) ==
    tasks' = tasks \cup {[by |-> c, kind |-> kind, nth |-> Cardinality(Created(kind)) + 1]}

\* Mutant: an attempt of a call is logged once.
LogOnce(c) ==
    IF AuditOf(c) = {} THEN audit' = {[by |-> c, attempt |-> 1]} \cup audit ELSE UNCHANGED audit

Log(c) == audit' = audit \cup {[by |-> c, attempt |-> Cardinality(AuditOf(c)) + 1]}

\* Mutant: the insert ignores the unique key.
InsertAgain(c) == Insert(c, "keyed")

\* On conflict with the unique key nothing is inserted.
InsertOnce(c) == IF Created("keyed") = {} THEN Insert(c, "keyed") ELSE UNCHANGED tasks

\* An insert that met its key returned no row, which the tool reports as an error.
RunKeyed(t) ==
    /\ Executing(t, {"keyed"})
    /\ InsertOnce(Current(t))
    /\ Log(Current(t))
    /\ ReportOrLose(t, Created("keyed") = {})
    /\ UNCHANGED <<plan, cost, spent, messages, total>>

RunUnkeyed(t) ==
    /\ Executing(t, {"unkeyed"})
    /\ Insert(Current(t), "unkeyed")
    /\ Log(Current(t))
    /\ ReportOrLose(t, TRUE)
    /\ UNCHANGED <<plan, cost, spent, messages, total>>

\* The error is caught after the audit row was written, and both commit.
ToolThrows(t) ==
    /\ Executing(t, {"throwing"})
    /\ Log(Current(t))
    /\ ReportOrLose(t, FALSE)
    /\ UNCHANGED <<plan, cost, spent, messages, total, tasks>>

\* A database error takes the transaction and its audit row with it, and the input of a
\* malformed call throws before execute is reached: either way the step itself fails.
ToolFails(t) ==
    /\ Executing(t, {"failing", "malformed"})
    /\ Retry(t)
    /\ UNCHANGED <<turnVars, rowVars, failures>>

\* The connection drops before the tool's transaction commits.
ToolBreaks(t) ==
    /\ Executing(t, AllKinds \ {"unknown"})
    /\ Break(t)
    /\ UNCHANGED <<turnVars, rowVars>>

CommitTurn(t) ==
    /\ at[t] = "commit"
    /\ CheckpointOrLose(t, "done")
    /\ messages' = Append(messages, [turn |-> t, role |-> "assistant", cost |-> cost[t]])
    /\ total' = cost[t]
    /\ UNCHANGED <<turnVars, tasks, audit>>

\* An attempt that fails before it has done anything.
StepBreaks(t) ==
    /\ at[t] \in {"load", "persist", "plan", "commit"}
    /\ Break(t)
    /\ UNCHANGED <<turnVars, rowVars>>

-------------------------------------------------------------------------------
Step(t) ==
    \/ LoadContext(t) \/ PersistUserTurn(t) \/ HydrateMemory(t) \/ Plan(t)
    \/ UnknownTool(t) \/ ToolDenied(t) \/ RunKeyed(t) \/ RunUnkeyed(t)
    \/ ToolThrows(t) \/ ToolFails(t) \/ CommitTurn(t)

Next == \E t \in Turns : Send(t) \/ Step(t) \/ ToolBreaks(t) \/ StepBreaks(t)

Spec == Init /\ [][Next]_vars

\* The platform executes the next step of every turn it was sent.
FairSpec == Spec /\ \A t \in Turns : WF_vars(Step(t))

-------------------------------------------------------------------------------
(* Properties.                                                                 *)

Message == [turn : Turns, role : {"user", "assistant"}, cost : Nat]

TypeOK ==
    /\ at \in [Turns -> Labels]
    /\ tries \in [Turns -> 0 .. MaxRetries]
    /\ iter \in [Turns -> 1 .. MaxIters]
    /\ call \in [Turns -> Nat \ {0}]
    /\ plan \in [Turns -> Plans]
    /\ \A t \in Turns : at[t] = "execute" => call[t] \in DOMAIN plan[t]
    /\ cost \in [Turns -> Nat]
    /\ spent \in [Turns -> Nat]
    /\ \A r \in reports : r.turn \in Turns /\ r.kind \in Kinds /\ r.ok \in BOOLEAN
    /\ messages \in Seq(Message)
    /\ total \in Nat
    /\ \A k \in tasks : k.by \in Call
    /\ \A r \in audit : r.by \in Call
    /\ failures \in Nat

\* A turn is committed at no more than its cap and one last plan, whatever the number of
\* iterations, retries and lost results: the cap is checked between plans.
CostBounded ==
    \A m \in 1 .. Len(messages) : messages[m].cost <= Cap + MaxCost

Asked(t) == \E m \in 1 .. Len(messages) : messages[m].turn = t /\ messages[m].role = "user"

\* "Persist the user turn first so a later failure doesn't lose the input": a turn that
\* planned, acted or failed after its context was loaded has its user message.
InputKept ==
    \A t \in Turns :
        at[t] \in {"hydrate", "plan", "execute", "commit", "done"} \/ spent[t] > 0 => Asked(t)

\* "Replays leave a single task": whatever is retried, and however the calls of several
\* plans repeat each other, a unique key has one task.
OneTaskPerKey == \A j, k \in Created("keyed") : j = k

\* "Every tool execution writes one audit_log row": a task is never there without a row for
\* the execution that made it, lost and repeated ones included, and no result of a tool
\* that ran is given to the model without one.
ExecutionsAudited ==
    /\ \A c \in {k.by : k \in tasks} :
           Cardinality({k \in tasks : k.by = c}) <= Cardinality(AuditOf(c))
    /\ \A r \in reports :
           r.kind \notin {"unknown", "denied"} =>
               AuditOf([turn |-> r.turn, iter |-> r.iter, call |-> r.call]) # {}

\* The steps a turn has before it if all the plans it may still make have MaxCalls calls,
\* and the attempts these steps have.
PlanSteps(t) == (MaxIters - iter[t] + 1) * (MaxCalls + 1)
StepsLeft(t) ==
    CASE at[t] = "unsent"  -> PlanSteps(t) + 5
      [] at[t] = "load"    -> PlanSteps(t) + 4
      [] at[t] = "persist" -> PlanSteps(t) + 3
      [] at[t] = "hydrate" -> PlanSteps(t) + 2
      [] at[t] = "plan"    -> PlanSteps(t) + 1
      [] at[t] = "execute" -> PlanSteps(t) + 1 - call[t]
      [] at[t] = "commit"  -> 1
      [] OTHER             -> 0
AttemptsLeft(t) ==
    IF StepsLeft(t) = 0 THEN 0 ELSE StepsLeft(t) * (MaxRetries + 1) - tries[t]

\* No loop of a turn goes on for ever, whatever the model answers and however the tools
\* fail: a step of the thread leaves one turn fewer attempts, and the others theirs.
TurnsWindDown ==
    [][\E t \in Turns :
           /\ AttemptsLeft(t)' \in Nat /\ AttemptsLeft(t)' < AttemptsLeft(t)
           /\ \A u \in Turns \ {t} : AttemptsLeft(u)' = AttemptsLeft(u)]_vars

\* A turn that was sent is committed or given up: it stops planning, and retrying.
TurnsEnd == \A t \in Turns : at[t] = "load" ~> at[t] \in {"done", "failed"}
===============================================================================
