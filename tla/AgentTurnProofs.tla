---------------------------- MODULE AgentTurnProofs ----------------------------
(* What holds of every turn, whatever the bounds: types, the cost cap, the user's
   message, the unique key and the audit rows.                                    *)
EXTENDS AgentTurn, FiniteSetTheorems, TLAPS

(* The cap is checked on the way back to a plan, so the last plan is the only one that
   can exceed it.                                                                 *)
CapChecked ==
    \A t \in Turns :
        /\ cost[t] <= Cap + MaxCost
        /\ at[t] \in {"unsent", "load", "persist", "hydrate", "plan"} => cost[t] <= Cap

TurnInv == TypeOK /\ CapChecked /\ CostBounded /\ InputKept /\ OneTaskPerKey

-------------------------------------------------------------------------------
(* Lemmas.                                                                     *)

\* A plan within MaxCalls holds calls of Kinds.
LEMMA PlanCalls ==
    ASSUME NEW p \in Plans, NEW n \in DOMAIN p
    PROVE  p[n] \in Kinds /\ n \in 1 .. MaxCalls /\ Len(p) \in 0 .. MaxCalls /\ n \in 1 .. Len(p)
<1>1. PICK m \in 0 .. MaxCalls : p \in [1 .. m -> Kinds]  BY DEF Plans
<1>2. DOMAIN p = 1 .. m /\ Len(p) = m  BY <1>1, TurnAssumption
<1>3. QED  BY <1>1, <1>2, TurnAssumption

LEMMA EmptyPlan == <<>> \in Plans
<1>1. <<>> \in [1 .. 0 -> Kinds]  OBVIOUS
<1>2. QED  BY <1>1, TurnAssumption DEF Plans

LEMMA PlanLength ==
    ASSUME NEW p \in Plans
    PROVE  Len(p) \in Nat /\ DOMAIN p = 1 .. Len(p) /\ (p # <<>> => 1 \in DOMAIN p)
<1>1. PICK m \in 0 .. MaxCalls : p \in [1 .. m -> Kinds]  BY DEF Plans
<1>2. m \in Nat /\ DOMAIN p = 1 .. m /\ Len(p) = m  BY <1>1, TurnAssumption
<1>3. m = 0 => p = <<>>  BY <1>1
<1>4. QED  BY <1>2, <1>3

-------------------------------------------------------------------------------
(* Attempts.                                                                   *)

\* What an attempt that ends in x or is retried leaves of the progress of the turns.
Moved(t, x) ==
    /\ at' \in [Turns -> Labels]
    /\ tries' \in [Turns -> 0 .. MaxRetries]
    /\ failures' \in Nat
    /\ \A u \in Turns : at'[u] = at[u] \/ (u = t /\ at'[u] \in {x, "failed"})

LEMMA CheckpointMoves ==
    ASSUME TypeOK, NEW t \in Turns, NEW x \in Labels, Checkpoint(t, x), UNCHANGED failures
    PROVE  Moved(t, x) /\ at'[t] = x
BY TurnAssumption DEF TypeOK, Checkpoint, Moved

LEMMA RetryMoves ==
    ASSUME TypeOK, NEW t \in Turns, NEW x \in Labels, Retry(t), failures' \in Nat
    PROVE  Moved(t, x) /\ at'[t] \in {at[t], "failed"}
<1>1. CASE tries[t] < MaxRetries
  <2>1. tries' = [tries EXCEPT ![t] = @ + 1] /\ at' = at  BY <1>1 DEF Retry
  <2>2. tries' \in [Turns -> 0 .. MaxRetries]  BY <1>1, <2>1, TurnAssumption DEF TypeOK
  <2>3. QED  BY <2>1, <2>2 DEF TypeOK, Moved
<1>2. CASE ~(tries[t] < MaxRetries)
  <2>1. tries' = tries /\ at' = [at EXCEPT ![t] = "failed"]  BY <1>2 DEF Retry
  <2>2. QED  BY <2>1 DEF TypeOK, Moved, Labels
<1>3. QED  BY <1>1, <1>2

LEMMA BreakMoves ==
    ASSUME TypeOK, NEW t \in Turns, NEW x \in Labels, Break(t)
    PROVE  Moved(t, x) /\ at'[t] \in {at[t], "failed"}
<1>1. failures' \in Nat /\ Retry(t)  BY DEF Break, TypeOK
<1>2. QED  BY <1>1, RetryMoves

LEMMA AttemptMoves ==
    ASSUME TypeOK, NEW t \in Turns, NEW x \in Labels, CheckpointOrLose(t, x)
    PROVE  Moved(t, x)
BY CheckpointMoves, BreakMoves DEF CheckpointOrLose

LEMMA AskedKept ==
    ASSUME TypeOK, NEW m \in Message, messages' = messages \/ messages' = Append(messages, m)
    PROVE  /\ messages' \in Seq(Message)
           /\ \A u \in Turns : Asked(u) => Asked(u)'
           /\ (CostBounded /\ m.cost <= Cap + MaxCost) => CostBounded'
<1>1. CASE messages' = messages
  <2>1. QED  BY <1>1 DEF TypeOK, Asked, CostBounded
<1>2. CASE messages' = Append(messages, m)
  <2>1. /\ Len(messages') = Len(messages) + 1
        /\ Len(messages) \in Nat
        /\ \A n \in 1 .. Len(messages) : messages'[n] = messages[n]
        /\ messages'[Len(messages) + 1] = m
        /\ messages' \in Seq(Message)
    BY <1>2 DEF TypeOK
  <2>2. \A u \in Turns : Asked(u) => Asked(u)'  BY <2>1 DEF Asked
  <2>3. (CostBounded /\ m.cost <= Cap + MaxCost) => CostBounded'
    <3>1. SUFFICES ASSUME CostBounded, m.cost <= Cap + MaxCost, NEW n \in 1 .. Len(messages')
                   PROVE  messages'[n].cost <= Cap' + MaxCost'
      BY DEF CostBounded
    <3>2. CASE n \in 1 .. Len(messages)  BY <2>1, <3>1, <3>2 DEF CostBounded
    <3>3. CASE n = Len(messages) + 1  BY <2>1, <3>1, <3>3
    <3>4. QED  BY <2>1, <3>2, <3>3
  <2>4. QED  BY <2>1, <2>2, <2>3
<1>3. QED  BY <1>1, <1>2

-------------------------------------------------------------------------------
(* The actions.                                                                *)

\* Progress without effect: at most the step and the failures change.
Quiet == UNCHANGED <<turnVars, rowVars>>

Before == {"unsent", "load", "persist", "hydrate", "plan"}
After == {"hydrate", "plan", "execute", "commit", "done"}

LEMMA QuietKeeps ==
    ASSUME TurnInv, Quiet, NEW t \in Turns, NEW x \in Labels, Moved(t, x),
           x # "execute" \/ at[t] = "execute",
           x \in Before => at[t] \in Before,
           x \in After => at[t] \in After
    PROVE  TurnInv'
<1>1. TypeOK'  BY DEF TurnInv, TypeOK, Quiet, turnVars, rowVars, Moved
<1>2. CapChecked'  BY DEF TurnInv, CapChecked, Quiet, turnVars, Moved, Before
<1>3. CostBounded'  BY DEF TurnInv, CostBounded, Quiet, rowVars
<1>4. InputKept'  BY DEF TurnInv, InputKept, Asked, Quiet, turnVars, rowVars, Moved, After
<1>5. OneTaskPerKey'  BY DEF TurnInv, OneTaskPerKey, Created, Quiet, rowVars
<1>6. QED  BY <1>1, <1>2, <1>3, <1>4, <1>5 DEF TurnInv

LEMMA QuietStep ==
    ASSUME TurnInv, NEW t \in Turns,
           Send(t) \/ LoadContext(t) \/ HydrateMemory(t) \/ ToolFails(t) \/ ToolBreaks(t)
               \/ StepBreaks(t)
    PROVE  TurnInv'
<1>0. TypeOK  BY DEF TurnInv
<1>1. CASE Send(t)
  <2>1. Moved(t, "load")  BY <1>0, <1>1 DEF Send, TypeOK, Moved, Labels
  <2>2. Quiet /\ at[t] = "unsent"  BY <1>1 DEF Send, Quiet
  <2>3. QED  BY <2>1, <2>2, QuietKeeps DEF Labels, Before, After
<1>2. CASE LoadContext(t)
  <2>1. Moved(t, "persist")  BY <1>0, <1>2, AttemptMoves DEF LoadContext, Labels
  <2>2. Quiet /\ at[t] = "load"  BY <1>2 DEF LoadContext, Quiet
  <2>3. QED  BY <2>1, <2>2, QuietKeeps DEF Labels, Before, After
<1>3. CASE HydrateMemory(t)
  <2>1. Moved(t, "plan")  BY <1>0, <1>3, AttemptMoves DEF HydrateMemory, Labels
  <2>2. Quiet /\ at[t] = "hydrate"  BY <1>3 DEF HydrateMemory, Quiet
  <2>3. QED  BY <2>1, <2>2, QuietKeeps DEF Labels, Before, After
<1>4. CASE ToolFails(t)
  <2>1. Moved(t, "failed")  BY <1>0, <1>4, RetryMoves DEF ToolFails, Labels, TypeOK
  <2>2. Quiet  BY <1>4 DEF ToolFails, Quiet
  <2>3. QED  BY <2>1, <2>2, QuietKeeps DEF Labels, Before, After
<1>5. CASE ToolBreaks(t) \/ StepBreaks(t)
  <2>1. Moved(t, "failed")  BY <1>0, <1>5, BreakMoves DEF ToolBreaks, StepBreaks, Labels
  <2>2. Quiet  BY <1>5 DEF ToolBreaks, StepBreaks, Quiet
  <2>3. QED  BY <2>1, <2>2, QuietKeeps DEF Labels, Before, After
<1>6. QED  BY <1>1, <1>2, <1>3, <1>4, <1>5

LEMMA PersistStep ==
    ASSUME TurnInv, NEW t \in Turns, PersistUserTurn(t)
    PROVE  TurnInv'
<1> DEFINE m == [turn |-> t, role |-> "user", cost |-> 0]
<1>0. TypeOK /\ m \in Message /\ m.cost <= Cap + MaxCost
  BY TurnAssumption DEF TurnInv, Message
<1>1. /\ Moved(t, "hydrate") /\ at[t] = "persist"
      /\ messages' = Append(messages, m)
      /\ UNCHANGED <<turnVars, total, tasks, audit>>
  BY <1>0, AttemptMoves DEF PersistUserTurn, Labels
<1>2. /\ messages' \in Seq(Message)
      /\ \A u \in Turns : Asked(u) => Asked(u)'
      /\ CostBounded'
  BY <1>0, <1>1, AskedKept DEF TurnInv
<1>3. Asked(t)'
  <2>1. Len(messages') = Len(messages) + 1 /\ messages'[Len(messages')] = m /\ Len(messages) \in Nat
    BY <1>0, <1>1 DEF TypeOK
  <2>2. QED  BY <2>1 DEF Asked
<1>4. TypeOK'  BY <1>0, <1>1, <1>2 DEF TypeOK, turnVars, Moved
<1>5. CapChecked'  BY <1>1 DEF TurnInv, CapChecked, turnVars, Moved
<1>6. InputKept'
  <2>1. SUFFICES ASSUME NEW u \in Turns, at'[u] \in After \/ spent'[u] > 0
                 PROVE  Asked(u)'
    BY DEF InputKept, After
  <2>2. CASE u = t  BY <2>2, <1>3
  <2>3. CASE u # t
    <3>1. at'[u] = at[u] /\ spent'[u] = spent[u]  BY <1>1, <2>3 DEF Moved, turnVars
    <3>2. Asked(u)  BY <2>1, <3>1 DEF TurnInv, InputKept, After
    <3>3. QED  BY <1>2, <3>2
  <2>4. QED  BY <2>2, <2>3
<1>7. OneTaskPerKey'  BY <1>1 DEF TurnInv, OneTaskPerKey, Created
<1>8. QED  BY <1>2, <1>4, <1>5, <1>6, <1>7 DEF TurnInv

LEMMA CommitStep ==
    ASSUME TurnInv, NEW t \in Turns, CommitTurn(t)
    PROVE  TurnInv'
<1> DEFINE m == [turn |-> t, role |-> "assistant", cost |-> cost[t]]
<1>0. TypeOK /\ cost[t] \in Nat /\ m \in Message /\ m.cost <= Cap + MaxCost
  BY DEF TurnInv, TypeOK, CapChecked, Message
<1>1. /\ Moved(t, "done") /\ at[t] = "commit"
      /\ messages' = Append(messages, m) /\ total' = cost[t]
      /\ UNCHANGED <<turnVars, tasks, audit>>
  BY <1>0, AttemptMoves DEF CommitTurn, Labels
<1>2. /\ messages' \in Seq(Message)
      /\ \A u \in Turns : Asked(u) => Asked(u)'
      /\ CostBounded'
  BY <1>0, <1>1, AskedKept DEF TurnInv
<1>3. TypeOK'  BY <1>0, <1>1, <1>2 DEF TypeOK, turnVars, Moved
<1>4. CapChecked'  BY <1>1 DEF TurnInv, CapChecked, turnVars, Moved
<1>5. InputKept'
  <2>1. \A u \in Turns : at'[u] \in After \/ spent'[u] > 0 => Asked(u)
    BY <1>1 DEF TurnInv, InputKept, After, turnVars, Moved
  <2>2. QED  BY <1>2, <2>1 DEF InputKept, After
<1>6. OneTaskPerKey'  BY <1>1 DEF TurnInv, OneTaskPerKey, Created
<1>7. QED  BY <1>2, <1>3, <1>4, <1>5, <1>6 DEF TurnInv

LEMMA PlanStep ==
    ASSUME TurnInv, NEW t \in Turns, Plan(t)
    PROVE  TurnInv'
<1>0. TypeOK /\ at[t] = "plan" /\ cost[t] \in Nat /\ cost[t] <= Cap
  BY DEF TurnInv, Plan, CapChecked, TypeOK
<1>1. PICK c \in PlanCosts, calls \in Plans :
          /\ spent' = [spent EXCEPT ![t] = @ + c]
          /\ \/ /\ Checkpoint(t, IF calls = <<>> THEN "commit" ELSE "execute")
                /\ plan' = [plan EXCEPT ![t] = calls]
                /\ call' = [call EXCEPT ![t] = 1]
                /\ cost' = [cost EXCEPT ![t] = @ + c]
                /\ UNCHANGED failures
             \/ /\ Break(t)
                /\ UNCHANGED <<plan, call, cost>>
  BY DEF Plan
<1>2. c \in Nat /\ c <= MaxCost /\ UNCHANGED <<iter, reports, rowVars>>
  BY TurnAssumption DEF Plan
<1>3. \A u \in Turns : Asked(u)' <=> Asked(u)  BY <1>2 DEF Asked, rowVars
<1>4. Asked(t)  BY <1>0 DEF TurnInv, InputKept
<1>5. spent' \in [Turns -> Nat] /\ \A u \in Turns : u # t => spent'[u] = spent[u]
  BY <1>0, <1>1, <1>2 DEF TypeOK
<1>6. CostBounded' /\ OneTaskPerKey'
  BY <1>2 DEF TurnInv, CostBounded, OneTaskPerKey, Created, rowVars
<1>7. CASE /\ Checkpoint(t, IF calls = <<>> THEN "commit" ELSE "execute")
           /\ plan' = [plan EXCEPT ![t] = calls]
           /\ call' = [call EXCEPT ![t] = 1]
           /\ cost' = [cost EXCEPT ![t] = @ + c]
           /\ UNCHANGED failures
  <2> DEFINE x == IF calls = <<>> THEN "commit" ELSE "execute"
  <2>1. x \in Labels /\ x \notin Before  BY DEF Labels, Before
  <2>2. Moved(t, x) /\ at'[t] = x  BY <1>0, <1>7, <2>1, CheckpointMoves
  <2>3. x = "execute" => 1 \in DOMAIN calls  BY PlanLength
  <2>4. /\ plan' \in [Turns -> Plans] /\ plan'[t] = calls
        /\ call' \in [Turns -> Nat \ {0}] /\ call'[t] = 1
        /\ cost' \in [Turns -> Nat] /\ cost'[t] = cost[t] + c
        /\ \A u \in Turns : u # t => plan'[u] = plan[u] /\ call'[u] = call[u] /\ cost'[u] = cost[u]
    BY <1>0, <1>2, <1>7 DEF TypeOK
  <2>5. \A u \in Turns : at'[u] = "execute" => call'[u] \in DOMAIN plan'[u]
    <3>1. SUFFICES ASSUME NEW u \in Turns, at'[u] = "execute" PROVE call'[u] \in DOMAIN plan'[u]
      OBVIOUS
    <3>2. CASE u = t  BY <2>2, <2>3, <2>4, <3>1, <3>2
    <3>3. CASE u # t  BY <1>0, <2>2, <2>4, <3>1, <3>3 DEF Moved, TypeOK
    <3>4. QED  BY <3>2, <3>3
  <2>6. TypeOK'  BY <1>0, <1>2, <1>5, <2>2, <2>4, <2>5 DEF TypeOK, Moved, rowVars
  <2>7. CapChecked'
    <3>1. SUFFICES ASSUME NEW u \in Turns
                   PROVE  cost'[u] <= Cap + MaxCost /\ (at'[u] \in Before => cost'[u] <= Cap)
      BY DEF CapChecked, Before
    <3>2. CASE u = t  BY <1>0, <1>2, <2>1, <2>2, <2>4, <3>2, TurnAssumption
    <3>3. CASE u # t  BY <2>2, <2>4, <3>3 DEF Moved, TurnInv, CapChecked, Before
    <3>4. QED  BY <3>2, <3>3
  <2>8. InputKept'
    <3>1. SUFFICES ASSUME NEW u \in Turns, at'[u] \in After \/ spent'[u] > 0 PROVE Asked(u)'
      BY DEF InputKept, After
    <3>2. CASE u = t  BY <1>3, <1>4, <3>2
    <3>3. CASE u # t
      <4>1. at'[u] = at[u] /\ spent'[u] = spent[u]  BY <1>5, <2>2, <3>3 DEF Moved
      <4>2. QED  BY <1>3, <3>1, <4>1 DEF TurnInv, InputKept, After
    <3>4. QED  BY <3>2, <3>3
  <2>9. QED  BY <1>6, <2>6, <2>7, <2>8 DEF TurnInv
<1>8. CASE Break(t) /\ UNCHANGED <<plan, call, cost>>
  <2>1. Moved(t, "failed")  BY <1>0, <1>8, BreakMoves DEF Labels
  <2>2. TypeOK'  BY <1>0, <1>2, <1>5, <1>8, <2>1 DEF TypeOK, Moved, rowVars
  <2>3. CapChecked'  BY <1>8, <2>1 DEF CapChecked, TurnInv, Moved
  <2>4. InputKept'
    <3>1. SUFFICES ASSUME NEW u \in Turns, at'[u] \in After \/ spent'[u] > 0 PROVE Asked(u)'
      BY DEF InputKept, After
    <3>2. CASE u = t  BY <1>3, <1>4, <3>2
    <3>3. CASE u # t
      <4>1. at'[u] = at[u] /\ spent'[u] = spent[u]  BY <1>5, <2>1, <3>3 DEF Moved
      <4>2. QED  BY <1>3, <3>1, <4>1 DEF TurnInv, InputKept, After
    <3>4. QED  BY <3>2, <3>3
  <2>5. QED  BY <1>6, <2>2, <2>3, <2>4 DEF TurnInv
<1>9. QED  BY <1>1, <1>7, <1>8

\* What a tool call leaves of its turn, whatever it did to the tables.
LEMMA ReportKeeps ==
    ASSUME TurnInv, NEW t \in Turns, at[t] = "execute", NEW ok \in BOOLEAN,
           ReportOrLose(t, ok), UNCHANGED <<plan, cost, spent>>
    PROVE  /\ at' \in [Turns -> Labels]
           /\ tries' \in [Turns -> 0 .. MaxRetries]
           /\ failures' \in Nat
           /\ iter' \in [Turns -> 1 .. MaxIters]
           /\ call' \in [Turns -> Nat \ {0}]
           /\ \A u \in Turns : at'[u] = "execute" => call'[u] \in DOMAIN plan'[u]
           /\ \A r \in reports' : r.turn \in Turns /\ r.kind \in Kinds /\ r.ok \in BOOLEAN
           /\ CapChecked'
           /\ \A u \in Turns : at'[u] \in After => at[u] \in After
<1>0. TypeOK /\ plan[t] \in Plans /\ call[t] \in DOMAIN plan[t] /\ iter[t] \in 1 .. MaxIters
  BY DEF TurnInv, TypeOK
<1>1. CASE Break(t) /\ UNCHANGED <<iter, call, reports>>
  <2>1. Moved(t, "failed")  BY <1>0, <1>1, BreakMoves DEF Labels
  <2>2. QED  BY <1>0, <1>1, <2>1 DEF TypeOK, Moved, TurnInv, CapChecked, After
<1>2. CASE Report(t, ok)
  <2> DEFINE next == IF LastCall(t) THEN AfterTools(t) ELSE "execute"
  <2>1. /\ Checkpoint(t, next) /\ UNCHANGED failures
        /\ reports' = reports \cup {[turn |-> t, iter |-> iter[t], call |-> call[t],
                                     kind |-> plan[t][call[t]], ok |-> ok]}
        /\ iter' = IF next = "plan" THEN [iter EXCEPT ![t] = @ + 1] ELSE iter
        /\ call' = IF LastCall(t) THEN call ELSE [call EXCEPT ![t] = @ + 1]
    BY <1>2 DEF Report
  <2>2. next \in {"commit", "plan", "execute"} /\ next \in Labels
    BY DEF AfterTools, Labels
  <2>3. next = "plan" => LastCall(t) /\ cost[t] < Cap /\ iter[t] # MaxIters
    <3>1. cost[t] \in Nat /\ Cap \in Nat  BY <1>0, TurnAssumption DEF TypeOK
    <3>2. QED  BY <3>1 DEF AfterTools
  <2>4. next = "execute" => ~LastCall(t)  BY DEF AfterTools
  <2> HIDE DEF next
  <2>5. Moved(t, next) /\ at'[t] = next  BY <1>0, <2>1, <2>2, CheckpointMoves
  <2>6. iter' \in [Turns -> 1 .. MaxIters]
    <3>1. CASE next = "plan"
      <4>1. iter[t] + 1 \in 1 .. MaxIters  BY <1>0, <2>3, <3>1, TurnAssumption
      <4>2. iter' = [iter EXCEPT ![t] = iter[t] + 1]  BY <2>1, <3>1
      <4>3. QED  BY <1>0, <4>1, <4>2 DEF TypeOK
    <3>2. CASE next # "plan"  BY <1>0, <2>1, <3>2 DEF TypeOK
    <3>3. QED  BY <3>1, <3>2
  <2>7. /\ call' \in [Turns -> Nat \ {0}]
        /\ \A u \in Turns : u # t => call'[u] = call[u]
        /\ ~LastCall(t) => call'[t] = call[t] + 1
    <3>1. CASE LastCall(t)  BY <1>0, <2>1, <3>1 DEF TypeOK
    <3>2. CASE ~LastCall(t)  BY <1>0, <2>1, <3>2 DEF TypeOK
    <3>3. QED  BY <3>1, <3>2
  <2>8. ~LastCall(t) => call[t] + 1 \in DOMAIN plan[t]
    BY <1>0, PlanLength DEF LastCall
  <2>9. \A u \in Turns : at'[u] = "execute" => call'[u] \in DOMAIN plan'[u]
    <3>1. SUFFICES ASSUME NEW u \in Turns, at'[u] = "execute" PROVE call'[u] \in DOMAIN plan[u]
      OBVIOUS
    <3>2. CASE u = t  BY <2>4, <2>5, <2>7, <2>8, <3>1, <3>2
    <3>3. CASE u # t  BY <1>0, <2>5, <2>7, <3>1, <3>3 DEF Moved, TypeOK
    <3>4. QED  BY <3>2, <3>3
  <2>10. \A r \in reports' : r.turn \in Turns /\ r.kind \in Kinds /\ r.ok \in BOOLEAN
    BY <1>0, <2>1, PlanCalls DEF TypeOK
  <2>11. CapChecked'
    <3>1. SUFFICES ASSUME NEW u \in Turns
                   PROVE  cost[u] <= Cap + MaxCost /\ (at'[u] \in Before => cost[u] <= Cap)
      BY DEF CapChecked, Before
    <3>2. CASE u = t
      <4>1. at'[t] \in Before => cost[t] < Cap  BY <2>2, <2>3, <2>5 DEF Before
      <4>2. cost[t] \in Nat /\ cost[t] <= Cap + MaxCost  BY <1>0 DEF TypeOK, TurnInv, CapChecked
      <4>3. QED  BY <3>2, <4>1, <4>2, TurnAssumption
    <3>3. CASE u # t  BY <2>5, <3>3 DEF Moved, TurnInv, CapChecked, Before
    <3>4. QED  BY <3>2, <3>3
  <2>12. \A u \in Turns : at'[u] \in After => at[u] \in After
    BY <2>2, <2>5 DEF Moved, After
  <2>13. QED  BY <2>1, <2>5, <2>6, <2>7, <2>9, <2>10, <2>11, <2>12, <1>0 DEF Moved, TypeOK
<1>3. QED  BY <1>1, <1>2 DEF ReportOrLose

LEMMA ToolStep ==
    ASSUME TurnInv, NEW t \in Turns,
           UnknownTool(t) \/ ToolDenied(t) \/ RunKeyed(t) \/ RunUnkeyed(t) \/ ToolThrows(t)
    PROVE  TurnInv'
<1> DEFINE c == Current(t)
<1>0. TypeOK  BY DEF TurnInv
<1>1. at[t] = "execute" /\ UNCHANGED <<plan, cost, spent, messages, total>>
  BY DEF UnknownTool, ToolDenied, RunKeyed, RunUnkeyed, ToolThrows, Executing, rowVars
<1>2. c \in Call
  BY <1>0, <1>1, PlanCalls DEF TypeOK, Current, Call
<1>3. PICK ok \in BOOLEAN : ReportOrLose(t, ok)
  BY DEF UnknownTool, ToolDenied, RunKeyed, RunUnkeyed, ToolThrows, ReportOrLose
<1>4. /\ at' \in [Turns -> Labels]
      /\ tries' \in [Turns -> 0 .. MaxRetries]
      /\ failures' \in Nat
      /\ iter' \in [Turns -> 1 .. MaxIters]
      /\ call' \in [Turns -> Nat \ {0}]
      /\ \A u \in Turns : at'[u] = "execute" => call'[u] \in DOMAIN plan'[u]
      /\ \A r \in reports' : r.turn \in Turns /\ r.kind \in Kinds /\ r.ok \in BOOLEAN
      /\ CapChecked'
      /\ \A u \in Turns : at'[u] \in After => at[u] \in After
  BY <1>1, <1>3, ReportKeeps
<1>5. audit' = audit \/ \E n : audit' = audit \cup {[by |-> c, attempt |-> n]}
  BY DEF UnknownTool, ToolDenied, RunKeyed, RunUnkeyed, ToolThrows, Log, rowVars
<1> DEFINE Unkeyed == \E n : tasks' = tasks \cup {[by |-> c, kind |-> "unkeyed", nth |-> n]}
<1> DEFINE Keyed == \E n : tasks' = tasks \cup {[by |-> c, kind |-> "keyed", nth |-> n]}
<1>6. tasks' = tasks \/ Unkeyed \/ (Created("keyed") = {} /\ Keyed)
  <2>1. CASE UnknownTool(t) \/ ToolDenied(t) \/ ToolThrows(t)
    <3>1. tasks' = tasks  BY <2>1 DEF UnknownTool, ToolDenied, ToolThrows, rowVars
    <3> HIDE DEF Unkeyed, Keyed
    <3>2. QED  BY <3>1
  <2>2. CASE RunUnkeyed(t)
    <3>1. Unkeyed  BY <2>2 DEF RunUnkeyed, Insert
    <3> HIDE DEF Unkeyed, Keyed
    <3>2. QED  BY <3>1
  <2>3. CASE RunKeyed(t)
    <3>1. InsertOnce(c)  BY <2>3 DEF RunKeyed
    <3>2. Created("keyed") = {} => Keyed  BY <3>1 DEF InsertOnce, Insert
    <3>3. Created("keyed") # {} => tasks' = tasks  BY <3>1 DEF InsertOnce
    <3> HIDE DEF Unkeyed, Keyed
    <3>4. QED  BY <3>2, <3>3
  <2>4. QED  BY <2>1, <2>2, <2>3
<1> HIDE DEF c
<1>7. \A r \in audit' : r.by \in Call  BY <1>0, <1>2, <1>5 DEF TypeOK
<1>8. \A k \in tasks' : k.by \in Call  BY <1>0, <1>2, <1>6 DEF TypeOK
<1>9. TypeOK'  BY <1>0, <1>1, <1>4, <1>7, <1>8 DEF TypeOK
<1>10. CostBounded'  BY <1>1 DEF TurnInv, CostBounded
<1>11. InputKept'  BY <1>1, <1>4 DEF TurnInv, InputKept, Asked, After
<1>12. OneTaskPerKey'
  <2>1. SUFFICES ASSUME NEW j \in tasks', NEW k \in tasks', j.kind = "keyed", k.kind = "keyed"
                 PROVE  j = k
    BY DEF OneTaskPerKey, Created
  <2>2. \A a, b \in tasks : a.kind = "keyed" /\ b.kind = "keyed" => a = b
    BY DEF TurnInv, OneTaskPerKey, Created
  <2>3. CASE tasks' = tasks  BY <2>1, <2>2, <2>3
  <2>4. CASE Unkeyed
    BY <2>1, <2>2, <2>4
  <2>5. CASE Created("keyed") = {} /\ Keyed
    <3>1. \A a \in tasks : a.kind # "keyed"  BY <2>5 DEF Created
    <3>2. QED  BY <2>1, <2>5, <3>1
  <2>6. QED  BY <1>6, <2>3, <2>4, <2>5
<1>13. QED  BY <1>4, <1>9, <1>10, <1>11, <1>12 DEF TurnInv

-------------------------------------------------------------------------------
(* Theorems.                                                                   *)

LEMMA TurnInit == Init => TurnInv
<1>1. SUFFICES ASSUME Init PROVE TurnInv  OBVIOUS
<1>2. TypeOK  BY <1>1, EmptyPlan, TurnAssumption DEF Init, TypeOK, Labels, Message
<1>3. CapChecked  BY <1>1, TurnAssumption DEF Init, CapChecked
<1>4. CostBounded /\ InputKept /\ OneTaskPerKey
  BY <1>1 DEF Init, CostBounded, InputKept, OneTaskPerKey, Created
<1>5. QED  BY <1>2, <1>3, <1>4 DEF TurnInv

LEMMA TurnNext == TurnInv /\ [Next]_vars => TurnInv'
<1>1. SUFFICES ASSUME TurnInv, [Next]_vars PROVE TurnInv'  OBVIOUS
<1>2. CASE UNCHANGED vars
  BY <1>1, <1>2 DEF TurnInv, vars, progressVars, turnVars, rowVars, TypeOK, CapChecked,
                    CostBounded, InputKept, Asked, OneTaskPerKey, Created
<1>3. CASE \E t \in Turns : Send(t) \/ Step(t) \/ ToolBreaks(t) \/ StepBreaks(t)
  <2>1. PICK t \in Turns : Send(t) \/ Step(t) \/ ToolBreaks(t) \/ StepBreaks(t)  BY <1>3
  <2>2. CASE Send(t) \/ ToolBreaks(t) \/ StepBreaks(t)  BY <1>1, <2>2, QuietStep
  <2>3. CASE Step(t)
    BY <1>1, <2>3, QuietStep, PersistStep, PlanStep, ToolStep, CommitStep DEF Step
  <2>4. QED  BY <2>1, <2>2, <2>3
<1>4. QED  BY <1>1, <1>2, <1>3 DEF Next

\* The inductive invariant of the turns of a thread (agent-turn.ts).
THEOREM TurnInvariant == Spec => []TurnInv
BY TurnInit, TurnNext, PTL DEF Spec

\* Every variable keeps its type: in particular the tool loop never runs a call outside
\* its plan, nor the turn more than MaxIters plans (agent-turn.ts:220-303).
THEOREM TypeCorrect == Spec => []TypeOK
<1>1. TurnInv => TypeOK  BY DEF TurnInv
<1>2. QED  BY <1>1, TurnInvariant, PTL

\* Whatever the retries, a turn is committed at its cap and one plan at the most
\* (agent-turn.ts:230, 296-302).
THEOREM CostIsBounded == Spec => []CostBounded
<1>1. TurnInv => CostBounded  BY DEF TurnInv
<1>2. QED  BY <1>1, TurnInvariant, PTL

\* No failure after the context was loaded loses the user's message (agent-turn.ts:135-149).
THEOREM InputIsKept == Spec => []InputKept
<1>1. TurnInv => InputKept  BY DEF TurnInv
<1>2. QED  BY <1>1, TurnInvariant, PTL

\* A unique key has one task, over all turns, plans, calls and attempts
\* (tasks/index.ts:69-96).
THEOREM KeysAreUnique == Spec => []OneTaskPerKey
<1>1. TurnInv => OneTaskPerKey  BY DEF TurnInv
<1>2. QED  BY <1>1, TurnInvariant, PTL

-------------------------------------------------------------------------------
(* Rows of a call are numbered as they come, so that no row hides another; a call has no
   more tasks than rows, and a row for what it has reported.                           *)
TasksBy(c) == {k \in tasks : k.by = c}

RowsNumbered ==
    /\ IsFiniteSet(tasks) /\ IsFiniteSet(audit)
    /\ \A r \in audit : r.attempt \in 1 .. Cardinality(AuditOf(r.by))

TasksLogged == \A c : Cardinality(TasksBy(c)) <= Cardinality(AuditOf(c))

Logged(r) == AuditOf([turn |-> r.turn, iter |-> r.iter, call |-> r.call]) # {}

ReportsLogged == \A r \in reports : r.kind \notin {"unknown", "denied"} => Logged(r)

AuditInv == RowsNumbered /\ TasksLogged /\ ReportsLogged

LEMMA CountedOnce ==
    ASSUME NEW S, IsFiniteSet(S), NEW x
    PROVE  /\ Cardinality(S \cup {x}) \in Nat
           /\ Cardinality(S \cup {x}) <= Cardinality(S) + 1
           /\ x \notin S => Cardinality(S \cup {x}) = Cardinality(S) + 1
<1>1. Cardinality(S) \in Nat
  BY FS_CardinalityType
<1>2. Cardinality(S \cup {x}) = IF x \in S THEN Cardinality(S) ELSE Cardinality(S) + 1
  BY FS_AddElement
<1>3. QED
  BY <1>1, <1>2

\* A row more for c, with the number Log gives it, and at most one task more by c.
LEMMA RowsCounted ==
    ASSUME RowsNumbered, TasksLogged, NEW c, Log(c),
           tasks' = tasks \/ \E k : k.by = c /\ tasks' = tasks \cup {k}
    PROVE  RowsNumbered' /\ TasksLogged'
<1> DEFINE n == Cardinality(AuditOf(c))
           row == [by |-> c, attempt |-> n + 1]
<1>1. /\ IsFiniteSet(tasks) /\ IsFiniteSet(audit)
      /\ \A d : IsFiniteSet(AuditOf(d)) /\ IsFiniteSet(TasksBy(d))
  BY FS_Subset DEF RowsNumbered, AuditOf, TasksBy
<1>2. /\ n \in Nat
      /\ \A d : Cardinality(AuditOf(d)) \in Nat /\ Cardinality(TasksBy(d)) \in Nat
  BY <1>1, FS_CardinalityType
<1>3. audit' = audit \cup {row}
  BY DEF Log
<1>4. row \notin AuditOf(c)
  <2>1. SUFFICES ASSUME row \in audit PROVE FALSE
    BY DEF AuditOf
  <2>2. n + 1 \in 1 .. n
    BY <2>1 DEF RowsNumbered
  <2>3. QED
    BY <2>2, <1>2
<1>5. AuditOf(c)' = AuditOf(c) \cup {row} /\ \A d : d # c => AuditOf(d)' = AuditOf(d)
  BY <1>3 DEF AuditOf
<1>6. Cardinality(AuditOf(c)') = n + 1
  <2>1. Cardinality(AuditOf(c) \cup {row}) = Cardinality(AuditOf(c)) + 1
    <3> HIDE DEF row
    <3>1. QED
      BY <1>1, <1>4, CountedOnce
  <2>2. QED
    BY <2>1, <1>5
<1>7. IsFiniteSet(audit') /\ IsFiniteSet(tasks')
  BY <1>1, <1>3, FS_AddElement
<1>8. \A r \in audit' : r.attempt \in 1 .. Cardinality(AuditOf(r.by)')
  <2>1. SUFFICES ASSUME NEW r \in audit' PROVE r.attempt \in 1 .. Cardinality(AuditOf(r.by)')
    OBVIOUS
  <2>2. CASE r = row
    BY <2>2, <1>2, <1>6
  <2>3. CASE r \in audit /\ r.by = c
    BY <2>3, <1>2, <1>6 DEF RowsNumbered
  <2>4. CASE r \in audit /\ r.by # c
    BY <2>4, <1>5 DEF RowsNumbered
  <2>5. QED
    BY <2>2, <2>3, <2>4, <1>3
<1>9. RowsNumbered'
  BY <1>7, <1>8 DEF RowsNumbered
<1>10. \A d : Cardinality(TasksBy(d)') <= Cardinality(AuditOf(d)')
  <2>1. SUFFICES ASSUME NEW d PROVE Cardinality(TasksBy(d)') <= Cardinality(AuditOf(d)')
    OBVIOUS
  <2>2. CASE d = c
    <3>1. TasksBy(c)' = TasksBy(c) \/ \E k : TasksBy(c)' = TasksBy(c) \cup {k}
      BY DEF TasksBy
    <3>2. /\ Cardinality(TasksBy(c)') \in Nat
          /\ Cardinality(TasksBy(c)') <= Cardinality(TasksBy(c)) + 1
      <4>1. IsFiniteSet(TasksBy(c)) /\ Cardinality(TasksBy(c)) \in Nat
        BY <1>1, <1>2
      <4>2. CASE TasksBy(c)' = TasksBy(c)
        BY <4>1, <4>2
      <4>3. CASE \E k : TasksBy(c)' = TasksBy(c) \cup {k}
        <5>1. PICK k : TasksBy(c)' = TasksBy(c) \cup {k}
          BY <4>3
        <5>2. /\ Cardinality(TasksBy(c) \cup {k}) \in Nat
              /\ Cardinality(TasksBy(c) \cup {k}) <= Cardinality(TasksBy(c)) + 1
          BY <4>1, CountedOnce
        <5>3. QED
          BY <5>1, <5>2
      <4>4. QED
        BY <3>1, <4>2, <4>3
    <3>3. QED
      BY <2>2, <3>2, <1>2, <1>6 DEF TasksLogged
  <2>3. CASE d # c
    <3>1. TasksBy(d)' = TasksBy(d)
      BY <2>3 DEF TasksBy
    <3>2. QED
      BY <2>3, <3>1, <1>5 DEF TasksLogged
  <2>4. QED
    BY <2>2, <2>3
<1>11. QED
  BY <1>9, <1>10 DEF TasksLogged

\* What was logged stays logged.
LEMMA LoggedStays ==
    ASSUME audit \subseteq audit', NEW r, Logged(r)
    PROVE  Logged(r)'
  BY DEF Logged, AuditOf

LEMMA NothingLogged ==
    ASSUME AuditInv, UNCHANGED <<tasks, audit>>,
           \A r \in reports' \ reports : r.kind \in {"unknown", "denied"}
    PROVE  AuditInv'
  BY DEF AuditInv, RowsNumbered, TasksLogged, TasksBy, ReportsLogged, Logged, AuditOf

LEMMA ExecutionLogged ==
    ASSUME AuditInv, NEW t \in Turns, RunKeyed(t) \/ RunUnkeyed(t) \/ ToolThrows(t)
    PROVE  AuditInv'
<1>1. PICK c : c = Current(t)
  OBVIOUS
<1>2. Log(c)
  BY <1>1 DEF RunKeyed, RunUnkeyed, ToolThrows
<1>3. tasks' = tasks \/ \E k : k.by = c /\ tasks' = tasks \cup {k}
  <2>1. \A kind : Insert(c, kind) => \E k : k.by = c /\ tasks' = tasks \cup {k}
    <3>1. SUFFICES ASSUME NEW kind, Insert(c, kind)
                   PROVE  \E k : k.by = c /\ tasks' = tasks \cup {k}
      OBVIOUS
    <3> DEFINE new == [by |-> c, kind |-> kind, nth |-> Cardinality(Created(kind)) + 1]
    <3>2. new.by = c /\ tasks' = tasks \cup {new}
      BY <3>1 DEF Insert
    <3>3. QED
      BY <3>2
  <2>2. tasks' = tasks \/ \E kind : Insert(c, kind)
    BY <1>1 DEF RunKeyed, RunUnkeyed, ToolThrows, InsertOnce
  <2>3. QED
    BY <2>1, <2>2
<1>4. RowsNumbered' /\ TasksLogged'
  BY <1>2, <1>3, RowsCounted DEF AuditInv
<1>5. audit \subseteq audit' /\ AuditOf(c)' # {}
  <2> DEFINE row == [by |-> c, attempt |-> Cardinality(AuditOf(c)) + 1]
  <2>1. audit' = audit \cup {row} /\ row.by = c
    BY <1>2 DEF Log
  <2>2. QED
    BY <2>1 DEF AuditOf
<1>6. \A r \in reports' \ reports : [turn |-> r.turn, iter |-> r.iter, call |-> r.call] = c
  BY <1>1 DEF RunKeyed, RunUnkeyed, ToolThrows, ReportOrLose, Report, Current
<1>7. \A r \in reports' \ reports : Logged(r)'
  BY <1>5, <1>6 DEF Logged, AuditOf
<1>8. ReportsLogged'
  BY <1>5, <1>7, LoggedStays DEF AuditInv, ReportsLogged
<1>9. QED
  BY <1>4, <1>8 DEF AuditInv

LEMMA AuditInit == Init => AuditInv
<1>1. SUFFICES ASSUME Init PROVE AuditInv
  OBVIOUS
<1>2. tasks = {} /\ audit = {} /\ reports = {}
  BY <1>1 DEF Init
<1>3. \A c : TasksBy(c) = {} /\ AuditOf(c) = {}
  BY <1>2 DEF TasksBy, AuditOf
<1>4. QED
  BY <1>2, <1>3, FS_EmptySet DEF AuditInv, RowsNumbered, TasksLogged, ReportsLogged

LEMMA AuditNext == AuditInv /\ [Next]_vars => AuditInv'
<1>1. SUFFICES ASSUME AuditInv, [Next]_vars PROVE AuditInv'
  OBVIOUS
<1>2. CASE UNCHANGED vars
  BY <1>1, <1>2, NothingLogged DEF vars, turnVars, rowVars
<1>3. CASE Next
  <2>1. PICK t \in Turns : Send(t) \/ Step(t) \/ ToolBreaks(t) \/ StepBreaks(t)
    BY <1>3 DEF Next
  <2>2. CASE RunKeyed(t) \/ RunUnkeyed(t) \/ ToolThrows(t)
    BY <1>1, <2>2, ExecutionLogged
  <2>3. CASE UnknownTool(t) \/ ToolDenied(t)
    <3>1. UNCHANGED <<tasks, audit>> /\ plan[t][call[t]] \in {"unknown", "denied"}
      BY <2>3 DEF UnknownTool, ToolDenied, Executing, rowVars
    <3>2. \A r \in reports' \ reports : r.kind = plan[t][call[t]]
      BY <2>3 DEF UnknownTool, ToolDenied, ReportOrLose, Report
    <3>3. QED
      BY <1>1, <3>1, <3>2, NothingLogged
  <2>4. CASE Send(t) \/ LoadContext(t) \/ PersistUserTurn(t) \/ HydrateMemory(t) \/ Plan(t)
                \/ ToolFails(t) \/ CommitTurn(t) \/ ToolBreaks(t) \/ StepBreaks(t)
    <3>1. UNCHANGED <<tasks, audit, reports>>
      BY <2>4 DEF Send, LoadContext, PersistUserTurn, HydrateMemory, Plan, ToolFails,
                  CommitTurn, ToolBreaks, StepBreaks, turnVars, rowVars
    <3>2. QED
      BY <1>1, <3>1, NothingLogged
  <2>5. QED
    BY <2>1, <2>2, <2>3, <2>4 DEF Step
<1>4. QED
  BY <1>1, <1>2, <1>3

\* Every task has an audit row of its own and every result of a tool that ran has one, over
\* any number of attempts and lost results (define-tool.ts:114-145).
THEOREM ExecutionsAreAudited == Spec => []ExecutionsAudited
<1>1. AuditInv => ExecutionsAudited
  BY DEF AuditInv, TasksLogged, TasksBy, ReportsLogged, Logged, ExecutionsAudited
<1>2. QED
  BY <1>1, AuditInit, AuditNext, PTL DEF Spec
-------------------------------------------------------------------------------
(* What is left of a turn.                                                     *)

\* The plans a turn may still make have at least the steps of one, and the next plan
\* leaves the steps of the others.
LEMMA StepsOfPlans ==
    ASSUME TypeOK, NEW t \in Turns
    PROVE  /\ PlanSteps(t) \in Nat /\ PlanSteps(t) >= MaxCalls + 1
           /\ iter'[t] = iter[t] => PlanSteps(t)' = PlanSteps(t)
           /\ iter'[t] = iter[t] + 1 => PlanSteps(t)' = PlanSteps(t) - (MaxCalls + 1)
<1>1. PICK n \in Nat, m \in Nat : n = MaxIters - iter[t] /\ m = MaxCalls + 1
  BY TurnAssumption DEF TypeOK
<1>2. n * m \in Nat /\ (n + 1) * m = n * m + m
  BY <1>1
<1>3. PlanSteps(t) = n * m + m
  <2>1. PlanSteps(t) = (n + 1) * m
    BY <1>1 DEF PlanSteps
  <2>2. QED
    BY <1>2, <2>1
<1>4. ASSUME iter'[t] = iter[t] PROVE PlanSteps(t)' = PlanSteps(t)
  BY <1>4 DEF PlanSteps
<1>5. ASSUME iter'[t] = iter[t] + 1 PROVE PlanSteps(t)' = PlanSteps(t) - (MaxCalls + 1)
  <2>1. MaxIters - iter'[t] + 1 = n
    BY <1>1, <1>5, TurnAssumption DEF TypeOK
  <2>2. PlanSteps(t)' = n * m
    BY <1>1, <2>1 DEF PlanSteps
  <2>3. QED
    BY <1>1, <1>2, <1>3, <2>2
<1>6. QED
  BY <1>1, <1>2, <1>3, <1>4, <1>5

\* With fewer steps, or with one more of its attempts used, fewer attempts are left.
LEMMA FewerAttempts ==
    ASSUME NEW n \in Nat, NEW m \in Nat, m < n, NEW k \in 0 .. MaxRetries
    PROVE  /\ n * (MaxRetries + 1) - k \in Nat
           /\ m * (MaxRetries + 1) \in Nat
           /\ m * (MaxRetries + 1) < n * (MaxRetries + 1) - k
<1>1. PICK d \in Nat, r \in Nat : n = m + 1 + d /\ r = MaxRetries + 1 /\ k < r
  BY TurnAssumption
<1>2. m * r \in Nat /\ d * r \in Nat /\ (m + 1 + d) * r = m * r + r + d * r
  BY <1>1
<1>3. PICK a \in Nat, b \in Nat : a = m * r /\ b = d * r
  BY <1>2
<1>4. n * r = a + r + b
  BY <1>1, <1>2, <1>3
<1>5. n * r - k \in Nat /\ a < n * r - k
  <2>1. a + r + b - k \in Nat /\ a < a + r + b - k
    BY <1>1, <1>3
  <2>2. QED
    BY <1>4, <2>1
<1>6. QED
  BY <1>1, <1>3, <1>5

Ended == {"done", "failed"}

LEMMA StepsAreCounted ==
    ASSUME TypeOK, NEW t \in Turns
    PROVE  /\ StepsLeft(t) \in Nat
           /\ StepsLeft(t) = 0 <=> at[t] \in Ended
           /\ at[t] = "execute" => StepsLeft(t) > 1
<1>1. PlanSteps(t) \in Nat /\ PlanSteps(t) >= MaxCalls + 1
  BY StepsOfPlans
<1>2. at[t] = "execute" => call[t] \in Nat /\ call[t] <= MaxCalls
  <2>1. ASSUME at[t] = "execute" PROVE call[t] \in 1 .. MaxCalls
    <3>1. plan[t] \in Plans /\ call[t] \in DOMAIN plan[t]
      BY <2>1 DEF TypeOK
    <3>2. QED
      BY <3>1, PlanCalls
  <2>2. QED
    BY <2>1
<1>3. at[t] \in Labels
  BY DEF TypeOK
<1>4. MaxCalls \in Nat
  BY TurnAssumption
<1>5. QED
  BY <1>1, <1>2, <1>3, <1>4 DEF StepsLeft, Labels, Ended

Winds(t) == AttemptsLeft(t)' \in Nat /\ AttemptsLeft(t)' < AttemptsLeft(t)

\* A step that is done leaves fewer.
LEMMA CheckpointWinds ==
    ASSUME TypeOK, NEW t \in Turns, tries'[t] \in 0 .. MaxRetries,
           StepsLeft(t)' \in Nat, StepsLeft(t)' < StepsLeft(t),
           tries'[t] = 0 \/ StepsLeft(t)' = 0
    PROVE  Winds(t)
<1>1. PICK n \in Nat, m \in Nat : n = StepsLeft(t) /\ m = StepsLeft(t)'
  BY StepsAreCounted
<1>2. tries[t] \in 0 .. MaxRetries
  BY DEF TypeOK
<1>3. /\ n * (MaxRetries + 1) - tries[t] \in Nat
      /\ m * (MaxRetries + 1) \in Nat
      /\ m * (MaxRetries + 1) < n * (MaxRetries + 1) - tries[t]
  BY <1>1, <1>2, FewerAttempts
<1>4. AttemptsLeft(t) = n * (MaxRetries + 1) - tries[t]
  BY <1>1 DEF AttemptsLeft
<1>5. AttemptsLeft(t)' = IF m = 0 THEN 0 ELSE m * (MaxRetries + 1) - tries'[t]
  BY <1>1 DEF AttemptsLeft
<1>6. CASE m = 0
  <2>1. 0 * (MaxRetries + 1) = 0
    BY TurnAssumption
  <2>2. QED
    BY <1>3, <1>4, <1>5, <1>6, <2>1 DEF Winds
<1>7. CASE m # 0
  <2>1. PICK x \in Nat : x = m * (MaxRetries + 1)
    BY <1>3
  <2>2. AttemptsLeft(t)' = x
    BY <1>1, <1>5, <1>7, <2>1
  <2>3. x < AttemptsLeft(t)
    BY <1>3, <1>4, <2>1
  <2>4. QED
    BY <2>1, <2>2, <2>3 DEF Winds
<1>8. QED
  BY <1>6, <1>7

\* A step that is not, too.
LEMMA RetryWinds ==
    ASSUME TypeOK, NEW t \in Turns, at[t] \notin Ended, Retry(t), UNCHANGED <<iter, call>>
    PROVE  Winds(t)
<1>1. tries[t] \in 0 .. MaxRetries /\ StepsLeft(t) \in Nat /\ StepsLeft(t) # 0
  BY StepsAreCounted DEF TypeOK
<1>2. CASE tries[t] < MaxRetries
  <2>1. tries'[t] = tries[t] + 1 /\ at' = at
    BY <1>2 DEF Retry, TypeOK
  <2>2. StepsLeft(t)' = StepsLeft(t)
    BY <2>1 DEF StepsLeft, PlanSteps
  <2>3. PICK n \in Nat : n = StepsLeft(t) /\ n > 0
    BY <1>1
  <2>4. tries'[t] \in 0 .. MaxRetries
    BY <1>1, <1>2, <2>1, TurnAssumption
  <2>5. n * (MaxRetries + 1) - tries'[t] \in Nat /\ n * (MaxRetries + 1) - tries[t] \in Nat
    BY <1>1, <2>3, <2>4, FewerAttempts
  <2>6. PICK x : x = n * (MaxRetries + 1)
    OBVIOUS
  <2>7. x \in Int
    BY <2>3, <2>6, TurnAssumption
  <2>8. AttemptsLeft(t) = x - tries[t] /\ AttemptsLeft(t)' = x - tries'[t]
    BY <2>2, <2>3, <2>6 DEF AttemptsLeft
  <2>9. x - tries'[t] \in Nat /\ x - tries'[t] < x - tries[t]
    BY <1>1, <2>1, <2>5, <2>6, <2>7
  <2>10. QED
    BY <2>8, <2>9 DEF Winds
<1>3. CASE ~ (tries[t] < MaxRetries)
  <2>1. at'[t] = "failed" /\ tries' = tries
    BY <1>3 DEF Retry, TypeOK
  <2>2. StepsLeft(t)' = 0
    BY <2>1 DEF StepsLeft
  <2>3. QED
    BY <1>1, <2>1, <2>2, CheckpointWinds
<1>4. QED
  BY <1>2, <1>3

\* The step from x to y of a turn that stays at its plan.
LEMMA StepWinds ==
    ASSUME TypeOK, NEW t \in Turns, UNCHANGED <<iter, call>>, NEW y,
           <<at[t], y>> \in {<<"load", "persist">>, <<"persist", "hydrate">>,
                             <<"hydrate", "plan">>, <<"commit", "done">>},
           CheckpointOrLose(t, y)
    PROVE  Winds(t)
<1>1. CASE Checkpoint(t, y)
  <2>1. at'[t] = y /\ tries'[t] = 0
    BY <1>1 DEF Checkpoint, TypeOK
  <2>2. PlanSteps(t)' = PlanSteps(t) /\ PlanSteps(t) \in Nat
    BY StepsOfPlans
  <2>3. StepsLeft(t)' \in Nat /\ StepsLeft(t)' < StepsLeft(t)
    BY <2>1, <2>2 DEF StepsLeft
  <2>4. QED
    BY <2>1, <2>3, CheckpointWinds, TurnAssumption
<1>2. CASE Break(t)
  <2>1. at[t] \notin Ended
    BY DEF Ended
  <2>2. QED
    BY <1>2, <2>1, RetryWinds DEF Break
<1>3. QED
  BY <1>1, <1>2 DEF CheckpointOrLose

LEMMA PlanWinds ==
    ASSUME TypeOK, NEW t \in Turns, Plan(t)
    PROVE  Winds(t)
<1>1. at[t] = "plan" /\ iter' = iter
  BY DEF Plan
<1>2. CASE \E calls \in Plans :
               /\ Checkpoint(t, IF calls = <<>> THEN "commit" ELSE "execute")
               /\ call' = [call EXCEPT ![t] = 1]
  <2>1. at'[t] \in {"commit", "execute"} /\ tries'[t] = 0 /\ call'[t] = 1
    BY <1>2 DEF Checkpoint, TypeOK
  <2>2. PlanSteps(t)' = PlanSteps(t) /\ PlanSteps(t) \in Nat /\ PlanSteps(t) >= MaxCalls + 1
    BY <1>1, StepsOfPlans
  <2>3. StepsLeft(t)' \in Nat /\ StepsLeft(t)' < StepsLeft(t)
    BY <1>1, <2>1, <2>2, TurnAssumption DEF StepsLeft
  <2>4. QED
    BY <2>1, <2>3, CheckpointWinds, TurnAssumption
<1>3. CASE Break(t) /\ UNCHANGED call
  BY <1>1, <1>3, RetryWinds DEF Break, Ended
<1>4. QED
  BY <1>2, <1>3 DEF Plan

LEMMA ToolWinds ==
    ASSUME TypeOK, NEW t \in Turns, NEW ok, at[t] = "execute", ReportOrLose(t, ok)
    PROVE  Winds(t)
<1>1. CASE Break(t) /\ UNCHANGED <<iter, call>>
  BY <1>1, RetryWinds DEF Break, Ended
<1>2. CASE Report(t, ok)
  <2>1. PICK next : next = IF LastCall(t) THEN AfterTools(t) ELSE "execute"
    OBVIOUS
  <2>2. /\ Checkpoint(t, next)
        /\ iter' = IF next = "plan" THEN [iter EXCEPT ![t] = @ + 1] ELSE iter
        /\ call' = IF LastCall(t) THEN call ELSE [call EXCEPT ![t] = @ + 1]
    BY <1>2, <2>1 DEF Report
  <2>3. at'[t] = next /\ tries'[t] = 0
    BY <2>2 DEF Checkpoint, TypeOK
  <2>4. call[t] \in 1 .. MaxCalls /\ call[t] \in 1 .. Len(plan[t]) /\ Len(plan[t]) \in 0 .. MaxCalls
    <3>1. plan[t] \in Plans /\ call[t] \in DOMAIN plan[t]
      BY DEF TypeOK
    <3>2. QED
      BY <3>1, PlanCalls
  <2>5. /\ PlanSteps(t) \in Nat /\ PlanSteps(t) >= MaxCalls + 1
        /\ iter'[t] = iter[t] => PlanSteps(t)' = PlanSteps(t)
        /\ iter'[t] = iter[t] + 1 => PlanSteps(t)' = PlanSteps(t) - (MaxCalls + 1)
    BY StepsOfPlans
  <2>6. StepsLeft(t) = PlanSteps(t) + 1 - call[t] /\ StepsLeft(t) > 1
    BY StepsAreCounted DEF StepsLeft
  <2>7. CASE ~ LastCall(t)
    <3>1. next = "execute" /\ iter' = iter /\ call'[t] = call[t] + 1 /\ call[t] + 1 <= MaxCalls
      <4>1. call[t] < Len(plan[t])
        BY <2>4, <2>7, TurnAssumption DEF LastCall
      <4>2. next = "execute"
        BY <2>1, <2>7
      <4>3. iter' = iter /\ call' = [call EXCEPT ![t] = @ + 1]
        BY <2>2, <2>7, <4>2
      <4>4. call'[t] = call[t] + 1
        BY <4>3 DEF TypeOK
      <4>5. QED
        BY <2>4, <4>1, <4>2, <4>3, <4>4, TurnAssumption
    <3>2. StepsLeft(t)' = PlanSteps(t) + 1 - (call[t] + 1)
      BY <2>3, <2>5, <3>1 DEF StepsLeft
    <3>3. StepsLeft(t)' \in Nat /\ StepsLeft(t)' < StepsLeft(t)
      BY <2>4, <2>5, <2>6, <3>1, <3>2, TurnAssumption
    <3>4. QED
      BY <2>3, <3>3, CheckpointWinds, TurnAssumption
  <2>8. CASE LastCall(t) /\ next = "commit"
    <3>1. StepsLeft(t)' = 1
      BY <2>3, <2>8 DEF StepsLeft
    <3>2. QED
      BY <2>3, <2>6, <3>1, CheckpointWinds, TurnAssumption
  <2>9. CASE LastCall(t) /\ next = "plan"
    <3>1. iter'[t] = iter[t] + 1
      BY <2>2, <2>9 DEF TypeOK
    <3>2. StepsLeft(t)' = PlanSteps(t) - (MaxCalls + 1) + 1
      BY <2>3, <2>5, <2>9, <3>1 DEF StepsLeft
    <3>3. StepsLeft(t)' \in Nat /\ StepsLeft(t)' < StepsLeft(t)
      BY <2>4, <2>5, <2>6, <3>2, TurnAssumption
    <3>4. QED
      BY <2>3, <3>3, CheckpointWinds, TurnAssumption
  <2>10. QED
    BY <2>1, <2>7, <2>8, <2>9 DEF AfterTools
<1>3. QED
  BY <1>1, <1>2 DEF ReportOrLose

LEMMA SendWinds ==
    ASSUME TypeOK, NEW t \in Turns, Send(t)
    PROVE  Winds(t)
<1>1. at[t] = "unsent" /\ at'[t] = "load" /\ UNCHANGED <<tries, iter, call>>
  BY DEF Send, turnVars, TypeOK
<1>2. PlanSteps(t)' = PlanSteps(t) /\ PlanSteps(t) \in Nat
  BY <1>1, StepsOfPlans
<1>3. PICK n \in Nat : n = PlanSteps(t)
  BY <1>2
<1>4. StepsLeft(t) = n + 5 /\ StepsLeft(t)' = n + 4
  BY <1>1, <1>2, <1>3 DEF StepsLeft
<1>5. tries[t] \in 0 .. MaxRetries
  BY DEF TypeOK
<1>6. PICK r \in Nat : r = MaxRetries + 1 /\ r > 0
  BY TurnAssumption
<1>7. (n + 5) * r = (n + 4) * r + r
  BY <1>6
<1>8. (n + 4) * r - tries[t] \in Nat
  BY <1>5, <1>6, FewerAttempts
<1>9. AttemptsLeft(t)' = (n + 4) * r - tries[t] /\ AttemptsLeft(t) = (n + 5) * r - tries[t]
  BY <1>1, <1>4, <1>6 DEF AttemptsLeft
<1>10. PICK x \in Int : x = (n + 4) * r
  BY <1>6
<1>11. AttemptsLeft(t)' = x - tries[t] /\ AttemptsLeft(t) = x + r - tries[t]
  <2>1. (n + 5) * r = x + r
    BY <1>7, <1>10
  <2>2. AttemptsLeft(t)' = x - tries[t]
    BY <1>9, <1>10
  <2>3. AttemptsLeft(t) = x + r - tries[t]
    BY <1>5, <1>6, <1>9, <1>10, <2>1
  <2>4. QED
    BY <2>2, <2>3
<1>12. QED
  BY <1>5, <1>6, <1>8, <1>10, <1>11 DEF Winds

\* A step of t is of no other turn.
LEMMA OthersStay ==
    ASSUME TypeOK, NEW t \in Turns, Send(t) \/ Step(t) \/ ToolBreaks(t) \/ StepBreaks(t),
           NEW u \in Turns \ {t}
    PROVE  AttemptsLeft(u)' = AttemptsLeft(u)
<1>1. at'[u] = at[u] /\ tries'[u] = tries[u]
  <2>1. ASSUME NEW x, Checkpoint(t, x) PROVE at'[u] = at[u] /\ tries'[u] = tries[u]
    BY <2>1 DEF Checkpoint, TypeOK
  <2>2. ASSUME Retry(t) PROVE at'[u] = at[u] /\ tries'[u] = tries[u]
    BY <2>2 DEF Retry, TypeOK
  <2>3. CASE Send(t)
    BY <2>3 DEF Send, TypeOK
  <2>4. CASE Step(t) \/ ToolBreaks(t) \/ StepBreaks(t)
    <3>1. Retry(t) \/ \E x : Checkpoint(t, x)
      BY <2>4 DEF Step, ToolBreaks, StepBreaks, LoadContext, PersistUserTurn, HydrateMemory,
                  Plan, UnknownTool, ToolDenied, RunKeyed, RunUnkeyed, ToolThrows, ToolFails,
                  CommitTurn, CheckpointOrLose, ReportOrLose, Report, Break
    <3>2. QED
      BY <2>1, <2>2, <3>1
  <2>5. QED
    BY <2>3, <2>4
<1>2. iter'[u] = iter[u] /\ call'[u] = call[u]
  BY DEF Send, Step, ToolBreaks, StepBreaks, LoadContext, PersistUserTurn, HydrateMemory,
         Plan, UnknownTool, ToolDenied, RunKeyed, RunUnkeyed, ToolThrows, ToolFails,
         CommitTurn, ReportOrLose, Report, turnVars, TypeOK
<1>3. PlanSteps(u)' = PlanSteps(u)
  BY <1>2 DEF PlanSteps
<1>4. StepsLeft(u)' = StepsLeft(u)
  BY <1>1, <1>2, <1>3 DEF StepsLeft
<1>5. QED
  BY <1>1, <1>4 DEF AttemptsLeft

LEMMA SomeTurnWinds ==
    ASSUME TypeOK, NEW t \in Turns, Send(t) \/ Step(t) \/ ToolBreaks(t) \/ StepBreaks(t)
    PROVE  Winds(t)
<1>1. CASE Send(t)
  BY <1>1, SendWinds
<1>2. CASE LoadContext(t) \/ PersistUserTurn(t) \/ HydrateMemory(t) \/ CommitTurn(t)
  <2>1. PICK y : /\ <<at[t], y>> \in {<<"load", "persist">>, <<"persist", "hydrate">>,
                                      <<"hydrate", "plan">>, <<"commit", "done">>}
                 /\ CheckpointOrLose(t, y)
    BY <1>2 DEF LoadContext, PersistUserTurn, HydrateMemory, CommitTurn
  <2>2. UNCHANGED <<iter, call>>
    BY <1>2 DEF LoadContext, PersistUserTurn, HydrateMemory, CommitTurn, turnVars
  <2>3. QED
    BY <2>1, <2>2, StepWinds
<1>3. CASE Plan(t)
  BY <1>3, PlanWinds
<1>4. CASE UnknownTool(t) \/ ToolDenied(t) \/ RunKeyed(t) \/ RunUnkeyed(t) \/ ToolThrows(t)
  <2>1. at[t] = "execute" /\ \E ok : ReportOrLose(t, ok)
    BY <1>4 DEF UnknownTool, ToolDenied, RunKeyed, RunUnkeyed, ToolThrows, Executing, ReportOrLose
  <2>2. QED
    BY <2>1, ToolWinds
<1>5. CASE ToolFails(t) \/ ToolBreaks(t) \/ StepBreaks(t)
  <2>1. Retry(t) /\ at[t] \notin Ended /\ UNCHANGED <<iter, call>>
    BY <1>5 DEF ToolFails, ToolBreaks, StepBreaks, Executing, Break, Ended, turnVars
  <2>2. QED
    BY <2>1, RetryWinds
<1>6. QED
  BY <1>1, <1>2, <1>3, <1>4, <1>5 DEF Step

\* A turn has only so many attempts to make, whatever the number of turns, plans, calls and
\* retries: the loops of agent-turn.ts:187-303 end.  With the weak fairness of its steps,
\* that it never rests before its end is left to the runs.
THEOREM TurnsAreFinite == Spec => TurnsWindDown
<1>1. ASSUME TypeOK, Next
      PROVE  \E t \in Turns : /\ AttemptsLeft(t)' \in Nat /\ AttemptsLeft(t)' < AttemptsLeft(t)
                              /\ \A u \in Turns \ {t} : AttemptsLeft(u)' = AttemptsLeft(u)
  <2>1. PICK t \in Turns : Send(t) \/ Step(t) \/ ToolBreaks(t) \/ StepBreaks(t)
    BY <1>1 DEF Next
  <2>2. Winds(t)
    BY <1>1, <2>1, SomeTurnWinds
  <2>3. \A u \in Turns \ {t} : AttemptsLeft(u)' = AttemptsLeft(u)
    BY <1>1, <2>1, OthersStay
  <2>4. QED
    BY <2>2, <2>3 DEF Winds
<1>2. TypeOK /\ [Next]_vars => [\E t \in Turns :
          /\ AttemptsLeft(t)' \in Nat /\ AttemptsLeft(t)' < AttemptsLeft(t)
          /\ \A u \in Turns \ {t} : AttemptsLeft(u)' = AttemptsLeft(u)]_vars
  BY <1>1
<1>3. QED
  BY <1>2, TypeCorrect, PTL DEF Spec, TurnsWindDown
===============================================================================
