--------------------------- MODULE CommissionLedger ---------------------------
(* The commission ledger of one sale: the recompute transaction of
   packages/domain/src/commissions/recompute.ts, run by the background workers
   for every "commission.recompute.requested" event, interleaved with the other
   writers of the rows it reads and writes: sale creation, soft delete and full
   refund, commission-rule edits, the hold-release sweep, and (outside src/)
   payouts and payment collection.

   Everything in the ledger is keyed by sale and the recompute lock is per sale,
   so one sale is enough.  Transactions are READ COMMITTED: a statement sees what
   is committed when it runs, a transaction's own writes are private until it
   commits (buf), and a row it wrote stays locked until then.

   Amounts are left out (compute.ts computes them): a row keeps its status, the
   hold it was computed with, the rule version it cites and its pendingUntil.   *)
EXTENDS Integers, FiniteSets, Sequences

CONSTANTS
    Installments,   \* payment_plan_installments of the sale
    Recipients,     \* commission_recipients of the sale: distinct (user, role) pairs
    Roles,          \* sales roles
    RoleOf,         \* [Recipients -> Roles]
    Rules,          \* commission_rules of the workspace that may ever exist
    SeedRules,      \* those the workspace has when the sale is created
    NoRuleSlots,    \* slots for the rows with a NULL rule_id, which no unique key limits
    Terms,          \* [role, hold] pairs a rule may carry
    AnyRole,        \* a rule's NULL sales_role_id
    NoRule,         \* a recipient paired with no rule
    Stages,         \* slugs of the workspace's funnel stages
    ExpectedDate,   \* [Installments -> Nat]: the planned payment date
    DefaultHold,    \* hold of an entry without a rule (30 days)
    Workers,        \* processes that may run the recompute
    NoWorker,       \* the advisory lock is free
    MaxRetries,     \* retries of the background function (2)
    MaxTime, MaxEdits, MaxRequests, MaxFailures   \* bounds of the model

ASSUME ConstantsAssumption ==
    /\ RoleOf \in [Recipients -> Roles]
    /\ AnyRole \notin Roles
    /\ NoRule \notin Rules
    /\ SeedRules \subseteq Rules
    /\ NoWorker \notin Workers
    /\ Rules \cap NoRuleSlots = {}
    /\ Terms \subseteq [role : Roles \cup {AnyRole}, hold : Nat]
    /\ ExpectedDate \in [Installments -> Nat]
    /\ DefaultHold \in Nat
    /\ MaxRetries \in Nat
    /\ MaxTime \in Nat
    /\ MaxEdits \in Nat
    /\ MaxRequests \in Nat
    /\ MaxFailures \in Nat

-------------------------------------------------------------------------------
(* Rows and keys.                                                              *)

Slots == Rules \cup NoRuleSlots

\* One possible row: installment, recipient, and the rule it cites.
Keys == Installments \X Recipients \X Slots

Open == {"pending", "available"}
Settled == {"paid", "clawed_back"}
EntryStatus == {"absent", "voided"} \cup Open \cup Settled

Row == [status : EntryStatus, hold : Nat, ver : Nat, until : Nat]
NewRow(hold, ver, until) ==
    [status |-> "pending", hold |-> hold, ver |-> ver, until |-> until]
AbsentRow == [status |-> "absent", hold |-> 0, ver |-> 0, until |-> 0]

\* A key this transaction has not written.
Unwritten == [status |-> "unwritten", hold |-> 0, ver |-> 0, until |-> 0]
NoWrites == [k \in Keys |-> Unwritten]

InstallmentStatus == {"scheduled", "collected", "failed", "refunded"}
SaleStatus == {"absent", "creating", "live", "deleting", "deleted"}
RefundStatus == {"none", "read", "updating", "applied", "issued"}

RuleRow == [phase : {"absent", "live", "deleted"}, applies : BOOLEAN, terms : Terms]

VARIABLES
    sale,        \* the sale row; "creating" and "deleting" are uncommitted
    refund,      \* recordRefund: not called, sale read, updating rows, all updated, committed
    wanted,      \* ledger rows the refund's update has found and not yet locked
    held,        \* ledger rows the uncommitted refund has updated
    inst,        \* status of each installment
    collectedAt, \* payment date of a collected installment
    rule,        \* commission_rules
    hist,        \* commission_rule_versions: the terms of version n at index n
    ent,         \* commission_entries as committed
    now,         \* the clock
    edits,       \* rule edits so far
    req,         \* undelivered commission.recompute.requested events
    sent,        \* events sent so far
    lost,        \* an event was never sent, or its run was given up
    failures,    \* failed runs and transactions so far
    pc,          \* where each worker is
    tries,       \* retries its current run has used
    lock,        \* holder of pg_advisory_xact_lock(sale)
    live,        \* installments the run must produce entries for
    due,         \* hold anchor of each installment, as the run read it
    plan,        \* rule, hold and version the run pairs each role with
    todo,        \* (installment, recipient) entries still to write
    cur,         \* NULL-rule entry whose locked-row check is done
    buf,         \* rows the open transaction has written
    obs          \* rows the run has found obsolete

saleVars == <<sale, refund, wanted, held, inst, collectedAt>>
ruleVars == <<rule, hist, edits>>
runVars == <<pc, tries, lock, live, due, plan, todo, cur, buf, obs>>
vars == <<saleVars, ruleVars, ent, now, req, sent, lost, failures, runVars>>

-------------------------------------------------------------------------------
(* What a transaction sees, and what blocks it.                                *)

Written(w, k) == buf[w][k].status # "unwritten"
View(w, k) == IF Written(w, k) THEN buf[w][k] ELSE ent[k]

LockedByRun(k) == \E w \in Workers : Written(w, k)
LockedFor(w, k) == k \in held \/ \E v \in Workers \ {w} : Written(v, k)

\* Mutant: a row is given a status the enum does not have.
CancelRow(row) == [row EXCEPT !.status = "canceled"]

Void(row) == [row EXCEPT !.status = "voided"]

\* pg_advisory_xact_lock(sale) can be taken ...
LockFree == lock = NoWorker

\* Mutant: a session-level lock survives the transaction.
KeepLock == lock' = lock

\* ... and ends with the transaction, however that ends.
Unlock == lock' = NoWorker

-------------------------------------------------------------------------------
(* Rule matching: select-rules.ts and the pairing loop of recompute.ts.        *)

Matched == {r \in Rules : rule[r].phase = "live" /\ rule[r].applies}

\* The rows come back in no particular order, so the "first" rule of a role is
\* any matched rule of that role, and the default any matched rule without one.
Candidates(q) ==
    LET own == {r \in Matched : rule[r].terms.role = q}
        default == {r \in Matched : rule[r].terms.role = AnyRole}
    IN  IF own # {} THEN own ELSE IF default # {} THEN default ELSE {NoRule}

Pairing == [rule : Rules \cup {NoRule}, hold : Nat, ver : Nat]
Paired(r) ==
    [rule |-> r, hold |-> IF r = NoRule THEN DefaultHold ELSE rule[r].terms.hold, ver |-> 0]

PlanOf(w, u) == plan[w][RoleOf[u]]

\* The slots an entry of recipient u may occupy under the run's plan.
PlanSlots(w, u) ==
    IF PlanOf(w, u).rule = NoRule THEN NoRuleSlots ELSE {PlanOf(w, u).rule}

\* Mutant: the rule is left out of the key of a produced entry.
SeenAnyRule(w, k) == k[1] \in live[w]

Seen(w, k) == k[1] \in live[w] /\ k[3] \in PlanSlots(w, k[2])

EntryFor(w, i, u) ==
    NewRow(PlanOf(w, u).hold, PlanOf(w, u).ver, due[w][i] + PlanOf(w, u).hold)

\* Mutant: a refunded installment still earns commission.
TerminalButRefunded == {"failed"}

\* Terminal installments get no entries; their open rows end up obsolete.
Terminal == {"failed", "refunded"}
Anchor(i) == IF inst[i] = "collected" THEN collectedAt[i] ELSE ExpectedDate[i]

-------------------------------------------------------------------------------
Init ==
    /\ sale = "absent"
    /\ refund = "none"
    /\ wanted = {}
    /\ held = {}
    /\ inst = [i \in Installments |-> "scheduled"]
    /\ collectedAt = [i \in Installments |-> 0]
    /\ rule \in [Rules -> RuleRow]
    /\ \A r \in SeedRules : rule[r].phase = "live" /\ rule[r].applies
    /\ \A r \in Rules \ SeedRules : rule[r].phase = "absent" /\ ~rule[r].applies
    /\ hist = [r \in Rules |-> IF r \in SeedRules THEN <<rule[r].terms>> ELSE <<>>]
    /\ ent = [k \in Keys |-> AbsentRow]
    /\ now = 0
    /\ edits = 0
    /\ req = 0
    /\ sent = 0
    /\ lost = FALSE
    /\ failures = 0
    /\ pc = [w \in Workers |-> "idle"]
    /\ tries = [w \in Workers |-> 0]
    /\ lock = NoWorker
    /\ live = [w \in Workers |-> {}]
    /\ due = [w \in Workers |-> ExpectedDate]
    /\ plan = [w \in Workers |-> [q \in Roles |-> [rule |-> NoRule, hold |-> 0, ver |-> 0]]]
    /\ todo = [w \in Workers |-> {}]
    /\ cur = [w \in Workers |-> {}]
    /\ buf = [w \in Workers |-> NoWrites]
    /\ obs = [w \in Workers |-> {}]

-------------------------------------------------------------------------------
(* Events and failures.                                                        *)

\* inngest.send: the event is queued, or the call fails after the domain
\* function succeeded (the tRPC error does not undo it) and the event is lost.
SendRecompute ==
    \/ /\ sent < MaxRequests
       /\ sent' = sent + 1
       /\ req' = req + 1
       /\ UNCHANGED <<lost, failures>>
    \/ /\ failures < MaxFailures
       /\ failures' = failures + 1
       /\ lost' = TRUE
       /\ UNCHANGED <<sent, req>>

\* A run starts for a queued event, or again after a failure.
TakeRequest(w) ==
    \/ pc[w] = "idle" /\ req > 0 /\ req' = req - 1
    \/ pc[w] = "retry" /\ req' = req

ForgetRun(w) ==
    /\ live' = [live EXCEPT ![w] = {}]
    /\ due' = [due EXCEPT ![w] = ExpectedDate]
    /\ plan' = [plan EXCEPT ![w] = [q \in Roles |-> [rule |-> NoRule, hold |-> 0, ver |-> 0]]]
    /\ todo' = [todo EXCEPT ![w] = {}]
    /\ cur' = [cur EXCEPT ![w] = {}]
    /\ buf' = [buf EXCEPT ![w] = NoWrites]
    /\ obs' = [obs EXCEPT ![w] = {}]

\* A throw rolls the transaction back; the platform retries the run, then the
\* .catch gives it up for good.
FailRun(w) ==
    IF tries[w] < MaxRetries
    THEN /\ pc' = [pc EXCEPT ![w] = "retry"]
         /\ tries' = [tries EXCEPT ![w] = @ + 1]
         /\ lost' = lost
    ELSE /\ pc' = [pc EXCEPT ![w] = "idle"]
         /\ tries' = [tries EXCEPT ![w] = 0]
         /\ lost' = TRUE

-------------------------------------------------------------------------------
(* The recompute transaction.                                                  *)

\* "Sale not found": the event overtook the commit of the sale.
BeginMissing(w) ==
    /\ TakeRequest(w)
    /\ LockFree
    /\ sale \in {"absent", "creating"}
    /\ FailRun(w)
    /\ UNCHANGED <<saleVars, ruleVars, ent, now, sent, failures, lock,
                   live, due, plan, todo, cur, buf, obs>>

\* A deleted sale: one update voids what is open.
BeginDeleted(w) ==
    /\ TakeRequest(w)
    /\ LockFree
    /\ sale = "deleted"
    /\ lock' = w
    /\ pc' = [pc EXCEPT ![w] = "closing"]
    /\ obs' = [obs EXCEPT ![w] = {k \in Keys : ent[k].status \in Open}]
    /\ UNCHANGED <<saleVars, ruleVars, ent, now, sent, lost, failures, tries,
                   live, due, plan, todo, cur, buf>>

\* Take the lock and read sale, recipients, installments and rules.  No writer
\* touches two of these tables in a way a single read of them all would hide.
Begin(w) ==
    /\ TakeRequest(w)
    /\ LockFree
    /\ sale \in {"live", "deleting"}
    /\ lock' = w
    /\ pc' = [pc EXCEPT ![w] = "matched"]
    /\ live' = [live EXCEPT ![w] = {i \in Installments : inst[i] \notin Terminal}]
    /\ due' = [due EXCEPT ![w] = [i \in Installments |-> Anchor(i)]]
    /\ \E pick \in [Roles -> Rules \cup {NoRule}] :
          /\ \A q \in Roles : pick[q] \in Candidates(q)
          /\ plan' = [plan EXCEPT ![w] = [q \in Roles |-> Paired(pick[q])]]
    /\ UNCHANGED <<saleVars, ruleVars, ent, now, sent, lost, failures, tries,
                   todo, cur, buf, obs>>

\* Mutant: the oldest version is taken for the latest.
OldestVersion(r) == 1

\* Mutant: the version is found by its snapshot, which an edit can bring back.
SameSnapshot(r) ==
    CHOOSE n \in 1 .. Len(hist[r]) :
        hist[r][n] = rule[r].terms /\ \A o \in 1 .. n - 1 : hist[r][o] # rule[r].terms

LatestVersion(r) == Len(hist[r])

\* snapshotRules: a statement of its own per rule, after the rules were read.
\* Every rule has a version, so its insert branch is never taken.
ReadVersions(w) ==
    /\ pc[w] = "matched"
    /\ pc' = [pc EXCEPT ![w] = "upsert"]
    /\ plan' = [plan EXCEPT ![w] = [q \in Roles |->
                  IF plan[w][q].rule = NoRule THEN plan[w][q]
                  ELSE [plan[w][q] EXCEPT !.ver = LatestVersion(plan[w][q].rule)]]]
    /\ todo' = [todo EXCEPT ![w] = live[w] \X Recipients]
    /\ UNCHANGED <<saleVars, ruleVars, ent, now, req, sent, lost, failures,
                   tries, lock, live, due, cur, buf, obs>>

\* Mutant: the upsert without its setWhere refreshes settled rows too.
UpsertAnyStatus(row, new) ==
    IF row.status = "absent" THEN new ELSE [new EXCEPT !.status = row.status]

\* INSERT .. ON CONFLICT DO UPDATE: inserts, refreshes an open row in place
\* keeping its status, and leaves any other row as it is.  All three lock it.
Upsert(row, new) ==
    CASE row.status = "absent"  -> new
      [] row.status \in Open    -> [new EXCEPT !.status = row.status]
      [] OTHER                  -> row

UpsertEntry(w, i, u) ==
    LET k == <<i, u, PlanOf(w, u).rule>>
    IN  /\ pc[w] = "upsert"
        /\ <<i, u>> \in todo[w]
        /\ PlanOf(w, u).rule # NoRule
        /\ ~LockedFor(w, k)
        /\ buf' = [buf EXCEPT ![w][k] = Upsert(View(w, k), EntryFor(w, i, u))]
        /\ todo' = [todo EXCEPT ![w] = @ \ {<<i, u>>}]
        /\ UNCHANGED <<saleVars, ruleVars, ent, now, req, sent, lost, failures,
                       pc, tries, lock, live, due, plan, cur, obs>>

\* The entry has no rule: look for a paid or clawed-back row first; with one, skip.
CheckSettled(w, i, u) ==
    /\ pc[w] = "upsert"
    /\ <<i, u>> \in todo[w]
    /\ PlanOf(w, u).rule = NoRule
    /\ todo' = [todo EXCEPT ![w] = @ \ {<<i, u>>}]
    /\ IF \E s \in NoRuleSlots : View(w, <<i, u, s>>).status \in Settled
       THEN UNCHANGED <<pc, cur>>
       ELSE /\ pc' = [pc EXCEPT ![w] = "checked"]
            /\ cur' = [cur EXCEPT ![w] = {<<i, u>>}]
    /\ UNCHANGED <<saleVars, ruleVars, ent, now, req, sent, lost, failures,
                   tries, lock, live, due, plan, buf, obs>>

\* ... then delete its open rows and insert a pending one.  Slots are interchangeable: the new
\* row takes one of those deleted or else any that is free, as a voided row's is (a voided row
\* without a rule is never read again).
ReplaceEntry(w, i, u) ==
    LET mine == {<<i, u, s>> : s \in NoRuleSlots}
        opened == {k \in mine : View(w, k).status \in Open}
        free == IF opened # {} THEN opened ELSE {k \in mine : View(w, k).status \notin Settled}
    IN  /\ pc[w] = "checked"
        /\ cur[w] = {<<i, u>>}
        /\ \A k \in opened : ~LockedFor(w, k)
        /\ free # {}
        /\ buf' = [buf EXCEPT ![w] = [k \in Keys |->
                      IF k = (CHOOSE new \in free : TRUE) THEN EntryFor(w, i, u)
                      ELSE IF k \in opened THEN AbsentRow ELSE @[k]]]
        /\ pc' = [pc EXCEPT ![w] = "upsert"]
        /\ cur' = [cur EXCEPT ![w] = {}]
        /\ UNCHANGED <<saleVars, ruleVars, ent, now, req, sent, lost, failures,
                       tries, lock, live, due, plan, todo, obs>>

SelectObsolete(w) ==
    /\ pc[w] = "upsert"
    /\ todo[w] = {}
    /\ obs' = [obs EXCEPT ![w] =
                 {k \in Keys : View(w, k).status \in Open /\ ~Seen(w, k)}]
    /\ pc' = [pc EXCEPT ![w] = "void"]
    /\ UNCHANGED <<saleVars, ruleVars, ent, now, req, sent, lost, failures,
                   tries, lock, live, due, plan, todo, cur, buf>>

\* A row without a rule is written by deleting it: an update that waits for it finds it gone,
\* and does not see the row inserted in its place.
Replaced(w, k) == k[3] \in NoRuleSlots /\ Written(w, k)

\* UPDATE .. WHERE id = row.id for one obsolete row, whatever its status is by now; the
\* update of a deleted sale's rows looks at the status again.
VoidEntry(w, k) ==
    /\ pc[w] \in {"void", "closing"}
    /\ k \in obs[w]
    /\ ~LockedFor(w, k)
    /\ obs' = [obs EXCEPT ![w] = @ \ {k}]
    /\ buf' = IF pc[w] = "void" \/ View(w, k).status \in Open
              THEN [buf EXCEPT ![w][k] = Void(View(w, k))] ELSE buf
    /\ UNCHANGED <<saleVars, ruleVars, ent, now, req, sent, lost, failures,
                   pc, tries, lock, live, due, plan, todo, cur>>

\* Telemetry and COMMIT.
CommitRun(w) ==
    /\ pc[w] \in {"void", "closing"}
    /\ obs[w] = {}
    /\ ent' = [k \in Keys |-> View(w, k)]
    /\ pc' = [pc EXCEPT ![w] = "idle"]
    /\ tries' = [tries EXCEPT ![w] = 0]
    /\ Unlock
    /\ ForgetRun(w)
    /\ wanted' = {k \in wanted : ~Replaced(w, k)}
    /\ UNCHANGED <<sale, refund, held, inst, collectedAt, ruleVars, now, req, sent, lost, failures>>

InTransaction(w) == pc[w] \in {"matched", "upsert", "checked", "void", "closing"}

\* A crash or a lost connection: the transaction rolls back.
AbortRun(w) ==
    /\ InTransaction(w)
    /\ failures < MaxFailures
    /\ failures' = failures + 1
    /\ Unlock
    /\ ForgetRun(w)
    /\ FailRun(w)
    /\ UNCHANGED <<saleVars, ruleVars, ent, now, req, sent>>

\* The rows the next statement of a run may wait for.
Needed(w) ==
    CASE pc[w] = "upsert"  -> {k \in Keys : <<k[1], k[2]>> \in todo[w] /\ k[3] = PlanOf(w, k[2]).rule}
      [] pc[w] = "checked" -> {k \in Keys : /\ <<k[1], k[2]>> \in cur[w] /\ k[3] \in NoRuleSlots
                                            /\ View(w, k).status \in Open}
      [] OTHER             -> obs[w]

\* The run waits for a row of the refund, which waits for a row of the run.
Circular(w) == (\E k \in Needed(w) : k \in held) /\ (\E k \in wanted : Written(w, k))

\* Postgres breaks the circle: it makes the run its victim, or the refund (RollbackMutation).
DeadlockVictim(w) ==
    /\ Circular(w)
    /\ Unlock
    /\ ForgetRun(w)
    /\ FailRun(w)
    /\ UNCHANGED <<saleVars, ruleVars, ent, now, req, sent, failures>>

-------------------------------------------------------------------------------
(* The sale's own transactions.  A tRPC mutation runs inside withTenant, so its
   inngest.send comes before the commit of what it announces.                   *)

SaleRowFree == sale \notin {"creating", "deleting"} /\ refund \notin {"updating", "applied"}

Refunded == \E i \in Installments : inst[i] = "refunded"

CreateSale ==
    /\ sale = "absent"
    /\ "closed" \in Stages
    /\ sale' = "creating"
    /\ SendRecompute
    /\ UNCHANGED <<refund, wanted, held, inst, collectedAt, ruleVars, ent, now, runVars>>

SoftDeleteSale ==
    /\ sale = "live"
    /\ SaleRowFree
    /\ sale' = "deleting"
    /\ SendRecompute
    /\ UNCHANGED <<refund, wanted, held, inst, collectedAt, ruleVars, ent, now, runVars>>

CommitSale ==
    /\ \/ sale = "creating" /\ sale' = "live"
       \/ sale = "deleting" /\ sale' = "deleted"
    /\ UNCHANGED <<refund, wanted, held, inst, collectedAt, ruleVars, ent, now,
                   req, sent, lost, failures, runVars>>

\* recordRefund reads the sale: present and not deleted.
ReadRefund ==
    /\ refund \in {"none", "issued"}
    /\ sale \in {"live", "deleting"}
    /\ "refunded" \in Stages
    /\ refund' = "read"
    /\ UNCHANGED <<sale, wanted, held, inst, collectedAt, ruleVars, ent, now,
                   req, sent, lost, failures, runVars>>

\* A full refund updates the sale and its installments, and begins to update every open
\* or paid row; it is blind to rows that are not committed by now.  It will send a request.
StartClawback ==
    /\ refund = "read"
    /\ SaleRowFree
    /\ sent < MaxRequests
    /\ sent' = sent + 1
    /\ refund' = "updating"
    /\ wanted' = {k \in Keys : ent[k].status \in Open \cup {"paid"}}
    /\ UNCHANGED <<sale, held, inst, collectedAt, ruleVars, ent, now, req, lost, failures, runVars>>

\* The update takes its rows one by one, in any order: it waits for one a run has written,
\* looks at its status again and keeps it until it commits.
ClawBackRow(k) ==
    /\ refund = "updating"
    /\ k \in wanted
    /\ ~LockedByRun(k)
    /\ wanted' = wanted \ {k}
    /\ held' = IF ent[k].status \in Open \cup {"paid"} THEN held \cup {k} ELSE held
    /\ UNCHANGED <<sale, refund, inst, collectedAt, ruleVars, ent, now,
                   req, sent, lost, failures, runVars>>

\* Then it records the funnel event and requests a recompute.
ApplyRefund ==
    /\ refund = "updating"
    /\ wanted = {}
    /\ refund' = "applied"
    /\ \/ /\ req' = req + 1
          /\ UNCHANGED <<lost, failures>>
       \/ /\ failures < MaxFailures
          /\ failures' = failures + 1
          /\ lost' = TRUE
          /\ UNCHANGED req
    /\ UNCHANGED <<sale, wanted, held, inst, collectedAt, ruleVars, ent, now, sent, runVars>>

CommitRefund ==
    /\ refund = "applied"
    /\ refund' = "issued"
    /\ held' = {}
    /\ inst' = [i \in Installments |-> "refunded"]
    /\ ent' = [k \in Keys |-> IF k \in held THEN [ent[k] EXCEPT !.status = "clawed_back"]
                              ELSE ent[k]]
    /\ UNCHANGED <<sale, wanted, collectedAt, ruleVars, now, req, sent, lost, failures, runVars>>

\* The process dies, or the connection does, before the commit; or Postgres makes
\* the refund the victim of a circle.
RollbackMutation ==
    /\ failures < MaxFailures
    /\ failures' = failures + 1
    /\ \/ /\ sale = "creating" /\ sale' = "absent"
          /\ UNCHANGED <<refund, wanted, held>>
       \/ /\ sale = "deleting" /\ sale' = "live"
          /\ UNCHANGED <<refund, wanted, held>>
       \/ /\ refund \in {"updating", "applied"} /\ wanted' = {} /\ held' = {}
          /\ refund' = IF Refunded THEN "issued" ELSE "none"
          /\ UNCHANGED sale
    /\ UNCHANGED <<inst, collectedAt, ruleVars, ent, now, req, sent, lost, runVars>>

\* commissions.recomputeOne, sales.linkToCall, a second softDelete: no ledger
\* write of their own.
RequestRecompute ==
    /\ sale \in {"live", "deleting", "deleted"}
    /\ SendRecompute
    /\ UNCHANGED <<saleVars, ruleVars, ent, now, runVars>>

-------------------------------------------------------------------------------
(* Rule edits: none of them requests a recompute.                              *)

CountEdit == edits < MaxEdits /\ edits' = edits + 1

\* applies: active, its effective window holds the sale's closedAt, and its
\* product and source filters accept the sale.
CreateRule(r, t, applies) ==
    /\ rule[r].phase = "absent"
    /\ CountEdit
    /\ rule' = [rule EXCEPT ![r] = [phase |-> "live", applies |-> applies, terms |-> t]]
    /\ hist' = [hist EXCEPT ![r] = <<t>>]
    /\ UNCHANGED <<saleVars, ent, now, req, sent, lost, failures, runVars>>

UpdateRule(r, t, applies) ==
    /\ rule[r].phase = "live"
    /\ CountEdit
    /\ rule' = [rule EXCEPT ![r] = [phase |-> "live", applies |-> applies, terms |-> t]]
    /\ hist' = [hist EXCEPT ![r] = Append(@, t)]
    /\ UNCHANGED <<saleVars, ent, now, req, sent, lost, failures, runVars>>

SoftDeleteRule(r) ==
    /\ rule[r].phase = "live"
    /\ CountEdit
    /\ rule' = [rule EXCEPT ![r].phase = "deleted", ![r].applies = FALSE]
    /\ UNCHANGED <<saleVars, hist, ent, now, req, sent, lost, failures, runVars>>

-------------------------------------------------------------------------------
(* The clock, the hold-release sweep, and the writers outside src/.             *)

Tick ==
    /\ now < MaxTime
    /\ now' = now + 1
    /\ UNCHANGED <<saleVars, ruleVars, ent, req, sent, lost, failures, runVars>>

\* Mutant: the hold must be over, not merely reach its last instant.
ReleasableAfter(k) == ent[k].status = "pending" /\ ent[k].until < now

Releasable(k) == ent[k].status = "pending" /\ ent[k].until <= now

\* One UPDATE: it waits for locked rows among those it matches.
ReleaseAvailableEntries ==
    /\ \E k \in Keys : Releasable(k)
    /\ \A k \in Keys : Releasable(k) => k \notin held /\ ~LockedByRun(k)
    /\ ent' = [k \in Keys |-> IF Releasable(k) THEN [ent[k] EXCEPT !.status = "available"]
                              ELSE ent[k]]
    /\ UNCHANGED <<saleVars, ruleVars, now, req, sent, lost, failures, runVars>>

\* External: the payout of an available entry.
MarkPaid(k) ==
    /\ ent[k].status = "available"
    /\ k \notin held
    /\ ~LockedByRun(k)
    /\ ent' = [ent EXCEPT ![k].status = "paid"]
    /\ UNCHANGED <<saleVars, ruleVars, now, req, sent, lost, failures, runVars>>

\* External: the payment processor collects an installment, or fails to.
CollectInstallment(i) ==
    /\ sale \in {"live", "deleting", "deleted"}
    /\ refund \notin {"updating", "applied"}
    /\ inst[i] = "scheduled"
    /\ \/ /\ inst' = [inst EXCEPT ![i] = "collected"]
          /\ collectedAt' = [collectedAt EXCEPT ![i] = now]
       \/ /\ inst' = [inst EXCEPT ![i] = "failed"]
          /\ UNCHANGED collectedAt
    /\ UNCHANGED <<sale, refund, wanted, held, ruleVars, ent, now, req, sent, lost, failures, runVars>>

-------------------------------------------------------------------------------
RunStep(w) ==
    \/ BeginMissing(w) \/ BeginDeleted(w) \/ Begin(w) \/ ReadVersions(w)
    \/ \E i \in Installments, u \in Recipients :
          UpsertEntry(w, i, u) \/ CheckSettled(w, i, u) \/ ReplaceEntry(w, i, u)
    \/ SelectObsolete(w) \/ (\E k \in Keys : VoidEntry(w, k)) \/ CommitRun(w)

SaleStep ==
    \/ CreateSale \/ SoftDeleteSale \/ CommitSale
    \/ ReadRefund \/ StartClawback \/ (\E k \in Keys : ClawBackRow(k))
    \/ ApplyRefund \/ CommitRefund \/ RollbackMutation
    \/ RequestRecompute

RuleStep ==
    \E r \in Rules :
       \/ \E t \in Terms, applies \in BOOLEAN : CreateRule(r, t, applies)
                                               \/ UpdateRule(r, t, applies)
       \/ SoftDeleteRule(r)

Next ==
    \/ \E w \in Workers : RunStep(w) \/ AbortRun(w) \/ DeadlockVictim(w)
    \/ SaleStep
    \/ RuleStep
    \/ Tick
    \/ ReleaseAvailableEntries
    \/ \E k \in Keys : MarkPaid(k)
    \/ \E i \in Installments : CollectInstallment(i)

Spec == Init /\ [][Next]_vars

(* Fairness: the platform delivers every event and reruns what failed; a
   transaction that has begun to write goes on until it commits or fails; Postgres
   breaks a circle of locks after its deadlock_timeout; time passes; Postgres
   grants a row lock in the order it was asked for, so the sweep, re-run every
   hour, gets its rows even if runs keep taking them.                           *)
FairSpec ==
    /\ Spec
    /\ \A w \in Workers : WF_vars(RunStep(w)) /\ WF_vars(DeadlockVictim(w))
    /\ WF_vars(CommitSale)
    /\ WF_vars(\E k \in Keys : ClawBackRow(k))
    /\ WF_vars(ApplyRefund)
    /\ WF_vars(CommitRefund)
    /\ WF_vars(Tick)
    /\ SF_vars(ReleaseAvailableEntries)

-------------------------------------------------------------------------------
(* Types.                                                                      *)

BufRow == Row \cup {Unwritten}

TypeOK ==
    /\ sale \in SaleStatus
    /\ refund \in RefundStatus
    /\ wanted \subseteq Keys
    /\ held \subseteq Keys
    /\ inst \in [Installments -> InstallmentStatus]
    /\ collectedAt \in [Installments -> Nat]
    /\ rule \in [Rules -> RuleRow]
    /\ hist \in [Rules -> Seq(Terms)]
    /\ ent \in [Keys -> Row]
    /\ now \in Nat
    /\ edits \in Nat
    /\ req \in Nat
    /\ sent \in Nat
    /\ lost \in BOOLEAN
    /\ failures \in Nat
    /\ pc \in [Workers -> {"idle", "retry", "matched", "upsert", "checked", "void", "closing"}]
    /\ tries \in [Workers -> Nat]
    /\ lock \in Workers \cup {NoWorker}
    /\ live \in [Workers -> SUBSET Installments]
    /\ due \in [Workers -> [Installments -> Nat]]
    /\ plan \in [Workers -> [Roles -> Pairing]]
    /\ todo \in [Workers -> SUBSET (Installments \X Recipients)]
    /\ cur \in [Workers -> SUBSET (Installments \X Recipients)]
    /\ buf \in [Workers -> [Keys -> BufRow]]
    /\ obs \in [Workers -> SUBSET Keys]

-------------------------------------------------------------------------------
(* Safety.                                                                     *)

SameEntry(k, l) == k[1] = l[1] /\ k[2] = l[2]

\* A recipient never has two open entries for one installment, whatever rules
\* came and went and however runs overlap: two of them would both be released
\* and paid.  Each run voids what it did not produce, under the per-sale lock
\* (recompute.ts:60-62, 300-333).
OneOpenEntry ==
    \A k, l \in Keys :
        SameEntry(k, l) /\ ent[k].status \in Open /\ ent[l].status \in Open => k = l

\* Money that moved is not undone by the engine: a paid or clawed-back row stays as it is
\* (the setWhere of recompute.ts:295, the check of recompute.ts:208-222) until a refund claws
\* it back, save one a run selected while it was open: its update is by id and voids what has
\* been paid or clawed back since (recompute.ts:331, against line 11).
SettledKept ==
    [][\A k \in Keys : ent[k].status \in Settled =>
          \/ ent'[k] = ent[k]
          \/ k \in held /\ ent'[k] = [ent[k] EXCEPT !.status = "clawed_back"]
          \/ /\ \E w \in Workers : /\ pc[w] = "void" /\ pc'[w] = "idle"
                                   /\ Written(w, k) /\ ~Seen(w, k)
             /\ ent'[k] = Void(ent[k])]_ent

\* The hold an entry was computed with is that of the version it cites or of an
\* earlier one, made for its recipient's role: a rule edit may overtake a run
\* but a run never invents terms (select-rules.ts:100-139).
TermsTraceable ==
    \A i \in Installments, u \in Recipients, r \in Rules :
        LET row == ent[<<i, u, r>>]
        IN  row.status # "absent" =>
                \E n \in 1 .. row.ver :
                    /\ n <= Len(hist[r])
                    /\ hist[r][n].role \in {RoleOf[u], AnyRole}
                    /\ hist[r][n].hold = row.hold

\* Runs serialize: an entry is never recomputed from an older rule version than
\* the one it already cites.
VersionsAdvance ==
    [][\A k \in Keys : ent[k].status # "absent" /\ k[3] \in Rules =>
          ent'[k].ver >= ent[k].ver]_ent

\* Who waits for a row waits for somebody who goes on, or for a circle Postgres breaks: a run
\* waits for the refund only, which commits, finishes, takes a row nobody has, or waits for
\* rows of that very run while it needs one of the refund's (recompute.ts:60-62,
\* sales/index.ts:673-743).  The advisory lock is never left with a run that has ended.
WaitsEnd ==
    \A w \in Workers :
        /\ lock = w => InTransaction(w)
        /\ (\E k \in Needed(w) : LockedFor(w, k)) =>
              \/ refund = "applied"
              \/ /\ refund = "updating"
                 /\ wanted = {} \/ (\E k \in wanted : ~LockedByRun(k)) \/ Circular(w)

-------------------------------------------------------------------------------
(* Liveness.                                                                   *)

Elapsed(i, u) ==
    \E s \in Slots : ent[<<i, u, s>>].status = "pending" /\ ent[<<i, u, s>>].until <= now
NoOpenEntry == \A k \in Keys : ent[k].status \notin Open

\* A request still queued once a sale is deleted or fully refunded closes its
\* ledger for good, even while older runs are in flight or are retried
\* (recompute.ts:80-104, 188-193).
ClosedSaleSettles ==
    (sale = "deleted" \/ Refunded) /\ req > 0 ~> [](NoOpenEntry \/ lost)

\* A closed sale is settled for good once it has no open entry and no run is left that read
\* it before: no edit of a rule, later run, retry, release or payout opens one again.  A run
\* that reads the closed sale gets it there when it commits (recompute.ts:80-104, 188-193).
Closed == sale = "deleted" \/ Refunded
ReadEarlier(w) == InTransaction(w) /\ live[w] # {}
SettledForGood == Closed /\ NoOpenEntry /\ \A w \in Workers : ~ReadEarlier(w)

ClosingSettles ==
    [][/\ SettledForGood => SettledForGood'
       /\ \A w \in Workers :
             Closed /\ CommitRun(w) /\ ~ReadEarlier(w)
                 => SettledForGood']_vars

\* A pending entry whose hold has elapsed is released, voided, clawed back, or
\* given a later date; none is forgotten (recompute.ts:360-374).
HoldsEnd == \A i \in Installments, u \in Recipients : Elapsed(i, u) ~> ~Elapsed(i, u)

\* Every run ends: no run waits forever for the lock or for rows a refund has
\* locked, and the refund never waits forever for the run.
RunsEnd == \A w \in Workers : pc[w] # "idle" ~> pc[w] = "idle"

-------------------------------------------------------------------------------
(* What the comments promise and the code does not keep.                       *)

\* sales/index.ts:608-611: the recompute is dispatched after the commit, so once
\* every request of a deleted sale has been run nothing is open.
Quiet == req = 0 /\ ~lost /\ \A w \in Workers : pc[w] = "idle"
DeletedSaleSettled == sale = "deleted" /\ Quiet => NoOpenEntry
===============================================================================
