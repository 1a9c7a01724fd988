------------------------- MODULE WebhookInboxProofs -------------------------
(* Proofs about WebhookInbox, for every feed, workspace and number of runs.   *)
EXTENDS WebhookInbox, FiniteSetTheorems, TLAPS

LEMMA FeedIsTyped ==
    ASSUME NEW n \in 1 .. Len(Feed)
    PROVE  Feed[n].type \in Types /\ Feed[n].valid \in BOOLEAN
<1> DEFINE S == [type : STRING, status : STRING, valid : BOOLEAN]
<1>1. Feed \in Seq(S)
  BY InboxAssumption
<1>2. Feed[n] \in S
  <2> HIDE DEF S
  <2>1. QED
    BY <1>1
<1>3. QED
  BY <1>2 DEF Types

LEMMA RowsAreRows == \A r \in InboxRow : r # NoRow /\ r.type \in Types
  BY InboxAssumption DEF InboxRow, NoRow

-----------------------------------------------------------------------------
(* The rows only grow.                                                        *)

RowsTyped == inbox \in [Types -> InboxRow \cup {NoRow}]

RowsGrow == RowsTyped' /\ RowsNamed' /\ Accepted \subseteq Accepted'

LEMMA UnchangedRows ==
    ASSUME RowsTyped, RowsNamed, UNCHANGED inbox
    PROVE  RowsGrow
  BY DEF RowsTyped, RowsNamed, RowsGrow, Accepted

LEMMA WrittenRow ==
    ASSUME RowsTyped, RowsNamed, NEW t \in Types, NEW r \in InboxRow, r.type = t,
           inbox' = [inbox EXCEPT ![t] = r]
    PROVE  RowsGrow /\ t \in Accepted'
  BY RowsAreRows DEF RowsTyped, RowsNamed, RowsGrow, Accepted

LEMMA StoredRow ==
    ASSUME RowsTyped, RowsNamed, NEW p \in Payload, StoreOnce(p)
    PROVE  RowsGrow /\ p.type \in Accepted'
<1>1. p.type \in Types /\ Store(p) \in InboxRow /\ Store(p).type = p.type
  BY DEF Payload, Store, InboxRow
<1>2. CASE inbox[p.type] = NoRow
  <2>1. inbox' = [inbox EXCEPT ![p.type] = Store(p)]
    BY <1>2 DEF StoreOnce
  <2>2. QED
    BY <1>1, <2>1, WrittenRow
<1>3. CASE inbox[p.type] # NoRow
  <2>1. UNCHANGED inbox
    BY <1>1, <1>3 DEF StoreOnce, RowsTyped
  <2>2. QED
    BY <1>1, <1>3, <2>1, UnchangedRows DEF RowsGrow, Accepted
<1>4. QED
  BY <1>2, <1>3

LEMMA EditedRow ==
    ASSUME RowsTyped, RowsNamed, NEW t \in Accepted, NEW done \in BOOLEAN,
           NEW failed \in BOOLEAN, SetRow(t, done, failed)
    PROVE  RowsGrow
<1> DEFINE r == [inbox[t] EXCEPT !.processed = done, !.error = failed]
<1>1. t \in Types /\ inbox[t] \in InboxRow /\ inbox[t].type = t
  BY DEF Accepted, RowsTyped, RowsNamed
<1>2. r \in InboxRow /\ r.type = t
  BY <1>1 DEF InboxRow
<1>3. inbox' = [inbox EXCEPT ![t] = r]
  BY DEF SetRow
<1> HIDE DEF r
<1>4. QED
  BY <1>1, <1>2, <1>3, WrittenRow

-----------------------------------------------------------------------------
(* A step that leaves the runs alone, and a step of one run.                  *)

LEMMA RunsIdle ==
    ASSUME RunsAreAccepted, Accepted \subseteq Accepted', UNCHANGED <<runVars, applied>>
    PROVE  RunsAreAccepted'
  BY DEF RunsAreAccepted, runVars

LEMMA OneRun ==
    ASSUME RunsAreAccepted, Accepted \subseteq Accepted', applied \subseteq applied',
           NEW w \in Workers,
           \A v \in Workers \ {w} : pc'[v] = pc[v] /\ job'[v] = job[v],
           pc'[w] # "idle" => job'[w] \in InboxRow /\ job'[w].type \in Accepted',
           pc'[w] = "ignoring" => ~Handled(job'[w].type),
           pc'[w] = "applied" => job'[w].type \in applied'
    PROVE  RunsAreAccepted'
  BY DEF RunsAreAccepted

LEMMA EndedRun ==
    ASSUME RunsTyped, CallsTyped, RunsAreAccepted, Accepted \subseteq Accepted',
           NEW w \in Workers, EndRun(w), UNCHANGED <<calls, applied>>
    PROVE  RunsTyped' /\ RunsAreAccepted'
<1>1. pc'[w] = "idle" /\ \A v \in Workers \ {w} : pc'[v] = pc[v] /\ job'[v] = job[v]
  BY DEF RunsTyped, EndRun, Goto
<1>2. RunsAreAccepted'
  BY <1>1, OneRun
<1>3. Len(calls) \in Nat
  BY DEF CallsTyped
<1>4. RunsTyped'
  BY <1>3 DEF RunsTyped, EndRun, Goto
<1>5. QED
  BY <1>2, <1>4

LEMMA RerunRun ==
    ASSUME RunsTyped, CallsTyped, RunsAreAccepted, Accepted \subseteq Accepted',
           NEW w \in Workers, pc[w] # "idle", Rerun(w), UNCHANGED <<calls, applied>>
    PROVE  RunsTyped' /\ RunsAreAccepted' /\ lost' \subseteq lost \cup {job[w].type}
<1>1. CASE tries[w] < MaxRetries
  <2>1. /\ pc' = [pc EXCEPT ![w] = "ready"]
        /\ found' = [found EXCEPT ![w] = 0]
        /\ tries' = [tries EXCEPT ![w] = @ + 1]
        /\ UNCHANGED <<job, lost>>
    BY <1>1 DEF Rerun, Goto
  <2>2. \A v \in Workers \ {w} : pc'[v] = pc[v] /\ job'[v] = job[v]
    BY <2>1 DEF RunsTyped
  <2>3. pc'[w] = "ready" /\ job'[w] \in InboxRow /\ job'[w].type \in Accepted'
    BY <2>1 DEF RunsTyped, RunsAreAccepted
  <2>4. RunsAreAccepted'
    BY <2>2, <2>3, OneRun
  <2>5. Len(calls) \in Nat
    BY DEF CallsTyped
  <2>6. RunsTyped'
    BY <2>1, <2>5 DEF RunsTyped
  <2>7. QED
    BY <2>1, <2>4, <2>6
<1>2. CASE ~(tries[w] < MaxRetries)
  <2>1. EndRun(w) /\ lost' = lost \cup {job[w].type}
    BY <1>2 DEF Rerun
  <2>2. QED
    BY <2>1, EndedRun
<1>3. QED
  BY <1>1, <1>2

-----------------------------------------------------------------------------
(* Each step preserves the invariant.                                         *)

LEMMA ReportInv ==
    ASSUME InboxInv, Report
    PROVE  InboxInv'
<1>1. reported < Len(Feed) => Feed[reported + 1].type \in Types /\ Feed[reported + 1].valid \in BOOLEAN
  BY FeedIsTyped, InboxAssumption DEF InboxInv, TypeOK, FeedTyped
<1>2. RowsGrow
  BY UnchangedRows DEF InboxInv, TypeOK, InboxTyped, RowsTyped, Report
<1>3. FeedTyped' /\ BackfillTyped' /\ CallsTyped'
  BY <1>1, InboxAssumption DEF InboxInv, TypeOK, FeedTyped, BackfillTyped, CallsTyped,
         Payload, feedVars, Report
<1>4. InboxTyped'
  BY <1>1, <1>2, RowsAreRows DEF RowsGrow, RowsTyped, InboxInv, TypeOK, InboxTyped, Report
<1>5. WorkIsAccepted' /\ BackfillIsAccepted'
  BY <1>1, <1>2 DEF RowsGrow, WorkIsAccepted, BackfillIsAccepted, InboxInv, TypeOK,
         InboxTyped, feedVars, Report
<1>6. RunsTyped' /\ RunsAreAccepted'
  BY <1>2, RunsIdle DEF RowsGrow, InboxInv, TypeOK, RunsTyped, runVars, Report
<1>7. QED
  BY <1>2, <1>3, <1>4, <1>5, <1>6 DEF RowsGrow, InboxInv, TypeOK

LEMMA ReceiveInv ==
    ASSUME InboxInv, NEW p \in out, Receive(p)
    PROVE  InboxInv'
<1>1. p \in Payload
  BY DEF InboxInv, TypeOK, FeedTyped
<1>2. p.type \in Accepted'
  BY <1>1, StoredRow DEF InboxInv, TypeOK, InboxTyped, RowsTyped, Receive
<1>3. RowsGrow
  BY <1>1, <1>2, StoredRow DEF InboxInv, TypeOK, InboxTyped, RowsTyped, Receive
<1>4. FeedTyped' /\ BackfillTyped' /\ CallsTyped'
  BY <1>1, <1>2, InboxAssumption DEF InboxInv, TypeOK, FeedTyped, BackfillTyped,
         CallsTyped, feedVars, Receive
<1>5. InboxTyped'
  BY <1>1, <1>2, <1>3, RowsAreRows DEF RowsGrow, RowsTyped, InboxInv, TypeOK, InboxTyped,
         Receive
<1>6. WorkIsAccepted' /\ BackfillIsAccepted'
  BY <1>1, <1>2, <1>3 DEF RowsGrow, WorkIsAccepted, BackfillIsAccepted, InboxInv, TypeOK,
         InboxTyped, feedVars, Receive
<1>7. RunsTyped' /\ RunsAreAccepted'
  BY <1>3, RunsIdle DEF RowsGrow, InboxInv, TypeOK, RunsTyped, runVars, Receive
<1>8. QED
  BY <1>3, <1>4, <1>5, <1>6, <1>7 DEF RowsGrow, InboxInv, TypeOK

LEMMA AcknowledgeInv ==
    ASSUME InboxInv, NEW p \in out, Acknowledge(p)
    PROVE  InboxInv'
<1>1. p.type \in Accepted /\ p.type \in Types
  BY DEF InboxInv, WorkIsAccepted, Accepted, Acknowledge
<1>2. RowsGrow
  BY UnchangedRows DEF InboxInv, TypeOK, InboxTyped, RowsTyped, Acknowledge
<1>3. FeedTyped' /\ BackfillTyped' /\ CallsTyped'
  BY <1>1, InboxAssumption DEF InboxInv, TypeOK, FeedTyped, BackfillTyped, CallsTyped,
         feedVars, Acknowledge, Enqueue
<1>4. InboxTyped'
  BY <1>1, <1>2, RowsAreRows DEF RowsGrow, RowsTyped, InboxInv, TypeOK, InboxTyped,
         Acknowledge, Enqueue
<1>5. WorkIsAccepted' /\ BackfillIsAccepted'
  BY <1>1, <1>2 DEF RowsGrow, WorkIsAccepted, BackfillIsAccepted, InboxInv, TypeOK,
         InboxTyped, feedVars, Acknowledge, Enqueue
<1>6. RunsTyped' /\ RunsAreAccepted'
  BY <1>2, RunsIdle DEF RowsGrow, InboxInv, TypeOK, RunsTyped, runVars, Acknowledge
<1>7. QED
  BY <1>2, <1>3, <1>4, <1>5, <1>6 DEF RowsGrow, InboxInv, TypeOK

LEMMA ReceiverFailsInv ==
    ASSUME InboxInv, NEW p \in out, ReceiverFails(p)
    PROVE  InboxInv'
<1>1. RowsGrow
  BY UnchangedRows DEF InboxInv, TypeOK, InboxTyped, RowsTyped, ReceiverFails
<1>2. FeedTyped' /\ BackfillTyped' /\ CallsTyped'
  BY InboxAssumption DEF InboxInv, TypeOK, FeedTyped, BackfillTyped, CallsTyped, feedVars,
         ReceiverFails, Fail
<1>3. InboxTyped'
  BY <1>1, RowsAreRows DEF RowsGrow, RowsTyped, InboxInv, TypeOK, InboxTyped,
         ReceiverFails, Fail
<1>4. WorkIsAccepted' /\ BackfillIsAccepted'
  BY <1>1 DEF RowsGrow, WorkIsAccepted, BackfillIsAccepted, InboxInv, TypeOK, InboxTyped,
         feedVars, ReceiverFails, Fail
<1>5. RunsTyped' /\ RunsAreAccepted'
  BY <1>1, RunsIdle DEF RowsGrow, InboxInv, TypeOK, RunsTyped, runVars, ReceiverFails
<1>6. QED
  BY <1>1, <1>2, <1>3, <1>4, <1>5 DEF RowsGrow, InboxInv, TypeOK

LEMMA ConnectInv ==
    ASSUME InboxInv, Connect
    PROVE  InboxInv'
<1>1. \/ Provider = "gohighlevel" /\ backfill' = [backfill EXCEPT !.at = "requested"]
      \/ UNCHANGED backfill
  BY DEF Connect
<1>2. BackfillTyped'
  BY <1>1 DEF InboxInv, TypeOK, BackfillTyped, Connect
<1>3. failures' \in Nat
  BY DEF InboxInv, TypeOK, FeedTyped, Connect, Fail
<1>4. RowsGrow
  BY UnchangedRows DEF InboxInv, TypeOK, InboxTyped, RowsTyped, Connect
<1>5. FeedTyped' /\ BackfillTyped' /\ CallsTyped'
  BY <1>1, <1>2, <1>3, InboxAssumption DEF InboxInv, TypeOK, FeedTyped, BackfillTyped,
         CallsTyped, feedVars, Connect, Fail
<1>6. InboxTyped'
  BY <1>1, <1>2, <1>3, <1>4, RowsAreRows DEF RowsGrow, RowsTyped, InboxInv, TypeOK,
         InboxTyped, Connect, Fail
<1>7. WorkIsAccepted' /\ BackfillIsAccepted'
  BY <1>1, <1>2, <1>3, <1>4 DEF RowsGrow, WorkIsAccepted, BackfillIsAccepted, InboxInv,
         TypeOK, BackfillTyped, InboxTyped, feedVars, Connect, Fail
<1>8. RunsTyped' /\ RunsAreAccepted'
  BY <1>4, RunsIdle DEF RowsGrow, InboxInv, TypeOK, RunsTyped, runVars, Connect
<1>9. QED
  BY <1>4, <1>5, <1>6, <1>7, <1>8 DEF RowsGrow, InboxInv, TypeOK

LEMMA ListAppointmentsInv ==
    ASSUME InboxInv, ListAppointments
    PROVE  InboxInv'
<1>1. \/ reported > 0 /\ backfill' = [backfill EXCEPT !.at = "listed", !.ver = reported]
      \/ backfill' = [backfill EXCEPT !.at = "done"]
  BY DEF ListAppointments
<1>2. BackfillTyped'
  BY <1>1 DEF InboxInv, TypeOK, BackfillTyped, FeedTyped, ListAppointments
<1>3. failures' \in Nat
  BY DEF InboxInv, TypeOK, FeedTyped, ListAppointments, Fail
<1>4. RowsGrow
  BY UnchangedRows DEF InboxInv, TypeOK, InboxTyped, RowsTyped, ListAppointments
<1>5. FeedTyped' /\ BackfillTyped' /\ CallsTyped'
  BY <1>1, <1>2, <1>3, InboxAssumption DEF InboxInv, TypeOK, FeedTyped, BackfillTyped,
         CallsTyped, feedVars, ListAppointments, Fail
<1>6. InboxTyped'
  BY <1>1, <1>2, <1>3, <1>4, RowsAreRows DEF RowsGrow, RowsTyped, InboxInv, TypeOK,
         InboxTyped, ListAppointments, Fail
<1>7. WorkIsAccepted' /\ BackfillIsAccepted'
  BY <1>1, <1>2, <1>3, <1>4 DEF RowsGrow, WorkIsAccepted, BackfillIsAccepted, InboxInv,
         TypeOK, BackfillTyped, InboxTyped, feedVars, ListAppointments, Fail
<1>8. RunsTyped' /\ RunsAreAccepted'
  BY <1>4, RunsIdle DEF RowsGrow, InboxInv, TypeOK, RunsTyped, runVars, ListAppointments
<1>9. QED
  BY <1>4, <1>5, <1>6, <1>7, <1>8 DEF RowsGrow, InboxInv, TypeOK

LEMMA StoreListedInv ==
    ASSUME InboxInv, StoreListed
    PROVE  InboxInv'
<1>1. CreateType \in Types
  BY DEF InboxInv, BackfillIsAccepted, StoreListed, Types
<1>2. backfill.ver \in 1 .. Len(Feed)
  BY DEF InboxInv, BackfillIsAccepted, TypeOK, BackfillTyped, StoreListed
<1>3. [type |-> CreateType, ver |-> backfill.ver, valid |-> TRUE] \in Payload
  BY <1>1, <1>2 DEF Payload
<1>4. CreateType \in Accepted'
  BY <1>3, StoredRow DEF InboxInv, TypeOK, InboxTyped, RowsTyped, StoreListed
<1>5. RowsGrow
  BY <1>1, <1>2, <1>3, <1>4, StoredRow DEF InboxInv, TypeOK, InboxTyped, RowsTyped,
         StoreListed
<1>6. FeedTyped' /\ BackfillTyped' /\ CallsTyped'
  BY <1>1, <1>2, <1>3, <1>4, InboxAssumption DEF InboxInv, TypeOK, FeedTyped,
         BackfillTyped, CallsTyped, feedVars, StoreListed
<1>7. InboxTyped'
  BY <1>1, <1>2, <1>3, <1>4, <1>5, RowsAreRows DEF RowsGrow, RowsTyped, InboxInv, TypeOK,
         InboxTyped, StoreListed
<1>8. WorkIsAccepted' /\ BackfillIsAccepted'
  BY <1>1, <1>2, <1>3, <1>4, <1>5 DEF RowsGrow, WorkIsAccepted, BackfillIsAccepted,
         InboxInv, TypeOK, InboxTyped, feedVars, StoreListed
<1>9. RunsTyped' /\ RunsAreAccepted'
  BY <1>5, RunsIdle DEF RowsGrow, InboxInv, TypeOK, RunsTyped, runVars, StoreListed
<1>10. QED
  BY <1>5, <1>6, <1>7, <1>8, <1>9 DEF RowsGrow, InboxInv, TypeOK

LEMMA SendListedInv ==
    ASSUME InboxInv, SendListed
    PROVE  InboxInv'
<1>1. CreateType \in Accepted /\ CreateType \in Types
  BY DEF InboxInv, BackfillIsAccepted, Accepted, SendListed
<1>2. RowsGrow
  BY UnchangedRows DEF InboxInv, TypeOK, InboxTyped, RowsTyped, SendListed
<1>3. FeedTyped' /\ BackfillTyped' /\ CallsTyped'
  BY <1>1, InboxAssumption DEF InboxInv, TypeOK, FeedTyped, BackfillTyped, CallsTyped,
         feedVars, SendListed, Enqueue
<1>4. InboxTyped'
  BY <1>1, <1>2, RowsAreRows DEF RowsGrow, RowsTyped, InboxInv, TypeOK, InboxTyped,
         SendListed, Enqueue
<1>5. WorkIsAccepted' /\ BackfillIsAccepted'
  BY <1>1, <1>2 DEF RowsGrow, WorkIsAccepted, BackfillIsAccepted, InboxInv, TypeOK,
         InboxTyped, feedVars, SendListed, Enqueue
<1>6. RunsTyped' /\ RunsAreAccepted'
  BY <1>2, RunsIdle DEF RowsGrow, InboxInv, TypeOK, RunsTyped, runVars, SendListed
<1>7. QED
  BY <1>2, <1>3, <1>4, <1>5, <1>6 DEF RowsGrow, InboxInv, TypeOK

LEMMA BackfillFailsInv ==
    ASSUME InboxInv, BackfillFails
    PROVE  InboxInv'
<1>1. CreateType \in Types /\ backfill.ver > 0
  BY DEF InboxInv, BackfillIsAccepted, BackfillFails, Types
<1>2. \/ backfill' = [backfill EXCEPT !.at = "listed", !.tries = @ + 1] /\ UNCHANGED lost
      \/ backfill' = [backfill EXCEPT !.at = "done"] /\ lost' = lost \cup {CreateType}
  BY DEF BackfillFails
<1>3. BackfillTyped'
  <2>1. /\ backfill \in [at : {"none", "requested", "listed", "stored", "done"},
                         ver : 0 .. Len(Feed), tries : Nat]
        /\ backfill.tries + 1 \in Nat
        /\ connected' \in BOOLEAN
    BY DEF InboxInv, TypeOK, BackfillTyped, BackfillFails
  <2>2. CASE backfill' = [backfill EXCEPT !.at = "listed", !.tries = @ + 1]
    BY <2>1, <2>2 DEF BackfillTyped
  <2>3. CASE backfill' = [backfill EXCEPT !.at = "done"]
    BY <2>1, <2>3 DEF BackfillTyped
  <2>4. QED
    BY <1>2, <2>2, <2>3
<1>4. failures' \in Nat
  BY DEF InboxInv, TypeOK, FeedTyped, BackfillFails, Fail
<1>5. RowsGrow
  BY UnchangedRows DEF InboxInv, TypeOK, InboxTyped, RowsTyped, BackfillFails
<1>6. FeedTyped' /\ BackfillTyped' /\ CallsTyped'
  BY <1>1, <1>2, <1>3, <1>4, InboxAssumption DEF InboxInv, TypeOK, FeedTyped,
         BackfillTyped, CallsTyped, feedVars, BackfillFails, Fail
<1>7. InboxTyped'
  BY <1>1, <1>2, <1>3, <1>4, <1>5, RowsAreRows DEF RowsGrow, RowsTyped, InboxInv, TypeOK,
         InboxTyped, BackfillFails, Fail
<1>8. WorkIsAccepted' /\ BackfillIsAccepted'
  BY <1>1, <1>2, <1>3, <1>4, <1>5 DEF RowsGrow, WorkIsAccepted, BackfillIsAccepted,
         InboxInv, TypeOK, BackfillTyped, InboxTyped, feedVars, BackfillFails, Fail
<1>9. RunsTyped' /\ RunsAreAccepted'
  BY <1>5, RunsIdle DEF RowsGrow, InboxInv, TypeOK, RunsTyped, runVars, BackfillFails
<1>10. QED
  BY <1>5, <1>6, <1>7, <1>8, <1>9 DEF RowsGrow, InboxInv, TypeOK

LEMMA ResetRowInv ==
    ASSUME InboxInv, NEW t \in Types, ResetRow(t)
    PROVE  InboxInv'
<1>1. t \in Accepted
  BY DEF ResetRow, Accepted
<1>2. RowsGrow
  BY <1>1, EditedRow DEF InboxInv, TypeOK, InboxTyped, RowsTyped, ResetRow
<1>3. FeedTyped' /\ BackfillTyped' /\ CallsTyped'
  BY <1>1, InboxAssumption DEF InboxInv, TypeOK, FeedTyped, BackfillTyped, CallsTyped,
         feedVars, ResetRow
<1>4. InboxTyped'
  BY <1>1, <1>2, RowsAreRows DEF RowsGrow, RowsTyped, InboxInv, TypeOK, InboxTyped,
         Accepted, ResetRow
<1>5. WorkIsAccepted' /\ BackfillIsAccepted'
  BY <1>1, <1>2 DEF RowsGrow, WorkIsAccepted, BackfillIsAccepted, InboxInv, TypeOK,
         InboxTyped, feedVars, ResetRow
<1>6. RunsTyped' /\ RunsAreAccepted'
  BY <1>2, RunsIdle DEF RowsGrow, InboxInv, TypeOK, RunsTyped, runVars, ResetRow
<1>7. QED
  BY <1>2, <1>3, <1>4, <1>5, <1>6 DEF RowsGrow, InboxInv, TypeOK

LEMMA SendReplayInv ==
    ASSUME InboxInv, NEW t \in Types, SendReplay(t)
    PROVE  InboxInv'
<1>1. t \in Accepted
  BY DEF InboxInv, WorkIsAccepted, SendReplay
<1>2. t \in Types /\ (UNCHANGED queue \/ queue' = [queue EXCEPT ![t] = @ + 1])
  BY DEF SendReplay, Enqueue
<1>3. lost' \subseteq Types
  BY DEF SendReplay, InboxInv, TypeOK, InboxTyped
<1>4. RowsGrow
  BY UnchangedRows DEF InboxInv, TypeOK, InboxTyped, RowsTyped, SendReplay
<1>5. FeedTyped' /\ BackfillTyped' /\ CallsTyped'
  BY <1>1, <1>2, <1>3, InboxAssumption DEF InboxInv, TypeOK, FeedTyped, BackfillTyped,
         CallsTyped, feedVars, SendReplay, Enqueue, Fail
<1>6. InboxTyped'
  BY <1>1, <1>2, <1>3, <1>4, RowsAreRows DEF RowsGrow, RowsTyped, InboxInv, TypeOK,
         InboxTyped, SendReplay, Enqueue, Fail
<1>7. WorkIsAccepted' /\ BackfillIsAccepted'
  BY <1>1, <1>2, <1>3, <1>4 DEF RowsGrow, WorkIsAccepted, BackfillIsAccepted, InboxInv,
         TypeOK, InboxTyped, feedVars, SendReplay, Enqueue, Fail
<1>8. RunsTyped' /\ RunsAreAccepted'
  BY <1>4, RunsIdle DEF RowsGrow, InboxInv, TypeOK, RunsTyped, runVars, SendReplay
<1>9. QED
  BY <1>4, <1>5, <1>6, <1>7, <1>8 DEF RowsGrow, InboxInv, TypeOK

LEMMA TakeInv ==
    ASSUME InboxInv, NEW w \in Workers, NEW t \in Types, Take(w, t)
    PROVE  InboxInv'
<1>1. t \in Accepted /\ inbox[t] \in InboxRow /\ inbox[t].type = t
  BY DEF InboxInv, TypeOK, InboxTyped, WorkIsAccepted, Accepted, RowsNamed, Take
<1>2. RowsGrow
  BY UnchangedRows DEF InboxInv, TypeOK, InboxTyped, RowsTyped, Take
<1>3. FeedTyped' /\ BackfillTyped' /\ CallsTyped'
  BY <1>1, InboxAssumption DEF InboxInv, TypeOK, FeedTyped, BackfillTyped, CallsTyped,
         feedVars, Take
<1>4. InboxTyped'
  BY <1>1, <1>2, RowsAreRows DEF RowsGrow, RowsTyped, InboxInv, TypeOK, InboxTyped, Take
<1>5. WorkIsAccepted' /\ BackfillIsAccepted'
  BY <1>1, <1>2 DEF RowsGrow, WorkIsAccepted, BackfillIsAccepted, InboxInv, TypeOK,
         InboxTyped, feedVars, Take
<1>6. RunsTyped' /\ RunsAreAccepted'
  <2>1. \A v \in Workers \ {w} : pc'[v] = pc[v] /\ job'[v] = job[v]
    BY DEF InboxInv, TypeOK, RunsTyped, Take, Goto
  <2>2. /\ pc'[w] # "idle" => job'[w] \in InboxRow /\ job'[w].type \in Accepted'
        /\ pc'[w] = "ignoring" => ~Handled(job'[w].type)
        /\ pc'[w] = "applied" => job'[w].type \in applied'
    BY <1>1, <1>2 DEF RowsGrow, InboxInv, TypeOK, RunsTyped, RunsAreAccepted, Take, Goto
  <2>3. RunsAreAccepted'
    BY <1>2, <2>1, <2>2, OneRun DEF RowsGrow, InboxInv, Take
  <2>4. RunsTyped'
    BY <1>1, <1>2 DEF InboxInv, TypeOK, CallsTyped, RunsTyped, InboxTyped, InboxRow, Take,
           Goto
  <2>5. QED
    BY <2>3, <2>4
<1>7. QED
  BY <1>2, <1>3, <1>4, <1>5, <1>6 DEF RowsGrow, InboxInv, TypeOK

LEMMA LoadInv ==
    ASSUME InboxInv, NEW w \in Workers, Load(w)
    PROVE  InboxInv'
<1>1. pc[w] = "ready" /\ job[w].type \in Accepted
  BY DEF InboxInv, RunsAreAccepted, Load
<1>2. inbox[job[w].type] \in InboxRow /\ inbox[job[w].type].type = job[w].type
  BY <1>1 DEF InboxInv, TypeOK, InboxTyped, Accepted, RowsNamed
<1>3. RowsGrow
  BY UnchangedRows DEF InboxInv, TypeOK, InboxTyped, RowsTyped, Load
<1>4. FeedTyped' /\ BackfillTyped' /\ CallsTyped'
  BY <1>1, <1>2, InboxAssumption DEF InboxInv, TypeOK, FeedTyped, BackfillTyped,
         CallsTyped, feedVars, Load
<1>5. InboxTyped'
  BY <1>1, <1>2, <1>3, RowsAreRows DEF RowsGrow, RowsTyped, InboxInv, TypeOK, InboxTyped,
         Load
<1>6. WorkIsAccepted' /\ BackfillIsAccepted'
  BY <1>1, <1>2, <1>3 DEF RowsGrow, WorkIsAccepted, BackfillIsAccepted, InboxInv, TypeOK,
         InboxTyped, feedVars, Load
<1>7. RunsTyped' /\ RunsAreAccepted'
  <2> DEFINE row == inbox[job[w].type]
  <2>1. CASE row.processed
    <3>1. EndRun(w) /\ UNCHANGED <<calls, applied>>
      BY <2>1 DEF Load
    <3>2. QED
      BY <1>3, <3>1, EndedRun DEF RowsGrow, InboxInv, TypeOK
  <2>2. CASE ~row.processed
    <3>1. PICK l \in {"rejecting", "ignoring", "loaded"} :
             /\ pc' = [pc EXCEPT ![w] = l]
             /\ job' = [job EXCEPT ![w] = row]
             /\ l = "ignoring" => ~Handled(row.type)
             /\ UNCHANGED <<found, tries, calls, applied>>
      BY <2>2 DEF Load, Goto
    <3>2. \A v \in Workers \ {w} : pc'[v] = pc[v] /\ job'[v] = job[v]
      BY <3>1 DEF InboxInv, TypeOK, RunsTyped
    <3>3. pc'[w] = l /\ job'[w] = row
      BY <3>1 DEF InboxInv, TypeOK, RunsTyped
    <3>4. RunsAreAccepted'
      BY <1>3, <1>1, <1>2, <3>1, <3>2, <3>3, OneRun DEF RowsGrow, InboxInv
    <3>5. RunsTyped'
      BY <1>2, <3>1 DEF InboxInv, TypeOK, RunsTyped
    <3>6. QED
      BY <3>4, <3>5
  <2>3. QED
    BY <2>1, <2>2
<1>8. QED
  BY <1>3, <1>4, <1>5, <1>6, <1>7 DEF RowsGrow, InboxInv, TypeOK

LEMMA ResolveConnectionInv ==
    ASSUME InboxInv, NEW w \in Workers, ResolveConnection(w)
    PROVE  InboxInv'
<1>1. RowsGrow
  BY UnchangedRows DEF InboxInv, TypeOK, InboxTyped, RowsTyped, ResolveConnection
<1>2. FeedTyped' /\ BackfillTyped' /\ CallsTyped'
  BY InboxAssumption DEF InboxInv, TypeOK, FeedTyped, BackfillTyped, CallsTyped, feedVars,
         ResolveConnection
<1>3. InboxTyped'
  BY <1>1, RowsAreRows DEF RowsGrow, RowsTyped, InboxInv, TypeOK, InboxTyped,
         ResolveConnection
<1>4. WorkIsAccepted' /\ BackfillIsAccepted'
  BY <1>1 DEF RowsGrow, WorkIsAccepted, BackfillIsAccepted, InboxInv, TypeOK, InboxTyped,
         feedVars, ResolveConnection
<1>5. RunsTyped' /\ RunsAreAccepted'
  <2>1. \A v \in Workers \ {w} : pc'[v] = pc[v] /\ job'[v] = job[v]
    BY DEF InboxInv, TypeOK, RunsTyped, ResolveConnection, Goto
  <2>2. /\ pc'[w] # "idle" => job'[w] \in InboxRow /\ job'[w].type \in Accepted'
        /\ pc'[w] = "ignoring" => ~Handled(job'[w].type)
        /\ pc'[w] = "applied" => job'[w].type \in applied'
    BY <1>1 DEF RowsGrow, InboxInv, TypeOK, RunsTyped, RunsAreAccepted, ResolveConnection,
           Goto
  <2>3. RunsAreAccepted'
    BY <1>1, <2>1, <2>2, OneRun DEF RowsGrow, InboxInv, ResolveConnection
  <2>4. RunsTyped'
    BY <1>1 DEF InboxInv, TypeOK, CallsTyped, RunsTyped, InboxTyped, InboxRow,
           ResolveConnection, Goto
  <2>5. QED
    BY <2>3, <2>4
<1>6. QED
  BY <1>1, <1>2, <1>3, <1>4, <1>5 DEF RowsGrow, InboxInv, TypeOK

LEMMA RejectInv ==
    ASSUME InboxInv, NEW w \in Workers, Reject(w)
    PROVE  InboxInv'
<1>1. job[w].type \in Accepted /\ pc[w] # "idle"
  BY DEF InboxInv, RunsAreAccepted, Reject
<1>2. RowsGrow
  BY <1>1, EditedRow DEF InboxInv, TypeOK, InboxTyped, RowsTyped, Reject
<1>3. FeedTyped' /\ BackfillTyped' /\ CallsTyped'
  BY <1>1, InboxAssumption DEF InboxInv, TypeOK, FeedTyped, BackfillTyped, CallsTyped,
         feedVars, Reject
<1>4. InboxTyped'
  BY <1>1, <1>2, RowsAreRows DEF RowsGrow, RowsTyped, InboxInv, TypeOK, InboxTyped,
         Accepted, Reject
<1>5. WorkIsAccepted' /\ BackfillIsAccepted'
  BY <1>1, <1>2 DEF RowsGrow, WorkIsAccepted, BackfillIsAccepted, InboxInv, TypeOK,
         InboxTyped, feedVars, Reject
<1>6. RunsTyped' /\ RunsAreAccepted'
  BY <1>2, EndedRun DEF RowsGrow, InboxInv, TypeOK, Reject
<1>7. QED
  BY <1>2, <1>3, <1>4, <1>5, <1>6 DEF RowsGrow, InboxInv, TypeOK

LEMMA FindCallInv ==
    ASSUME InboxInv, NEW w \in Workers, FindCall(w)
    PROVE  InboxInv'
<1>1. Len(calls) \in Nat /\ 1 .. Len(calls) \subseteq Nat
  BY DEF InboxInv, TypeOK, CallsTyped
<1>2. \E c \in Nat : c <= Len(calls) /\ found' = [found EXCEPT ![w] = c]
  BY <1>1 DEF FindCall, FindAny
<1>3. RowsGrow
  BY UnchangedRows DEF InboxInv, TypeOK, InboxTyped, RowsTyped, FindCall
<1>4. FeedTyped' /\ BackfillTyped' /\ CallsTyped'
  BY <1>1, <1>2, InboxAssumption DEF InboxInv, TypeOK, FeedTyped, BackfillTyped,
         CallsTyped, feedVars, FindCall
<1>5. InboxTyped'
  BY <1>1, <1>2, <1>3, RowsAreRows DEF RowsGrow, RowsTyped, InboxInv, TypeOK, InboxTyped,
         FindCall
<1>6. WorkIsAccepted' /\ BackfillIsAccepted'
  BY <1>1, <1>2, <1>3 DEF RowsGrow, WorkIsAccepted, BackfillIsAccepted, InboxInv, TypeOK,
         InboxTyped, feedVars, FindCall
<1>7. RunsTyped' /\ RunsAreAccepted'
  <2>1. \A v \in Workers \ {w} : pc'[v] = pc[v] /\ job'[v] = job[v]
    BY DEF InboxInv, TypeOK, RunsTyped, FindCall, Goto
  <2>2. /\ pc'[w] # "idle" => job'[w] \in InboxRow /\ job'[w].type \in Accepted'
        /\ pc'[w] = "ignoring" => ~Handled(job'[w].type)
        /\ pc'[w] = "applied" => job'[w].type \in applied'
    BY <1>1, <1>2, <1>3 DEF RowsGrow, InboxInv, TypeOK, RunsTyped, RunsAreAccepted,
           FindCall, Goto
  <2>3. RunsAreAccepted'
    BY <1>3, <2>1, <2>2, OneRun DEF RowsGrow, InboxInv, FindCall
  <2>4. RunsTyped'
    BY <1>1, <1>2, <1>3 DEF InboxInv, TypeOK, CallsTyped, RunsTyped, InboxTyped, InboxRow,
           FindCall, Goto
  <2>5. QED
    BY <2>3, <2>4
<1>8. QED
  BY <1>3, <1>4, <1>5, <1>6, <1>7 DEF RowsGrow, InboxInv, TypeOK

LEMMA ApplyPayloadInv ==
    ASSUME InboxInv, NEW w \in Workers, ApplyPayload(w)
    PROVE  InboxInv'
<1>1. job[w] \in InboxRow /\ job[w].type \in Types /\ job[w].ver \in 1 .. Len(Feed)
  BY DEF InboxInv, RunsAreAccepted, Accepted, InboxRow, ApplyPayload
<1>2. Len(calls) \in Nat /\ found[w] \in 0 .. Len(calls)
  BY DEF InboxInv, TypeOK, CallsTyped, RunsTyped
<1>3. /\ calls' \in Seq(1 .. Len(Feed))
      /\ Len(calls') >= Len(calls)
      /\ found[w] = 0 => Len(calls') = Len(calls) + 1
  <2>1. CASE found[w] = 0
    <3>1. calls' = Append(calls, job[w].ver)
      BY <2>1 DEF ApplyPayload
    <3>2. QED
      BY <1>1, <1>2, <2>1, <3>1 DEF InboxInv, TypeOK, CallsTyped
  <2>2. CASE found[w] # 0
    <3>1. calls' = [calls EXCEPT ![found[w]] = job[w].ver]
      BY <2>2 DEF ApplyPayload
    <3>2. QED
      BY <1>1, <1>2, <2>2, <3>1 DEF InboxInv, TypeOK, CallsTyped
  <2>3. QED
    BY <2>1, <2>2
<1>4. \A e \in events' : e.call \in 1 .. Len(calls') /\ e.stage \in Stages /\ e.type \in Types
  <2> DEFINE c == IF found[w] = 0 THEN Len(calls) + 1 ELSE found[w]
             stage == StageOf(job[w], found[w] = 0)
  <2>1. stage \in Stages \cup {NoStage}
    BY DEF ApplyPayload
  <2>2. events' = IF stage = NoStage THEN events
                  ELSE events \cup {[call |-> c, stage |-> stage, type |-> job[w].type]}
    BY DEF ApplyPayload
  <2>3. c \in 1 .. Len(calls')
    BY <1>2, <1>3
  <2> HIDE DEF c, stage
  <2>4. \A e \in events : e.call \in 1 .. Len(calls') /\ e.stage \in Stages /\ e.type \in Types
    BY <1>2, <1>3 DEF InboxInv, TypeOK, CallsTyped
  <2>5. QED
    BY <1>1, <2>1, <2>2, <2>3, <2>4
<1>5. RowsGrow
  BY UnchangedRows DEF InboxInv, TypeOK, InboxTyped, RowsTyped, ApplyPayload
<1>6. FeedTyped' /\ BackfillTyped' /\ CallsTyped'
  BY <1>1, <1>2, <1>3, <1>4, InboxAssumption DEF InboxInv, TypeOK, FeedTyped,
         BackfillTyped, CallsTyped, feedVars, ApplyPayload
<1>7. InboxTyped'
  BY <1>1, <1>2, <1>3, <1>4, <1>5, RowsAreRows DEF RowsGrow, RowsTyped, InboxInv, TypeOK,
         InboxTyped, ApplyPayload
<1>8. WorkIsAccepted' /\ BackfillIsAccepted'
  BY <1>1, <1>2, <1>3, <1>4, <1>5 DEF RowsGrow, WorkIsAccepted, BackfillIsAccepted,
         InboxInv, TypeOK, InboxTyped, feedVars, ApplyPayload
<1>9. RunsTyped' /\ RunsAreAccepted'
  <2>1. \A v \in Workers \ {w} : pc'[v] = pc[v] /\ job'[v] = job[v]
    BY DEF InboxInv, TypeOK, RunsTyped, ApplyPayload, Goto
  <2>2. /\ pc'[w] # "idle" => job'[w] \in InboxRow /\ job'[w].type \in Accepted'
        /\ pc'[w] = "ignoring" => ~Handled(job'[w].type)
        /\ pc'[w] = "applied" => job'[w].type \in applied'
    BY <1>1, <1>2, <1>3, <1>4, <1>5 DEF RowsGrow, InboxInv, TypeOK, RunsTyped,
           RunsAreAccepted, ApplyPayload, Goto
  <2>3. RunsAreAccepted'
    BY <1>5, <2>1, <2>2, OneRun DEF RowsGrow, InboxInv, ApplyPayload
  <2>4. RunsTyped'
    <3>1. /\ \A v \in Workers : found[v] <= Len(calls) /\ found[v] \in Nat
          /\ Len(calls') \in Nat
      BY <1>3 DEF InboxInv, TypeOK, RunsTyped
    <3>2. \A v \in Workers : found[v] <= Len(calls')
      BY <1>2, <1>3, <3>1
    <3>3. QED
      BY <3>2 DEF InboxInv, TypeOK, RunsTyped, ApplyPayload, Goto
  <2>5. QED
    BY <2>3, <2>4
<1>10. QED
  BY <1>5, <1>6, <1>7, <1>8, <1>9 DEF RowsGrow, InboxInv, TypeOK

LEMMA StageMissingInv ==
    ASSUME InboxInv, NEW w \in Workers, StageMissing(w)
    PROVE  InboxInv'
<1>1. job[w].type \in Accepted /\ pc[w] # "idle"
  BY DEF InboxInv, RunsAreAccepted, StageMissing
<1>2. lost' \subseteq lost \cup {job[w].type}
  <2>1. lost' = lost \/ lost' = lost \cup {job[w].type}
    BY DEF StageMissing, Rerun, EndRun
  <2>2. QED
    BY <2>1
<1>3. RowsGrow
  BY UnchangedRows DEF InboxInv, TypeOK, InboxTyped, RowsTyped, StageMissing
<1>4. FeedTyped' /\ BackfillTyped' /\ CallsTyped'
  BY <1>1, <1>2, InboxAssumption DEF InboxInv, TypeOK, FeedTyped, BackfillTyped,
         CallsTyped, feedVars, StageMissing
<1>5. InboxTyped'
  BY <1>1, <1>2, <1>3, RowsAreRows DEF RowsGrow, RowsTyped, InboxInv, TypeOK, InboxTyped,
         Accepted, StageMissing
<1>6. WorkIsAccepted' /\ BackfillIsAccepted'
  BY <1>1, <1>2, <1>3 DEF RowsGrow, WorkIsAccepted, BackfillIsAccepted, InboxInv, TypeOK,
         InboxTyped, feedVars, StageMissing
<1>7. RunsTyped' /\ RunsAreAccepted'
  BY <1>1, <1>2, <1>3, RerunRun DEF RowsGrow, InboxInv, TypeOK, StageMissing
<1>8. QED
  BY <1>3, <1>4, <1>5, <1>6, <1>7 DEF RowsGrow, InboxInv, TypeOK

LEMMA RunFailsInv ==
    ASSUME InboxInv, NEW w \in Workers, RunFails(w)
    PROVE  InboxInv'
<1>1. job[w].type \in Accepted /\ pc[w] # "idle"
  BY DEF InboxInv, RunsAreAccepted, RunFails
<1>2. lost' \subseteq lost \cup {job[w].type}
  <2>1. lost' = lost \/ lost' = lost \cup {job[w].type}
    BY DEF RunFails, Rerun, EndRun
  <2>2. QED
    BY <2>1
<1>3. RowsGrow
  BY UnchangedRows DEF InboxInv, TypeOK, InboxTyped, RowsTyped, RunFails
<1>4. FeedTyped' /\ BackfillTyped' /\ CallsTyped'
  BY <1>1, <1>2, InboxAssumption DEF InboxInv, TypeOK, FeedTyped, BackfillTyped,
         CallsTyped, feedVars, RunFails, Fail
<1>5. InboxTyped'
  BY <1>1, <1>2, <1>3, RowsAreRows DEF RowsGrow, RowsTyped, InboxInv, TypeOK, InboxTyped,
         Accepted, RunFails, Fail
<1>6. WorkIsAccepted' /\ BackfillIsAccepted'
  BY <1>1, <1>2, <1>3 DEF RowsGrow, WorkIsAccepted, BackfillIsAccepted, InboxInv, TypeOK,
         InboxTyped, feedVars, RunFails, Fail
<1>7. RunsTyped' /\ RunsAreAccepted'
  BY <1>1, <1>2, <1>3, RerunRun DEF RowsGrow, InboxInv, TypeOK, RunFails
<1>8. QED
  BY <1>3, <1>4, <1>5, <1>6, <1>7 DEF RowsGrow, InboxInv, TypeOK

LEMMA MarkProcessedInv ==
    ASSUME InboxInv, NEW w \in Workers, MarkProcessed(w)
    PROVE  InboxInv'
<1>1. job[w].type \in Accepted /\ pc[w] # "idle"
  BY DEF InboxInv, RunsAreAccepted, MarkProcessed
<1>2. inbox[job[w].type].error \in BOOLEAN
  BY <1>1, RowsAreRows DEF InboxInv, TypeOK, InboxTyped, Accepted, InboxRow
<1>3. RowsGrow
  BY <1>1, <1>2, EditedRow DEF InboxInv, TypeOK, InboxTyped, RowsTyped, MarkProcessed
<1>4. FeedTyped' /\ BackfillTyped' /\ CallsTyped'
  BY <1>1, <1>2, InboxAssumption DEF InboxInv, TypeOK, FeedTyped, BackfillTyped,
         CallsTyped, feedVars, MarkProcessed
<1>5. InboxTyped'
  BY <1>1, <1>2, <1>3, RowsAreRows DEF RowsGrow, RowsTyped, InboxInv, TypeOK, InboxTyped,
         Accepted, MarkProcessed
<1>6. WorkIsAccepted' /\ BackfillIsAccepted'
  BY <1>1, <1>2, <1>3 DEF RowsGrow, WorkIsAccepted, BackfillIsAccepted, InboxInv, TypeOK,
         InboxTyped, feedVars, MarkProcessed
<1>7. RunsTyped' /\ RunsAreAccepted'
  BY <1>3, EndedRun DEF RowsGrow, InboxInv, TypeOK, MarkProcessed
<1>8. QED
  BY <1>3, <1>4, <1>5, <1>6, <1>7 DEF RowsGrow, InboxInv, TypeOK

-----------------------------------------------------------------------------
(* The invariant.                                                             *)

LEMMA InitInv == ASSUME Init PROVE InboxInv
<1>1. TypeOK
  BY InboxAssumption DEF Init, TypeOK, FeedTyped, InboxTyped, BackfillTyped, CallsTyped,
     RunsTyped
<1>2. QED
  BY <1>1 DEF Init, InboxInv, RowsNamed, WorkIsAccepted, BackfillIsAccepted,
         RunsAreAccepted,
     Accepted

LEMMA StutterInv == ASSUME InboxInv, UNCHANGED vars PROVE InboxInv'
<1>1. TypeOK'
  BY DEF InboxInv, TypeOK, FeedTyped, InboxTyped, BackfillTyped, CallsTyped, RunsTyped,
         vars,
     feedVars, runVars
<1>2. QED
  BY <1>1 DEF InboxInv, RowsNamed, WorkIsAccepted, BackfillIsAccepted, RunsAreAccepted,
     Accepted, vars, feedVars, runVars

LEMMA NextInv == ASSUME InboxInv, Next PROVE InboxInv'
<1>1. CASE Report
  BY <1>1, ReportInv
<1>2. ASSUME NEW p \in out, Receive(p) \/ Acknowledge(p) \/ ReceiverFails(p)
      PROVE  InboxInv'
  BY <1>2, ReceiveInv, AcknowledgeInv, ReceiverFailsInv
<1>3. CASE Connect
  BY <1>3, ConnectInv
<1>4. CASE BackfillStep \/ BackfillFails
  BY <1>4, ListAppointmentsInv, StoreListedInv, SendListedInv, BackfillFailsInv
     DEF BackfillStep
<1>5. ASSUME NEW t \in Types, ResetRow(t) \/ SendReplay(t)
      PROVE  InboxInv'
  BY <1>5, ResetRowInv, SendReplayInv
<1>6. ASSUME NEW w \in Workers, RunStep(w) \/ RunFails(w)
      PROVE  InboxInv'
  BY <1>6, TakeInv, LoadInv, ResolveConnectionInv, RejectInv, FindCallInv, ApplyPayloadInv,
     StageMissingInv, MarkProcessedInv, RunFailsInv DEF RunStep
<1>7. QED
  BY <1>1, <1>2, <1>3, <1>4, <1>5, <1>6 DEF Next

\* Every reachable state is well typed, and whatever is queued, sent, replayed or run has
\* its row: the receivers, the backfill and the replay all send after they store.
THEOREM InboxInvariant == Spec => []InboxInv
<1>1. InboxInv /\ [Next]_vars => InboxInv'
  BY NextInv, StutterInv
<1>2. QED
  BY <1>1, InitInv, PTL DEF Spec

\* The type invariant of the model-checking runs.
THEOREM TypeCorrect == Spec => []TypeOK
<1>1. InboxInv => TypeOK
  BY DEF InboxInv
<1>2. QED
  BY <1>1, InboxInvariant, PTL

-----------------------------------------------------------------------------
(* The inbox keeps its contract.                                              *)

states == [t \in Types |-> RowState(t)]

\* The contract's state depends on the rows only.
LEMMA SameStates ==
    ASSUME UNCHANGED <<inbox, applied>>
    PROVE  UNCHANGED <<states, applied>>
  BY DEF states, RowState

LEMMA NewState ==
    ASSUME RowsTyped, NEW t \in Types, NEW r \in InboxRow, inbox' = [inbox EXCEPT ![t] = r]
    PROVE  /\ states' = [states EXCEPT ![t] = IF ~r.processed THEN "pending"
                                             ELSE IF r.error \/ ~Handled(t) THEN "rejected"
                                             ELSE "done"]
           /\ states[t] = IF inbox[t] = NoRow THEN "none"
                          ELSE IF ~inbox[t].processed THEN "pending"
                          ELSE IF inbox[t].error \/ ~Handled(t) THEN "rejected"
                          ELSE "done"
  BY RowsAreRows DEF RowsTyped, states, RowState

ContractStep == Contract!Next \/ UNCHANGED <<states, applied>>

LEMMA StoreContract ==
    ASSUME RowsTyped, NEW p \in Payload, StoreOnce(p), UNCHANGED applied
    PROVE  ContractStep
<1>1. p.type \in Types /\ Store(p) \in InboxRow /\ ~Store(p).processed
  BY DEF Payload, Store, InboxRow
<1>2. CASE inbox[p.type] = NoRow
  <2>1. inbox' = [inbox EXCEPT ![p.type] = Store(p)]
    BY <1>2 DEF StoreOnce
  <2>2. states[p.type] = "none" /\ states' = [states EXCEPT ![p.type] = "pending"]
    BY <1>1, <1>2, <2>1, NewState
  <2>3. Contract!Accept(p.type)
    BY <2>2 DEF Contract!Accept, states
  <2>4. QED
    BY <1>1, <2>3 DEF ContractStep, Contract!Next
<1>3. CASE inbox[p.type] # NoRow
  <2>1. UNCHANGED inbox
    BY <1>1, <1>3 DEF StoreOnce, RowsTyped
  <2>2. QED
    BY <2>1, SameStates DEF ContractStep
<1>4. QED
  BY <1>2, <1>3

LEMMA EditContract ==
    ASSUME RowsTyped, NEW t \in Accepted, NEW done \in BOOLEAN, NEW failed \in BOOLEAN,
           SetRow(t, done, failed), UNCHANGED applied,
           done /\ ~failed /\ Handled(t) => t \in applied,
           done /\ ~failed => failed = inbox[t].error
    PROVE  ContractStep
<1> DEFINE r == [inbox[t] EXCEPT !.processed = done, !.error = failed]
<1>1. t \in Types /\ inbox[t] \in InboxRow /\ inbox[t] # NoRow
  BY DEF Accepted, RowsTyped
<1>2. r \in InboxRow /\ r.processed = done /\ r.error = failed
  BY <1>1 DEF InboxRow
<1>3. inbox' = [inbox EXCEPT ![t] = r]
  BY DEF SetRow
<1> HIDE DEF r
<1>4. /\ states' = [states EXCEPT ![t] = IF ~done THEN "pending"
                                         ELSE IF failed \/ ~Handled(t) THEN "rejected"
                                         ELSE "done"]
      /\ states[t] = IF ~inbox[t].processed THEN "pending"
                     ELSE IF inbox[t].error \/ ~Handled(t) THEN "rejected"
                     ELSE "done"
  BY <1>1, <1>2, <1>3, NewState
<1>5. states[t] # "none"
  BY <1>4
<1>6. CASE ~done
  <2>1. Contract!Reopen(t)
    BY <1>4, <1>5, <1>6 DEF Contract!Reopen, states
  <2>2. QED
    BY <1>1, <2>1 DEF ContractStep, Contract!Next
<1>7. CASE done /\ (failed \/ ~Handled(t))
  <2>1. Contract!Reject(t)
    BY <1>4, <1>5, <1>7 DEF Contract!Reject, states
  <2>2. QED
    BY <1>1, <2>1 DEF ContractStep, Contract!Next
<1>8. CASE done /\ ~failed /\ Handled(t)
  <2>1. ~inbox[t].error /\ t \in applied /\ states' = [states EXCEPT ![t] = "done"]
    BY <1>4, <1>8
  <2>2. CASE states[t] = "pending"
    <3>1. Contract!Finish(t)
      BY <2>1, <2>2 DEF Contract!Finish, states
    <3>2. QED
      BY <1>1, <3>1 DEF ContractStep, Contract!Next
  <2>3. CASE states[t] = "done"
    <3>1. states' = states
      BY <2>1, <2>3 DEF states
    <3>2. QED
      BY <3>1 DEF ContractStep
  <2>4. states[t] \in {"pending", "done"}
    BY <1>4, <1>8, <2>1
  <2>5. QED
    BY <2>2, <2>3, <2>4
<1>9. QED
  BY <1>6, <1>7, <1>8

LEMMA ApplyContract ==
    ASSUME InboxInv, NEW w \in Workers, ApplyPayload(w)
    PROVE  ContractStep
<1> DEFINE t == job[w].type
<1>1. t \in Types /\ inbox[t] # NoRow
  BY DEF InboxInv, RunsAreAccepted, Accepted, ApplyPayload
<1>2. states[t] # "none" /\ UNCHANGED states /\ applied' = applied \cup {t}
  BY <1>1 DEF states, RowState, ApplyPayload
<1>3. Contract!Apply(t)
  BY <1>2 DEF Contract!Apply, states
<1>4. QED
  BY <1>1, <1>3 DEF ContractStep, Contract!Next

LEMMA MarkContract ==
    ASSUME InboxInv, NEW w \in Workers, MarkProcessed(w)
    PROVE  ContractStep
<1> DEFINE t == job[w].type
<1>1. t \in Accepted /\ (Handled(t) => t \in applied)
  BY DEF InboxInv, RunsAreAccepted, MarkProcessed
<1>2. RowsTyped /\ inbox[t].error \in BOOLEAN
  BY <1>1 DEF InboxInv, TypeOK, InboxTyped, RowsTyped, Accepted, InboxRow
<1>3. SetRow(t, TRUE, inbox[t].error) /\ UNCHANGED applied
  BY DEF MarkProcessed
<1> HIDE DEF t
<1>4. QED
  BY <1>1, <1>2, <1>3, EditContract

LEMMA StepContract == ASSUME InboxInv, Next PROVE ContractStep
<1>1. CASE UNCHANGED <<inbox, applied>>
  BY <1>1, SameStates DEF ContractStep
<1>2. ASSUME NEW p \in out, Receive(p) PROVE ContractStep
  BY <1>2, StoreContract DEF Receive, InboxInv, TypeOK, FeedTyped, InboxTyped, RowsTyped
<1>3. CASE StoreListed
  <2>1. [type |-> CreateType, ver |-> backfill.ver, valid |-> TRUE] \in Payload
    BY <1>3 DEF InboxInv, BackfillIsAccepted, TypeOK, BackfillTyped, StoreListed, Types,
           Payload
  <2>2. QED
    BY <1>3, <2>1, StoreContract DEF StoreListed, InboxInv, TypeOK, InboxTyped, RowsTyped
<1>4. ASSUME NEW t \in Types, ResetRow(t) PROVE ContractStep
  BY <1>4, EditContract DEF ResetRow, Accepted, InboxInv, TypeOK, InboxTyped, RowsTyped
<1>5. ASSUME NEW w \in Workers, Reject(w) PROVE ContractStep
  <2>1. job[w].type \in Accepted
    BY <1>5 DEF Reject, InboxInv, RunsAreAccepted
  <2>2. QED
    BY <1>5, <2>1, EditContract DEF Reject, InboxInv, TypeOK, InboxTyped, RowsTyped
<1>6. ASSUME NEW w \in Workers, ApplyPayload(w) PROVE ContractStep
  BY <1>6, ApplyContract
<1>7. ASSUME NEW w \in Workers, MarkProcessed(w) PROVE ContractStep
  BY <1>7, MarkContract
<1>8. CASE Report \/ Connect \/ ListAppointments \/ SendListed \/ BackfillFails
  BY <1>8, <1>1 DEF Report, Connect, ListAppointments, SendListed, BackfillFails
<1>9. ASSUME NEW p \in out, Acknowledge(p) \/ ReceiverFails(p) PROVE ContractStep
  BY <1>9, <1>1 DEF Acknowledge, ReceiverFails
<1>10. ASSUME NEW t \in Types, SendReplay(t) PROVE ContractStep
  BY <1>10, <1>1 DEF SendReplay
<1>11. ASSUME NEW w \in Workers, NEW t \in Types, Take(w, t) PROVE ContractStep
  BY <1>11, <1>1 DEF Take
<1>12. ASSUME NEW w \in Workers,
              Load(w) \/ ResolveConnection(w) \/ FindCall(w) \/ StageMissing(w) \/ RunFails(w)
       PROVE  ContractStep
  BY <1>12, <1>1 DEF Load, ResolveConnection, FindCall, StageMissing, RunFails
<1>13. QED
  BY <1>2, <1>3, <1>4, <1>5, <1>6, <1>7, <1>8, <1>9, <1>10, <1>11, <1>12
     DEF Next, BackfillStep, RunStep

\* Every behaviour of the receivers, the backfill, the replay and the concurrent, retried
\* runs is a behaviour of the inbox contract: no accepted delivery is forgotten, no effect
\* undone, and none is marked done before its effect is committed.
THEOREM ContractIsKept == Spec => ContractKept
<1>1. Init => Contract!Init
  BY DEF Init, Contract!Init, RowState
<1>2. InboxInv /\ [Next]_vars => [Contract!Next]_<<states, applied>>
  <2>1. ASSUME InboxInv, Next PROVE [Contract!Next]_<<states, applied>>
    BY <2>1, StepContract DEF ContractStep
  <2>2. ASSUME UNCHANGED vars PROVE UNCHANGED <<states, applied>>
    BY <2>2, SameStates DEF vars
  <2>3. QED
    BY <2>1, <2>2
<1>3. QED
  BY <1>1, <1>2, InboxInvariant, PTL DEF Spec, ContractKept, Contract!Spec, states

-----------------------------------------------------------------------------
(* Where funnel events come from.  A run applies the row it has read, and the row keeps the
   payload stored first, so what an event says can be read off the row.       *)

\* No step changes what a stored row was stored with.
PayloadsKept ==
    \A t \in Accepted : inbox'[t].type = inbox[t].type /\ inbox'[t].ver = inbox[t].ver

\* A run works on the payload of its row.
JobStored == \A w \in Workers : pc[w] # "idle" => job[w].ver = inbox[job[w].type].ver

\* An event was recorded for a stored row, under a stage of its payload.
EventStored(e) ==
    /\ e.type \in Accepted
    /\ \/ e.stage = StageOf(inbox[e.type], TRUE)
       \/ e.stage = StageOf(inbox[e.type], FALSE)

PayloadInv == JobStored /\ \A e \in events : EventStored(e)

\* Storing a delivery leaves a row that is there as it is.
LEMMA StoreKeeps ==
    ASSUME RowsTyped, NEW p, p.type \in Types, StoreOnce(p)
    PROVE  PayloadsKept
<1> SUFFICES ASSUME NEW t \in Accepted PROVE inbox'[t] = inbox[t]
  BY DEF PayloadsKept
<1>1. QED
  BY DEF StoreOnce, Accepted, RowsTyped

\* Marking or resetting a row keeps its payload.
LEMMA EditKeeps ==
    ASSUME RowsTyped, NEW t \in Accepted, NEW done \in BOOLEAN, NEW failed \in BOOLEAN,
           SetRow(t, done, failed)
    PROVE  PayloadsKept
<1> SUFFICES ASSUME NEW s \in Accepted
             PROVE  inbox'[s].type = inbox[s].type /\ inbox'[s].ver = inbox[s].ver
  BY DEF PayloadsKept
<1>1. t \in Types /\ s \in Types /\ inbox[s] \in InboxRow
  BY DEF Accepted, RowsTyped
<1>2. CASE s = t
  <2>1. inbox'[s] = [inbox[s] EXCEPT !.processed = done, !.error = failed]
    BY <1>1, <1>2 DEF SetRow, RowsTyped
  <2>2. QED
    BY <1>1, <2>1 DEF InboxRow
<1>3. CASE s # t
  BY <1>1, <1>3 DEF SetRow, RowsTyped
<1>4. QED
  BY <1>2, <1>3

LEMMA PayloadStep == ASSUME InboxInv, Next PROVE PayloadsKept
<1>a. RowsTyped
  BY DEF InboxInv, TypeOK, InboxTyped, RowsTyped
<1>1. CASE UNCHANGED inbox
  BY <1>1 DEF PayloadsKept
<1>2. ASSUME NEW p \in out, Receive(p) PROVE PayloadsKept
  BY <1>a, <1>2, StoreKeeps DEF Receive, InboxInv, TypeOK, FeedTyped, Payload
<1>3. CASE StoreListed
  <2>1. CreateType \in Types
    BY <1>3 DEF InboxInv, BackfillIsAccepted, StoreListed, Types
  <2>2. QED
    BY <1>a, <1>3, <2>1, StoreKeeps DEF StoreListed
<1>4. ASSUME NEW t \in Types, ResetRow(t) PROVE PayloadsKept
  BY <1>a, <1>4, EditKeeps DEF ResetRow, Accepted
<1>5. ASSUME NEW w \in Workers, Reject(w) PROVE PayloadsKept
  BY <1>a, <1>5, EditKeeps DEF Reject, InboxInv, RunsAreAccepted
<1>6. ASSUME NEW w \in Workers, MarkProcessed(w) PROVE PayloadsKept
  <2>1. job[w].type \in Accepted
    BY <1>6 DEF MarkProcessed, InboxInv, RunsAreAccepted
  <2>2. inbox[job[w].type].error \in BOOLEAN
    BY <1>a, <2>1 DEF Accepted, RowsTyped, InboxRow
  <2>3. QED
    BY <1>a, <1>6, <2>1, <2>2, EditKeeps DEF MarkProcessed
<1>7. CASE Report \/ Connect \/ ListAppointments \/ SendListed \/ BackfillFails
  BY <1>1, <1>7 DEF Report, Connect, ListAppointments, SendListed, BackfillFails
<1>8. ASSUME NEW p \in out, Acknowledge(p) \/ ReceiverFails(p) PROVE PayloadsKept
  BY <1>1, <1>8 DEF Acknowledge, ReceiverFails
<1>9. ASSUME NEW t \in Types, SendReplay(t) PROVE PayloadsKept
  BY <1>1, <1>9 DEF SendReplay
<1>10. ASSUME NEW w \in Workers, NEW t \in Types, Take(w, t) PROVE PayloadsKept
  BY <1>1, <1>10 DEF Take
<1>11. ASSUME NEW w \in Workers,
              \/ Load(w) \/ ResolveConnection(w) \/ FindCall(w) \/ ApplyPayload(w)
              \/ StageMissing(w) \/ RunFails(w)
       PROVE  PayloadsKept
  BY <1>1, <1>11 DEF Load, ResolveConnection, FindCall, ApplyPayload, StageMissing, RunFails
<1>12. QED
  BY <1>2, <1>3, <1>4, <1>5, <1>6, <1>7, <1>8, <1>9, <1>10, <1>11
     DEF Next, BackfillStep, RunStep

\* A run that ends or starts over keeps its payload, if it still has one.
LEMMA RerunJob ==
    ASSUME RunsTyped, NEW w \in Workers, EndRun(w) \/ Rerun(w)
    PROVE  /\ \A v \in Workers \ {w} : pc'[v] = pc[v] /\ job'[v] = job[v]
           /\ pc'[w] = "idle" \/ (pc'[w] = "ready" /\ job'[w] = job[w])
<1>1. CASE EndRun(w)
  BY <1>1 DEF RunsTyped, EndRun, Goto
<1>2. CASE ~EndRun(w)
  <2>1. pc' = [pc EXCEPT ![w] = "ready"] /\ job' = job
    BY <1>2, Zenon DEF Rerun, Goto
  <2>2. QED
    BY <2>1 DEF RunsTyped
<1>3. QED
  BY <1>1, <1>2

\* A run reads its row, keeps what it has read, or ends.
JobKept(w) ==
    \/ pc'[w] = "idle"
    \/ pc[w] # "idle" /\ job'[w] = job[w]
    \/ UNCHANGED inbox /\ \E t \in Accepted : job'[w] = inbox[t]

LEMMA JobStep == ASSUME InboxInv, Next, NEW w \in Workers PROVE JobKept(w)
<1>a. /\ RunsTyped /\ RowsTyped
      /\ pc[w] # "idle" => job[w].type \in Accepted
  BY DEF InboxInv, TypeOK, InboxTyped, RowsTyped, RunsAreAccepted
<1>1. CASE pc'[w] = pc[w] /\ job'[w] = job[w]
  BY <1>1 DEF JobKept
<1>2. CASE UNCHANGED runVars
  BY <1>1, <1>2 DEF runVars
<1>3. ASSUME NEW v \in Workers, NEW t \in Types, Take(v, t) PROVE JobKept(w)
  <2>1. t \in Accepted
    BY <1>3 DEF Take, InboxInv, WorkIsAccepted, TypeOK, InboxTyped
  <2>2. CASE v = w
    BY <1>a, <1>3, <2>1, <2>2 DEF Take, RunsTyped, JobKept
  <2>3. CASE v # w
    BY <1>a, <1>1, <1>3, <2>3 DEF Take, Goto, RunsTyped
  <2>4. QED
    BY <2>2, <2>3
<1>4. ASSUME NEW v \in Workers, Load(v) PROVE JobKept(w)
  <2>1. \/ EndRun(v)
        \/ /\ job' = [job EXCEPT ![v] = inbox[job[v].type]]
           /\ \E l \in {"rejecting", "ignoring", "loaded"} : pc' = [pc EXCEPT ![v] = l]
    BY <1>4 DEF Load, Goto
  <2>2. v # w => pc'[w] = pc[w] /\ job'[w] = job[w]
    BY <1>a, <2>1, RerunJob DEF RunsTyped
  <2>3. CASE v = w /\ EndRun(v)
    BY <1>a, <2>3, RerunJob, <1>4 DEF JobKept, Load
  <2>4. CASE v = w /\ ~EndRun(v)
    BY <1>a, <1>4, <2>1, <2>4 DEF JobKept, RunsTyped, Load
  <2>5. QED
    BY <1>1, <2>2, <2>3, <2>4
<1>5. ASSUME NEW v \in Workers,
             ResolveConnection(v) \/ FindCall(v) \/ ApplyPayload(v)
      PROVE  JobKept(w)
  <2>1. /\ job' = job /\ pc[v] # "idle"
        /\ \E l \in {"rejecting", "resolved", "found", "applied"} : pc' = [pc EXCEPT ![v] = l]
    BY <1>5 DEF ResolveConnection, FindCall, ApplyPayload, Goto
  <2>2. QED
    BY <1>a, <1>1, <2>1 DEF JobKept, RunsTyped
<1>6. ASSUME NEW v \in Workers,
             Reject(v) \/ MarkProcessed(v) \/ StageMissing(v) \/ RunFails(v)
      PROVE  JobKept(w)
  <2>1. (EndRun(v) \/ Rerun(v)) /\ pc[v] # "idle"
    BY <1>6 DEF Reject, MarkProcessed, StageMissing, RunFails
  <2>2. QED
    BY <1>a, <1>1, <2>1, RerunJob DEF JobKept
<1>7. CASE Report \/ Connect \/ ListAppointments \/ StoreListed \/ SendListed \/ BackfillFails
  BY <1>2, <1>7 DEF Report, Connect, ListAppointments, StoreListed, SendListed, BackfillFails
<1>8. ASSUME NEW p \in out, Receive(p) \/ Acknowledge(p) \/ ReceiverFails(p)
      PROVE  JobKept(w)
  BY <1>2, <1>8 DEF Receive, Acknowledge, ReceiverFails
<1>9. ASSUME NEW t \in Types, ResetRow(t) \/ SendReplay(t) PROVE JobKept(w)
  BY <1>2, <1>9 DEF ResetRow, SendReplay
<1>10. QED
  BY <1>3, <1>4, <1>5, <1>6, <1>7, <1>8, <1>9 DEF Next, BackfillStep, RunStep

\* An event is recorded by a run's transaction, under a stage of the payload it has read.
LEMMA EventStep ==
    ASSUME InboxInv, Next, NEW e \in events', e \notin events
    PROVE  \E w \in Workers :
              /\ pc[w] # "idle" /\ e.type = job[w].type
              /\ e.stage = StageOf(job[w], found[w] = 0)
<1>1. PICK w \in Workers : ApplyPayload(w)
  BY DEF Next, Report, Receive, Acknowledge, ReceiverFails, Connect, BackfillStep,
     ListAppointments, StoreListed, SendListed, BackfillFails, ResetRow, SendReplay,
     RunStep, Take, Load, ResolveConnection, Reject, FindCall, StageMissing, MarkProcessed,
     RunFails
<1>2. QED
  BY <1>1 DEF ApplyPayload

LEMMA PayloadNext == ASSUME InboxInv, InboxInv', PayloadInv, Next PROVE PayloadInv'
<1>1. PayloadsKept /\ Accepted \subseteq Accepted'
  <2>1. PayloadsKept
    BY PayloadStep
  <2>2. ASSUME NEW t \in Accepted PROVE inbox'[t] # NoRow
    <3>1. inbox'[t].type = t
      BY <2>1 DEF PayloadsKept, InboxInv, RowsNamed
    <3>2. QED
      BY <3>1, InboxAssumption DEF Accepted
  <2>3. QED
    BY <2>1, <2>2 DEF Accepted
<1>2. JobStored'
  <2> SUFFICES ASSUME NEW w \in Workers, pc'[w] # "idle"
               PROVE  job'[w].ver = inbox'[job'[w].type].ver
    BY DEF JobStored
  <2>1. CASE pc[w] # "idle" /\ job'[w] = job[w]
    BY <1>1, <2>1 DEF PayloadInv, JobStored, PayloadsKept, InboxInv, RunsAreAccepted
  <2>2. CASE UNCHANGED inbox /\ \E t \in Accepted : job'[w] = inbox[t]
    BY <2>2 DEF InboxInv, RowsNamed
  <2>3. QED
    BY <2>1, <2>2, JobStep DEF JobKept
<1>3. \A t \in Accepted, b \in BOOLEAN : StageOf(inbox'[t], b) = StageOf(inbox[t], b)
  BY <1>1 DEF PayloadsKept, StageOf
<1>4. ASSUME NEW e \in events' PROVE EventStored(e)'
  <2>1. CASE e \in events
    BY <1>1, <1>3, <2>1 DEF PayloadInv, EventStored
  <2>2. CASE e \notin events
    <3>1. PICK w \in Workers : /\ pc[w] # "idle" /\ e.type = job[w].type
                               /\ e.stage = StageOf(job[w], found[w] = 0)
      BY <2>2, EventStep
    <3>2. job[w].type \in Accepted /\ job[w].ver = inbox[job[w].type].ver
      BY <3>1 DEF InboxInv, RunsAreAccepted, PayloadInv, JobStored
    <3>3. inbox[job[w].type].type = job[w].type
      BY <3>2 DEF InboxInv, RowsNamed
    <3>4. \A b \in BOOLEAN : StageOf(job[w], b) = StageOf(inbox[job[w].type], b)
      BY <3>2, <3>3 DEF StageOf
    <3>5. (found[w] = 0) \in BOOLEAN
      OBVIOUS
    <3>6. e.stage = StageOf(inbox'[e.type], TRUE) \/ e.stage = StageOf(inbox'[e.type], FALSE)
      BY <1>3, <3>1, <3>2, <3>4, <3>5
    <3>7. QED
      BY <1>1, <3>1, <3>2, <3>6 DEF EventStored, StageOf, GhlStage, AircallStage
  <2>3. QED
    BY <2>1, <2>2
<1>5. QED
  BY <1>2, <1>4 DEF PayloadInv

\* Whatever is retried, replayed or delivered again, a funnel event shows the payload that
\* was stored first for its delivery.
THEOREM EventsShowStoredPayload == Spec => []EventsOfStoredPayload
<1>1. Init => PayloadInv
  BY DEF Init, PayloadInv, JobStored
<1>2. InboxInv /\ InboxInv' /\ PayloadInv /\ [Next]_vars => PayloadInv'
  <2>1. ASSUME PayloadInv, UNCHANGED vars PROVE PayloadInv'
    BY <2>1 DEF PayloadInv, JobStored, EventStored, Accepted, StageOf, GhlStage,
       AircallStage, vars, runVars
  <2>2. QED
    BY <2>1, PayloadNext
<1>3. PayloadInv => EventsOfStoredPayload
  BY DEF PayloadInv, EventStored, EventsOfStoredPayload
<1>4. QED
  BY <1>1, <1>2, <1>3, InboxInvariant, PTL DEF Spec

-----------------------------------------------------------------------------
(* How many calls an appointment can have.                                    *)

\* The runs that have looked for the call, found none and will insert one.
Creating == {w \in Workers : pc[w] = "found" /\ found[w] = 0}

\* Once there is a call no other run joins them.
CallsInv == calls # <<>> => Len(calls) + Cardinality(Creating) <= Cardinality(Workers)

LEMMA CreatingIsFinite ==
    /\ IsFiniteSet(Creating)
    /\ Cardinality(Creating) \in Nat /\ Cardinality(Workers) \in Nat
    /\ Cardinality(Creating) <= Cardinality(Workers)
<1>1. Creating \subseteq Workers /\ IsFiniteSet(Workers)
  BY InboxAssumption DEF Creating
<1>2. QED
  BY <1>1, FS_Subset, FS_CardinalityType

\* A step after which no more runs are about to insert a call, and no call is inserted.
LEMMA NoMoreCalls ==
    ASSUME InboxInv, CallsInv, Len(calls') = Len(calls), calls' # <<>> => calls # <<>>,
           calls # <<>> => Creating' \subseteq Creating
    PROVE  CallsInv'
<1> SUFFICES ASSUME calls # <<>>
             PROVE  Len(calls) + Cardinality(Creating') <= Cardinality(Workers)
  BY DEF CallsInv
<1>1. /\ Cardinality(Creating') \in Nat /\ Cardinality(Creating) \in Nat
      /\ Cardinality(Creating') <= Cardinality(Creating)
  BY CreatingIsFinite, FS_Subset, FS_CardinalityType
<1>2. Len(calls) \in Nat /\ Cardinality(Workers) \in Nat
  BY CreatingIsFinite DEF InboxInv, TypeOK, CallsTyped
<1>3. QED
  BY <1>1, <1>2 DEF CallsInv

LEMMA CallsStep == ASSUME InboxInv, CallsInv, [Next]_vars PROVE CallsInv'
<1>a. RunsTyped /\ CallsTyped
  BY DEF InboxInv, TypeOK
<1>1. CASE UNCHANGED <<calls, pc, found>>
  BY <1>1, NoMoreCalls DEF Creating
<1>2. ASSUME NEW w \in Workers, UNCHANGED calls,
             \A v \in Workers \ {w} : pc'[v] = pc[v] /\ found'[v] = found[v],
             pc'[w] = "found" => found'[w] # 0 \/ calls = <<>>
      PROVE  CallsInv'
  BY <1>2, NoMoreCalls DEF Creating
<1>3. ASSUME NEW w \in Workers, UNCHANGED calls, EndRun(w) \/ Rerun(w) PROVE CallsInv'
  <2>1. \/ pc' = [pc EXCEPT ![w] = "ready"] /\ found' = [found EXCEPT ![w] = 0]
        \/ pc' = [pc EXCEPT ![w] = "idle"] /\ found' = [found EXCEPT ![w] = 0]
    BY <1>3, Zenon DEF EndRun, Rerun, Goto
  <2>2. QED
    BY <1>a, <1>2, <1>3, <2>1 DEF RunsTyped
<1>4. ASSUME NEW w \in Workers, ApplyPayload(w) PROVE CallsInv'
  <2>1. /\ pc[w] = "found" /\ pc' = [pc EXCEPT ![w] = "applied"] /\ found' = found
        /\ calls' = IF found[w] = 0 THEN Append(calls, job[w].ver)
                    ELSE [calls EXCEPT ![found[w]] = job[w].ver]
    BY <1>4 DEF ApplyPayload, Goto
  <2>2. CASE found[w] # 0
    <3>1. Len(calls') = Len(calls) /\ (calls' # <<>> => calls # <<>>)
      BY <1>a, <2>1, <2>2 DEF CallsTyped
    <3>2. Creating' \subseteq Creating
      BY <1>a, <2>1 DEF Creating, RunsTyped
    <3>3. QED
      BY <3>1, <3>2, NoMoreCalls
  <2>3. CASE found[w] = 0
    <3>1. w \in Creating /\ Creating' = Creating \ {w}
      BY <1>a, <2>1, <2>3 DEF Creating, RunsTyped
    <3>2. Cardinality(Creating') = Cardinality(Creating) - 1
      BY <3>1, CreatingIsFinite, FS_RemoveElement
    <3>3. Len(calls) \in Nat /\ Len(calls') = Len(calls) + 1
      BY <1>a, <2>1, <2>3 DEF CallsTyped
    <3>4. calls = <<>> => Len(calls) = 0
      OBVIOUS
    <3>5. QED
      BY <3>2, <3>3, <3>4, CreatingIsFinite DEF CallsInv
  <2>4. QED
    BY <2>2, <2>3
<1>5. ASSUME NEW w \in Workers, FindCall(w) PROVE CallsInv'
  <2>1. /\ UNCHANGED calls /\ pc' = [pc EXCEPT ![w] = "found"]
        /\ \/ calls = <<>> /\ found' = [found EXCEPT ![w] = 0]
           \/ \E c \in 1 .. Len(calls) : found' = [found EXCEPT ![w] = c]
    BY <1>5 DEF FindCall, FindAny, Goto
  <2>2. QED
    BY <1>a, <1>2, <2>1 DEF RunsTyped
<1>6. ASSUME NEW w \in Workers, NEW t \in Types, Take(w, t) PROVE CallsInv'
  BY <1>a, <1>2, <1>6 DEF Take, Goto, RunsTyped
<1>7. ASSUME NEW w \in Workers, Load(w) PROVE CallsInv'
  <2>1. CASE EndRun(w)
    BY <1>3, <1>7, <2>1 DEF Load
  <2>2. CASE ~EndRun(w)
    <3>1. /\ UNCHANGED <<calls, found>>
          /\ \E l \in {"rejecting", "ignoring", "loaded"} : pc' = [pc EXCEPT ![w] = l]
      BY <1>7, <2>2 DEF Load, Goto
    <3>2. QED
      BY <1>a, <1>2, <3>1 DEF RunsTyped
  <2>3. QED
    BY <2>1, <2>2
<1>8. ASSUME NEW w \in Workers, ResolveConnection(w) PROVE CallsInv'
  BY <1>a, <1>2, <1>8 DEF ResolveConnection, Goto, RunsTyped
<1>9. ASSUME NEW w \in Workers,
             Reject(w) \/ MarkProcessed(w) \/ StageMissing(w) \/ RunFails(w)
      PROVE  CallsInv'
  BY <1>3, <1>9 DEF Reject, MarkProcessed, StageMissing, RunFails
<1>10. CASE \/ Report \/ Connect \/ BackfillStep \/ BackfillFails
            \/ \E p \in out : Receive(p) \/ Acknowledge(p) \/ ReceiverFails(p)
            \/ \E t \in Types : ResetRow(t) \/ SendReplay(t)
            \/ UNCHANGED vars
  BY <1>1, <1>10 DEF Report, Connect, BackfillStep, ListAppointments, StoreListed, SendListed,
     BackfillFails, Receive, Acknowledge, ReceiverFails, ResetRow, SendReplay, runVars, vars
<1>11. QED
  BY <1>4, <1>5, <1>6, <1>7, <1>8, <1>9, <1>10 DEF Next, RunStep

\* However often an appointment is delivered, retried, backfilled and replayed, it has no
\* more calls than there are concurrent runs: one, where runs do not overlap.
THEOREM CallsAreBounded == Spec => []OneCallPerRun
<1>1. Init => CallsInv
  BY DEF Init, CallsInv
<1>2. InboxInv /\ CallsInv => OneCallPerRun
  <2> SUFFICES ASSUME InboxInv, CallsInv PROVE Len(calls) <= Cardinality(Workers)
    BY DEF OneCallPerRun
  <2>1. Len(calls) \in Nat
    BY DEF InboxInv, TypeOK, CallsTyped
  <2>2. calls = <<>> => Len(calls) = 0
    OBVIOUS
  <2>3. QED
    BY <2>1, <2>2, CreatingIsFinite DEF CallsInv
<1>3. QED
  BY <1>1, <1>2, CallsStep, InboxInvariant, PTL DEF Spec
-----------------------------------------------------------------------------
(* Who has a pending row in hand.                                             *)

Pending(t) == inbox[t] # NoRow /\ ~inbox[t].processed
Run(w, t) == pc[w] # "idle" /\ job[w].type = t

\* The parts of InHand a step may leave alone.
NotRunning(t) ==
    \/ \E p \in out : p.type = t
    \/ t = CreateType /\ backfill.at \in {"listed", "stored"}
    \/ t \in replaying
    \/ queue[t] > 0
Held(t) == NotRunning(t) \/ (\E w \in Workers : Run(w, t)) \/ t \in lost

\* A backfill is of a connected account, so no second one takes its place.
HandInv ==
    /\ \A t \in Types : Pending(t) => Held(t)
    /\ backfill.at # "none" => connected

LEMMA RunsStay ==
    ASSUME UNCHANGED runVars, NEW t, Held(t), NotRunning(t) => NotRunning(t)' \/ t \in lost',
           lost \subseteq lost'
    PROVE  Held(t)'
  BY DEF Held, Run, runVars

\* Steps outside the runs.
LEMMA FeedHolds ==
    ASSUME InboxInv, HandInv, NEW t \in Types, Pending(t)',
           Report \/ (\E p \in out : Receive(p) \/ Acknowledge(p) \/ ReceiverFails(p))
    PROVE  Held(t)'
<1>a. UNCHANGED <<runVars, lost, backfill, replaying>>
  BY DEF Report, Receive, Acknowledge, ReceiverFails
<1>b. queue[t] \in Nat /\ queue \in [Types -> Nat]
  BY DEF InboxInv, TypeOK, InboxTyped
<1>1. CASE Report
  <2>1. out \subseteq out' /\ UNCHANGED <<inbox, queue>>
    BY <1>1 DEF Report
  <2>2. NotRunning(t) => NotRunning(t)'
    BY <1>a, <2>1 DEF NotRunning
  <2>3. Held(t)
    BY <2>1 DEF HandInv, Pending
  <2>4. QED
    BY <1>a, <2>2, <2>3, RunsStay
<1>2. ASSUME NEW p \in out, Receive(p) PROVE Held(t)'
  <2>1. UNCHANGED <<out, queue>>
    BY <1>2 DEF Receive
  <2>2. CASE p.type = t
    BY <2>1, <2>2 DEF Held, NotRunning
  <2>3. CASE p.type # t
    <3>1. inbox'[t] = inbox[t]
      BY <1>2, <2>3 DEF Receive, StoreOnce, InboxInv, TypeOK, InboxTyped
    <3>2. Held(t)
      BY <3>1 DEF HandInv, Pending
    <3>3. NotRunning(t) => NotRunning(t)'
      BY <1>a, <2>1 DEF NotRunning
    <3>4. QED
      BY <1>a, <3>2, <3>3, RunsStay
  <2>4. QED
    BY <2>2, <2>3
<1>3. ASSUME NEW p \in out, Acknowledge(p) PROVE Held(t)'
  <2>1. /\ queue' = [queue EXCEPT ![p.type] = @ + 1] /\ out \ {p} \subseteq out'
        /\ UNCHANGED inbox
    BY <1>3 DEF Acknowledge, Enqueue
  <2>2. queue'[t] = IF t = p.type THEN queue[t] + 1 ELSE queue[t]
    BY <1>b, <2>1
  <2>3. NotRunning(t) => NotRunning(t)'
    BY <1>a, <1>b, <2>1, <2>2 DEF NotRunning
  <2>4. Held(t)
    BY <2>1 DEF HandInv, Pending
  <2>5. QED
    BY <1>a, <2>3, <2>4, RunsStay
<1>4. ASSUME NEW p \in out, ReceiverFails(p) PROVE Held(t)'
  <2>1. UNCHANGED <<inbox, out, queue>>
    BY <1>4 DEF ReceiverFails
  <2>2. NotRunning(t) => NotRunning(t)'
    BY <1>a, <2>1 DEF NotRunning
  <2>3. Held(t)
    BY <2>1 DEF HandInv, Pending
  <2>4. QED
    BY <1>a, <2>2, <2>3, RunsStay
<1>5. QED
  BY <1>1, <1>2, <1>3, <1>4

LEMMA BackfillHolds ==
    ASSUME InboxInv, HandInv, NEW t \in Types, Pending(t)',
           Connect \/ BackfillStep \/ BackfillFails
    PROVE  Held(t)'
<1>a. UNCHANGED <<runVars, out, replaying>> /\ lost \subseteq lost'
  BY DEF Connect, BackfillStep, ListAppointments, StoreListed, SendListed, BackfillFails,
         feedVars
<1>b. queue[t] \in Nat /\ queue \in [Types -> Nat]
  BY DEF InboxInv, TypeOK, InboxTyped
<1>c. backfill \in [at : {"none", "requested", "listed", "stored", "done"},
                    ver : 0 .. Len(Feed), tries : Nat]
  BY DEF InboxInv, TypeOK, BackfillTyped
<1>1. CASE Connect \/ ListAppointments
  <2>1. backfill.at \notin {"listed", "stored"} /\ UNCHANGED <<inbox, queue, lost>>
    BY <1>1 DEF Connect, ListAppointments, HandInv
  <2>2. NotRunning(t) => NotRunning(t)'
    BY <1>a, <2>1 DEF NotRunning
  <2>3. Held(t)
    BY <2>1 DEF HandInv, Pending
  <2>4. QED
    BY <1>a, <2>2, <2>3, RunsStay
<1>2. CASE StoreListed
  <2>1. backfill'.at = "stored" /\ UNCHANGED <<queue, lost>>
    BY <1>2, <1>c DEF StoreListed
  <2>2. CASE t = CreateType
    BY <2>1, <2>2 DEF Held, NotRunning
  <2>3. CASE t # CreateType
    <3>1. inbox'[t] = inbox[t]
      BY <1>2, <2>3 DEF StoreListed, StoreOnce, InboxInv, TypeOK, InboxTyped
    <3>2. Held(t)
      BY <3>1 DEF HandInv, Pending
    <3>3. NotRunning(t) => NotRunning(t)'
      BY <1>a, <2>1, <2>3 DEF NotRunning
    <3>4. QED
      BY <1>a, <3>2, <3>3, RunsStay
  <2>4. QED
    BY <2>2, <2>3
<1>3. CASE SendListed
  <2>1. queue' = [queue EXCEPT ![CreateType] = @ + 1] /\ UNCHANGED inbox
    BY <1>3 DEF SendListed, Enqueue
  <2>2. queue'[t] = IF t = CreateType THEN queue[t] + 1 ELSE queue[t]
    BY <1>b, <2>1
  <2>3. NotRunning(t) => NotRunning(t)'
    BY <1>a, <1>b, <2>2 DEF NotRunning
  <2>4. Held(t)
    BY <2>1 DEF HandInv, Pending
  <2>5. QED
    BY <1>a, <2>3, <2>4, RunsStay
<1>4. CASE BackfillFails
  <2>1. UNCHANGED <<inbox, queue>> /\ (backfill'.at = "listed" \/ CreateType \in lost')
    BY <1>4, <1>c DEF BackfillFails
  <2>2. NotRunning(t) => NotRunning(t)' \/ t \in lost'
    BY <1>a, <2>1 DEF NotRunning
  <2>3. Held(t)
    BY <2>1 DEF HandInv, Pending
  <2>4. QED
    BY <1>a, <2>2, <2>3, RunsStay
<1>5. QED
  BY <1>1, <1>2, <1>3, <1>4 DEF BackfillStep

LEMMA ReplayHolds ==
    ASSUME InboxInv, HandInv, NEW t \in Types, Pending(t)',
           NEW s \in Types, ResetRow(s) \/ SendReplay(s)
    PROVE  Held(t)'
<1>a. UNCHANGED <<runVars, out, backfill>> /\ lost \subseteq lost'
  BY DEF ResetRow, SendReplay, feedVars
<1>b. queue[t] \in Nat /\ queue \in [Types -> Nat]
  BY DEF InboxInv, TypeOK, InboxTyped
<1>1. CASE ResetRow(s)
  <2>1. replaying' = replaying \cup {s} /\ UNCHANGED queue
    BY <1>1 DEF ResetRow
  <2>2. CASE t = s
    BY <2>1, <2>2 DEF Held, NotRunning
  <2>3. CASE t # s
    <3>1. inbox'[t] = inbox[t]
      BY <1>1, <2>3 DEF ResetRow, SetRow, InboxInv, TypeOK, InboxTyped
    <3>2. Held(t)
      BY <3>1 DEF HandInv, Pending
    <3>3. NotRunning(t) => NotRunning(t)'
      BY <1>a, <2>1 DEF NotRunning
    <3>4. QED
      BY <1>a, <3>2, <3>3, RunsStay
  <2>4. QED
    BY <2>2, <2>3
<1>2. CASE SendReplay(s)
  <2>1. replaying' = replaying \ {s} /\ UNCHANGED inbox
    BY <1>2 DEF SendReplay
  <2>2. queue'[t] >= queue[t] /\ (t = s => queue'[t] > 0 \/ t \in lost')
    BY <1>2, <1>b DEF SendReplay, Enqueue
  <2>3. NotRunning(t) => NotRunning(t)' \/ t \in lost'
    <3>1. CASE queue[t] > 0
      <4>1. queue'[t] > 0
        BY <1>b, <1>2, <3>1 DEF SendReplay, Enqueue
      <4>2. QED
        BY <4>1 DEF NotRunning
    <3>2. CASE ~(queue[t] > 0)
      BY <1>a, <2>1, <2>2, <3>2 DEF NotRunning
    <3>3. QED
      BY <3>1, <3>2
  <2>4. Held(t)
    BY <2>1 DEF HandInv, Pending
  <2>5. QED
    BY <1>a, <2>3, <2>4, RunsStay
<1>3. QED
  BY <1>1, <1>2

\* Steps of the runs: only w moves, and if it lets t go, t was given up.
LEMMA RunMoves ==
    ASSUME NEW t \in Types, NEW w \in Workers, Held(t),
           UNCHANGED <<out, backfill, replaying, queue>>, lost \subseteq lost',
           \A v \in Workers \ {w} : pc'[v] = pc[v] /\ job'[v] = job[v],
           Run(w, t) => Run(w, t)' \/ t \in lost'
    PROVE  Held(t)'
<1>1. NotRunning(t) => NotRunning(t)'
  BY DEF NotRunning
<1>2. ASSUME NEW v \in Workers, Run(v, t) PROVE Held(t)'
  BY <1>2 DEF Held, Run
<1>3. QED
  BY <1>1, <1>2 DEF Held

\* A run that ends has marked its row, or found it marked.
LEMMA RunEnds ==
    ASSUME InboxInv, HandInv, NEW t \in Types, Pending(t)', NEW w \in Workers,
           EndRun(w), UNCHANGED <<out, backfill, replaying, queue, lost>>,
           job[w].type = t => inbox'[t].processed,
           job[w].type # t => inbox'[t] = inbox[t]
    PROVE  Held(t)'
<1>1. job[w].type # t
  BY DEF Pending
<1>2. Held(t)
  BY <1>1 DEF HandInv, Pending
<1>3. \A v \in Workers \ {w} : pc'[v] = pc[v] /\ job'[v] = job[v]
  BY RerunJob DEF InboxInv, TypeOK
<1>4. ~Run(w, t)
  BY <1>1 DEF Run
<1>5. QED
  BY <1>2, <1>3, <1>4, RunMoves

LEMMA RunHolds ==
    ASSUME InboxInv, HandInv, NEW t \in Types, Pending(t)', NEW w \in Workers,
           RunStep(w) \/ RunFails(w)
    PROVE  Held(t)'
<1>a. /\ RunsTyped /\ RowsTyped
      /\ pc[w] # "idle" => job[w].type \in Accepted
  BY DEF InboxInv, TypeOK, InboxTyped, RowsTyped, RunsAreAccepted
<1>b. queue[t] \in Nat /\ queue \in [Types -> Nat]
  BY DEF InboxInv, TypeOK, InboxTyped
<1>1. ASSUME NEW s \in Types, Take(w, s) PROVE Held(t)'
  <2>1. /\ pc' = [pc EXCEPT ![w] = "ready"] /\ job' = [job EXCEPT ![w] = inbox[s]]
        /\ queue' = [queue EXCEPT ![s] = @ - 1] /\ pc[w] = "idle" /\ queue[s] > 0
        /\ UNCHANGED <<out, backfill, replaying, lost, inbox>>
    BY <1>1 DEF Take, Goto, feedVars
  <2>2. inbox[s].type = s
    BY <2>1 DEF InboxInv, WorkIsAccepted, RowsNamed
  <2>3. CASE t = s
    <3>1. Run(w, t)'
      BY <1>a, <2>1, <2>2, <2>3 DEF Run, RunsTyped
    <3>2. QED
      BY <3>1 DEF Held
  <2>4. CASE t # s
    <3>1. queue'[t] = queue[t]
      BY <1>b, <2>1, <2>4
    <3>2. Held(t)
      BY <2>1 DEF HandInv, Pending
    <3>3. NotRunning(t) => NotRunning(t)'
      BY <2>1, <3>1 DEF NotRunning
    <3>4. \A v \in Workers : Run(v, t) => Run(v, t)'
      BY <1>a, <2>1 DEF Run, RunsTyped
    <3>5. QED
      BY <2>1, <3>2, <3>3, <3>4 DEF Held
  <2>5. QED
    BY <2>3, <2>4
<1>2. CASE Load(w)
  <2>1. UNCHANGED <<out, backfill, replaying, queue, lost, inbox>> /\ pc[w] = "ready"
    BY <1>2 DEF Load, feedVars
  <2>2. CASE inbox[job[w].type].processed
    <3>1. EndRun(w)
      BY <1>2, <2>2 DEF Load
    <3>2. job[w].type = t => inbox'[t].processed
      BY <2>1, <2>2
    <3>3. inbox'[t] = inbox[t]
      BY <2>1
    <3>4. QED
      BY <2>1, <3>1, <3>2, <3>3, RunEnds
  <2>3. CASE ~inbox[job[w].type].processed
    <3>1. /\ job' = [job EXCEPT ![w] = inbox[job[w].type]]
          /\ \E l \in {"rejecting", "ignoring", "loaded"} : pc' = [pc EXCEPT ![w] = l]
      BY <1>2, <2>3 DEF Load, Goto
    <3>2. inbox[job[w].type].type = job[w].type
      BY <1>a, <2>1 DEF InboxInv, RowsNamed
    <3>3. \A v \in Workers \ {w} : pc'[v] = pc[v] /\ job'[v] = job[v]
      BY <1>a, <3>1 DEF RunsTyped
    <3>4. Run(w, t) => Run(w, t)'
      BY <1>a, <3>1, <3>2 DEF Run, RunsTyped
    <3>5. Held(t)
      BY <2>1 DEF HandInv, Pending
    <3>6. QED
      BY <2>1, <3>3, <3>4, <3>5, RunMoves
  <2>4. QED
    BY <2>2, <2>3
<1>3. CASE ResolveConnection(w) \/ FindCall(w) \/ ApplyPayload(w)
  <2>1. /\ job' = job /\ UNCHANGED <<out, backfill, replaying, queue, lost, inbox>>
        /\ \E l \in {"rejecting", "resolved", "found", "applied"} : pc' = [pc EXCEPT ![w] = l]
    BY <1>3 DEF ResolveConnection, FindCall, ApplyPayload, Goto, feedVars
  <2>2. \A v \in Workers \ {w} : pc'[v] = pc[v] /\ job'[v] = job[v]
    BY <1>a, <2>1 DEF RunsTyped
  <2>3. Run(w, t) => Run(w, t)'
    BY <1>a, <2>1 DEF Run, RunsTyped
  <2>4. Held(t)
    BY <2>1 DEF HandInv, Pending
  <2>5. QED
    BY <2>1, <2>2, <2>3, <2>4, RunMoves
<1>4. CASE Reject(w) \/ MarkProcessed(w)
  <2>1. /\ EndRun(w) /\ UNCHANGED <<out, backfill, replaying, queue, lost>>
        /\ pc[w] # "idle" /\ \E b : SetRow(job[w].type, TRUE, b)
    BY <1>4 DEF Reject, MarkProcessed, feedVars
  <2>2. PICK b : inbox' = [inbox EXCEPT ![job[w].type] =
                              [@ EXCEPT !.processed = TRUE, !.error = b]]
    BY <2>1 DEF SetRow
  <2>3. job[w].type \in Types /\ inbox[job[w].type] \in InboxRow
    BY <1>a, <2>1 DEF Accepted, RowsTyped
  <2>4. inbox'[job[w].type] = [inbox[job[w].type] EXCEPT !.processed = TRUE, !.error = b]
    BY <1>a, <2>2, <2>3 DEF RowsTyped
  <2>5. inbox'[job[w].type].processed
    BY <2>3, <2>4 DEF InboxRow
  <2>6. job[w].type # t => inbox'[t] = inbox[t]
    BY <1>a, <2>2 DEF RowsTyped
  <2>7. QED
    BY <2>1, <2>5, <2>6, RunEnds
<1>5. CASE StageMissing(w) \/ RunFails(w)
  <2>1. /\ Rerun(w) /\ UNCHANGED <<out, backfill, replaying, queue, inbox>>
        /\ pc[w] # "idle"
    BY <1>5 DEF StageMissing, RunFails, feedVars
  <2>2. /\ \A v \in Workers \ {w} : pc'[v] = pc[v] /\ job'[v] = job[v]
        /\ pc'[w] = "idle" \/ (pc'[w] = "ready" /\ job'[w] = job[w])
    BY <1>a, <2>1, RerunJob
  <2>3. lost \subseteq lost' /\ (pc'[w] = "ready" \/ job[w].type \in lost')
    BY <1>a, <2>1 DEF Rerun, EndRun, Goto, RunsTyped
  <2>4. Run(w, t) => Run(w, t)' \/ t \in lost'
    BY <2>2, <2>3 DEF Run
  <2>5. Held(t)
    BY <2>1 DEF HandInv, Pending
  <2>6. QED
    BY <2>1, <2>2, <2>3, <2>4, <2>5, RunMoves
<1>6. QED
  BY <1>1, <1>2, <1>3, <1>4, <1>5 DEF RunStep

LEMMA HandNext == ASSUME InboxInv, HandInv, [Next]_vars PROVE HandInv'
<1>1. CASE UNCHANGED vars
  BY <1>1 DEF HandInv, Pending, Held, NotRunning, Run, vars, feedVars, runVars
<1>2. CASE Next
  <2>1. ASSUME NEW t \in Types, Pending(t)' PROVE Held(t)'
    BY <1>2, <2>1, FeedHolds, BackfillHolds, ReplayHolds, RunHolds DEF Next
  <2>2. backfill'.at # "none" => connected'
    <3>1. CASE UNCHANGED <<backfill, connected>>
      BY <3>1 DEF HandInv
    <3>2. CASE Connect
      BY <3>2 DEF Connect
    <3>3. CASE BackfillStep \/ BackfillFails
      <4>1. backfill.at # "none" /\ connected' = connected
        BY <3>3 DEF BackfillStep, ListAppointments, StoreListed, SendListed, BackfillFails
      <4>2. QED
        BY <4>1 DEF HandInv
    <3>4. QED
      BY <1>2, <3>1, <3>2, <3>3
      DEF Next, Report, Receive, Acknowledge, ReceiverFails, ResetRow, SendReplay, RunStep,
          Take, Load, ResolveConnection, Reject, FindCall, ApplyPayload, StageMissing,
          MarkProcessed, RunFails
  <2>3. QED
    BY <2>1, <2>2 DEF HandInv
<1>3. QED
  BY <1>1, <1>2

\* No crash, failed send, retry or replay leaves a pending row to nobody: it is in hand until
\* it is marked, or what was to mark it was given up.  AcceptedProcessed then follows from
\* fairness, as the steps that have it in hand are taken.
THEOREM PendingRowsAreInHand == Spec => []PendingInHand
<1>1. Init => HandInv
  BY DEF Init, HandInv, Pending
<1>2. HandInv => PendingInHand
  BY DEF HandInv, PendingInHand, RowState, Pending, Held, NotRunning, Run, InHand
<1>3. QED
  BY <1>1, <1>2, HandNext, InboxInvariant, PTL DEF Spec
==============================================================================
