----------------------------- MODULE WebhookInbox -----------------------------
(* The webhook inbox for one call of one provider: the receivers of
   apps/web/src/app/api/webhooks/{ghl,aircall}, the GoHighLevel backfill, the
   background handlers of jobs/src/webhooks, and an administrator's replay.

   The provider feeds a sequence of events about one appointment or phone call;
   each is delivered at least once and in any order.  A receiver stores it under
   (source, account, type:id), so events of one type share a row, and then sends
   a background event that up to 20 runs consume concurrently.

   A run's transaction starts with a write of the call row it found, or inserts
   a row nobody else sees, so everything after that select is one step.         *)
EXTENDS Integers, Sequences, FiniteSets

CONSTANTS
    Provider,       \* "gohighlevel" or "aircall"
    Feed,           \* what the provider reports, in order: [type, status, valid]
    Stages,         \* slugs of the workspace's funnel stages
    Workers,        \* concurrent runs of the handler
    MaxRetries,     \* retries of a run (3)
    MaxBackfillRetries,  \* retries of the backfill (1)
    MaxDups, MaxReplays, MaxFailures    \* bounds of the model

CreateType == "AppointmentCreate"
Types == {Feed[n].type : n \in 1 .. Len(Feed)} \cup
         (IF Provider = "gohighlevel" THEN {CreateType} ELSE {})

NoRow == [type |-> "none"]

ASSUME InboxAssumption ==
    /\ Provider \in {"gohighlevel", "aircall"}
    /\ Feed \in Seq([type : STRING, status : STRING, valid : BOOLEAN])
    /\ NoRow.type \notin Types
    /\ IsFiniteSet(Workers)
    /\ MaxRetries \in Nat /\ MaxBackfillRetries \in Nat
    /\ MaxDups \in Nat /\ MaxReplays \in Nat /\ MaxFailures \in Nat

-------------------------------------------------------------------------------
(* Payloads.                                                                   *)

\* A payload, the feed's version of the call in it; it is valid if it parses and has
\* the fields the handler requires.
Payload == [type : Types, ver : 1 .. Len(Feed), valid : BOOLEAN]

InboxRow == [type : Types, ver : 1 .. Len(Feed), valid : BOOLEAN,
             processed : BOOLEAN, error : BOOLEAN]
Store(p) == [type |-> p.type, ver |-> p.ver, valid |-> p.valid,
             processed |-> FALSE, error |-> FALSE]

Handled(type) ==
    CASE Provider = "gohighlevel" -> type \in {"AppointmentCreate", "AppointmentUpdate"}
      [] Provider = "aircall"     -> TRUE

NoStage == "none"

\* GHL_STATUS_MAP, with its default.
InternalStatus(status) ==
    CASE status = "showed"                   -> "showed"
      [] status = "noshow"                   -> "no_sale"
      [] status \in {"cancelled", "invalid"} -> "canceled_by_customer"
      [] OTHER                               -> "scheduled"

\* The funnel stage a payload is recorded under.
GhlStage(ver, created) == IF created THEN "scheduled" ELSE InternalStatus(Feed[ver].status)
AircallStage(type) == IF type = "call.ended" THEN "completed" ELSE NoStage

StageOf(row, created) ==
    IF Provider = "gohighlevel" THEN GhlStage(row.ver, created) ELSE AircallStage(row.type)

VARIABLES
    reported,   \* how much of the feed the provider has reported
    out,        \* deliveries the provider has not had acknowledged
    storing,    \* of these, stored by a receiver that has not sent its event yet
    dups,       \* acknowledgements lost so far
    inbox,      \* webhook_inbound_events of this appointment, by type
    queue,      \* undelivered background events, by type
    lost,       \* types whose background event was lost or whose run was given up
    connected,  \* a data_source_connections row names the provider account
    backfill,   \* the backfill function: where it is, the payload it listed, retries
    replaying,  \* rows an administrator has reset and not yet re-sent
    replays,
    calls,      \* rows of calls for this appointment: the version each shows
    applied,    \* history: the types a committed run has applied
    events,     \* funnel events, as [call, stage, type]
    pc,         \* where each run is
    job,        \* the row it has read
    found,      \* the call its transaction found, 0 for none
    tries,      \* retries it has used
    failures

feedVars == <<reported, out, storing, dups>>
runVars == <<pc, job, found, tries>>
vars == <<feedVars, inbox, queue, lost, connected, backfill, replaying, replays,
          calls, applied, events, runVars, failures>>

Init ==
    /\ reported = 0
    /\ out = {}
    /\ storing = {}
    /\ dups = 0
    /\ inbox = [t \in Types |-> NoRow]
    /\ queue = [t \in Types |-> 0]
    /\ lost = {}
    /\ connected \in BOOLEAN
    /\ backfill = [at |-> "none", ver |-> 0, tries |-> 0]
    /\ replaying = {}
    /\ replays = 0
    /\ calls = <<>>
    /\ applied = {}
    /\ events = {}
    /\ pc = [w \in Workers |-> "idle"]
    /\ job = [w \in Workers |-> NoRow]
    /\ found = [w \in Workers |-> 0]
    /\ tries = [w \in Workers |-> 0]
    /\ failures = 0

Fail == failures < MaxFailures /\ failures' = failures + 1
Enqueue(t) == queue' = [queue EXCEPT ![t] = @ + 1]
SetRow(t, done, failed) ==
    inbox' = [inbox EXCEPT ![t] = [@ EXCEPT !.processed = done, !.error = failed]]

-------------------------------------------------------------------------------
(* The provider and the receivers.                                             *)

\* External: something happens to the appointment and the provider reports it.
Report ==
    LET n == reported + 1
    IN  /\ reported < Len(Feed)
        /\ reported' = n
        /\ out' = out \cup {[type |-> Feed[n].type, ver |-> n, valid |-> Feed[n].valid]}
        /\ UNCHANGED <<storing, dups, inbox, queue, lost, connected, backfill, replaying,
                       replays, calls, applied, events, runVars, failures>>

\* Mutant: a delivery replaces the row it collides with.
StoreOver(p) == inbox' = [inbox EXCEPT ![p.type] = Store(p)]

\* insert .. on conflict do nothing: the first delivery of a type keeps the row.
StoreOnce(p) ==
    inbox' = [inbox EXCEPT ![p.type] = IF @ = NoRow THEN Store(p) ELSE @]

Receive(p) ==
    /\ p \in out \ storing
    /\ StoreOnce(p)
    /\ storing' = storing \cup {p}
    /\ UNCHANGED <<reported, out, dups, queue, lost, connected, backfill, replaying,
                   replays, calls, applied, events, runVars, failures>>

\* Mutant: the delivery is acknowledged before its event is sent.
AcknowledgeFirst(p) ==
    /\ p \in storing
    /\ out' = out \ {p}
    /\ UNCHANGED <<reported, storing, dups, inbox, queue, lost, connected, backfill, replaying,
                   replays, calls, applied, events, runVars, failures>>

\* The event is sent and the delivery acknowledged, unless the answer is lost.
Acknowledge(p) ==
    /\ p \in storing
    /\ Enqueue(p.type)
    /\ storing' = storing \ {p}
    /\ \/ out' = out \ {p} /\ dups' = dups
       \/ dups < MaxDups /\ dups' = dups + 1 /\ out' = out
    /\ UNCHANGED <<reported, inbox, lost, connected, backfill, replaying, replays,
                   calls, applied, events, runVars, failures>>

\* Mutant: outside production a failed send is logged and the delivery acknowledged.
ReceiverFailsQuietly(p) ==
    /\ p \in storing
    /\ Fail
    /\ storing' = storing \ {p}
    /\ out' = out \ {p}
    /\ UNCHANGED <<reported, dups, inbox, queue, lost, connected, backfill,
                   replaying, replays, calls, applied, events, runVars>>

\* The process dies or the send fails: no 2xx, the provider tries again.
ReceiverFails(p) ==
    /\ p \in storing
    /\ Fail
    /\ storing' = storing \ {p}
    /\ UNCHANGED <<reported, out, dups, inbox, queue, lost, connected, backfill,
                   replaying, replays, calls, applied, events, runVars>>

-------------------------------------------------------------------------------
(* Connecting the account, and the backfill it starts.                         *)

\* The connection is committed before the backfill is requested.
Connect ==
    /\ ~connected
    /\ connected' = TRUE
    /\ IF Provider = "gohighlevel"
       THEN \/ backfill' = [backfill EXCEPT !.at = "requested"] /\ UNCHANGED failures
            \/ Fail /\ UNCHANGED backfill
       ELSE UNCHANGED <<backfill, failures>>
    /\ UNCHANGED <<feedVars, inbox, queue, lost, replaying, replays, calls, applied, events,
                   runVars>>

\* The listing is a memoised step; a calendar that fails lists nothing.
ListAppointments ==
    /\ backfill.at = "requested"
    /\ \/ /\ reported > 0
          /\ backfill' = [backfill EXCEPT !.at = "listed", !.ver = reported]
          /\ UNCHANGED failures
       \/ /\ reported = 0
          /\ backfill' = [backfill EXCEPT !.at = "done"]
          /\ UNCHANGED failures
       \/ /\ Fail
          /\ backfill' = [backfill EXCEPT !.at = "done"]
    /\ UNCHANGED <<feedVars, inbox, queue, lost, connected, replaying, replays,
                   calls, applied, events, runVars>>

\* A synthetic creation with the appointment as it was listed.
StoreListed ==
    /\ backfill.at = "listed"
    /\ StoreOnce([type |-> CreateType, ver |-> backfill.ver, valid |-> TRUE])
    /\ backfill' = [backfill EXCEPT !.at = "stored"]
    /\ UNCHANGED <<feedVars, queue, lost, connected, replaying, replays,
                   calls, applied, events, runVars, failures>>

SendListed ==
    /\ backfill.at = "stored"
    /\ Enqueue(CreateType)
    /\ backfill' = [backfill EXCEPT !.at = "done"]
    /\ UNCHANGED <<feedVars, inbox, lost, connected, replaying, replays,
                   calls, applied, events, runVars, failures>>

BackfillFails ==
    /\ backfill.at \in {"listed", "stored"}
    /\ Fail
    /\ IF backfill.tries < MaxBackfillRetries
       THEN /\ backfill' = [backfill EXCEPT !.at = "listed", !.tries = @ + 1]
            /\ UNCHANGED lost
       ELSE /\ backfill' = [backfill EXCEPT !.at = "done"]
            /\ lost' = lost \cup {CreateType}
    /\ UNCHANGED <<feedVars, inbox, queue, connected, replaying, replays,
                   calls, applied, events, runVars>>

-------------------------------------------------------------------------------
(* Replay by an administrator.                                                 *)

\* The administrator sees the rows of the accounts the workspace has connected.
ResetRow(t) ==
    /\ connected
    /\ inbox[t] # NoRow
    /\ t \notin replaying
    /\ replays < MaxReplays
    /\ replays' = replays + 1
    /\ SetRow(t, FALSE, FALSE)
    /\ replaying' = replaying \cup {t}
    /\ UNCHANGED <<feedVars, queue, lost, connected, backfill, calls, applied, events,
                   runVars, failures>>

SendReplay(t) ==
    /\ t \in replaying
    /\ replaying' = replaying \ {t}
    /\ \/ Enqueue(t) /\ UNCHANGED <<lost, failures>>
       \/ Fail /\ lost' = lost \cup {t} /\ UNCHANGED queue
    /\ UNCHANGED <<feedVars, inbox, connected, backfill, replays, calls, applied, events, runVars>>

-------------------------------------------------------------------------------
(* A run of the handler.                                                       *)

Goto(w, label) == pc' = [pc EXCEPT ![w] = label]
EndRun(w) ==
    /\ Goto(w, "idle")
    /\ job' = [job EXCEPT ![w] = NoRow]
    /\ found' = [found EXCEPT ![w] = 0]
    /\ tries' = [tries EXCEPT ![w] = 0]

\* Mutant: the handler swallows the error of its transaction.
Swallow(w) == Goto(w, "applied") /\ UNCHANGED <<found, tries, job, lost>>

\* A throw rolls the transaction back and the run starts over, MaxRetries times.
Rerun(w) ==
    IF tries[w] < MaxRetries
    THEN /\ Goto(w, "ready")
         /\ found' = [found EXCEPT ![w] = 0]
         /\ tries' = [tries EXCEPT ![w] = @ + 1]
         /\ UNCHANGED <<job, lost>>
    ELSE /\ EndRun(w)
         /\ lost' = lost \cup {job[w].type}

Take(w, t) ==
    /\ pc[w] = "idle"
    /\ queue[t] > 0
    /\ queue' = [queue EXCEPT ![t] = @ - 1]
    /\ Goto(w, "ready")
    /\ job' = [job EXCEPT ![w] = inbox[t]]
    /\ UNCHANGED <<feedVars, inbox, lost, connected, backfill, replaying, replays,
                   calls, applied, events, found, tries, failures>>

\* Read the row and validate the payload.
Load(w) ==
    LET row == inbox[job[w].type]
    IN  /\ pc[w] = "ready"
        /\ IF row.processed THEN EndRun(w)
           ELSE /\ job' = [job EXCEPT ![w] = row]
                /\ Goto(w, IF ~row.valid THEN "rejecting"
                           ELSE IF ~Handled(row.type) THEN "ignoring"
                           ELSE "loaded")
                /\ UNCHANGED <<found, tries>>
        /\ UNCHANGED <<feedVars, inbox, queue, lost, connected, backfill, replaying,
                       replays, calls, applied, events, failures>>

\* The workspace is the one that connected the provider's account.
ResolveConnection(w) ==
    /\ pc[w] = "loaded"
    /\ Goto(w, IF connected THEN "resolved" ELSE "rejecting")
    /\ UNCHANGED <<feedVars, inbox, queue, lost, connected, backfill, replaying,
                   replays, calls, applied, events, job, found, tries, failures>>

\* Mark the row processed with an error; nothing retries it.
Reject(w) ==
    /\ pc[w] = "rejecting"
    /\ SetRow(job[w].type, TRUE, TRUE)
    /\ EndRun(w)
    /\ UNCHANGED <<feedVars, queue, lost, connected, backfill, replaying, replays,
                   calls, applied, events, failures>>

\* Mutant: the run does not look for an existing call.
FindNone(w) == found' = [found EXCEPT ![w] = 0]

\* .limit(1) of the calls with this external id.
FindAny(w) ==
    \/ calls = <<>> /\ found' = [found EXCEPT ![w] = 0]
    \/ \E c \in 1 .. Len(calls) : found' = [found EXCEPT ![w] = c]

FindCall(w) ==
    /\ pc[w] = "resolved"
    /\ FindAny(w)
    /\ Goto(w, "found")
    /\ UNCHANGED <<feedVars, inbox, queue, lost, connected, backfill, replaying, replays,
                   calls, applied, events, job, tries, failures>>

\* Insert or overwrite the call, record its funnel stage, commit.
ApplyPayload(w) ==
    LET created == found[w] = 0
        stage == StageOf(job[w], created)
        c == IF created THEN Len(calls) + 1 ELSE found[w]
    IN  /\ pc[w] = "found"
        /\ stage \in Stages \cup {NoStage}
        /\ calls' = IF created THEN Append(calls, job[w].ver)
                     ELSE [calls EXCEPT ![c] = job[w].ver]
        /\ applied' = applied \cup {job[w].type}
        /\ events' = IF stage = NoStage THEN events
                     ELSE events \cup {[call |-> c, stage |-> stage, type |-> job[w].type]}
        /\ Goto(w, "applied")
        /\ UNCHANGED <<feedVars, inbox, queue, lost, connected, backfill, replaying,
                       replays, job, found, tries, failures>>

\* The workspace has no such stage: the transaction rolls back.
StageMissing(w) ==
    /\ pc[w] = "found"
    /\ StageOf(job[w], found[w] = 0) \notin Stages \cup {NoStage}
    /\ Rerun(w)
    /\ UNCHANGED <<feedVars, inbox, queue, connected, backfill, replaying, replays,
                   calls, applied, events, failures>>

\* A statement of its own, after the commit.
MarkProcessed(w) ==
    /\ pc[w] \in {"applied", "ignoring"}
    /\ SetRow(job[w].type, TRUE, inbox[job[w].type].error)
    /\ EndRun(w)
    /\ UNCHANGED <<feedVars, queue, lost, connected, backfill, replaying, replays,
                   calls, applied, events, failures>>

RunFails(w) ==
    /\ pc[w] \notin {"idle", "ready"}
    /\ Fail
    /\ Rerun(w)
    /\ UNCHANGED <<feedVars, inbox, queue, connected, backfill, replaying, replays,
                   calls, applied, events>>

-------------------------------------------------------------------------------
RunStep(w) ==
    \/ \E t \in Types : Take(w, t)
    \/ Load(w) \/ ResolveConnection(w) \/ Reject(w) \/ FindCall(w) \/ ApplyPayload(w) \/ StageMissing(w)
    \/ MarkProcessed(w)

BackfillStep == ListAppointments \/ StoreListed \/ SendListed

Next ==
    \/ Report
    \/ \E p \in out : Receive(p) \/ Acknowledge(p) \/ ReceiverFails(p)
    \/ Connect
    \/ BackfillStep
    \/ BackfillFails
    \/ \E t \in Types : ResetRow(t) \/ SendReplay(t)
    \/ \E w \in Workers : RunStep(w) \/ RunFails(w)

Spec == Init /\ [][Next]_vars

(* Fairness: the provider retries until it is acknowledged, the platform runs
   what is queued and reruns what failed, a started request ends.              *)
FairSpec ==
    /\ Spec
    /\ \A p \in Payload : WF_vars(Receive(p)) /\ WF_vars(Acknowledge(p))
    /\ WF_vars(BackfillStep)
    /\ \A t \in Types : WF_vars(SendReplay(t))
    /\ \A w \in Workers : WF_vars(RunStep(w))

-------------------------------------------------------------------------------
(* Types.                                                                      *)

FeedTyped ==
    /\ reported \in 0 .. Len(Feed)
    /\ out \subseteq Payload
    /\ storing \subseteq out
    /\ dups \in Nat
    /\ failures \in Nat

InboxTyped ==
    /\ inbox \in [Types -> InboxRow \cup {NoRow}]
    /\ queue \in [Types -> Nat]
    /\ lost \subseteq Types
    /\ replaying \subseteq Types
    /\ replays \in Nat

BackfillTyped ==
    /\ connected \in BOOLEAN
    /\ backfill \in [at : {"none", "requested", "listed", "stored", "done"},
                     ver : 0 .. Len(Feed), tries : Nat]

CallsTyped ==
    /\ calls \in Seq(1 .. Len(Feed))
    /\ applied \subseteq Types
    /\ \A e \in events : e.call \in 1 .. Len(calls) /\ e.stage \in Stages /\ e.type \in Types

RunsTyped ==
    /\ pc \in [Workers -> {"idle", "ready", "loaded", "resolved", "found", "applied",
                           "rejecting", "ignoring"}]
    /\ job \in [Workers -> InboxRow \cup {NoRow}]
    /\ found \in [Workers -> Nat]
    /\ \A w \in Workers : found[w] <= Len(calls)
    /\ tries \in [Workers -> Nat]

TypeOK == FeedTyped /\ InboxTyped /\ BackfillTyped /\ CallsTyped /\ RunsTyped

(* Nothing is queued, sent, replayed or run before its row is there, and a run past
   its transaction has applied its row's type.                                 *)
Accepted == {t \in Types : inbox[t] # NoRow}

RowsNamed == \A t \in Accepted : inbox[t].type = t

WorkIsAccepted ==
    /\ \A t \in Types : queue[t] > 0 => t \in Accepted
    /\ \A p \in storing : p.type \in Accepted
    /\ replaying \subseteq Accepted

BackfillIsAccepted ==
    /\ backfill.at # "none" => Provider = "gohighlevel"
    /\ backfill.at \in {"listed", "stored"} => backfill.ver > 0
    /\ backfill.at = "stored" => CreateType \in Accepted

RunsAreAccepted ==
    \A w \in Workers :
        /\ pc[w] # "idle" => job[w] \in InboxRow /\ job[w].type \in Accepted
        /\ pc[w] = "ignoring" => ~Handled(job[w].type)
        /\ pc[w] = "applied" => job[w].type \in applied

InboxInv ==
    TypeOK /\ RowsNamed /\ WorkIsAccepted /\ BackfillIsAccepted /\ RunsAreAccepted

-------------------------------------------------------------------------------
(* Properties.                                                                 *)

RowState(t) ==
    IF inbox[t] = NoRow THEN "none"
    ELSE IF ~inbox[t].processed THEN "pending"
    ELSE IF inbox[t].error \/ ~Handled(t) THEN "rejected"
    ELSE "done"

Contract == INSTANCE InboxContract WITH
    Deliveries <- Types, state <- [t \in Types |-> RowState(t)], applied <- applied

\* Whatever the receivers, retries, replays and crashes do, a stored delivery is never
\* forgotten, its effect never undone, and it is marked done only after its effect
\* committed: the handler marks the row outside the transaction that applies it.
ContractKept == Contract!Spec

\* A stored delivery is eventually marked, unless its run was given up or its event lost
\* by a replay: the receiver sends the event before it acknowledges, so a crash between
\* the two is repaired by the provider's next attempt.
AcceptedProcessed ==
    \A t \in Types : RowState(t) = "pending" ~> (RowState(t) # "pending" \/ t \in lost)

\* A row that is pending is somebody's, at every point where a process may die: a delivery
\* that is still unacknowledged, the backfill or a replay that has it in hand, an event that
\* is queued, or a run.  Only a run or an event that was given up leaves it to nobody.
InHand(t) ==
    \/ \E p \in out : p.type = t
    \/ t = CreateType /\ backfill.at \in {"listed", "stored"}
    \/ t \in replaying
    \/ queue[t] > 0
    \/ \E w \in Workers : pc[w] # "idle" /\ job[w].type = t

PendingInHand == \A t \in Types : RowState(t) = "pending" => InHand(t) \/ t \in lost

\* The upsert keyed on (sub-account, source, external id) is a select and an insert, and
\* the index is not unique: overlapping runs may leave a call each, but over any number of
\* deliveries, retries and replays no more than that, and one where runs do not overlap.
OneCallPerRun == Len(calls) <= Cardinality(Workers)

\* The funnel events a delivery leaves, over all its retries and replays, are a creation
\* and the status of the payload first stored for it.
EventsOfStoredPayload ==
    \A e \in events :
        \/ e.stage = StageOf(inbox[e.type], TRUE)
        \/ e.stage = StageOf(inbox[e.type], FALSE)

\* The row key does "keep distinct create/update events from collapsing": a delivery that
\* was acknowledged has a row with its payload.
DistinctEventsKept ==
    \A n \in 1 .. reported :
        \/ \E p \in out : p.ver = n
        \/ inbox[Feed[n].type].ver = n
===============================================================================
