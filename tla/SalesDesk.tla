------------------------------- MODULE SalesDesk -------------------------------
(* Sales, calls and the links between them, as users and the agent edit them:
   domain/src/sales, domain/src/calls and domain/src/reconciliation behind their
   routers, the linker card of a sale's page and the agent's tools.

   A mutation is one READ COMMITTED transaction.  It reads, then writes: a row it has
   written stays locked, so nobody sees or disturbs its writes until it commits, and the
   writes and the commit are one step.  What it read may be stale by then.
   The recomputes that sales mutations request are in CommissionLedger.            *)
EXTENDS Naturals, FiniteSets

CONSTANTS
    Sales, Calls,
    Users,          \* tabs of users and turns of the agent, one transaction each at a time
    Candidates,     \* pairs that score 0.3 or more, within 14 days of each other
    PresetStages,   \* funnel stages of the workspace's preset
    MaxEdits,       \* bound on the mutations
    NoSale, NoCall

ASSUME DeskAssumption ==
    /\ Candidates \subseteq Sales \X Calls
    /\ {"booked", "showed", "closed"} \subseteq PresetStages
    /\ MaxEdits \in Nat
    /\ NoSale \notin Sales /\ NoCall \notin Calls
    /\ Sales \cap Calls = {}

Marks == {"showed", "pitched"}

Stages == {"booked", "showed", "pitched", "closed", "refunded", "partially_refunded"}

Operations == {"idle", "create", "link", "unlink", "reject", "refund", "outcome"}

VARIABLES
    sale,       \* state, linkedCallId, rejectedReconciliationLinks, refundStatus
    calls,      \* state, linkedSaleId, appointmentAt, showedAt and pitchedAt, disposition
    events,     \* funnel events of each entity under each stage
    tx,         \* the open transaction of each user: what it is for and what it has read
    edits,
    partners,   \* history: the pairs that were ever linked
    stale,      \* history: sales unlinked by a transaction that had read another link
    crossed     \* history: pairs of a transaction that had read the call before its delete

vars == <<sale, calls, events, tx, edits, partners, stale, crossed>>

Idle == [op |-> "idle", sale |-> NoSale, call |-> NoCall,
         previous |-> NoCall, existing |-> {}, marked |-> {}]

Init ==
    /\ sale = [s \in Sales |-> [state |-> "absent", call |-> NoCall,
                                rejected |-> {}, refunded |-> FALSE]]
    /\ calls = [c \in Calls |-> [state |-> "absent", sale |-> NoSale, appointment |-> FALSE,
                                 marks |-> {}, won |-> FALSE]]
    /\ events = [e \in Sales \cup Calls |-> [g \in Stages |-> 0]]
    /\ tx = [u \in Users |-> Idle]
    /\ edits = 0
    /\ partners = {}
    /\ stale = {}
    /\ crossed = {}

LiveSale(s) == sale[s].state = "live"
LiveCall(c) == c \in Calls /\ calls[c].state = "live"

-------------------------------------------------------------------------------
(* Transactions.                                                               *)

Edit ==
    /\ edits < MaxEdits
    /\ edits' = edits + 1

Begin(u, t) ==
    /\ tx[u] = Idle
    /\ Edit
    /\ tx' = [tx EXCEPT ![u] = t]
    /\ UNCHANGED <<sale, calls, events, partners, stale, crossed>>

Commit(u, op) ==
    /\ tx[u].op = op
    /\ tx' = [tx EXCEPT ![u] = Idle]
    /\ UNCHANGED <<edits, crossed>>

\* A statement fails, or an event has no stage: nothing of the mutation stays.
Abort(u) ==
    /\ tx[u] # Idle
    /\ tx' = [tx EXCEPT ![u] = Idle]
    /\ UNCHANGED <<sale, calls, events, edits, partners, stale, crossed>>

\* A mutation of one statement.
Statement(u) ==
    /\ tx[u] = Idle
    /\ Edit
    /\ UNCHANGED <<tx, stale>>

Emitted(e, g) == [events EXCEPT ![e][g] = @ + 1]

\* Mutant: the update does not look at deleted_at.
CallLinkedAlways(c, s) ==
    IF c \in Calls THEN [calls EXCEPT ![c].sale = s] ELSE calls

\* The update of the call: it finds no row when the call was deleted meanwhile.
CallLinked(c, s) ==
    IF LiveCall(c) THEN [calls EXCEPT ![c].sale = s] ELSE calls

-------------------------------------------------------------------------------
(* Sales.                                                                      *)

BeginCreate(u, s, c) ==
    /\ sale[s].state = "absent"
    /\ \A v \in Users : tx[v].sale # s
    /\ c # NoCall => LiveCall(c)
    /\ Begin(u, [Idle EXCEPT !.op = "create", !.sale = s, !.call = c])

CommitCreate(u) ==
    LET s == tx[u].sale
        c == tx[u].call
    IN  /\ Commit(u, "create")
        /\ sale' = [sale EXCEPT ![s].state = "live", ![s].call = c]
        /\ calls' = CallLinked(c, s)
        /\ events' = Emitted(s, "closed")
        /\ partners' = partners \cup ({<<s, c>>} \cap (Sales \X Calls))
        /\ UNCHANGED stale

BeginLink(u, s, c) ==
    /\ LiveSale(s) /\ LiveCall(c)
    /\ Begin(u, [Idle EXCEPT !.op = "link", !.sale = s, !.call = c])

\* The update of the sale returns no row when it was deleted meanwhile: the link throws.
\* The call may be deleted by now: only the sale is updated then.
CommitLink(u) ==
    LET s == tx[u].sale
        c == tx[u].call
    IN  /\ Commit(u, "link")
        /\ LiveSale(s)
        /\ sale' = [sale EXCEPT ![s].call = c]
        /\ calls' = CallLinked(c, s)
        /\ events' = Emitted(s, "closed")
        /\ partners' = partners \cup {<<s, c>>}
        /\ UNCHANGED stale

\* Mutant: the session keeps the sale of the call in the place of its call.
BeginUnlinkMixed(u, s) ==
    /\ sale[s].state # "absent"
    /\ Begin(u, [Idle EXCEPT !.op = "unlink", !.sale = s, !.previous = s])

\* Neither the read nor the updates of an unlink look at deleted_at.
BeginUnlink(u, s) ==
    /\ sale[s].state # "absent"
    /\ Begin(u, [Idle EXCEPT !.op = "unlink", !.sale = s, !.previous = sale[s].call])

\* Mutant: only the sale is cleared.
CommitUnlinkOneSide(u) ==
    LET s == tx[u].sale
    IN  /\ Commit(u, "unlink")
        /\ sale' = [sale EXCEPT ![s].call = NoCall]
        /\ stale' = stale \cup {r \in {s} : sale[r].call # tx[u].previous}
        /\ UNCHANGED <<calls, events, partners>>

CommitUnlink(u) ==
    LET s == tx[u].sale
        previous == tx[u].previous
    IN  /\ Commit(u, "unlink")
        /\ sale' = [sale EXCEPT ![s].call = NoCall]
        /\ calls' = IF previous = NoCall THEN calls
                                         ELSE [calls EXCEPT ![previous].sale = NoSale]
        /\ stale' = stale \cup {r \in {s} : sale[r].call # previous}
        /\ UNCHANGED <<events, partners>>

SoftDeleteSale(u, s) ==
    /\ LiveSale(s)
    /\ Statement(u)
    /\ sale' = [sale EXCEPT ![s].state = "deleted"]
    /\ UNCHANGED <<calls, events, partners, crossed>>

BeginRefund(u, s) ==
    /\ LiveSale(s)
    /\ Begin(u, [Idle EXCEPT !.op = "refund", !.sale = s])

RefundStage(full) == IF full THEN "refunded" ELSE "partially_refunded"

\* The update is by id alone, and a reason replaces all the metadata.  Without a stage in
\* the preset the event throws and the refund is rolled back: an Abort.
CommitRefund(u, full, withReason) ==
    LET s == tx[u].sale
    IN  /\ Commit(u, "refund")
        /\ RefundStage(full) \in PresetStages
        /\ sale' = [sale EXCEPT ![s].refunded = TRUE,
                                ![s].rejected = IF withReason THEN {} ELSE @]
        /\ events' = Emitted(s, RefundStage(full))
        /\ UNCHANGED <<calls, partners, stale>>

-------------------------------------------------------------------------------
(* Reconciliation.                                                             *)

\* unlinkedSalesQueue, and the sales whose page shows suggestions.
Unlinked(s) == LiveSale(s) /\ sale[s].call = NoCall

SuggestedCalls(s) ==
    {c \in Calls : /\ LiveCall(c)
                   /\ calls[c].sale = NoSale
                   /\ calls[c].appointment
                   /\ <<s, c>> \in Candidates
                   /\ c \notin sale[s].rejected}

BeginReject(u, s, c) ==
    /\ Unlinked(s) /\ LiveCall(c) /\ calls[c].sale = NoSale
    /\ Begin(u, [Idle EXCEPT !.op = "reject", !.sale = s, !.call = c,
                             !.existing = sale[s].rejected])

\* Writes the metadata it has read, with one more link.
CommitReject(u) ==
    LET s == tx[u].sale
    IN  /\ Commit(u, "reject")
        /\ sale' = IF LiveSale(s)
                   THEN [sale EXCEPT ![s].rejected = tx[u].existing \cup {tx[u].call}]
                   ELSE sale
        /\ UNCHANGED <<calls, events, partners, stale>>

-------------------------------------------------------------------------------
(* Calls.                                                                      *)

CreateCall(u, c, appointment) ==
    /\ calls[c].state = "absent"
    /\ Statement(u)
    /\ calls' = [calls EXCEPT ![c].state = "live", ![c].appointment = appointment]
    /\ events' = IF appointment THEN Emitted(c, "booked") ELSE events
    /\ UNCHANGED <<sale, partners, crossed>>

\* Sets or clears the appointment; no event.
UpdateCall(u, c, appointment) ==
    /\ LiveCall(c)
    /\ Statement(u)
    /\ calls' = [calls EXCEPT ![c].appointment = appointment]
    /\ UNCHANGED <<sale, events, partners, crossed>>

SetDisposition(u, c, won) ==
    /\ LiveCall(c)
    /\ Statement(u)
    /\ calls' = [calls EXCEPT ![c].won = won]
    /\ events' = IF won THEN Emitted(c, "closed") ELSE events
    /\ UNCHANGED <<sale, partners, crossed>>

BeginOutcome(u, c) ==
    /\ LiveCall(c)
    /\ Begin(u, [Idle EXCEPT !.op = "outcome", !.call = c, !.marked = calls[c].marks])

\* Mutant: an outcome with both marks emits one event only.
CommitOutcomeFirst(u, set, clear) ==
    LET c == tx[u].call
        new   == (set \ tx[u].marked) \cap PresetStages
        first == IF "showed" \in new THEN {"showed"} ELSE new
    IN  /\ Commit(u, "outcome")
        /\ calls' = IF LiveCall(c)
                    THEN [calls EXCEPT ![c].marks = (@ \cup set) \ clear]
                    ELSE calls
        /\ events' = [events EXCEPT ![c] =
                         [g \in Stages |-> @[g] + (IF g \in first THEN 1 ELSE 0)]]
        /\ UNCHANGED <<sale, partners, stale>>

\* Marks that are not in the input keep their value.  An event follows a mark that was not
\* there when the call was read, even if the call was deleted since; a missing stage is
\* caught and skipped.
CommitOutcome(u, set, clear) ==
    LET c == tx[u].call
        first == (set \ tx[u].marked) \cap PresetStages
    IN  /\ Commit(u, "outcome")
        /\ calls' = IF LiveCall(c)
                    THEN [calls EXCEPT ![c].marks = (@ \cup set) \ clear]
                    ELSE calls
        /\ events' = [events EXCEPT ![c] =
                         [g \in Stages |-> @[g] + (IF g \in first THEN 1 ELSE 0)]]
        /\ UNCHANGED <<sale, partners, stale>>

\* The pairs of open transactions that have seen c alive and are to link it.
Linking(c) ==
    {<<tx[v].sale, c>> : v \in {w \in Users : tx[w].op \in {"create", "link"} /\ tx[w].call = c}}

SoftDeleteCall(u, c) ==
    /\ LiveCall(c)
    /\ Statement(u)
    /\ calls' = [calls EXCEPT ![c].state = "deleted"]
    /\ crossed' = crossed \cup Linking(c)
    /\ UNCHANGED <<sale, events, partners>>

-------------------------------------------------------------------------------
(* Who starts them.                                                            *)

SalesRouter(u) ==
    \/ \E s \in Sales, c \in Calls : BeginCreate(u, s, c)
    \/ \E s \in Sales : SoftDeleteSale(u, s)
    \/ CommitCreate(u) \/ CommitLink(u) \/ CommitUnlink(u)
    \/ \E full, reason \in BOOLEAN : CommitRefund(u, full, reason)

CallsRouter(u) ==
    \/ \E c \in Calls, appointment \in BOOLEAN : UpdateCall(u, c, appointment)
    \/ \E c \in Calls : SoftDeleteCall(u, c)
    \/ \E set, clear \in SUBSET Marks : set \cap clear = {} /\ CommitOutcome(u, set, clear)

NewSaleForm(u) == \E s \in Sales : BeginCreate(u, s, NoCall)

NewCallForm(u) == \E c \in Calls, appointment \in BOOLEAN : CreateCall(u, c, appointment)

\* Gone from the page of a refunded sale, but not from a page opened before the refund.
RefundCard(u) == \E s \in Sales : BeginRefund(u, s)

CallDetailActions(u) ==
    \/ \E c \in Calls, won \in BOOLEAN : SetDisposition(u, c, won)
    \/ \E c \in Calls : BeginOutcome(u, c)

\* The page of a sale offers to unlink its call, or to accept or reject a suggestion.
LinkerCard(u) ==
    \/ \E s \in Sales : LiveSale(s) /\ sale[s].call # NoCall /\ BeginUnlink(u, s)
    \/ \E s \in Sales : Unlinked(s) /\ \E c \in SuggestedCalls(s) :
           BeginLink(u, s, c) \/ BeginReject(u, s, c)
    \/ CommitReject(u)

SaleDetailPage(u) == LinkerCard(u) \/ RefundCard(u)

\* The agent, or a page that is out of date, may link and unlink any of them.
LinkTool(u) == \E s \in Sales, c \in Calls : BeginLink(u, s, c)

UnlinkTool(u) == \E s \in Sales : BeginUnlink(u, s)

Next == \E u \in Users :
    \/ SalesRouter(u) \/ NewSaleForm(u) \/ SaleDetailPage(u)
    \/ CallsRouter(u) \/ NewCallForm(u) \/ CallDetailActions(u)
    \/ LinkTool(u) \/ UnlinkTool(u)
    \/ Abort(u)

Spec == Init /\ [][Next]_vars

-------------------------------------------------------------------------------
(* Properties.                                                                 *)

States == {"absent", "live", "deleted"}

TypeOK ==
    /\ sale \in [Sales -> [state : States, call : Calls \cup {NoCall},
                           rejected : SUBSET Calls, refunded : BOOLEAN]]
    /\ calls \in [Calls -> [state : States, sale : Sales \cup {NoSale},
                            appointment : BOOLEAN, marks : SUBSET Marks, won : BOOLEAN]]
    /\ events \in [Sales \cup Calls -> [Stages -> Nat]]
    /\ tx \in [Users -> [op : Operations, sale : Sales \cup {NoSale},
                         call : Calls \cup {NoCall}, previous : Calls \cup {NoCall},
                         existing : SUBSET Calls, marked : SUBSET Marks]]
    /\ \A u \in Users :
           /\ tx[u].op \notin {"idle", "outcome"} => tx[u].sale \in Sales
           /\ tx[u].op \in {"link", "reject", "outcome"} => tx[u].call \in Calls
    /\ edits \in Nat
    /\ partners \subseteq Sales \X Calls
    /\ stale \subseteq Sales
    /\ crossed \subseteq Sales \X Calls

\* The pairs that have linked s or c with anything.
Contacts(s, c) == {p \in partners : p[1] = s \/ p[2] = c}

\* "Updates both sides": a sale and a live call that have only ever been linked to each
\* other agree on whether they are, whatever was created, linked, deleted and unlinked at
\* once, unless an unlink of the sale ran across a link of it.
PairsAgree ==
    \A s \in Sales, c \in Calls :
        Contacts(s, c) = {<<s, c>>} /\ s \notin stale /\ LiveCall(c) =>
            (sale[s].call = c <=> calls[c].sale = s)

\* A link is made between what is alive: a sale that takes a call is alive itself, and so is
\* the call, unless it was deleted after the transaction had looked for it (the sale then
\* keeps the id of a deleted call); a call that takes a sale is alive, and so is the sale.
LinksMadeAlive ==
    [][/\ \A s \in Sales : sale'[s].call \notin {sale[s].call, NoCall} =>
              /\ sale'[s].state = "live"
              /\ LiveCall(sale'[s].call) \/ <<s, sale'[s].call>> \in crossed
       /\ \A c \in Calls : calls'[c].sale \notin {calls[c].sale, NoSale} =>
              /\ LiveCall(c)
              /\ sale'[calls'[c].sale].state = "live"]_vars

\* "Every status transition emits": a call that is marked or won, and a sale that is closed
\* or refunded, has its funnel event, although a mark is compared with a value read before.
OutcomesEmitted ==
    /\ \A c \in Calls :
           /\ "showed" \in calls[c].marks => events[c]["showed"] > 0
           /\ "pitched" \in calls[c].marks \cap PresetStages => events[c]["pitched"] > 0
           /\ calls[c].won => events[c]["closed"] > 0
    /\ \A s \in Sales :
           /\ sale[s].state # "absent" => events[s]["closed"] > 0
           /\ sale[s].refunded =>
                  events[s]["refunded"] + events[s]["partially_refunded"] > 0
===============================================================================
