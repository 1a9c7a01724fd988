---------------------------- MODULE SalesDeskProofs ----------------------------
(* What holds of the sales desk for any number of sales, calls, users and edits.  *)
EXTENDS SalesDesk, TLAPS

(* What a transaction read may be stale, but some of it stays true until it commits: what
   is not absent never is again, marks had their events, what was linked was, and the call
   to be linked is alive, or crossed by its delete.                                          *)
ReadsHold ==
    /\ \A u \in Users :
           /\ tx[u].op = "create" => sale[tx[u].sale].state = "absent"
           /\ tx[u].op \in {"link", "unlink", "reject", "refund"} =>
                  sale[tx[u].sale].state # "absent"
           /\ tx[u].call \in Calls => calls[tx[u].call].state # "absent"
           /\ tx[u].op \in {"create", "link"} /\ tx[u].call \in Calls =>
                  calls[tx[u].call].state = "live" \/ <<tx[u].sale, tx[u].call>> \in crossed
           /\ tx[u].previous \in Calls => <<tx[u].sale, tx[u].previous>> \in partners
           /\ tx[u].op = "outcome" =>
                  \A g \in tx[u].marked \cap PresetStages : events[tx[u].call][g] > 0
    /\ \A u, v \in Users :
           tx[u].op = "create" /\ tx[v].op = "create" /\ tx[u].sale = tx[v].sale => u = v

(* The history holds every link there is, between what was created.                    *)
PartnersKnown ==
    /\ \A s \in Sales : sale[s].call \in Calls => <<s, sale[s].call>> \in partners
    /\ \A p \in partners : sale[p[1]].state # "absent" /\ calls[p[2]].state # "absent"

DeskInv == TypeOK /\ ReadsHold /\ PartnersKnown /\ PairsAgree /\ OutcomesEmitted

\* The step of LinksMadeAlive.
LinkedAlive ==
    /\ \A s \in Sales : sale'[s].call \notin {sale[s].call, NoCall} =>
           /\ sale'[s].state = "live"
           /\ LiveCall(sale'[s].call) \/ <<s, sale'[s].call>> \in crossed
    /\ \A c \in Calls : calls'[c].sale \notin {calls[c].sale, NoSale} =>
           /\ LiveCall(c)
           /\ sale'[calls'[c].sale].state = "live"

SaleRow == [state : States, call : Calls \cup {NoCall}, rejected : SUBSET Calls,
            refunded : BOOLEAN]

CallRow == [state : States, sale : Sales \cup {NoSale}, appointment : BOOLEAN,
            marks : SUBSET Marks, won : BOOLEAN]

Tx == [op : Operations, sale : Sales \cup {NoSale}, call : Calls \cup {NoCall},
       previous : Calls \cup {NoCall}, existing : SUBSET Calls, marked : SUBSET Marks]

-------------------------------------------------------------------------------
(* Transactions that begin and end without a write.                            *)

LEMMA IdleIsTyped == Idle \in Tx /\ Idle.op = "idle" /\ Idle.sale = NoSale /\ Idle.call = NoCall
                     /\ Idle.previous = NoCall
  BY DEF Idle, Tx, Operations

\* A transaction that begins with true reads disturbs nothing.
LEMMA BeginKeeps ==
    ASSUME DeskInv, NEW u \in Users, NEW t \in Tx, Begin(u, t),
           t.op \notin {"idle", "outcome"} => t.sale \in Sales,
           t.op \in {"link", "reject", "outcome"} => t.call \in Calls,
           t.op = "create" => /\ sale[t.sale].state = "absent"
                              /\ \A v \in Users : tx[v].sale # t.sale,
           t.op \in {"link", "unlink", "reject", "refund"} => sale[t.sale].state # "absent",
           t.call \in Calls => calls[t.call].state # "absent",
           t.op \in {"create", "link"} /\ t.call \in Calls => calls[t.call].state = "live",
           t.previous \in Calls => <<t.sale, t.previous>> \in partners,
           t.op = "outcome" => \A g \in t.marked \cap PresetStages : events[t.call][g] > 0
    PROVE  DeskInv' /\ LinkedAlive
<1>1. UNCHANGED <<sale, calls, events, partners, stale, crossed>>
  BY DEF Begin
<1>2. tx' = [tx EXCEPT ![u] = t]
  BY DEF Begin
<1>3. TypeOK'
  BY <1>1, <1>2 DEF DeskInv, TypeOK, Tx, Begin, Edit
<1>4. ReadsHold'
  BY <1>1, <1>2 DEF DeskInv, ReadsHold, TypeOK
<1>5. PartnersKnown' /\ PairsAgree' /\ OutcomesEmitted' /\ LinkedAlive
  BY <1>1 DEF DeskInv, PartnersKnown, PairsAgree, OutcomesEmitted, Contacts, LiveCall, LinkedAlive
<1>6. QED
  BY <1>3, <1>4, <1>5 DEF DeskInv

LEMMA AbortKeeps ==
    ASSUME DeskInv, NEW u \in Users, Abort(u)
    PROVE  DeskInv' /\ LinkedAlive
<1>1. UNCHANGED <<sale, calls, events, partners, stale, edits, crossed>>
  BY DEF Abort
<1>2. tx' = [tx EXCEPT ![u] = Idle]
  BY DEF Abort
<1>3. TypeOK'
  BY <1>1, <1>2, IdleIsTyped DEF DeskInv, TypeOK, Tx
<1>4. ReadsHold'
  BY <1>1, <1>2, IdleIsTyped, DeskAssumption DEF DeskInv, ReadsHold, TypeOK
<1>5. PartnersKnown' /\ PairsAgree' /\ OutcomesEmitted' /\ LinkedAlive
  BY <1>1 DEF DeskInv, PartnersKnown, PairsAgree, OutcomesEmitted, Contacts, LiveCall, LinkedAlive
<1>6. QED
  BY <1>3, <1>4, <1>5 DEF DeskInv

LEMMA StutterKeeps ==
    ASSUME DeskInv, UNCHANGED vars
    PROVE  DeskInv' /\ LinkedAlive
  BY DEF DeskInv, TypeOK, ReadsHold, PartnersKnown, PairsAgree, OutcomesEmitted, Contacts,
         LiveCall, LinkedAlive, vars

-------------------------------------------------------------------------------
(* Writes.                                                                     *)

\* Rows stay once they are there, links stay known and events stay counted.
Grows(u) ==
    /\ \A s \in Sales : sale[s].state # "absent" => sale'[s].state # "absent"
    /\ \A s \in Sales : sale[s].state = "absent" =>
           \/ sale'[s].state = "absent"
           \/ tx[u].op = "create" /\ tx[u].sale = s /\ tx'[u].op = "idle"
    /\ \A c \in Calls : calls[c].state # "absent" => calls'[c].state # "absent"
    /\ \A c \in Calls, v \in Users :
           calls[c].state = "live" /\ tx'[v].op \in {"create", "link"} /\ tx'[v].call = c =>
               calls'[c].state = "live" \/ <<tx'[v].sale, c>> \in crossed'
    /\ crossed \subseteq crossed'
    /\ partners \subseteq partners'
    /\ \A e \in Sales \cup Calls, g \in Stages :
           events[e][g] > 0 => events'[e][g] > 0

LEMMA ReadsStay ==
    ASSUME TypeOK, ReadsHold, NEW u \in Users, Grows(u),
           tx' = tx \/ tx' = [tx EXCEPT ![u] = Idle]
    PROVE  ReadsHold'
<1>1. \A v \in Users : tx'[v] = tx[v] \/ (v = u /\ tx'[v] = Idle)
  BY DEF TypeOK
<1>2. ASSUME NEW v \in Users
      PROVE  /\ tx'[v].op = "create" => sale'[tx'[v].sale].state = "absent"
             /\ tx'[v].op \in {"link", "unlink", "reject", "refund"} =>
                    sale'[tx'[v].sale].state # "absent"
             /\ tx'[v].call \in Calls => calls'[tx'[v].call].state # "absent"
             /\ tx'[v].op \in {"create", "link"} /\ tx'[v].call \in Calls =>
                    \/ calls'[tx'[v].call].state = "live"
                    \/ <<tx'[v].sale, tx'[v].call>> \in crossed'
             /\ tx'[v].previous \in Calls => <<tx'[v].sale, tx'[v].previous>> \in partners'
  <2>1. CASE tx'[v] = Idle
    BY <2>1, IdleIsTyped, DeskAssumption
  <2>2. CASE tx'[v] = tx[v]
    BY <2>2, <1>1 DEF TypeOK, ReadsHold, Grows, Idle
  <2>3. QED
    BY <1>1, <2>1, <2>2
<1>3. ASSUME NEW v \in Users, tx'[v].op = "outcome", NEW g \in tx'[v].marked \cap PresetStages
      PROVE  events'[tx'[v].call][g] > 0
  <2>1. tx'[v] = tx[v]
    BY <1>1, <1>3, IdleIsTyped
  <2>2. g \in Stages /\ tx[v].call \in Calls
    BY <2>1, <1>3 DEF TypeOK, Marks, Stages
  <2>3. QED
    BY <2>1, <2>2, <1>3 DEF ReadsHold, Grows
<1>4. ASSUME NEW v \in Users, NEW w \in Users,
             tx'[v].op = "create", tx'[w].op = "create", tx'[v].sale = tx'[w].sale
      PROVE  v = w
  BY <1>1, <1>4, IdleIsTyped DEF ReadsHold
<1>5. QED
  BY <1>2, <1>3, <1>4 DEF ReadsHold

LEMMA TypeStays ==
    ASSUME TypeOK, NEW u \in Users, tx' = tx \/ tx' = [tx EXCEPT ![u] = Idle],
           sale' \in [Sales -> SaleRow], calls' \in [Calls -> CallRow],
           events' \in [Sales \cup Calls -> [Stages -> Nat]], edits' \in Nat,
           partners' \subseteq Sales \X Calls, stale' \subseteq Sales,
           crossed' \subseteq Sales \X Calls
    PROVE  TypeOK'
<1>1. /\ tx' \in [Users -> Tx]
      /\ \A v \in Users : /\ tx'[v].op \notin {"idle", "outcome"} => tx'[v].sale \in Sales
                          /\ tx'[v].op \in {"link", "reject", "outcome"} => tx'[v].call \in Calls
  <2>1. tx \in [Users -> Tx]
    BY DEF TypeOK, Tx
  <2>2. tx' \in [Users -> Tx] /\ \A v \in Users : tx'[v] = tx[v] \/ tx'[v] = Idle
    BY <2>1, IdleIsTyped
  <2>3. QED
    BY <2>2, IdleIsTyped DEF TypeOK
<1>2. QED
  BY <1>1 DEF TypeOK, SaleRow, CallRow, Tx

LEMMA EmittedIsTyped ==
    ASSUME TypeOK, NEW e \in Sales \cup Calls, NEW g \in Stages, events' = Emitted(e, g)
    PROVE  /\ events' \in [Sales \cup Calls -> [Stages -> Nat]]
           /\ events'[e][g] > 0
           /\ \A f \in Sales \cup Calls, h \in Stages :
                  events[f][h] > 0 => events'[f][h] > 0
  BY DEF TypeOK, Emitted

\* What happens has its event, if it has happened before or the event comes with it.
LEMMA OutcomesStay ==
    ASSUME TypeOK, OutcomesEmitted,
           events' \in [Sales \cup Calls -> [Stages -> Nat]],
           \A e \in Sales \cup Calls, g \in Stages : events[e][g] > 0 => events'[e][g] > 0,
           \A c \in Calls :
               /\ \A g \in calls'[c].marks \cap PresetStages :
                      g \in calls[c].marks \/ (g \in Marks => events'[c][g] > 0)
               /\ calls'[c].won => calls[c].won \/ events'[c]["closed"] > 0,
           \A s \in Sales :
               /\ sale'[s].state # "absent" =>
                      sale[s].state # "absent" \/ events'[s]["closed"] > 0
               /\ sale'[s].refunded =>
                      \/ sale[s].refunded
                      \/ events'[s]["refunded"] > 0 \/ events'[s]["partially_refunded"] > 0
    PROVE  OutcomesEmitted'
<1>1. ASSUME NEW c \in Calls
      PROVE  /\ "showed" \in calls'[c].marks => events'[c]["showed"] > 0
             /\ "pitched" \in calls'[c].marks \cap PresetStages => events'[c]["pitched"] > 0
             /\ calls'[c].won => events'[c]["closed"] > 0
  <2>1. "showed" \in PresetStages /\ {"showed", "pitched", "closed"} \subseteq Stages
    BY DeskAssumption DEF Stages
  <2>2. "showed" \in calls'[c].marks => events'[c]["showed"] > 0
    BY <2>1 DEF OutcomesEmitted, Marks
  <2>3. "pitched" \in calls'[c].marks \cap PresetStages => events'[c]["pitched"] > 0
    BY <2>1 DEF OutcomesEmitted, Marks
  <2>4. QED
    BY <2>1, <2>2, <2>3 DEF OutcomesEmitted
<1>2. ASSUME NEW s \in Sales
      PROVE  /\ sale'[s].state # "absent" => events'[s]["closed"] > 0
             /\ sale'[s].refunded =>
                    events'[s]["refunded"] + events'[s]["partially_refunded"] > 0
  <2>1. {"closed", "refunded", "partially_refunded"} \subseteq Stages
    BY DEF Stages
  <2>2. sale'[s].state # "absent" => events'[s]["closed"] > 0
    BY <2>1 DEF OutcomesEmitted
  <2>3. /\ events[s]["refunded"] \in Nat /\ events[s]["partially_refunded"] \in Nat
        /\ events'[s]["refunded"] \in Nat /\ events'[s]["partially_refunded"] \in Nat
    BY <2>1 DEF TypeOK
  <2>4. sale[s].refunded => events[s]["refunded"] > 0 \/ events[s]["partially_refunded"] > 0
    BY <2>3 DEF OutcomesEmitted
  <2>5. sale'[s].refunded => events'[s]["refunded"] > 0 \/ events'[s]["partially_refunded"] > 0
    BY <2>1, <2>4
  <2>6. QED
    BY <2>2, <2>3, <2>5
<1>3. QED
  BY <1>1, <1>2 DEF OutcomesEmitted

\* A sale that is made, or linked to another call, takes its live call along.
LEMMA LinkMade ==
    ASSUME DeskInv, NEW s \in Sales, NEW c \in Calls \cup {NoCall},
           c = NoCall => sale[s].state = "absent",
           c \in Calls => calls[c].state # "absent",
           sale' \in {[sale EXCEPT ![s].call = c],
                      [sale EXCEPT ![s].state = "live", ![s].call = c]},
           sale'[s].state # "absent",
           calls' = CallLinked(c, s),
           partners' = partners \cup ({<<s, c>>} \cap (Sales \X Calls)),
           stale' = stale
    PROVE  PartnersKnown' /\ PairsAgree'
<1>1. /\ \A r \in Sales : sale'[r].call = IF r = s THEN c ELSE sale[r].call
      /\ \A r \in Sales : sale[r].state # "absent" => sale'[r].state # "absent"
      /\ \A d \in Calls : calls'[d].state = calls[d].state
      /\ \A d \in Calls : calls'[d].sale = IF d = c /\ LiveCall(c) THEN s ELSE calls[d].sale
  <2>1. /\ \A r \in Sales : sale'[r].call = IF r = s THEN c ELSE sale[r].call
        /\ \A r \in Sales : sale[r].state # "absent" => sale'[r].state # "absent"
    <3>1. CASE sale' = [sale EXCEPT ![s].call = c]
      BY <3>1 DEF DeskInv, TypeOK
    <3>2. CASE sale' = [sale EXCEPT ![s].state = "live", ![s].call = c]
      BY <3>2 DEF DeskInv, TypeOK
    <3>3. QED
      BY <3>1, <3>2
  <2>2. /\ \A d \in Calls : calls'[d].state = calls[d].state
        /\ \A d \in Calls : calls'[d].sale = IF d = c /\ LiveCall(c) THEN s ELSE calls[d].sale
    <3>1. CASE LiveCall(c)
      BY <3>1 DEF DeskInv, TypeOK, CallLinked, LiveCall
    <3>2. CASE ~ LiveCall(c)
      BY <3>2 DEF CallLinked
    <3>3. QED
      BY <3>1, <3>2
  <2>3. QED
    BY <2>1, <2>2
<1>2. PartnersKnown'
  BY <1>1 DEF DeskInv, TypeOK, PartnersKnown
<1>3. PairsAgree'
  <2>1. SUFFICES ASSUME NEW r \in Sales, NEW d \in Calls,
                        Contacts(r, d)' = {<<r, d>>}, r \notin stale', LiveCall(d)'
                 PROVE  sale'[r].call = d <=> calls'[d].sale = r
    BY DEF PairsAgree
  <2>2. LiveCall(d)
    BY <1>1, <2>1 DEF LiveCall
  <2>3. CASE r = s /\ d = c
    BY <1>1, <2>2, <2>3
  <2>4. CASE (r = s \/ d = c) /\ ~(r = s /\ d = c)
    <3>1. CASE c \in Calls
      <4>1. <<s, c>> \in Contacts(r, d)'
        BY <2>4, <3>1 DEF Contacts
      <4>2. QED
        BY <4>1, <2>1, <2>4
    <3>2. CASE c = NoCall
      <4>1. partners' = partners /\ r = s
        BY <2>4, <3>2, DeskAssumption
      <4>2. <<r, d>> \in partners
        BY <4>1, <2>1 DEF Contacts
      <4>3. QED
        BY <4>1, <4>2, <3>2 DEF DeskInv, PartnersKnown
    <3>3. QED
      BY <3>1, <3>2
  <2>5. CASE r # s /\ d # c
    <3>1. Contacts(r, d) = {<<r, d>>}
      BY <2>1, <2>5 DEF Contacts
    <3>2. QED
      BY <1>1, <2>1, <2>2, <2>5, <3>1 DEF DeskInv, PairsAgree
  <2>6. QED
    BY <2>3, <2>4, <2>5
<1>4. QED
  BY <1>2, <1>3

LEMMA LinkedIsTyped ==
    ASSUME TypeOK, NEW s \in Sales, NEW c \in Calls \cup {NoCall}, calls' = CallLinked(c, s)
    PROVE  /\ calls' \in [Calls -> CallRow]
           /\ \A d \in Calls : /\ calls'[d].state = calls[d].state
                               /\ calls'[d].marks = calls[d].marks
                               /\ calls'[d].won = calls[d].won
                               /\ calls'[d].sale # calls[d].sale =>
                                      LiveCall(d) /\ calls'[d].sale = s
<1>1. CASE LiveCall(c)
  <2>1. calls' = [calls EXCEPT ![c].sale = s]
    BY <1>1 DEF CallLinked
  <2>2. c \in Calls /\ calls[c] \in CallRow /\ calls \in [Calls -> CallRow]
    BY <1>1 DEF LiveCall, TypeOK, CallRow
  <2>3. [calls[c] EXCEPT !.sale = s] \in CallRow
    BY <2>2 DEF CallRow
  <2>4. /\ calls' \in [Calls -> CallRow]
        /\ \A d \in Calls \ {c} : calls'[d] = calls[d]
        /\ calls'[c] = [calls[c] EXCEPT !.sale = s]
    BY <2>1, <2>2, <2>3
  <2>5. QED
    BY <1>1, <2>2, <2>4 DEF CallRow
<1>2. CASE ~ LiveCall(c)
  BY <1>2 DEF CallLinked, TypeOK, CallRow
<1>3. QED
  BY <1>1, <1>2

LEMMA CommitCreateKeeps ==
    ASSUME DeskInv, NEW u \in Users, CommitCreate(u)
    PROVE  DeskInv' /\ LinkedAlive
<1> DEFINE s == tx[u].sale
           c == tx[u].call
<1>1. /\ tx[u].op = "create" /\ tx' = [tx EXCEPT ![u] = Idle]
      /\ sale' = [sale EXCEPT ![s].state = "live", ![s].call = c]
      /\ calls' = CallLinked(c, s) /\ events' = Emitted(s, "closed")
      /\ partners' = partners \cup ({<<s, c>>} \cap (Sales \X Calls))
      /\ stale' = stale /\ edits' = edits /\ crossed' = crossed
  BY DEF CommitCreate, Commit
<1>2. /\ s \in Sales /\ c \in Calls \cup {NoCall} /\ sale[s].state = "absent"
      /\ c \in Calls => calls[c].state # "absent"
      /\ c \in Calls => calls[c].state = "live" \/ <<s, c>> \in crossed
  BY <1>1 DEF DeskInv, TypeOK, ReadsHold
<1> HIDE DEF s, c
<1>3. /\ sale' \in [Sales -> SaleRow]
      /\ \A r \in Sales \ {s} : sale'[r] = sale[r]
      /\ sale'[s].state = "live"
      /\ \A r \in Sales : sale'[r].refunded = sale[r].refunded
  <2>1. sale[s] \in SaleRow /\ sale \in [Sales -> SaleRow]
    BY <1>2 DEF DeskInv, TypeOK, SaleRow
  <2>2. [sale[s] EXCEPT !.state = "live", !.call = c] \in SaleRow
    BY <1>2, <2>1 DEF SaleRow, States
  <2>3. /\ sale' \in [Sales -> SaleRow]
        /\ \A r \in Sales \ {s} : sale'[r] = sale[r]
        /\ sale'[s] = [sale[s] EXCEPT !.state = "live", !.call = c]
    BY <1>1, <1>2, <2>1, <2>2
  <2>4. QED
    BY <1>2, <2>1, <2>3 DEF SaleRow
<1>4. /\ events' \in [Sales \cup Calls -> [Stages -> Nat]]
      /\ events'[s]["closed"] > 0
      /\ \A f \in Sales \cup Calls, h \in Stages : events[f][h] > 0 => events'[f][h] > 0
  BY <1>1, <1>2, EmittedIsTyped DEF DeskInv, Stages
<1>5. TypeOK'
  <2>1. calls' \in [Calls -> CallRow] /\ partners' \subseteq Sales \X Calls
    BY <1>1, <1>2, LinkedIsTyped DEF DeskInv, TypeOK
  <2>2. edits' \in Nat /\ stale' \subseteq Sales /\ crossed' \subseteq Sales \X Calls
    BY <1>1 DEF DeskInv, TypeOK
  <2>3. QED
    BY <1>1, <1>3, <1>4, <2>1, <2>2, TypeStays DEF DeskInv
<1>6. ReadsHold'
  <2>1. Grows(u)
    <3>1. tx'[u].op = "idle"
      BY <1>1, IdleIsTyped DEF DeskInv, TypeOK
    <3>2. QED
      BY <1>1, <1>2, <1>3, <1>4, <3>1, LinkedIsTyped DEF DeskInv, Grows, s
  <2>2. QED
    BY <1>1, <2>1, ReadsStay DEF DeskInv
<1>7. PartnersKnown' /\ PairsAgree'
  BY <1>1, <1>2, <1>3, LinkMade
<1>8. OutcomesEmitted'
  <2>1. \A d \in Calls : calls'[d].marks = calls[d].marks /\ calls'[d].won = calls[d].won
    BY <1>1, <1>2, LinkedIsTyped DEF DeskInv
  <2>2. QED
    BY <1>3, <1>4, <2>1, OutcomesStay DEF DeskInv
<1>9. LinkedAlive
  <2>1. \A r \in Sales : sale'[r].call = IF r = s THEN c ELSE sale[r].call
    BY <1>1, <1>2, <1>3 DEF DeskInv, TypeOK
  <2>2. \A d \in Calls : calls'[d].sale # calls[d].sale => LiveCall(d) /\ calls'[d].sale = s
    BY <1>1, <1>2, LinkedIsTyped DEF DeskInv
  <2>3. sale'[s].state = "live"
    BY <1>2, <1>3
  <2>4. QED
    BY <1>2, <2>1, <2>2, <2>3 DEF LinkedAlive, LiveCall
<1>10. QED
  BY <1>5, <1>6, <1>7, <1>8, <1>9 DEF DeskInv

\* What touches no link leaves the ends of a pair as they agreed.
LEMMA LinksStay ==
    ASSUME DeskInv,
           \A s \in Sales : /\ sale'[s].call = sale[s].call
                            /\ sale[s].state # "absent" => sale'[s].state # "absent",
           \A c \in Calls : /\ calls'[c].sale = calls[c].sale
                            /\ calls[c].state # "absent" => calls'[c].state # "absent"
                            /\ calls[c].state = "deleted" => calls'[c].state = "deleted",
           UNCHANGED <<partners, stale>>
    PROVE  PartnersKnown' /\ PairsAgree' /\ LinkedAlive
<1>1. PartnersKnown'
  BY DEF DeskInv, TypeOK, PartnersKnown
<1>2. PairsAgree'
  <2>1. SUFFICES ASSUME NEW s \in Sales, NEW c \in Calls,
                        Contacts(s, c) = {<<s, c>>}, s \notin stale, LiveCall(c)'
                 PROVE  sale[s].call = c <=> calls[c].sale = s
    BY DEF PairsAgree, Contacts
  <2>2. calls[c].state # "absent"
    BY <2>1 DEF Contacts, DeskInv, PartnersKnown
  <2>3. LiveCall(c)
    BY <2>1, <2>2 DEF DeskInv, TypeOK, LiveCall, States
  <2>4. QED
    BY <2>1, <2>3 DEF DeskInv, PairsAgree
<1>3. LinkedAlive
  BY DEF LinkedAlive
<1>4. QED
  BY <1>1, <1>2, <1>3

LEMMA SaleCallSet ==
    ASSUME TypeOK, NEW s \in Sales, NEW c \in Calls \cup {NoCall},
           sale' = [sale EXCEPT ![s].call = c]
    PROVE  /\ sale' \in [Sales -> SaleRow]
           /\ \A r \in Sales : /\ sale'[r].call = IF r = s THEN c ELSE sale[r].call
                               /\ sale'[r].state = sale[r].state
                               /\ sale'[r].refunded = sale[r].refunded
<1>1. sale[s] \in SaleRow /\ sale \in [Sales -> SaleRow]
  BY DEF TypeOK, SaleRow
<1>2. [sale[s] EXCEPT !.call = c] \in SaleRow
  BY <1>1 DEF SaleRow
<1>3. /\ sale' \in [Sales -> SaleRow]
      /\ \A r \in Sales \ {s} : sale'[r] = sale[r]
      /\ sale'[s] = [sale[s] EXCEPT !.call = c]
  BY <1>1, <1>2
<1>4. QED
  BY <1>1, <1>3 DEF SaleRow

LEMMA CallSaleCleared ==
    ASSUME TypeOK, NEW c \in Calls, calls' = [calls EXCEPT ![c].sale = NoSale]
    PROVE  /\ calls' \in [Calls -> CallRow]
           /\ \A d \in Calls : /\ calls'[d].sale = IF d = c THEN NoSale ELSE calls[d].sale
                               /\ calls'[d].state = calls[d].state
                               /\ calls'[d].marks = calls[d].marks
                               /\ calls'[d].won = calls[d].won
<1>1. calls[c] \in CallRow /\ calls \in [Calls -> CallRow]
  BY DEF TypeOK, CallRow
<1>2. [calls[c] EXCEPT !.sale = NoSale] \in CallRow
  BY <1>1 DEF CallRow
<1>3. /\ calls' \in [Calls -> CallRow]
      /\ \A d \in Calls \ {c} : calls'[d] = calls[d]
      /\ calls'[c] = [calls[c] EXCEPT !.sale = NoSale]
  BY <1>1, <1>2
<1>4. QED
  BY <1>1, <1>3 DEF CallRow

LEMMA CommitLinkKeeps ==
    ASSUME DeskInv, NEW u \in Users, CommitLink(u)
    PROVE  DeskInv' /\ LinkedAlive
<1> DEFINE s == tx[u].sale
           c == tx[u].call
<1>1. /\ tx[u].op = "link" /\ tx' = [tx EXCEPT ![u] = Idle]
      /\ sale' = [sale EXCEPT ![s].call = c]
      /\ calls' = CallLinked(c, s) /\ events' = Emitted(s, "closed")
      /\ partners' = partners \cup {<<s, c>>}
      /\ stale' = stale /\ edits' = edits /\ crossed' = crossed /\ LiveSale(s)
  BY DEF CommitLink, Commit
<1>2. /\ s \in Sales /\ c \in Calls /\ sale[s].state = "live" /\ calls[c].state # "absent"
      /\ calls[c].state = "live" \/ <<s, c>> \in crossed
  BY <1>1 DEF DeskInv, TypeOK, ReadsHold, LiveSale
<1> HIDE DEF s, c
<1>3. /\ sale' \in [Sales -> SaleRow]
      /\ \A r \in Sales : /\ sale'[r].call = IF r = s THEN c ELSE sale[r].call
                          /\ sale'[r].state = sale[r].state
                          /\ sale'[r].refunded = sale[r].refunded
  BY <1>1, <1>2, SaleCallSet DEF DeskInv
<1>4. /\ events' \in [Sales \cup Calls -> [Stages -> Nat]]
      /\ \A f \in Sales \cup Calls, h \in Stages : events[f][h] > 0 => events'[f][h] > 0
  BY <1>1, <1>2, EmittedIsTyped DEF DeskInv, Stages
<1>5. TypeOK'
  <2>1. calls' \in [Calls -> CallRow] /\ partners' \subseteq Sales \X Calls
    BY <1>1, <1>2, LinkedIsTyped DEF DeskInv, TypeOK
  <2>2. edits' \in Nat /\ stale' \subseteq Sales /\ crossed' \subseteq Sales \X Calls
    BY <1>1 DEF DeskInv, TypeOK
  <2>3. QED
    BY <1>1, <1>3, <1>4, <2>1, <2>2, TypeStays DEF DeskInv
<1>6. ReadsHold'
  <2>1. Grows(u)
    BY <1>1, <1>2, <1>3, <1>4, LinkedIsTyped DEF DeskInv, Grows
  <2>2. QED
    BY <1>1, <2>1, ReadsStay DEF DeskInv
<1>7. PartnersKnown' /\ PairsAgree'
  <2>1. partners' = partners \cup ({<<s, c>>} \cap (Sales \X Calls))
    BY <1>1, <1>2
  <2>2. c # NoCall
    BY <1>2, DeskAssumption
  <2>3. QED
    BY <1>1, <1>2, <1>3, <2>1, <2>2, LinkMade
<1>8. OutcomesEmitted'
  <2>1. \A d \in Calls : calls'[d].marks = calls[d].marks /\ calls'[d].won = calls[d].won
    BY <1>1, <1>2, LinkedIsTyped DEF DeskInv
  <2>2. QED
    BY <1>3, <1>4, <2>1, OutcomesStay DEF DeskInv
<1>9. LinkedAlive
  <2>1. \A r \in Sales : sale'[r].call = IF r = s THEN c ELSE sale[r].call
    BY <1>1, <1>2, <1>3 DEF DeskInv, TypeOK
  <2>2. \A d \in Calls : calls'[d].sale # calls[d].sale => LiveCall(d) /\ calls'[d].sale = s
    BY <1>1, <1>2, LinkedIsTyped DEF DeskInv
  <2>3. sale'[s].state = "live"
    BY <1>2, <1>3
  <2>4. QED
    BY <1>2, <2>1, <2>2, <2>3 DEF LinkedAlive, LiveCall
<1>10. QED
  BY <1>5, <1>6, <1>7, <1>8, <1>9 DEF DeskInv

LEMMA CommitUnlinkKeeps ==
    ASSUME DeskInv, NEW u \in Users, CommitUnlink(u)
    PROVE  DeskInv' /\ LinkedAlive
<1> DEFINE s == tx[u].sale
           previous == tx[u].previous
<1>1. /\ tx[u].op = "unlink" /\ tx' = [tx EXCEPT ![u] = Idle]
      /\ sale' = [sale EXCEPT ![s].call = NoCall]
      /\ previous = NoCall => calls' = calls
      /\ previous # NoCall => calls' = [calls EXCEPT ![previous].sale = NoSale]
      /\ stale' = stale \cup {r \in {s} : sale[r].call # previous}
      /\ events' = events /\ partners' = partners /\ edits' = edits /\ crossed' = crossed
  BY DEF CommitUnlink, Commit
<1>2. /\ s \in Sales /\ previous \in Calls \cup {NoCall} /\ sale[s].state # "absent"
      /\ previous \in Calls => <<s, previous>> \in partners
  BY <1>1 DEF DeskInv, TypeOK, ReadsHold
<1> HIDE DEF s, previous
<1>3. /\ sale' \in [Sales -> SaleRow]
      /\ \A r \in Sales : /\ sale'[r].call = IF r = s THEN NoCall ELSE sale[r].call
                          /\ sale'[r].state = sale[r].state
                          /\ sale'[r].refunded = sale[r].refunded
  BY <1>1, <1>2, SaleCallSet DEF DeskInv
<1>4. /\ calls' \in [Calls -> CallRow]
      /\ \A d \in Calls : /\ calls'[d].sale = IF d = previous THEN NoSale ELSE calls[d].sale
                          /\ calls'[d].state = calls[d].state
                          /\ calls'[d].marks = calls[d].marks
                          /\ calls'[d].won = calls[d].won
  <2>1. CASE previous = NoCall
    BY <1>1, <2>1, DeskAssumption DEF DeskInv, TypeOK, CallRow
  <2>2. CASE previous # NoCall
    BY <1>1, <1>2, <2>2, CallSaleCleared DEF DeskInv
  <2>3. QED
    BY <2>1, <2>2
<1>5. TypeOK'
  BY <1>1, <1>2, <1>3, <1>4, TypeStays DEF DeskInv, TypeOK
<1>6. ReadsHold'
  <2>1. Grows(u)
    BY <1>1, <1>3, <1>4 DEF Grows
  <2>2. QED
    BY <1>1, <2>1, ReadsStay DEF DeskInv
<1>7. PartnersKnown'
  BY <1>1, <1>3, <1>4, DeskAssumption DEF DeskInv, TypeOK, PartnersKnown
<1>8. PairsAgree'
  <2>1. SUFFICES ASSUME NEW r \in Sales, NEW d \in Calls,
                        Contacts(r, d) = {<<r, d>>}, r \notin stale', LiveCall(d)'
                 PROVE  sale'[r].call = d <=> calls'[d].sale = r
    BY <1>1 DEF PairsAgree, Contacts
  <2>2. sale[r].call = d <=> calls[d].sale = r
    BY <1>1, <1>4, <2>1 DEF DeskInv, PairsAgree, LiveCall
  <2>3. previous \in Calls => (r = s <=> d = previous)
    <3>1. ASSUME previous \in Calls, r = s \/ d = previous
          PROVE  <<s, previous>> \in Contacts(r, d)
      BY <1>2, <3>1 DEF Contacts
    <3>2. QED
      BY <2>1, <3>1
  <2>4. r = s => sale[r].call = previous
    BY <1>1, <2>1
  <2>5. QED
    BY <1>2, <1>3, <1>4, <2>2, <2>3, <2>4, DeskAssumption
<1>9. OutcomesEmitted'
  BY <1>1, <1>3, <1>4, OutcomesStay DEF DeskInv, TypeOK
<1>10. LinkedAlive
  BY <1>3, <1>4 DEF LinkedAlive
<1>11. QED
  BY <1>5, <1>6, <1>7, <1>8, <1>9, <1>10 DEF DeskInv

\* The mutations that touch no link: what they have to show.
Harmless ==
    /\ \A s \in Sales : /\ sale'[s].call = sale[s].call
                        /\ sale'[s].state = "absent" <=> sale[s].state = "absent"
                        /\ sale'[s].refunded =>
                               \/ sale[s].refunded
                               \/ events'[s]["refunded"] > 0
                               \/ events'[s]["partially_refunded"] > 0
    /\ \A c \in Calls : /\ calls'[c].sale = calls[c].sale
                        /\ calls[c].state # "absent" => calls'[c].state # "absent"
                        /\ calls[c].state = "deleted" => calls'[c].state = "deleted"
                        /\ calls[c].state = "live" =>
                               calls'[c].state = "live" \/ Linking(c) \subseteq crossed'
                        /\ \A g \in calls'[c].marks \cap PresetStages :
                               g \in calls[c].marks \/ (g \in Marks => events'[c][g] > 0)
                        /\ calls'[c].won => calls[c].won \/ events'[c]["closed"] > 0
    /\ \A e \in Sales \cup Calls, g \in Stages : events[e][g] > 0 => events'[e][g] > 0
    /\ crossed \subseteq crossed'

LEMMA HarmlessKeeps ==
    ASSUME DeskInv, NEW u \in Users, tx' = tx \/ tx' = [tx EXCEPT ![u] = Idle], Harmless,
           sale' \in [Sales -> SaleRow], calls' \in [Calls -> CallRow],
           events' \in [Sales \cup Calls -> [Stages -> Nat]], edits' \in Nat,
           crossed' \subseteq Sales \X Calls, UNCHANGED <<partners, stale>>
    PROVE  DeskInv' /\ LinkedAlive
<1>1. TypeOK'
  BY TypeStays DEF DeskInv, TypeOK
<1>2. ReadsHold'
  <2>1. ASSUME NEW c \in Calls, NEW v \in Users, calls[c].state = "live",
               tx'[v].op \in {"create", "link"}, tx'[v].call = c
        PROVE  calls'[c].state = "live" \/ <<tx'[v].sale, c>> \in crossed'
    <3>1. tx'[v] = tx[v]
      BY <2>1, IdleIsTyped DEF DeskInv, TypeOK
    <3>2. <<tx[v].sale, c>> \in Linking(c)
      BY <2>1, <3>1 DEF Linking
    <3>3. QED
      BY <2>1, <3>1, <3>2 DEF Harmless
  <2>2. Grows(u)
    BY <2>1 DEF Harmless, Grows
  <2>3. QED
    BY <2>2, ReadsStay DEF DeskInv
<1>3. PartnersKnown' /\ PairsAgree' /\ LinkedAlive
  BY LinksStay DEF Harmless
<1>4. OutcomesEmitted'
  BY OutcomesStay DEF DeskInv, Harmless
<1>5. QED
  BY <1>1, <1>2, <1>3, <1>4 DEF DeskInv

LEMMA RowsAreTyped ==
    ASSUME TypeOK
    PROVE  /\ sale \in [Sales -> SaleRow] /\ calls \in [Calls -> CallRow]
           /\ edits \in Nat /\ edits + 1 \in Nat /\ crossed \subseteq Sales \X Calls
  BY DEF TypeOK, SaleRow, CallRow

LEMMA SoftDeleteSaleKeeps ==
    ASSUME DeskInv, NEW u \in Users, NEW s \in Sales, SoftDeleteSale(u, s)
    PROVE  DeskInv' /\ LinkedAlive
<1>1. /\ sale' = [sale EXCEPT ![s].state = "deleted"] /\ sale[s].state = "live"
      /\ tx' = tx /\ edits' = edits + 1 /\ UNCHANGED <<calls, events, partners, stale, crossed>>
  BY DEF SoftDeleteSale, Statement, Edit, LiveSale
<1>2. [sale[s] EXCEPT !.state = "deleted"] \in SaleRow
  BY RowsAreTyped DEF DeskInv, SaleRow, States
<1>3. /\ sale' \in [Sales -> SaleRow] /\ \A r \in Sales \ {s} : sale'[r] = sale[r]
      /\ sale'[s] = [sale[s] EXCEPT !.state = "deleted"]
  BY <1>1, <1>2, RowsAreTyped DEF DeskInv
<1>4. sale'[s].call = sale[s].call /\ sale'[s].refunded = sale[s].refunded
      /\ sale'[s].state = "deleted"
  BY <1>3, RowsAreTyped DEF DeskInv, SaleRow
<1>5. Harmless
  BY <1>1, <1>3, <1>4 DEF Harmless
<1>6. QED
  BY <1>1, <1>3, <1>5, RowsAreTyped, HarmlessKeeps DEF DeskInv, TypeOK

LEMMA CommitRefundKeeps ==
    ASSUME DeskInv, NEW u \in Users, NEW full \in BOOLEAN, NEW reason \in BOOLEAN,
           CommitRefund(u, full, reason)
    PROVE  DeskInv' /\ LinkedAlive
<1> DEFINE s == tx[u].sale
           g == RefundStage(full)
           rejected == IF reason THEN {} ELSE sale[s].rejected
<1>1. /\ tx[u].op = "refund" /\ tx' = [tx EXCEPT ![u] = Idle] /\ events' = Emitted(s, g)
      /\ sale' = [sale EXCEPT ![s].refunded = TRUE, ![s].rejected = rejected]
      /\ UNCHANGED <<calls, partners, stale, edits, crossed>>
  BY DEF CommitRefund, Commit
<1>2. s \in Sales /\ g \in {"refunded", "partially_refunded"} /\ g \in Stages
  BY <1>1 DEF DeskInv, TypeOK, RefundStage, Stages
<1>3. sale[s] \in SaleRow /\ rejected \in SUBSET Calls
  BY <1>2, RowsAreTyped DEF DeskInv, SaleRow
<1> HIDE DEF s, g, rejected
<1>4. [sale[s] EXCEPT !.refunded = TRUE, !.rejected = rejected] \in SaleRow
  BY <1>3 DEF SaleRow
<1>5. /\ sale' \in [Sales -> SaleRow] /\ \A r \in Sales \ {s} : sale'[r] = sale[r]
      /\ sale'[s] = [sale[s] EXCEPT !.refunded = TRUE, !.rejected = rejected]
  BY <1>1, <1>2, <1>4, RowsAreTyped DEF DeskInv
<1>6. sale'[s].call = sale[s].call /\ sale'[s].state = sale[s].state
  BY <1>3, <1>5 DEF SaleRow
<1>7. /\ events' \in [Sales \cup Calls -> [Stages -> Nat]] /\ events'[s][g] > 0
      /\ \A f \in Sales \cup Calls, h \in Stages : events[f][h] > 0 => events'[f][h] > 0
  BY <1>1, <1>2, EmittedIsTyped DEF DeskInv
<1>8. Harmless
  BY <1>1, <1>2, <1>5, <1>6, <1>7 DEF Harmless
<1>9. QED
  BY <1>1, <1>5, <1>7, <1>8, RowsAreTyped, HarmlessKeeps DEF DeskInv

LEMMA CommitRejectKeeps ==
    ASSUME DeskInv, NEW u \in Users, CommitReject(u)
    PROVE  DeskInv' /\ LinkedAlive
<1> DEFINE s == tx[u].sale
           rejected == tx[u].existing \cup {tx[u].call}
<1>1. /\ tx[u].op = "reject" /\ tx' = [tx EXCEPT ![u] = Idle]
      /\ UNCHANGED <<calls, events, partners, stale, edits, crossed>>
      /\ sale' = IF LiveSale(s) THEN [sale EXCEPT ![s].rejected = rejected] ELSE sale
  BY DEF CommitReject, Commit
<1>2. s \in Sales /\ rejected \in SUBSET Calls
  BY <1>1 DEF DeskInv, TypeOK
<1> HIDE DEF s, rejected
<1>3. sale[s] \in SaleRow /\ sale \in [Sales -> SaleRow]
  BY <1>2, RowsAreTyped DEF DeskInv
<1>4. [sale[s] EXCEPT !.rejected = rejected] \in SaleRow
  BY <1>2, <1>3 DEF SaleRow
<1>5. /\ sale' \in [Sales -> SaleRow] /\ \A r \in Sales \ {s} : sale'[r] = sale[r]
      /\ sale'[s] \in {sale[s], [sale[s] EXCEPT !.rejected = rejected]}
  BY <1>1, <1>2, <1>3, <1>4
<1>6. /\ sale'[s].call = sale[s].call /\ sale'[s].state = sale[s].state
      /\ sale'[s].refunded = sale[s].refunded
  BY <1>3, <1>5 DEF SaleRow
<1>7. Harmless
  BY <1>1, <1>5, <1>6 DEF Harmless
<1>8. QED
  BY <1>1, <1>5, <1>7, RowsAreTyped, HarmlessKeeps DEF DeskInv, TypeOK

\* A statement that rewrites the row of one call, and no sale.
LEMMA CallRowWritten ==
    ASSUME DeskInv, NEW u \in Users, NEW c \in Calls, NEW row \in CallRow,
           tx' = tx \/ tx' = [tx EXCEPT ![u] = Idle], edits' \in Nat,
           calls' = [calls EXCEPT ![c] = row],
           row.sale = calls[c].sale,
           calls[c].state # "absent" => row.state # "absent",
           calls[c].state = "live" => row.state = "live" \/ Linking(c) \subseteq crossed',
           crossed \subseteq crossed', crossed' \subseteq Sales \X Calls,
           calls[c].state = "deleted" => row.state = "deleted",
           \A g \in row.marks \cap PresetStages :
               g \in calls[c].marks \/ (g \in Marks => events'[c][g] > 0),
           row.won => calls[c].won \/ events'[c]["closed"] > 0,
           events' \in [Sales \cup Calls -> [Stages -> Nat]],
           \A e \in Sales \cup Calls, g \in Stages : events[e][g] > 0 => events'[e][g] > 0,
           UNCHANGED <<sale, partners, stale>>
    PROVE  DeskInv' /\ LinkedAlive
<1>1. /\ calls' \in [Calls -> CallRow] /\ calls'[c] = row
      /\ \A d \in Calls \ {c} : calls'[d] = calls[d]
  BY RowsAreTyped DEF DeskInv
<1>2. Harmless
  BY <1>1 DEF Harmless
<1>3. sale' \in [Sales -> SaleRow]
  BY RowsAreTyped DEF DeskInv
<1>4. QED
  BY <1>1, <1>2, <1>3, HarmlessKeeps

LEMMA EventsStay ==
    ASSUME DeskInv, events' = events
    PROVE  /\ events' \in [Sales \cup Calls -> [Stages -> Nat]]
           /\ \A e \in Sales \cup Calls, g \in Stages : events[e][g] > 0 => events'[e][g] > 0
  BY DEF DeskInv, TypeOK

LEMMA CreateCallKeeps ==
    ASSUME DeskInv, NEW u \in Users, NEW c \in Calls, NEW a \in BOOLEAN, CreateCall(u, c, a)
    PROVE  DeskInv' /\ LinkedAlive
<1> DEFINE row == [calls[c] EXCEPT !.state = "live", !.appointment = a]
<1>1. /\ calls' = [calls EXCEPT ![c] = row] /\ calls[c].state = "absent"
      /\ tx' = tx /\ edits' = edits + 1 /\ UNCHANGED <<sale, partners, stale, crossed>>
      /\ events' = Emitted(c, "booked") \/ events' = events
  BY DEF CreateCall, Statement, Edit
<1>2. calls[c] \in CallRow
  BY RowsAreTyped DEF DeskInv
<1>3. /\ row \in CallRow /\ row.sale = calls[c].sale /\ row.state = "live"
      /\ row.marks = calls[c].marks /\ row.won = calls[c].won
  BY <1>2 DEF CallRow, States
<1>4. /\ events' \in [Sales \cup Calls -> [Stages -> Nat]]
      /\ \A e \in Sales \cup Calls, g \in Stages : events[e][g] > 0 => events'[e][g] > 0
  BY <1>1, EmittedIsTyped, EventsStay DEF DeskInv, Stages
<1> HIDE DEF row
<1>5. QED
  BY <1>1, <1>3, <1>4, CallRowWritten, RowsAreTyped DEF DeskInv

LEMMA UpdateCallKeeps ==
    ASSUME DeskInv, NEW u \in Users, NEW c \in Calls, NEW a \in BOOLEAN, UpdateCall(u, c, a)
    PROVE  DeskInv' /\ LinkedAlive
<1> DEFINE row == [calls[c] EXCEPT !.appointment = a]
<1>1. /\ calls' = [calls EXCEPT ![c] = row] /\ events' = events
      /\ tx' = tx /\ edits' = edits + 1 /\ UNCHANGED <<sale, partners, stale, crossed>>
  BY DEF UpdateCall, Statement, Edit
<1>2. calls[c] \in CallRow
  BY RowsAreTyped DEF DeskInv
<1>3. /\ row \in CallRow /\ row.sale = calls[c].sale /\ row.state = calls[c].state
      /\ row.marks = calls[c].marks /\ row.won = calls[c].won
  BY <1>2 DEF CallRow
<1> HIDE DEF row
<1>4. QED
  BY <1>1, <1>3, EventsStay, CallRowWritten, RowsAreTyped DEF DeskInv

LEMMA SetDispositionKeeps ==
    ASSUME DeskInv, NEW u \in Users, NEW c \in Calls, NEW won \in BOOLEAN,
           SetDisposition(u, c, won)
    PROVE  DeskInv' /\ LinkedAlive
<1> DEFINE row == [calls[c] EXCEPT !.won = won]
<1>1. /\ calls' = [calls EXCEPT ![c] = row]
      /\ tx' = tx /\ edits' = edits + 1 /\ UNCHANGED <<sale, partners, stale, crossed>>
      /\ IF won THEN events' = Emitted(c, "closed") ELSE events' = events
  BY DEF SetDisposition, Statement, Edit
<1>2. calls[c] \in CallRow
  BY RowsAreTyped DEF DeskInv
<1>3. /\ row \in CallRow /\ row.sale = calls[c].sale /\ row.state = calls[c].state
      /\ row.marks = calls[c].marks /\ row.won = won
  BY <1>2 DEF CallRow
<1>4. /\ events' \in [Sales \cup Calls -> [Stages -> Nat]]
      /\ \A e \in Sales \cup Calls, g \in Stages : events[e][g] > 0 => events'[e][g] > 0
      /\ won => events'[c]["closed"] > 0
  BY <1>1, EmittedIsTyped, EventsStay DEF DeskInv, Stages
<1> HIDE DEF row
<1>5. QED
  BY <1>1, <1>3, <1>4, CallRowWritten, RowsAreTyped DEF DeskInv

LEMMA SoftDeleteCallKeeps ==
    ASSUME DeskInv, NEW u \in Users, NEW c \in Calls, SoftDeleteCall(u, c)
    PROVE  DeskInv' /\ LinkedAlive
<1> DEFINE row == [calls[c] EXCEPT !.state = "deleted"]
<1>1. /\ calls' = [calls EXCEPT ![c] = row] /\ events' = events
      /\ tx' = tx /\ edits' = edits + 1 /\ UNCHANGED <<sale, partners, stale>>
      /\ crossed' = crossed \cup Linking(c)
  BY DEF SoftDeleteCall, Statement, Edit
<1>2. calls[c] \in CallRow
  BY RowsAreTyped DEF DeskInv
<1>3. /\ row \in CallRow /\ row.sale = calls[c].sale /\ row.state = "deleted"
      /\ row.marks = calls[c].marks /\ row.won = calls[c].won
  BY <1>2 DEF CallRow, States
<1> HIDE DEF row
<1>4. Linking(c) \subseteq Sales \X Calls
  BY DEF DeskInv, TypeOK, Linking
<1>5. QED
  BY <1>1, <1>3, <1>4, EventsStay, CallRowWritten, RowsAreTyped DEF DeskInv

LEMMA CommitOutcomeKeeps ==
    ASSUME DeskInv, NEW u \in Users, NEW set \in SUBSET Marks, NEW clear \in SUBSET Marks,
           CommitOutcome(u, set, clear)
    PROVE  DeskInv' /\ LinkedAlive
<1> DEFINE c == tx[u].call
           first == (set \ tx[u].marked) \cap PresetStages
           marked == [calls[c] EXCEPT !.marks = (@ \cup set) \ clear]
           row == IF LiveCall(c) THEN marked ELSE calls[c]
<1>1. /\ tx[u].op = "outcome" /\ tx' = [tx EXCEPT ![u] = Idle]
      /\ calls' = IF LiveCall(c) THEN [calls EXCEPT ![c] = marked] ELSE calls
      /\ events' = [events EXCEPT ![c] = [g \in Stages |-> @[g] + (IF g \in first THEN 1 ELSE 0)]]
      /\ UNCHANGED <<sale, partners, stale, edits, crossed>>
  BY DEF CommitOutcome, Commit
<1>2. c \in Calls /\ calls[c] \in CallRow /\ calls \in [Calls -> CallRow]
  BY <1>1, RowsAreTyped DEF DeskInv, TypeOK
<1>3. \A g \in tx[u].marked \cap PresetStages : events[c][g] > 0
  BY <1>1 DEF DeskInv, ReadsHold
<1> HIDE DEF first
<1>4. /\ events' \in [Sales \cup Calls -> [Stages -> Nat]]
      /\ \A e \in Sales \cup Calls, g \in Stages : events[e][g] > 0 => events'[e][g] > 0
      /\ \A g \in Stages \cap first : events'[c][g] > 0
  <2>1. events \in [Sales \cup Calls -> [Stages -> Nat]]
    BY DEF DeskInv, TypeOK
  <2>2. \A g \in Stages : (IF g \in first THEN 1 ELSE 0) \in {0, 1}
    OBVIOUS
  <2>3. [g \in Stages |-> events[c][g] + (IF g \in first THEN 1 ELSE 0)] \in [Stages -> Nat]
    BY <1>2, <2>1
  <2>4. /\ events' \in [Sales \cup Calls -> [Stages -> Nat]]
        /\ \A e \in (Sales \cup Calls) \ {c} : events'[e] = events[e]
        /\ \A g \in Stages : events'[c][g] = events[c][g] + (IF g \in first THEN 1 ELSE 0)
    BY <1>1, <1>2, <2>1, <2>3
  <2>5. QED
    BY <1>2, <2>1, <2>4
<1>5. row \in CallRow /\ row.sale = calls[c].sale /\ row.state = calls[c].state
      /\ row.won = calls[c].won /\ row.marks \subseteq calls[c].marks \cup set
  BY <1>2 DEF CallRow
<1>6. calls' = [calls EXCEPT ![c] = row]
  BY <1>1, <1>2
<1>7. \A g \in row.marks \cap PresetStages :
          g \in calls[c].marks \/ (g \in Marks => events'[c][g] > 0)
  <2>1. ASSUME NEW g \in set \cap PresetStages
        PROVE  events'[c][g] > 0
    <3>1. g \in Stages
      BY DEF Marks, Stages
    <3>2. CASE g \in tx[u].marked
      BY <1>2, <1>3, <1>4, <3>1, <3>2
    <3>3. CASE g \notin tx[u].marked
      BY <1>4, <3>1, <3>3 DEF first
    <3>4. QED
      BY <3>2, <3>3
  <2>2. QED
    BY <1>5, <2>1
<1>8. /\ edits' \in Nat /\ UNCHANGED <<sale, partners, stale>>
      /\ crossed \subseteq crossed' /\ crossed' \subseteq Sales \X Calls
  BY <1>1, RowsAreTyped DEF DeskInv
<1>9. tx' = [tx EXCEPT ![u] = Idle]
  BY <1>1
<1> HIDE DEF c, row, marked
<1>10. QED
  BY <1>2, <1>4, <1>5, <1>6, <1>7, <1>8, <1>9, CallRowWritten

-------------------------------------------------------------------------------
(* Reads.                                                                      *)

LEMMA BeginCreateKeeps ==
    ASSUME DeskInv, NEW u \in Users, NEW s \in Sales, NEW d \in Calls \cup {NoCall}, BeginCreate(u, s, d)
    PROVE  DeskInv' /\ LinkedAlive
<1>1. sale[s] \in SaleRow /\ Idle \in Tx /\ Idle.previous = NoCall /\ NoCall \notin Calls
  BY RowsAreTyped, IdleIsTyped, DeskAssumption DEF DeskInv
<1> DEFINE t == [Idle EXCEPT !.op = "create", !.sale = s, !.call = d]
<1>2. t \in Tx /\ t.op = "create" /\ t.sale = s /\ t.call = d /\ t.previous = NoCall
  BY <1>1 DEF Tx, Operations
<1>3. /\ Begin(u, t) /\ sale[s].state = "absent" /\ \A v \in Users : tx[v].sale # s
      /\ d \in Calls => calls[d].state = "live"
  BY <1>1 DEF BeginCreate, LiveCall
<1> HIDE DEF t
<1>4. QED
  BY <1>1, <1>2, <1>3, BeginKeeps

LEMMA BeginLinkKeeps ==
    ASSUME DeskInv, NEW u \in Users, NEW s \in Sales, NEW c \in Calls, BeginLink(u, s, c)
    PROVE  DeskInv' /\ LinkedAlive
<1>1. sale[s] \in SaleRow /\ Idle \in Tx /\ Idle.previous = NoCall /\ NoCall \notin Calls
  BY RowsAreTyped, IdleIsTyped, DeskAssumption DEF DeskInv
<1> DEFINE t == [Idle EXCEPT !.op = "link", !.sale = s, !.call = c]
<1>2. t \in Tx /\ t.op = "link" /\ t.sale = s /\ t.call = c /\ t.previous = NoCall
  BY <1>1 DEF Tx, Operations
<1>3. Begin(u, t) /\ sale[s].state # "absent" /\ calls[c].state = "live"
  BY DEF BeginLink, LiveSale, LiveCall
<1> HIDE DEF t
<1>4. QED
  BY <1>1, <1>2, <1>3, BeginKeeps

LEMMA BeginUnlinkKeeps ==
    ASSUME DeskInv, NEW u \in Users, NEW s \in Sales, BeginUnlink(u, s)
    PROVE  DeskInv' /\ LinkedAlive
<1>1. sale[s] \in SaleRow /\ Idle \in Tx /\ Idle.previous = NoCall /\ NoCall \notin Calls
  BY RowsAreTyped, IdleIsTyped, DeskAssumption DEF DeskInv
<1> DEFINE t == [Idle EXCEPT !.op = "unlink", !.sale = s, !.previous = sale[s].call]
<1>2. /\ t \in Tx /\ t.op = "unlink" /\ t.sale = s /\ t.call = NoCall
      /\ t.previous = sale[s].call
  BY <1>1, IdleIsTyped DEF Tx, Operations, SaleRow
<1>3. Begin(u, t) /\ sale[s].state # "absent"
  BY DEF BeginUnlink
<1>4. sale[s].call \in Calls => <<s, sale[s].call>> \in partners
  BY DEF DeskInv, PartnersKnown
<1> HIDE DEF t
<1>5. QED
  BY <1>1, <1>2, <1>3, <1>4, BeginKeeps

LEMMA BeginRejectKeeps ==
    ASSUME DeskInv, NEW u \in Users, NEW s \in Sales, NEW c \in Calls, BeginReject(u, s, c)
    PROVE  DeskInv' /\ LinkedAlive
<1>1. sale[s] \in SaleRow /\ Idle \in Tx /\ Idle.previous = NoCall /\ NoCall \notin Calls
  BY RowsAreTyped, IdleIsTyped, DeskAssumption DEF DeskInv
<1> DEFINE t == [Idle EXCEPT !.op = "reject", !.sale = s, !.call = c,
                             !.existing = sale[s].rejected]
<1>2. t \in Tx /\ t.op = "reject" /\ t.sale = s /\ t.call = c /\ t.previous = NoCall
  BY <1>1 DEF Tx, Operations, SaleRow
<1>3. Begin(u, t) /\ sale[s].state # "absent" /\ calls[c].state # "absent"
  BY DEF BeginReject, Unlinked, LiveSale, LiveCall
<1> HIDE DEF t
<1>4. QED
  BY <1>1, <1>2, <1>3, BeginKeeps

LEMMA BeginRefundKeeps ==
    ASSUME DeskInv, NEW u \in Users, NEW s \in Sales, BeginRefund(u, s)
    PROVE  DeskInv' /\ LinkedAlive
<1>1. sale[s] \in SaleRow /\ Idle \in Tx /\ Idle.previous = NoCall /\ NoCall \notin Calls
  BY RowsAreTyped, IdleIsTyped, DeskAssumption DEF DeskInv
<1> DEFINE t == [Idle EXCEPT !.op = "refund", !.sale = s]
<1>2. t \in Tx /\ t.op = "refund" /\ t.sale = s /\ t.call = NoCall /\ t.previous = NoCall
  BY <1>1, IdleIsTyped DEF Tx, Operations
<1>3. Begin(u, t) /\ sale[s].state # "absent"
  BY DEF BeginRefund, LiveSale
<1> HIDE DEF t
<1>4. QED
  BY <1>1, <1>2, <1>3, BeginKeeps

LEMMA BeginOutcomeKeeps ==
    ASSUME DeskInv, NEW u \in Users, NEW c \in Calls, BeginOutcome(u, c)
    PROVE  DeskInv' /\ LinkedAlive
<1> DEFINE t == [Idle EXCEPT !.op = "outcome", !.call = c, !.marked = calls[c].marks]
<1>1. calls[c] \in CallRow /\ Idle \in Tx /\ Idle.previous = NoCall /\ NoCall \notin Calls
  BY RowsAreTyped, IdleIsTyped, DeskAssumption DEF DeskInv
<1>2. /\ t \in Tx /\ t.op = "outcome" /\ t.call = c /\ t.marked = calls[c].marks
      /\ t.previous = NoCall
  BY <1>1 DEF Tx, Operations, CallRow
<1>3. Begin(u, t) /\ calls[c].state # "absent"
  BY DEF BeginOutcome, LiveCall
<1>4. ASSUME NEW g \in t.marked \cap PresetStages
      PROVE  events[c][g] > 0
  <2>1. calls[c].marks \subseteq Marks
    BY <1>1 DEF CallRow
  <2>2. CASE g = "showed"
    BY <1>2, <2>2 DEF DeskInv, OutcomesEmitted
  <2>3. CASE g = "pitched"
    BY <1>2, <2>3 DEF DeskInv, OutcomesEmitted
  <2>4. QED
    BY <1>2, <2>1, <2>2, <2>3 DEF Marks
<1> HIDE DEF t
<1>5. QED
  BY <1>1, <1>2, <1>3, <1>4, BeginKeeps

-------------------------------------------------------------------------------
(* Theorems.                                                                   *)

LEMMA InitHolds == Init => DeskInv
<1> SUFFICES ASSUME Init PROVE DeskInv
  OBVIOUS
<1>1. TypeOK
  BY IdleIsTyped, DeskAssumption DEF Init, TypeOK, States, Tx
<1>2. ReadsHold
  BY IdleIsTyped, DeskAssumption DEF Init, ReadsHold
<1>3. PartnersKnown /\ PairsAgree /\ OutcomesEmitted
  BY DeskAssumption DEF Init, PartnersKnown, PairsAgree, Contacts, LiveCall, OutcomesEmitted, Stages
<1>4. QED
  BY <1>1, <1>2, <1>3 DEF DeskInv

LEMMA StepKeeps == DeskInv /\ [Next]_vars => DeskInv' /\ LinkedAlive
<1> SUFFICES ASSUME DeskInv, [Next]_vars
             PROVE  DeskInv' /\ LinkedAlive
  OBVIOUS
<1>1. CASE UNCHANGED vars
  BY <1>1, StutterKeeps
<1>2. ASSUME NEW u \in Users, SalesRouter(u) \/ NewSaleForm(u) \/ SaleDetailPage(u) \/ Abort(u)
      PROVE  DeskInv' /\ LinkedAlive
  <2>1. CASE SalesRouter(u)
    BY <2>1, BeginCreateKeeps, SoftDeleteSaleKeeps, CommitCreateKeeps, CommitLinkKeeps,
       CommitUnlinkKeeps, CommitRefundKeeps DEF SalesRouter
  <2>2. CASE NewSaleForm(u)
    BY <2>2, BeginCreateKeeps DEF NewSaleForm
  <2>3. CASE LinkerCard(u)
    BY <2>3, BeginUnlinkKeeps, BeginLinkKeeps, BeginRejectKeeps, CommitRejectKeeps
    DEF LinkerCard, SuggestedCalls
  <2>4. CASE RefundCard(u)
    BY <2>4, BeginRefundKeeps DEF RefundCard
  <2>5. CASE Abort(u)
    BY <2>5, AbortKeeps
  <2>6. QED
    BY <1>2, <2>1, <2>2, <2>3, <2>4, <2>5 DEF SaleDetailPage
<1>3. ASSUME NEW u \in Users,
             \/ CallsRouter(u) \/ NewCallForm(u) \/ CallDetailActions(u)
             \/ LinkTool(u) \/ UnlinkTool(u)
      PROVE  DeskInv' /\ LinkedAlive
  <2>1. CASE CallsRouter(u)
    BY <2>1, UpdateCallKeeps, SoftDeleteCallKeeps, CommitOutcomeKeeps DEF CallsRouter
  <2>2. CASE NewCallForm(u)
    BY <2>2, CreateCallKeeps DEF NewCallForm
  <2>3. CASE CallDetailActions(u)
    BY <2>3, SetDispositionKeeps, BeginOutcomeKeeps DEF CallDetailActions
  <2>4. CASE LinkTool(u)
    BY <2>4, BeginLinkKeeps DEF LinkTool
  <2>5. CASE UnlinkTool(u)
    BY <2>5, BeginUnlinkKeeps DEF UnlinkTool
  <2>6. QED
    BY <1>3, <2>1, <2>2, <2>3, <2>4, <2>5
<1>4. QED
  BY <1>1, <1>2, <1>3 DEF Next

LEMMA Invariance == Spec => []DeskInv
  BY InitHolds, StepKeeps, PTL DEF Spec

\* Every variable keeps its type: a link is to a call or a sale, a transaction knows what it
\* is about.
THEOREM TypeCorrect == Spec => []TypeOK
<1>1. DeskInv => TypeOK
  BY DEF DeskInv
<1>2. QED
  BY <1>1, Invariance, PTL

\* createSale, linkToCall and unlinkFromCall update both sides, whoever overlaps.
THEOREM LinksHaveTwoEnds == Spec => []PairsAgree
<1>1. DeskInv => PairsAgree
  BY DEF DeskInv
<1>2. QED
  BY <1>1, Invariance, PTL

\* setOutcome, setDisposition, createSale and recordRefund emit their funnel events.
THEOREM EveryOutcomeEmits == Spec => []OutcomesEmitted
<1>1. DeskInv => OutcomesEmitted
  BY DEF DeskInv
<1>2. QED
  BY <1>1, Invariance, PTL

\* createSale and linkToCall write a link into rows that are alive; the call that a sale
\* names is alive as well, or was deleted after its transaction had looked for it.
THEOREM LinksAreMadeAlive == Spec => LinksMadeAlive
<1>1. DeskInv /\ [Next]_vars => [LinkedAlive]_vars
  BY StepKeeps
<1>2. QED
  BY <1>1, Invariance, PTL DEF Spec, LinksMadeAlive, LinkedAlive
===============================================================================
