------------------------ MODULE CommissionLedgerProofs ------------------------
(* Theorems about CommissionLedger, for every value of its constants. *)
EXTENDS CommissionLedger, TLAPS

-------------------------------------------------------------------------------
(* Types.                                                                      *)

\* The initial state is well typed.
LEMMA InitTypeOK == Init => TypeOK
<1> SUFFICES ASSUME Init PROVE TypeOK
  OBVIOUS
<1> USE DEF Init
<1>1. sale \in SaleStatus /\ refund \in RefundStatus /\ wanted \subseteq Keys /\ held \subseteq Keys
  BY DEF SaleStatus, RefundStatus
<1>2. inst \in [Installments -> InstallmentStatus] /\ collectedAt \in [Installments -> Nat]
  BY DEF InstallmentStatus
<1>3. rule \in [Rules -> RuleRow]
  OBVIOUS
<1>4. hist \in [Rules -> Seq(Terms)]
  <2>1. \A r \in Rules : rule[r].terms \in Terms BY <1>3 DEF RuleRow
  <2> QED BY <2>1
<1>5. ent \in [Keys -> Row]
  BY DEF AbsentRow, Row, EntryStatus
<1>6. now \in Nat /\ edits \in Nat /\ req \in Nat /\ sent \in Nat
      /\ lost \in BOOLEAN /\ failures \in Nat
  OBVIOUS
<1>7. /\ pc \in [Workers -> {"idle", "retry", "matched", "upsert", "checked", "void", "closing"}]
      /\ tries \in [Workers -> Nat]
      /\ lock \in Workers \cup {NoWorker}
  OBVIOUS
<1>8. /\ live \in [Workers -> SUBSET Installments]
      /\ todo \in [Workers -> SUBSET (Installments \X Recipients)]
      /\ cur \in [Workers -> SUBSET (Installments \X Recipients)]
      /\ obs \in [Workers -> SUBSET Keys]
  OBVIOUS
<1>9. due \in [Workers -> [Installments -> Nat]]
  BY ConstantsAssumption
<1>10. plan \in [Workers -> [Roles -> Pairing]]
  BY DEF Pairing
<1>11. buf \in [Workers -> [Keys -> BufRow]]
  BY DEF NoWrites, BufRow
<1> QED
  BY <1>1, <1>2, <1>3, <1>4, <1>5, <1>6, <1>7, <1>8, <1>9, <1>10, <1>11 DEF TypeOK

\* Every operator that builds a row builds one of the ledger's.
LEMMA RowTypes ==
    /\ AbsentRow \in Row
    /\ NoWrites \in [Keys -> BufRow]
    /\ \A h, v, t \in Nat : NewRow(h, v, t) \in Row
    /\ \A row \in Row : Void(row) \in Row
<1>1. AbsentRow \in Row BY DEF AbsentRow, Row, EntryStatus
<1>2. NoWrites \in [Keys -> BufRow] BY DEF NoWrites, BufRow
<1>3. \A h, v, t \in Nat : NewRow(h, v, t) \in Row
  BY DEF NewRow, Row, EntryStatus, Open
<1>4. \A row \in Row : Void(row) \in Row BY DEF Void, Row, EntryStatus
<1> QED BY <1>1, <1>2, <1>3, <1>4

\* What a transaction sees of a row is a row.
LEMMA ViewType ==
    ASSUME TypeOK, NEW w \in Workers, NEW k \in Keys
    PROVE  View(w, k) \in Row
<1>1. buf[w][k] \in BufRow /\ ent[k] \in Row BY DEF TypeOK
<1>2. CASE Written(w, k)
  BY <1>1, <1>2 DEF View, Written, BufRow, Unwritten
<1>3. CASE ~Written(w, k)
  BY <1>1, <1>3 DEF View
<1> QED BY <1>2, <1>3

\* An upsert leaves a row of the ledger.
LEMMA UpsertType ==
    ASSUME NEW row \in Row, NEW new \in Row
    PROVE  Upsert(row, new) \in Row
<1> QED BY DEF Upsert, Row

\* The entry a run computes for a recipient.
LEMMA EntryForType ==
    ASSUME TypeOK, NEW w \in Workers, NEW i \in Installments, NEW u \in Recipients
    PROVE  /\ PlanOf(w, u) \in Pairing
           /\ EntryFor(w, i, u) \in Row
<1>1. RoleOf[u] \in Roles BY ConstantsAssumption
<1>2. PlanOf(w, u) \in Pairing BY <1>1 DEF PlanOf, TypeOK
<1>3. due[w][i] \in Nat BY DEF TypeOK
<1>4. due[w][i] + PlanOf(w, u).hold \in Nat BY <1>2, <1>3 DEF Pairing
<1>5. PlanOf(w, u).hold \in Nat /\ PlanOf(w, u).ver \in Nat BY <1>2 DEF Pairing
<1> QED BY <1>2, <1>4, <1>5, RowTypes DEF EntryFor

\* The conjuncts of TypeOK that no action of a run's own steps disturbs.
SharedTypes ==
    /\ sale \in SaleStatus
    /\ refund \in RefundStatus
    /\ wanted \subseteq Keys
    /\ held \subseteq Keys
    /\ inst \in [Installments -> InstallmentStatus]
    /\ collectedAt \in [Installments -> Nat]
    /\ rule \in [Rules -> RuleRow]
    /\ hist \in [Rules -> Seq(Terms)]
    /\ ent \in [Keys -> Row]
    /\ now \in Nat
    /\ edits \in Nat
    /\ req \in Nat
    /\ sent \in Nat
    /\ lost \in BOOLEAN
    /\ failures \in Nat

RunTypes ==
    /\ pc \in [Workers -> {"idle", "retry", "matched", "upsert", "checked", "void", "closing"}]
    /\ tries \in [Workers -> Nat]
    /\ lock \in Workers \cup {NoWorker}
    /\ live \in [Workers -> SUBSET Installments]
    /\ due \in [Workers -> [Installments -> Nat]]
    /\ plan \in [Workers -> [Roles -> Pairing]]
    /\ todo \in [Workers -> SUBSET (Installments \X Recipients)]
    /\ cur \in [Workers -> SUBSET (Installments \X Recipients)]
    /\ buf \in [Workers -> [Keys -> BufRow]]
    /\ obs \in [Workers -> SUBSET Keys]

\* TypeOK, split into what runs share and what each run keeps.
LEMMA TypeParts == TypeOK <=> SharedTypes /\ RunTypes
<1> QED BY DEF TypeOK, SharedTypes, RunTypes

\* A step that touches no run keeps the types of their variables.
LEMMA RunVarsTypes == RunTypes /\ UNCHANGED runVars => RunTypes'
<1> QED BY DEF RunTypes, runVars

\* Ending a transaction leaves its variables well typed.
LEMMA ForgetRunTypes ==
    ASSUME RunTypes, NEW w \in Workers, ForgetRun(w)
    PROVE  /\ live' \in [Workers -> SUBSET Installments]
           /\ due' \in [Workers -> [Installments -> Nat]]
           /\ plan' \in [Workers -> [Roles -> Pairing]]
           /\ todo' \in [Workers -> SUBSET (Installments \X Recipients)]
           /\ cur' \in [Workers -> SUBSET (Installments \X Recipients)]
           /\ buf' \in [Workers -> [Keys -> BufRow]]
           /\ obs' \in [Workers -> SUBSET Keys]
<1>1. due' \in [Workers -> [Installments -> Nat]]
  BY ConstantsAssumption DEF RunTypes, ForgetRun
<1>2. plan' \in [Workers -> [Roles -> Pairing]]
  BY DEF RunTypes, ForgetRun, Pairing
<1>3. buf' \in [Workers -> [Keys -> BufRow]]
  BY RowTypes DEF RunTypes, ForgetRun
<1>4. /\ live' \in [Workers -> SUBSET Installments]
      /\ todo' \in [Workers -> SUBSET (Installments \X Recipients)]
      /\ cur' \in [Workers -> SUBSET (Installments \X Recipients)]
      /\ obs' \in [Workers -> SUBSET Keys]
  BY DEF RunTypes, ForgetRun
<1> QED BY <1>1, <1>2, <1>3, <1>4

\* So does failing a run, whether it is retried or given up.
LEMMA FailRunTypes ==
    ASSUME SharedTypes, RunTypes, NEW w \in Workers, FailRun(w)
    PROVE  /\ pc' \in [Workers -> {"idle", "retry", "matched", "upsert", "checked", "void", "closing"}]
           /\ tries' \in [Workers -> Nat]
           /\ lost' \in BOOLEAN
<1>1. lost' = lost \/ lost' = TRUE BY DEF FailRun
<1>2. lost' \in BOOLEAN BY <1>1 DEF SharedTypes
<1>3. \/ /\ pc' = [pc EXCEPT ![w] = "retry"]
         /\ tries' = [tries EXCEPT ![w] = tries[w] + 1]
      \/ /\ pc' = [pc EXCEPT ![w] = "idle"]
         /\ tries' = [tries EXCEPT ![w] = 0]
  BY Zenon DEF FailRun
<1>4. pc' \in [Workers -> {"idle", "retry", "matched", "upsert", "checked", "void", "closing"}]
  BY <1>3 DEF RunTypes
<1>5. tries' \in [Workers -> Nat]
  <2>1. tries \in [Workers -> Nat] BY DEF RunTypes
  <2>2. tries[w] + 1 \in Nat /\ 0 \in Nat BY <2>1
  <2> QED BY <1>3, <2>1, <2>2
<1> QED BY <1>2, <1>4, <1>5

\* Taking an event keeps the queue length a natural number.
LEMMA TakeRequestTypes ==
    ASSUME SharedTypes, NEW w \in Workers, TakeRequest(w)
    PROVE  req' \in Nat
<1> QED BY DEF SharedTypes, TakeRequest

\* Sending an event, or losing it, keeps the counters well typed.
LEMMA SendTypes ==
    ASSUME SharedTypes, SendRecompute
    PROVE  req' \in Nat /\ sent' \in Nat /\ lost' \in BOOLEAN /\ failures' \in Nat
<1>1. \/ sent' = sent + 1 /\ req' = req + 1 /\ lost' = lost /\ failures' = failures
      \/ sent' = sent /\ req' = req /\ lost' = TRUE /\ failures' = failures + 1
  BY DEF SendRecompute
<1>2. req' \in Nat /\ sent' \in Nat /\ failures' \in Nat BY <1>1 DEF SharedTypes
<1>3. lost' \in BOOLEAN BY <1>1 DEF SharedTypes
<1> QED BY <1>2, <1>3

-------------------------------------------------------------------------------
(* Types: the steps of a run.                                                  *)

\* A run that finds no sale keeps the types.
LEMMA BeginMissingTypes ==
    ASSUME TypeOK, NEW w \in Workers, BeginMissing(w)
    PROVE  TypeOK'
<1>1. SharedTypes /\ RunTypes BY TypeParts
<1>2. req' \in Nat BY <1>1, TakeRequestTypes DEF BeginMissing
<1>3. /\ pc' \in [Workers -> {"idle", "retry", "matched", "upsert", "checked", "void", "closing"}]
      /\ tries' \in [Workers -> Nat]
      /\ lost' \in BOOLEAN
  BY <1>1, FailRunTypes DEF BeginMissing
<1> QED BY <1>2, <1>3 DEF TypeOK, BeginMissing, saleVars, ruleVars

\* A run that finds a deleted sale keeps the types.
LEMMA BeginDeletedTypes ==
    ASSUME TypeOK, NEW w \in Workers, BeginDeleted(w)
    PROVE  TypeOK'
<1>1. req' \in Nat BY TypeParts, TakeRequestTypes DEF BeginDeleted
<1>2. /\ pc' \in [Workers -> {"idle", "retry", "matched", "upsert", "checked", "void", "closing"}]
      /\ lock' \in Workers \cup {NoWorker}
      /\ obs' \in [Workers -> SUBSET Keys]
  BY DEF TypeOK, BeginDeleted
<1> QED BY <1>1, <1>2 DEF TypeOK, BeginDeleted, saleVars, ruleVars

\* A rule, or none, is paired with a hold and no version yet.
LEMMA PairedType ==
    ASSUME TypeOK, NEW r \in Rules \cup {NoRule}
    PROVE  Paired(r) \in Pairing
<1>1. r # NoRule => rule[r].terms.hold \in Nat
  BY ConstantsAssumption DEF TypeOK, RuleRow
<1> QED BY <1>1, ConstantsAssumption DEF Paired, Pairing

\* The first reads of a run keep the types.
LEMMA BeginTypes ==
    ASSUME TypeOK, NEW w \in Workers, Begin(w)
    PROVE  TypeOK'
<1>1. req' \in Nat BY TypeParts, TakeRequestTypes DEF Begin
<1>2. /\ pc' \in [Workers -> {"idle", "retry", "matched", "upsert", "checked", "void", "closing"}]
      /\ lock' \in Workers \cup {NoWorker}
      /\ live' \in [Workers -> SUBSET Installments]
  BY DEF TypeOK, Begin
<1>3. due' \in [Workers -> [Installments -> Nat]]
  <2>1. \A i \in Installments : Anchor(i) \in Nat
    BY ConstantsAssumption DEF TypeOK, Anchor
  <2> QED BY <2>1 DEF TypeOK, Begin
<1>4. plan' \in [Workers -> [Roles -> Pairing]]
  <2>1. PICK pick \in [Roles -> Rules \cup {NoRule}] :
            plan' = [plan EXCEPT ![w] = [q \in Roles |-> Paired(pick[q])]]
    BY DEF Begin
  <2>2. \A q \in Roles : Paired(pick[q]) \in Pairing BY PairedType
  <2> QED BY <2>1, <2>2 DEF TypeOK
<1> QED BY <1>1, <1>2, <1>3, <1>4 DEF TypeOK, Begin, saleVars, ruleVars

\* The read of the rule versions keeps the types.
LEMMA ReadVersionsTypes ==
    ASSUME TypeOK, NEW w \in Workers, ReadVersions(w)
    PROVE  TypeOK'
<1>1. /\ pc' \in [Workers -> {"idle", "retry", "matched", "upsert", "checked", "void", "closing"}]
      /\ todo' \in [Workers -> SUBSET (Installments \X Recipients)]
  BY DEF TypeOK, ReadVersions
<1>2. plan' \in [Workers -> [Roles -> Pairing]]
  <2>1. \A q \in Roles : plan[w][q] \in Pairing BY DEF TypeOK
  <2>2. \A q \in Roles : plan[w][q].rule # NoRule
            => LatestVersion(plan[w][q].rule) \in Nat
    <3> SUFFICES ASSUME NEW q \in Roles, plan[w][q].rule # NoRule
                 PROVE  LatestVersion(plan[w][q].rule) \in Nat
      OBVIOUS
    <3>1. plan[w][q].rule \in Rules BY <2>1 DEF Pairing
    <3>2. hist[plan[w][q].rule] \in Seq(Terms) BY <3>1 DEF TypeOK
    <3> QED BY <3>2 DEF LatestVersion
  <2>3. \A q \in Roles :
           (IF plan[w][q].rule = NoRule THEN plan[w][q]
            ELSE [plan[w][q] EXCEPT !.ver = LatestVersion(plan[w][q].rule)]) \in Pairing
    BY <2>1, <2>2 DEF Pairing
  <2> QED BY <2>3 DEF TypeOK, ReadVersions
<1> QED BY <1>1, <1>2 DEF TypeOK, ReadVersions, saleVars, ruleVars

\* The upsert of an entry with a rule keeps the types.
LEMMA UpsertEntryTypes ==
    ASSUME TypeOK, NEW w \in Workers, NEW i \in Installments, NEW u \in Recipients,
           UpsertEntry(w, i, u)
    PROVE  TypeOK'
<1> DEFINE k == <<i, u, PlanOf(w, u).rule>>
<1>1. PlanOf(w, u).rule \in Rules BY EntryForType DEF UpsertEntry, Pairing
<1>2. k \in Keys BY <1>1 DEF Keys, Slots
<1>3. Upsert(View(w, k), EntryFor(w, i, u)) \in BufRow
  BY <1>2, ViewType, EntryForType, UpsertType DEF BufRow
<1>4. buf' \in [Workers -> [Keys -> BufRow]]
  BY <1>2, <1>3 DEF TypeOK, UpsertEntry
<1>5. todo' \in [Workers -> SUBSET (Installments \X Recipients)]
  BY DEF TypeOK, UpsertEntry
<1> QED BY <1>4, <1>5 DEF TypeOK, UpsertEntry, saleVars, ruleVars

\* The locked-row check of an entry without a rule keeps the types.
LEMMA CheckSettledTypes ==
    ASSUME TypeOK, NEW w \in Workers, NEW i \in Installments, NEW u \in Recipients,
           CheckSettled(w, i, u)
    PROVE  TypeOK'
<1>1. todo' \in [Workers -> SUBSET (Installments \X Recipients)]
  BY DEF TypeOK, CheckSettled
<1>2. /\ pc' \in [Workers -> {"idle", "retry", "matched", "upsert", "checked", "void", "closing"}]
      /\ cur' \in [Workers -> SUBSET (Installments \X Recipients)]
  <2>1. \/ UNCHANGED <<pc, cur>>
        \/ pc' = [pc EXCEPT ![w] = "checked"] /\ cur' = [cur EXCEPT ![w] = {<<i, u>>}]
    BY Zenon DEF CheckSettled
  <2>2. {<<i, u>>} \in SUBSET (Installments \X Recipients) OBVIOUS
  <2>3. CASE UNCHANGED <<pc, cur>> BY <2>3 DEF TypeOK
  <2>4. CASE pc' = [pc EXCEPT ![w] = "checked"] /\ cur' = [cur EXCEPT ![w] = {<<i, u>>}]
    BY <2>2, <2>4 DEF TypeOK
  <2> QED BY <2>1, <2>3, <2>4
<1> QED BY <1>1, <1>2 DEF TypeOK, CheckSettled, saleVars, ruleVars

\* The rows the delete and insert write: open ones of the entry go, one that is not settled
\* becomes the new one.
LEMMA ReplacedRows ==
    ASSUME NEW w \in Workers, NEW i \in Installments, NEW u \in Recipients,
           ReplaceEntry(w, i, u)
    PROVE  \E new \in {<<i, u, s>> : s \in NoRuleSlots}, opened \in SUBSET Keys :
              /\ opened = {k \in {<<i, u, s>> : s \in NoRuleSlots} : View(w, k).status \in Open}
              /\ View(w, new).status \notin Settled
              /\ opened # {} => new \in opened
              /\ \A k \in opened : ~LockedFor(w, k)
              /\ buf' = [buf EXCEPT ![w] = [k \in Keys |->
                            IF k = new THEN EntryFor(w, i, u)
                            ELSE IF k \in opened THEN AbsentRow ELSE buf[w][k]]]
<1> DEFINE mine == {<<i, u, s>> : s \in NoRuleSlots}
           opened == {k \in mine : View(w, k).status \in Open}
           free == IF opened # {} THEN opened ELSE {k \in mine : View(w, k).status \notin Settled}
           new == CHOOSE k \in free : TRUE
<1>1. /\ free # {}
      /\ \A k \in opened : ~LockedFor(w, k)
      /\ buf' = [buf EXCEPT ![w] = [k \in Keys |->
                    IF k = new THEN EntryFor(w, i, u)
                    ELSE IF k \in opened THEN AbsentRow ELSE buf[w][k]]]
  BY Zenon DEF ReplaceEntry
<1>2. new \in free
  <2> HIDE DEF free
  <2> QED BY <1>1, Zenon
<1>3. mine \subseteq Keys BY DEF Keys, Slots
<1>4. new \in mine /\ opened \in SUBSET Keys
  <2> HIDE DEF new
  <2> QED BY <1>2, <1>3
<1>5. View(w, new).status \notin Settled /\ (opened # {} => new \in opened)
  <2> HIDE DEF new
  <2> QED BY <1>2 DEF Open, Settled
<1> HIDE DEF new
<1> QED BY <1>1, <1>4, <1>5

\* The delete and insert of an entry without a rule keep the types.
LEMMA ReplaceEntryTypes ==
    ASSUME TypeOK, NEW w \in Workers, NEW i \in Installments, NEW u \in Recipients,
           ReplaceEntry(w, i, u)
    PROVE  TypeOK'
<1>1. buf' \in [Workers -> [Keys -> BufRow]]
  <2>1. EntryFor(w, i, u) \in BufRow /\ AbsentRow \in BufRow
    BY EntryForType, RowTypes DEF BufRow
  <2>2. buf[w] \in [Keys -> BufRow] BY DEF TypeOK
  <2>3. PICK new \in {<<i, u, s>> : s \in NoRuleSlots}, opened \in SUBSET Keys :
            buf' = [buf EXCEPT ![w] = [k \in Keys |->
                       IF k = new THEN EntryFor(w, i, u)
                       ELSE IF k \in opened THEN AbsentRow ELSE buf[w][k]]]
    BY ReplacedRows
  <2> QED BY <2>1, <2>2, <2>3 DEF TypeOK
<1>2. /\ pc' \in [Workers -> {"idle", "retry", "matched", "upsert", "checked", "void", "closing"}]
      /\ cur' \in [Workers -> SUBSET (Installments \X Recipients)]
  BY DEF TypeOK, ReplaceEntry
<1> QED BY <1>1, <1>2 DEF TypeOK, ReplaceEntry, saleVars, ruleVars

\* The select of obsolete rows keeps the types.
LEMMA SelectObsoleteTypes ==
    ASSUME TypeOK, NEW w \in Workers, SelectObsolete(w)
    PROVE  TypeOK'
<1>1. /\ pc' \in [Workers -> {"idle", "retry", "matched", "upsert", "checked", "void", "closing"}]
      /\ obs' \in [Workers -> SUBSET Keys]
  BY DEF TypeOK, SelectObsolete
<1> QED BY <1>1 DEF TypeOK, SelectObsolete, saleVars, ruleVars

\* The void of a row keeps the types.
LEMMA VoidEntryTypes ==
    ASSUME TypeOK, NEW w \in Workers, NEW k \in Keys, VoidEntry(w, k)
    PROVE  TypeOK'
<1>1. obs' \in [Workers -> SUBSET Keys] BY DEF TypeOK, VoidEntry
<1>2. Void(View(w, k)) \in BufRow BY ViewType, RowTypes DEF BufRow
<1>3. buf' = buf \/ buf' = [buf EXCEPT ![w][k] = Void(View(w, k))] BY Zenon DEF VoidEntry
<1>4. buf \in [Workers -> [Keys -> BufRow]] BY DEF TypeOK
<1>5. [buf EXCEPT ![w][k] = Void(View(w, k))] \in [Workers -> [Keys -> BufRow]]
  <2> DEFINE row == Void(View(w, k))
  <2> HIDE DEF row
  <2> QED BY <1>2, <1>4
<1>6. buf' \in [Workers -> [Keys -> BufRow]] BY <1>3, <1>4, <1>5
<1> QED BY <1>1, <1>6 DEF TypeOK, VoidEntry, saleVars, ruleVars

\* The commit keeps the types.
LEMMA CommitRunTypes ==
    ASSUME TypeOK, NEW w \in Workers, CommitRun(w)
    PROVE  TypeOK'
<1>1. ent' \in [Keys -> Row]
  <2>1. \A k \in Keys : View(w, k) \in Row BY ViewType
  <2> QED BY <2>1 DEF CommitRun
<1>2. RunTypes'
  <2>1. ForgetRun(w) /\ RunTypes BY TypeParts DEF CommitRun
  <2>2. /\ pc' \in [Workers -> {"idle", "retry", "matched", "upsert", "checked", "void", "closing"}]
        /\ tries' \in [Workers -> Nat]
        /\ lock' \in Workers \cup {NoWorker}
    BY DEF TypeOK, CommitRun, Unlock
  <2> QED BY <2>1, <2>2, ForgetRunTypes DEF RunTypes
<1>3. wanted' \subseteq Keys BY DEF TypeOK, CommitRun
<1> QED BY <1>1, <1>2, <1>3 DEF TypeOK, RunTypes, CommitRun, ruleVars

\* A rollback keeps the types, whoever caused it.
LEMMA AbortRunTypes ==
    ASSUME TypeOK, NEW w \in Workers, AbortRun(w) \/ DeadlockVictim(w)
    PROVE  TypeOK'
<1>1. SharedTypes /\ RunTypes /\ ForgetRun(w) /\ FailRun(w)
  BY TypeParts DEF AbortRun, DeadlockVictim
<1>2. lock' \in Workers \cup {NoWorker} /\ failures' \in Nat
  BY <1>1 DEF SharedTypes, AbortRun, DeadlockVictim, Unlock
<1>3. RunTypes' BY <1>1, <1>2, ForgetRunTypes, FailRunTypes DEF RunTypes
<1>4. SharedTypes'
  BY <1>1, <1>2, FailRunTypes DEF SharedTypes, AbortRun, DeadlockVictim, saleVars, ruleVars
<1> QED BY <1>3, <1>4 DEF TypeOK, SharedTypes, RunTypes

-------------------------------------------------------------------------------
(* Types: the other steps.                                                     *)

\* The transactions of the sale keep the types.
LEMMA SaleStepTypes ==
    ASSUME TypeOK, SaleStep
    PROVE  TypeOK'
<1>1. SharedTypes /\ RunTypes BY TypeParts
<1> USE <1>1 DEF saleVars, ruleVars
<1>2. UNCHANGED runVars
  BY DEF SaleStep, CreateSale, SoftDeleteSale, CommitSale, ReadRefund, StartClawback,
         ClawBackRow, ApplyRefund, CommitRefund, RollbackMutation, RequestRecompute
<1>3. RunTypes' BY <1>2, RunVarsTypes
<1>4. SharedTypes'
  <2>1. CASE CreateSale
    BY <2>1, SendTypes DEF SharedTypes, SaleStatus, CreateSale
  <2>2. CASE SoftDeleteSale
    BY <2>2, SendTypes DEF SharedTypes, SaleStatus, SoftDeleteSale
  <2>3. CASE CommitSale
    BY <2>3 DEF SharedTypes, SaleStatus, CommitSale
  <2>4. CASE ReadRefund
    BY <2>4 DEF SharedTypes, RefundStatus, ReadRefund
  <2>5. CASE StartClawback
    BY <2>5 DEF SharedTypes, RefundStatus, StartClawback
  <2>10. CASE ApplyRefund
    <3>1. req' \in Nat /\ failures' \in Nat BY <2>10 DEF SharedTypes, ApplyRefund
    <3>2. lost' \in BOOLEAN BY <2>10 DEF SharedTypes, ApplyRefund
    <3> QED BY <2>10, <3>1, <3>2 DEF SharedTypes, RefundStatus, ApplyRefund
  <2>9. ASSUME NEW k \in Keys, ClawBackRow(k) PROVE SharedTypes'
    <3>1. held' \subseteq Keys /\ wanted' \subseteq Keys
      BY <2>9 DEF SharedTypes, ClawBackRow
    <3> QED BY <2>9, <3>1 DEF SharedTypes, ClawBackRow
  <2>6. CASE CommitRefund
    <3>1. \A k \in Keys : ent[k] \in Row /\ [ent[k] EXCEPT !.status = "clawed_back"] \in Row
      BY DEF SharedTypes, Row, EntryStatus, Settled
    <3>2. ent' \in [Keys -> Row] BY <2>6, <3>1 DEF CommitRefund
    <3>3. inst' \in [Installments -> InstallmentStatus]
      BY <2>6 DEF CommitRefund, InstallmentStatus
    <3> QED BY <2>6, <3>2, <3>3 DEF SharedTypes, RefundStatus, CommitRefund
  <2>7. CASE RollbackMutation
    BY <2>7 DEF SharedTypes, SaleStatus, RefundStatus, RollbackMutation
  <2>8. CASE RequestRecompute
    BY <2>8, SendTypes DEF SharedTypes, RequestRecompute
  <2> QED BY <2>1, <2>2, <2>3, <2>4, <2>5, <2>6, <2>7, <2>8, <2>9, <2>10 DEF SaleStep
<1> QED BY <1>3, <1>4 DEF TypeOK, SharedTypes, RunTypes

\* Rule edits keep the types.
LEMMA RuleStepTypes ==
    ASSUME TypeOK, RuleStep
    PROVE  TypeOK'
<1>1. SharedTypes /\ RunTypes BY TypeParts
<1> USE <1>1 DEF saleVars, ruleVars
<1>2. PICK r \in Rules :
         \/ \E t \in Terms, applies \in BOOLEAN : CreateRule(r, t, applies)
                                                 \/ UpdateRule(r, t, applies)
         \/ SoftDeleteRule(r)
  BY DEF RuleStep
<1>3. CASE \E t \in Terms, applies \in BOOLEAN : CreateRule(r, t, applies)
  <2>1. PICK t \in Terms, applies \in BOOLEAN : CreateRule(r, t, applies) BY <1>3
  <2>2. RunTypes' BY <2>1, RunVarsTypes DEF CreateRule
  <2>3. rule' \in [Rules -> RuleRow] /\ hist' \in [Rules -> Seq(Terms)]
    BY <2>1 DEF SharedTypes, CreateRule, RuleRow
  <2>4. SharedTypes' BY <2>1, <2>3 DEF SharedTypes, CreateRule, CountEdit
  <2> QED BY <2>2, <2>4 DEF TypeOK, SharedTypes, RunTypes
<1>4. CASE \E t \in Terms, applies \in BOOLEAN : UpdateRule(r, t, applies)
  <2>1. PICK t \in Terms, applies \in BOOLEAN : UpdateRule(r, t, applies) BY <1>4
  <2>2. RunTypes' BY <2>1, RunVarsTypes DEF UpdateRule
  <2>3. rule' \in [Rules -> RuleRow] /\ hist' \in [Rules -> Seq(Terms)]
    BY <2>1 DEF SharedTypes, UpdateRule, RuleRow
  <2>4. SharedTypes' BY <2>1, <2>3 DEF SharedTypes, UpdateRule, CountEdit
  <2> QED BY <2>2, <2>4 DEF TypeOK, SharedTypes, RunTypes
<1>5. CASE SoftDeleteRule(r)
  <2>1. RunTypes' BY <1>5, RunVarsTypes DEF SoftDeleteRule
  <2>2. rule' \in [Rules -> RuleRow] BY <1>5 DEF SharedTypes, SoftDeleteRule, RuleRow
  <2>3. SharedTypes' BY <1>5, <2>2 DEF SharedTypes, SoftDeleteRule, CountEdit
  <2> QED BY <2>1, <2>3 DEF TypeOK, SharedTypes, RunTypes
<1> QED BY <1>2, <1>3, <1>4, <1>5

\* The clock, the release sweep, payouts and collections keep the types.
LEMMA OtherStepTypes ==
    ASSUME TypeOK,
           \/ Tick
           \/ ReleaseAvailableEntries
           \/ \E k \in Keys : MarkPaid(k)
           \/ \E i \in Installments : CollectInstallment(i)
    PROVE  TypeOK'
<1>1. SharedTypes /\ RunTypes BY TypeParts
<1> USE <1>1 DEF saleVars, ruleVars
<1>2. CASE Tick
  BY <1>2, RunVarsTypes DEF TypeOK, SharedTypes, RunTypes, Tick
<1>3. CASE ReleaseAvailableEntries
  <2>1. \A k \in Keys : ent[k] \in Row /\ [ent[k] EXCEPT !.status = "available"] \in Row
    BY DEF SharedTypes, Row, EntryStatus, Open
  <2>2. ent' \in [Keys -> Row] BY <1>3, <2>1 DEF ReleaseAvailableEntries
  <2>3. RunTypes' BY <1>3, RunVarsTypes DEF ReleaseAvailableEntries
  <2> QED BY <1>3, <2>2, <2>3 DEF TypeOK, SharedTypes, RunTypes, ReleaseAvailableEntries
<1>4. ASSUME NEW k \in Keys, MarkPaid(k) PROVE TypeOK'
  <2>1. ent' \in [Keys -> Row]
    BY <1>4 DEF SharedTypes, MarkPaid, Row, EntryStatus, Settled
  <2>2. RunTypes' BY <1>4, RunVarsTypes DEF MarkPaid
  <2> QED BY <1>4, <2>1, <2>2 DEF TypeOK, SharedTypes, RunTypes, MarkPaid
<1>5. ASSUME NEW i \in Installments, CollectInstallment(i) PROVE TypeOK'
  <2>1. inst' \in [Installments -> InstallmentStatus]
        /\ collectedAt' \in [Installments -> Nat]
    <3>1. \/ /\ inst' = [inst EXCEPT ![i] = "collected"]
             /\ collectedAt' = [collectedAt EXCEPT ![i] = now]
          \/ inst' = [inst EXCEPT ![i] = "failed"] /\ collectedAt' = collectedAt
      BY <1>5 DEF CollectInstallment
    <3> QED BY <3>1 DEF SharedTypes, InstallmentStatus
  <2>2. RunTypes' BY <1>5, RunVarsTypes DEF CollectInstallment
  <2> QED BY <1>5, <2>1, <2>2 DEF TypeOK, SharedTypes, RunTypes, CollectInstallment
<1> QED BY <1>2, <1>3, <1>4, <1>5

\* TypeOK is inductive.
LEMMA TypeOKStep == TypeOK /\ [Next]_vars => TypeOK'
<1> SUFFICES ASSUME TypeOK, [Next]_vars PROVE TypeOK'
  OBVIOUS
<1>1. ASSUME NEW w \in Workers, RunStep(w) PROVE TypeOK'
  BY <1>1, BeginMissingTypes, BeginDeletedTypes, BeginTypes, ReadVersionsTypes,
     UpsertEntryTypes, CheckSettledTypes, ReplaceEntryTypes, SelectObsoleteTypes,
     VoidEntryTypes, CommitRunTypes DEF RunStep
<1>2. ASSUME NEW w \in Workers, AbortRun(w) \/ DeadlockVictim(w) PROVE TypeOK'
  BY <1>2, AbortRunTypes
<1>3. CASE UNCHANGED vars
  BY <1>3 DEF TypeOK, vars, saleVars, ruleVars, runVars
<1> QED
  BY <1>1, <1>2, <1>3, SaleStepTypes, RuleStepTypes, OtherStepTypes DEF Next

\* Every variable keeps its type in every reachable state, whatever the
\* installments, recipients, roles, rules, workers and bounds are.
THEOREM TypeCorrect == Spec => []TypeOK
<1> QED BY InitTypeOK, TypeOKStep, PTL DEF Spec

-------------------------------------------------------------------------------
(* The inductive invariant.  OneOpenEntry speaks of committed rows only; a run
   commits what it sees at its end, so the invariant follows what the run that
   holds the lock sees from its first read to its commit.                      *)

\* A transaction holds the lock of the sale, so at most one is open ...
LockInv == \A w \in Workers : InTransaction(w) => lock = w

\* ... and only an open transaction has uncommitted writes.
CleanBuf == \A w \in Workers : ~InTransaction(w) => buf[w] = NoWrites

\* A run sees at most one open row without a rule per recipient and installment.
OneUnruled ==
    \A w \in Workers : InTransaction(w) =>
        \A k, l \in Keys :
            /\ SameEntry(k, l)
            /\ k[3] \in NoRuleSlots
            /\ l[3] \in NoRuleSlots
            /\ View(w, k).status \in Open
            /\ View(w, l).status \in Open
            => k = l

\* A run that has nothing left but to void rows.
Voiding(w) == pc[w] \in {"void", "closing"}

\* What such a run sees open it will void, or has produced if the sale is not deleted.
ObsComplete ==
    \A w \in Workers : Voiding(w) =>
        \A k \in Keys : View(w, k).status \in Open => k \in obs[w] \/ (pc[w] = "void" /\ Seen(w, k))

\* It voids by id only what it has not produced.
ObsUnseen == \A w \in Workers : pc[w] = "void" => \A k \in obs[w] : ~Seen(w, k)

\* A row an uncommitted refund has updated is open or paid, and no run wrote it.
HeldRows ==
    \A k \in held : /\ ent[k].status \in Open \cup {"paid"}
                    /\ \A w \in Workers : ~Written(w, k)

\* A run's private copy of a settled row is that row, or that row voided by id.
WrittenSettled ==
    \A w \in Workers, k \in Keys :
        Written(w, k) /\ ent[k].status \in Settled =>
            \/ buf[w][k] = ent[k]
            \/ pc[w] = "void" /\ buf[w][k] = Void(ent[k]) /\ ~Seen(w, k)

LedgerInv ==
    /\ TypeOK
    /\ LockInv
    /\ CleanBuf
    /\ OneOpenEntry
    /\ OneUnruled
    /\ ObsComplete
    /\ ObsUnseen
    /\ HeldRows
    /\ WrittenSettled

-------------------------------------------------------------------------------
(* Lemmas about the parts of the invariant.                                    *)

\* Nothing of a clean buffer is written: the run sees what is committed.
LEMMA CleanView ==
    ASSUME NEW w \in Workers, buf[w] = NoWrites, NEW k \in Keys
    PROVE  ~Written(w, k) /\ View(w, k) = ent[k]
<1> QED BY DEF NoWrites, Unwritten, Written, View

\* While w is in its transaction every other worker is out of one.
LEMMA OneTransaction ==
    ASSUME LockInv, NEW w \in Workers, InTransaction(w), NEW v \in Workers, v # w
    PROVE  ~InTransaction(v)
<1> QED BY DEF LockInv

\* A step of somebody else that opens no row keeps what the runs rely on.
LEMMA QuietStep ==
    ASSUME LedgerInv, UNCHANGED runVars,
           \A k \in Keys : ent'[k].status \in Open => ent[k].status \in Open
    PROVE  LockInv' /\ CleanBuf' /\ OneOpenEntry' /\ OneUnruled' /\ ObsComplete' /\ ObsUnseen'
<1> USE DEF LedgerInv
<1>1. LockInv' BY DEF LockInv, InTransaction, runVars
<1>2. CleanBuf' BY DEF CleanBuf, InTransaction, NoWrites, Unwritten, runVars
<1>3. OneOpenEntry' BY DEF OneOpenEntry, SameEntry
<1>4. \A w \in Workers, k \in Keys :
         View(w, k)'.status \in Open => View(w, k).status \in Open
  BY DEF View, Written, runVars
<1>5. OneUnruled'
  <2> SUFFICES ASSUME NEW w \in Workers, InTransaction(w)', NEW k \in Keys, NEW l \in Keys,
                      SameEntry(k, l), k[3] \in NoRuleSlots, l[3] \in NoRuleSlots,
                      View(w, k)'.status \in Open, View(w, l)'.status \in Open
               PROVE  k = l
    BY DEF OneUnruled, SameEntry
  <2>1. InTransaction(w) BY DEF InTransaction, runVars
  <2> QED BY <1>4, <2>1 DEF OneUnruled
<1>6. \A w \in Workers, k \in Keys : Seen(w, k)' <=> Seen(w, k)
  BY DEF Seen, PlanSlots, PlanOf, runVars
<1>7. ObsComplete'
  <2> SUFFICES ASSUME NEW w \in Workers, Voiding(w)', NEW k \in Keys, View(w, k)'.status \in Open
               PROVE  k \in obs'[w] \/ (pc'[w] = "void" /\ Seen(w, k)')
    BY DEF ObsComplete
  <2>1. Voiding(w) /\ obs'[w] = obs[w] /\ pc'[w] = pc[w] BY DEF Voiding, runVars
  <2> QED BY <1>4, <1>6, <2>1 DEF ObsComplete
<1>8. ObsUnseen' BY <1>6 DEF ObsUnseen, Seen, PlanSlots, PlanOf, runVars
<1> QED BY <1>1, <1>2, <1>3, <1>5, <1>7, <1>8

\* A step of the run in its transaction that neither writes nor ends it.
LEMMA ReadingStep ==
    ASSUME LedgerInv, NEW w \in Workers, InTransaction(w),
           UNCHANGED <<ent, held, lock, buf>>,
           \A v \in Workers \ {w} : pc'[v] = pc[v],
           InTransaction(w)', ~Voiding(w), ~Voiding(w)'
    PROVE  /\ LockInv' /\ CleanBuf' /\ OneOpenEntry' /\ OneUnruled' /\ ObsComplete' /\ ObsUnseen'
           /\ HeldRows' /\ WrittenSettled'
<1> USE DEF LedgerInv
<1>1. \A v \in Workers \ {w} : ~InTransaction(v) /\ ~InTransaction(v)'
  BY OneTransaction DEF InTransaction
<1>2. LockInv' BY <1>1 DEF LockInv
<1>3. CleanBuf' BY <1>1 DEF CleanBuf, NoWrites, Unwritten
<1>4. OneOpenEntry' BY DEF OneOpenEntry, SameEntry
<1>5. OneUnruled' BY <1>1 DEF OneUnruled, SameEntry, View, Written
<1>6. \A v \in Workers : ~Voiding(v) /\ ~Voiding(v)' BY <1>1 DEF InTransaction, Voiding
<1>7. ObsComplete' /\ ObsUnseen' BY <1>6 DEF ObsComplete, ObsUnseen, Voiding
<1>8. HeldRows' BY DEF HeldRows, Written
<1>9. WrittenSettled' BY <1>6 DEF WrittenSettled, Written, Voiding
<1> QED BY <1>2, <1>3, <1>4, <1>5, <1>7, <1>8, <1>9

\* A step of the run in its transaction that writes rows of its own.
LEMMA WritingStep ==
    ASSUME LedgerInv, NEW w \in Workers, InTransaction(w),
           UNCHANGED <<ent, held, lock>>,
           \A v \in Workers \ {w} : pc'[v] = pc[v] /\ buf'[v] = buf[v],
           InTransaction(w)', ~Voiding(w)',
           \A k \in Keys : k \in held => ~Written(w, k)',
           \A k \in Keys : Written(w, k)' /\ ent[k].status \in Settled => buf'[w][k] = ent[k],
           \A k, l \in Keys :
               /\ SameEntry(k, l)
               /\ k[3] \in NoRuleSlots
               /\ l[3] \in NoRuleSlots
               /\ View(w, k)'.status \in Open
               /\ View(w, l)'.status \in Open
               => k = l
    PROVE  /\ LockInv' /\ CleanBuf' /\ OneOpenEntry' /\ OneUnruled' /\ ObsComplete' /\ ObsUnseen'
           /\ HeldRows' /\ WrittenSettled'
<1> USE DEF LedgerInv
<1>1. \A v \in Workers \ {w} : ~InTransaction(v) /\ ~InTransaction(v)'
  BY OneTransaction DEF InTransaction
<1>2. LockInv' BY <1>1 DEF LockInv
<1>3. CleanBuf' BY <1>1 DEF CleanBuf, NoWrites, Unwritten
<1>4. OneOpenEntry' BY DEF OneOpenEntry, SameEntry
<1>5. OneUnruled' BY <1>1 DEF OneUnruled, SameEntry
<1>6. \A v \in Workers : ~Voiding(v)' BY <1>1 DEF InTransaction, Voiding
<1>7. ObsComplete' /\ ObsUnseen' BY <1>6 DEF ObsComplete, ObsUnseen, Voiding
<1>8. HeldRows'
  <2>1. held \subseteq Keys BY DEF TypeOK
  <2> QED BY <2>1 DEF HeldRows, Written
<1>9. WrittenSettled'
  <2> SUFFICES ASSUME NEW v \in Workers, NEW k \in Keys, Written(v, k)', ent[k].status \in Settled
               PROVE  buf'[v][k] = ent[k]
    BY DEF WrittenSettled
  <2>1. CASE v = w BY <2>1
  <2>2. CASE v # w
    <3>1. buf[v] = NoWrites BY <1>1, <2>2 DEF CleanBuf
    <3>2. ~Written(v, k) BY <3>1, CleanView
    <3> QED BY <2>2, <3>2 DEF Written
  <2> QED BY <2>1, <2>2
<1> QED BY <1>2, <1>3, <1>4, <1>5, <1>7, <1>8, <1>9

-------------------------------------------------------------------------------
(* The steps of a run preserve the invariant.                                  *)

\* What a step must establish besides the types.
Rest == LockInv /\ CleanBuf /\ OneOpenEntry /\ OneUnruled /\ ObsComplete /\ ObsUnseen
        /\ HeldRows /\ WrittenSettled

\* The invariant is the types and the rest.
LEMMA InvParts == LedgerInv <=> TypeOK /\ Rest
<1> QED BY DEF LedgerInv, Rest

\* The invariant holds initially: no transaction is open, no row exists.
LEMMA InitInv == Init => LedgerInv
<1> SUFFICES ASSUME Init PROVE LedgerInv
  OBVIOUS
<1>1. TypeOK BY InitTypeOK
<1>2. \A w \in Workers : ~InTransaction(w) /\ ~Voiding(w) /\ buf[w] = NoWrites
  BY DEF Init, InTransaction, Voiding
<1>3. LockInv /\ CleanBuf /\ OneUnruled /\ ObsComplete /\ ObsUnseen
  BY <1>2 DEF LockInv, CleanBuf, OneUnruled, ObsComplete, ObsUnseen, Voiding
<1>4. \A k \in Keys : ent[k].status = "absent" BY DEF Init, AbsentRow
<1>5. OneOpenEntry BY <1>4 DEF OneOpenEntry, Open
<1>6. HeldRows BY DEF HeldRows, Init
<1>7. WrittenSettled BY <1>4 DEF WrittenSettled, Settled
<1> QED BY <1>1, <1>3, <1>5, <1>6, <1>7 DEF LedgerInv

\* A run that finds no sale opens no transaction.
LEMMA BeginMissingInv ==
    ASSUME LedgerInv, NEW w \in Workers, BeginMissing(w)
    PROVE  Rest'
<1> USE DEF LedgerInv, BeginMissing, saleVars
<1>1. \A v \in Workers : v # w => pc'[v] = pc[v]
  BY Zenon DEF FailRun, TypeOK
<1>2. pc'[w] \in {"idle", "retry"}
  BY DEF FailRun, TypeOK
<1>3. ~InTransaction(w) BY DEF InTransaction, TakeRequest
<1>4. \A v \in Workers : InTransaction(v)' => InTransaction(v)
  BY <1>1, <1>2 DEF InTransaction
<1>5. LockInv' BY <1>4 DEF LockInv
<1>6. CleanBuf'
  BY <1>1, <1>3 DEF CleanBuf, NoWrites, Unwritten, InTransaction
<1>7. OneOpenEntry' BY DEF OneOpenEntry, SameEntry
<1>8. OneUnruled' BY <1>4 DEF OneUnruled, SameEntry, View, Written
<1>9. ObsComplete' /\ ObsUnseen'
  BY <1>1, <1>2 DEF ObsComplete, ObsUnseen, Voiding, View, Written, Seen, PlanSlots, PlanOf
<1>10. HeldRows' BY DEF HeldRows, Written
<1>11. WrittenSettled'
  <2>1. \A k \in Keys : ~Written(w, k)' BY <1>3, CleanView DEF CleanBuf, Written
  <2> QED BY <1>1, <2>1 DEF WrittenSettled, Written, Seen, PlanSlots, PlanOf
<1> QED BY <1>5, <1>6, <1>7, <1>8, <1>9, <1>10, <1>11 DEF Rest

\* A run of a deleted sale finds every open row.
LEMMA BeginDeletedInv ==
    ASSUME LedgerInv, NEW w \in Workers, BeginDeleted(w)
    PROVE  Rest'
<1> USE DEF LedgerInv, BeginDeleted, saleVars
<1>1. \A v \in Workers : ~InTransaction(v)
  BY ConstantsAssumption DEF LockFree, LockInv
<1>2. \A v \in Workers : InTransaction(v)' => v = w
  BY <1>1 DEF InTransaction, TypeOK
<1>3. \A v \in Workers : Voiding(v)' => v = w BY <1>2 DEF Voiding, InTransaction
<1>4. \A v \in Workers : buf[v] = NoWrites BY <1>1 DEF CleanBuf
<1>5. LockInv' BY <1>2 DEF LockInv
<1>6. CleanBuf' BY <1>4 DEF CleanBuf, NoWrites, Unwritten
<1>7. OneOpenEntry' BY DEF OneOpenEntry, SameEntry
<1>8. \A v \in Workers, k \in Keys : ~Written(v, k)' /\ View(v, k)' = ent[k]
  BY <1>4, CleanView DEF View, Written
<1>9. OneUnruled' BY <1>8 DEF OneUnruled, OneOpenEntry, SameEntry
<1>10. pc'[w] = "closing" /\ obs'[w] = {k \in Keys : ent[k].status \in Open}
  BY DEF TypeOK
<1>11. ObsComplete' BY <1>3, <1>8, <1>10 DEF ObsComplete
<1>12. ObsUnseen' BY <1>3, <1>10 DEF ObsUnseen, Voiding
<1>13. HeldRows' BY DEF HeldRows, Written
<1>14. WrittenSettled' BY <1>8 DEF WrittenSettled
<1> QED BY <1>5, <1>6, <1>7, <1>9, <1>11, <1>12, <1>13, <1>14 DEF Rest

\* A run that takes the lock sees the committed rows.
LEMMA BeginInv ==
    ASSUME LedgerInv, NEW w \in Workers, Begin(w)
    PROVE  Rest'
<1> USE DEF LedgerInv, Begin, saleVars
<1>1. \A v \in Workers : ~InTransaction(v)
  BY ConstantsAssumption DEF LockFree, LockInv
<1>2. \A v \in Workers : InTransaction(v)' => v = w
  BY <1>1 DEF InTransaction, TypeOK
<1>3. \A v \in Workers : ~Voiding(v)'
  BY <1>1 DEF InTransaction, Voiding, TypeOK
<1>4. \A v \in Workers : buf[v] = NoWrites BY <1>1 DEF CleanBuf
<1>5. LockInv' BY <1>2 DEF LockInv
<1>6. CleanBuf' BY <1>4 DEF CleanBuf, NoWrites, Unwritten
<1>7. OneOpenEntry' BY DEF OneOpenEntry, SameEntry
<1>8. \A k \in Keys : View(w, k)' = ent[k] BY <1>4, CleanView DEF View, Written
<1>9. OneUnruled' BY <1>2, <1>8 DEF OneUnruled, OneOpenEntry, SameEntry
<1>10. ObsComplete' /\ ObsUnseen' BY <1>3 DEF ObsComplete, ObsUnseen, Voiding
<1>11. HeldRows' BY DEF HeldRows, Written
<1>12. WrittenSettled'
  <2>1. \A v \in Workers, k \in Keys : ~Written(v, k)' BY <1>4, CleanView DEF Written
  <2> QED BY <2>1 DEF WrittenSettled
<1> QED BY <1>5, <1>6, <1>7, <1>9, <1>10, <1>11, <1>12 DEF Rest

\* The read of the rule versions writes nothing.
LEMMA ReadVersionsInv ==
    ASSUME LedgerInv, NEW w \in Workers, ReadVersions(w)
    PROVE  Rest'
<1> USE DEF LedgerInv, ReadVersions, saleVars
<1>1. InTransaction(w) BY DEF InTransaction
<1>2. /\ pc'[w] = "upsert"
      /\ \A v \in Workers \ {w} : pc'[v] = pc[v]
  BY DEF TypeOK
<1>3. InTransaction(w)' /\ ~Voiding(w) /\ ~Voiding(w)' BY <1>2 DEF InTransaction, Voiding
<1> QED BY <1>1, <1>2, <1>3, ReadingStep DEF Rest

\* The locked-row check writes nothing.
LEMMA CheckSettledInv ==
    ASSUME LedgerInv, NEW w \in Workers, NEW i \in Installments, NEW u \in Recipients,
           CheckSettled(w, i, u)
    PROVE  Rest'
<1>1. /\ InTransaction(w)
      /\ UNCHANGED <<ent, held, lock, buf>>
  BY DEF InTransaction, CheckSettled, saleVars
<1>2. /\ pc'[w] \in {"upsert", "checked"}
      /\ \A v \in Workers \ {w} : pc'[v] = pc[v]
  <2>1. pc[w] = "upsert" BY DEF CheckSettled
  <2>2. pc' = pc \/ pc' = [pc EXCEPT ![w] = "checked"]
    <3>1. UNCHANGED <<pc, cur>> \/ pc' = [pc EXCEPT ![w] = "checked"]
      BY Zenon DEF CheckSettled
    <3> QED BY <3>1
  <2> QED BY <2>1, <2>2 DEF LedgerInv, TypeOK
<1>3. InTransaction(w)' /\ ~Voiding(w)' BY <1>2 DEF InTransaction, Voiding
<1>4. ~Voiding(w) BY DEF CheckSettled, Voiding
<1> QED BY <1>1, <1>2, <1>3, <1>4, ReadingStep DEF Rest

\* An upsert writes a row with a rule, and a settled row as it is.
LEMMA UpsertEntryInv ==
    ASSUME LedgerInv, NEW w \in Workers, NEW i \in Installments, NEW u \in Recipients,
           UpsertEntry(w, i, u)
    PROVE  Rest'
<1> DEFINE k == <<i, u, PlanOf(w, u).rule>>
           new == Upsert(View(w, k), EntryFor(w, i, u))
<1>1. /\ InTransaction(w) /\ InTransaction(w)'
      /\ UNCHANGED <<ent, held, lock, pc>>
      /\ ~Voiding(w) /\ ~Voiding(w)'
      /\ ~LockedFor(w, k)
      /\ buf' = [buf EXCEPT ![w][k] = new]
  BY DEF InTransaction, Voiding, UpsertEntry, saleVars
<1>2. PlanOf(w, u).rule \in Rules
  BY EntryForType DEF UpsertEntry, Pairing, LedgerInv
<1>3. k \in Keys BY <1>2 DEF Keys, Slots
<1>4. /\ \A v \in Workers \ {w} : buf'[v] = buf[v]
      /\ buf'[w][k] = new
      /\ \A l \in Keys : l # k => buf'[w][l] = buf[w][l]
  BY <1>1, <1>3 DEF LedgerInv, TypeOK
<1>5. \A l \in Keys : l \in held => ~Written(w, l)'
  BY <1>1, <1>4 DEF LockedFor, LedgerInv, HeldRows, Written
<1>6. ASSUME NEW l \in Keys, Written(w, l)', ent[l].status \in Settled
      PROVE  buf'[w][l] = ent[l]
  <2>1. CASE l # k
    BY <1>1, <1>4, <1>6, <2>1 DEF LedgerInv, WrittenSettled, Written, Voiding
  <2>2. CASE l = k
    <3>1. View(w, k) = ent[k]
      BY <1>1, <1>6, <2>2 DEF LedgerInv, WrittenSettled, View, Voiding
    <3>2. new = ent[k] BY <1>6, <2>2, <3>1 DEF Upsert, Settled, Open
    <3> QED BY <1>4, <2>2, <3>2
  <2> QED BY <2>1, <2>2
<1>7. \A l \in Keys : l[3] \in NoRuleSlots => View(w, l)' = View(w, l)
  <2>1. k[3] \notin NoRuleSlots BY <1>2, ConstantsAssumption
  <2> QED BY <1>1, <1>4, <2>1 DEF View, Written
<1>8. ASSUME NEW l \in Keys, NEW m \in Keys, SameEntry(l, m),
             l[3] \in NoRuleSlots, m[3] \in NoRuleSlots,
             View(w, l)'.status \in Open, View(w, m)'.status \in Open
      PROVE  l = m
  BY <1>1, <1>7, <1>8 DEF LedgerInv, OneUnruled
<1> QED BY <1>1, <1>4, <1>5, <1>6, <1>8, WritingStep DEF Rest

\* The delete and insert leave the new row as the only open one without a rule.
LEMMA ReplaceEntryInv ==
    ASSUME LedgerInv, NEW w \in Workers, NEW i \in Installments, NEW u \in Recipients,
           ReplaceEntry(w, i, u)
    PROVE  Rest'
<1> DEFINE mine == {<<i, u, s>> : s \in NoRuleSlots}
           opened == {k \in mine : View(w, k).status \in Open}
<1>1. /\ InTransaction(w)
      /\ UNCHANGED <<ent, held, lock>>
      /\ pc' = [pc EXCEPT ![w] = "upsert"]
      /\ pc[w] = "checked"
  BY DEF InTransaction, ReplaceEntry, saleVars
<1>2. PICK new \in mine :
         /\ View(w, new).status \notin Settled
         /\ opened # {} => new \in opened
         /\ \A k \in opened : ~LockedFor(w, k)
         /\ buf' = [buf EXCEPT ![w] = [k \in Keys |->
                       IF k = new THEN EntryFor(w, i, u)
                       ELSE IF k \in opened THEN AbsentRow ELSE buf[w][k]]]
  BY ReplacedRows
<1>3. mine \subseteq Keys BY DEF Keys, Slots
<1>4. /\ \A v \in Workers \ {w} : pc'[v] = pc[v] /\ buf'[v] = buf[v]
      /\ InTransaction(w)' /\ ~Voiding(w)'
  BY <1>1, <1>2 DEF InTransaction, Voiding, LedgerInv, TypeOK
<1>5. \A k \in Keys : buf'[w][k] = IF k = new THEN EntryFor(w, i, u)
                                  ELSE IF k \in opened THEN AbsentRow ELSE buf[w][k]
  BY <1>2 DEF LedgerInv, TypeOK
<1>6. new \in Keys BY <1>3
<1>7. EntryFor(w, i, u).status # "unwritten" /\ AbsentRow.status = "absent"
  BY DEF EntryFor, NewRow, AbsentRow
<1>8. ASSUME NEW k \in Keys, k \in held PROVE ~Written(w, k)'
  <2>1. ~Written(w, k) /\ ent[k].status \in Open \cup {"paid"}
    BY <1>8 DEF LedgerInv, HeldRows
  <2>2. k \notin opened BY <1>2, <1>8 DEF LockedFor
  <2>3. k # new
    <3> SUFFICES ASSUME k = new PROVE FALSE
      OBVIOUS
    <3>1. View(w, k) = ent[k] BY <2>1 DEF View
    <3>2. k \in mine OBVIOUS
    <3>3. ent[k].status \in Open BY <1>2, <2>1, <3>1 DEF Settled
    <3> QED BY <2>2, <3>1, <3>2, <3>3
  <2> QED BY <1>5, <2>1, <2>2, <2>3 DEF Written
<1>9. ASSUME NEW k \in Keys, Written(w, k)', ent[k].status \in Settled
      PROVE  buf'[w][k] = ent[k]
  <2>1. View(w, k) = ent[k] BY <1>1, <1>9 DEF LedgerInv, WrittenSettled, View
  <2>2. k # new BY <1>2, <1>9, <2>1
  <2>3. k \notin opened BY <1>9, <2>1 DEF Settled, Open
  <2>4. buf'[w][k] = buf[w][k] BY <1>5, <2>2, <2>3
  <2> QED BY <1>1, <1>9, <2>4 DEF LedgerInv, WrittenSettled, Written
<1>10. ASSUME NEW k \in Keys, k \in mine, View(w, k)'.status \in Open
       PROVE  k = new
  <2> SUFFICES ASSUME k # new PROVE FALSE
    OBVIOUS
  <2>1. CASE k \in opened
    <3>1. buf'[w][k] = AbsentRow BY <1>5, <2>1
    <3>2. View(w, k)' = AbsentRow BY <1>7, <3>1 DEF View, Written
    <3> QED BY <1>7, <1>10, <3>2 DEF Open
  <2>2. CASE k \notin opened
    <3>1. buf'[w][k] = buf[w][k] BY <1>5, <2>2
    <3>2. View(w, k)' = View(w, k) BY <1>1, <3>1 DEF View, Written
    <3> QED BY <1>10, <2>2, <3>2
  <2> QED BY <2>1, <2>2
<1>11. \A k \in Keys : k \notin mine => View(w, k)' = View(w, k)
  <2> SUFFICES ASSUME NEW k \in Keys, k \notin mine PROVE View(w, k)' = View(w, k)
    OBVIOUS
  <2>1. buf'[w][k] = buf[w][k] BY <1>5
  <2> QED BY <1>1, <2>1 DEF View, Written
<1>12. ASSUME NEW k \in Keys, NEW l \in Keys, SameEntry(k, l),
              k[3] \in NoRuleSlots, l[3] \in NoRuleSlots,
              View(w, k)'.status \in Open, View(w, l)'.status \in Open
       PROVE  k = l
  <2>1. k = <<k[1], k[2], k[3]>> /\ l = <<l[1], l[2], l[3]>> BY DEF Keys
  <2>2. k \in mine <=> l \in mine BY <1>12, <2>1 DEF SameEntry
  <2>3. CASE k \in mine BY <1>10, <1>12, <2>2, <2>3
  <2>4. CASE k \notin mine
    BY <1>1, <1>11, <1>12, <2>2, <2>4 DEF LedgerInv, OneUnruled
  <2> QED BY <2>3, <2>4
<1> QED BY <1>1, <1>4, <1>8, <1>9, <1>12, WritingStep DEF Rest

\* The select finds every open row the run has not produced.
LEMMA SelectObsoleteInv ==
    ASSUME LedgerInv, NEW w \in Workers, SelectObsolete(w)
    PROVE  Rest'
<1> USE DEF LedgerInv, SelectObsolete, saleVars
<1>1. InTransaction(w) BY DEF InTransaction
<1>2. /\ pc'[w] = "void"
      /\ obs'[w] = {k \in Keys : View(w, k).status \in Open /\ ~Seen(w, k)}
      /\ \A v \in Workers \ {w} : pc'[v] = pc[v]
  BY DEF TypeOK
<1>3. \A v \in Workers \ {w} : ~InTransaction(v) /\ ~InTransaction(v)' /\ ~Voiding(v)'
  BY <1>1, <1>2, OneTransaction DEF InTransaction, Voiding
<1>4. InTransaction(w)' BY <1>2 DEF InTransaction
<1>5. LockInv' BY <1>1, <1>3 DEF LockInv
<1>6. CleanBuf' BY <1>3, <1>4 DEF CleanBuf, NoWrites, Unwritten
<1>7. OneOpenEntry' BY DEF OneOpenEntry, SameEntry
<1>8. OneUnruled' BY <1>1, <1>3 DEF OneUnruled, SameEntry, View, Written
<1>9. ObsComplete'
  BY <1>2, <1>3 DEF ObsComplete, View, Written, Seen, PlanSlots, PlanOf
<1>10. ObsUnseen'
  <2>1. \A k \in Keys : Seen(w, k)' <=> Seen(w, k) BY DEF Seen, PlanSlots, PlanOf
  <2>2. \A v \in Workers \ {w} : pc'[v] # "void" BY <1>3 DEF Voiding
  <2>3. \A k \in obs'[w] : ~Seen(w, k)' BY <1>2, <2>1
  <2> QED BY <2>2, <2>3 DEF ObsUnseen
<1>11. HeldRows' BY DEF HeldRows, Written
<1>12. WrittenSettled'
  <2> SUFFICES ASSUME NEW v \in Workers, NEW k \in Keys, Written(v, k)', ent[k].status \in Settled
               PROVE  buf'[v][k] = ent[k]
    BY DEF WrittenSettled
  <2>1. Written(v, k) BY DEF Written
  <2>2. v = w BY <1>3, <2>1, CleanView DEF CleanBuf
  <2> QED BY <2>1, <2>2 DEF WrittenSettled
<1> QED BY <1>5, <1>6, <1>7, <1>8, <1>9, <1>10, <1>11, <1>12 DEF Rest

\* A row voided by id is one the run has not produced, and that no refund holds.
LEMMA VoidEntryInv ==
    ASSUME LedgerInv, NEW w \in Workers, NEW k \in Keys, VoidEntry(w, k)
    PROVE  Rest'
<1> USE DEF LedgerInv
<1> DEFINE row == Void(View(w, k))
<1>1. /\ InTransaction(w) /\ Voiding(w) /\ k \in obs[w] /\ ~LockedFor(w, k)
      /\ UNCHANGED <<ent, held, lock, pc, live, plan>>
      /\ obs' = [obs EXCEPT ![w] = obs[w] \ {k}]
  BY DEF VoidEntry, InTransaction, Voiding, saleVars
<1>2. \/ buf' = buf /\ pc[w] = "closing" /\ View(w, k).status \notin Open
      \/ /\ buf' = [buf EXCEPT ![w][k] = row]
         /\ pc[w] = "void" \/ View(w, k).status \in Open
  <2>1. CASE pc[w] = "void" \/ View(w, k).status \in Open BY <2>1, Zenon DEF VoidEntry
  <2>2. CASE ~(pc[w] = "void" \/ View(w, k).status \in Open)
    <3>1. pc[w] = "closing" BY <1>1, <2>2 DEF Voiding
    <3>2. buf' = buf BY <2>2, Zenon DEF VoidEntry
    <3> QED BY <2>2, <3>1, <3>2
  <2> QED BY <2>1, <2>2
<1>3. /\ \A v \in Workers \ {w} : ~InTransaction(v) /\ ~InTransaction(v)' /\ ~Voiding(v)' /\ ~Voiding(v)
      /\ InTransaction(w)' /\ Voiding(w)'
  BY <1>1, OneTransaction DEF InTransaction, Voiding
<1>4. row.status = "voided" /\ View(w, k) \in Row BY ViewType DEF Void, Row
<1>5. /\ \A v \in Workers \ {w} : buf'[v] = buf[v]
      /\ \A l \in Keys : l # k => buf'[w][l] = buf[w][l]
      /\ buf'[w][k] = buf[w][k] \/ buf'[w][k] = row
  <2>1. buf \in [Workers -> [Keys -> BufRow]] BY DEF TypeOK
  <2> HIDE DEF row
  <2> QED BY <1>2, <2>1
<1>6. /\ \A l \in Keys : l # k => View(w, l)' = View(w, l)
      /\ View(w, k)' = row \/ (View(w, k)' = View(w, k) /\ View(w, k).status \notin Open)
  <2>1. \A l \in Keys : l # k => View(w, l)' = View(w, l) BY <1>1, <1>5 DEF View, Written
  <2>2. CASE buf' = buf /\ View(w, k).status \notin Open BY <1>1, <2>1, <2>2 DEF View, Written
  <2>3. CASE buf' = [buf EXCEPT ![w][k] = row]
    <3>1. buf'[w][k] = row
      <4>1. buf \in [Workers -> [Keys -> BufRow]] BY DEF TypeOK
      <4> HIDE DEF row
      <4> QED BY <2>3, <4>1
    <3>2. View(w, k)' = row BY <1>4, <3>1 DEF View, Written
    <3> QED BY <2>1, <3>2
  <2> QED BY <1>2, <2>2, <2>3
<1>7. \A l \in Keys : View(w, l)'.status \in Open => l # k /\ View(w, l).status \in Open
  BY <1>4, <1>6 DEF Open
<1>8. \A l \in Keys : Seen(w, l)' <=> Seen(w, l) BY <1>1 DEF Seen, PlanSlots, PlanOf
<1>9. LockInv' BY <1>1, <1>3 DEF LockInv
<1>10. CleanBuf' BY <1>3, <1>5 DEF CleanBuf, NoWrites, Unwritten
<1>11. OneOpenEntry' BY <1>1 DEF OneOpenEntry, SameEntry
<1>12. OneUnruled'
  <2> SUFFICES ASSUME NEW l \in Keys, NEW m \in Keys, SameEntry(l, m), l[3] \in NoRuleSlots,
                      m[3] \in NoRuleSlots, View(w, l)'.status \in Open, View(w, m)'.status \in Open
               PROVE  l = m
    BY <1>3 DEF OneUnruled, SameEntry
  <2> QED BY <1>1, <1>7 DEF OneUnruled
<1>13. obs'[w] = obs[w] \ {k} BY <1>1 DEF TypeOK
<1>14. ObsComplete'
  <2> SUFFICES ASSUME NEW l \in Keys, View(w, l)'.status \in Open
               PROVE  l \in obs'[w] \/ (pc'[w] = "void" /\ Seen(w, l)')
    BY <1>3 DEF ObsComplete
  <2> QED BY <1>1, <1>7, <1>8, <1>13 DEF ObsComplete
<1>15. ObsUnseen'
  <2> SUFFICES ASSUME pc'[w] = "void", NEW l \in obs'[w] PROVE ~Seen(w, l)'
    BY <1>3 DEF ObsUnseen, Voiding
  <2>1. l \in obs[w] /\ l \in Keys BY <1>13 DEF TypeOK
  <2> QED BY <1>1, <1>8, <2>1 DEF ObsUnseen
<1>16. HeldRows'
  <2>1. k \notin held BY <1>1 DEF LockedFor
  <2>2. \A l \in held, v \in Workers : ~Written(v, l)'
    <3> SUFFICES ASSUME NEW l \in held, NEW v \in Workers PROVE ~Written(v, l)'
      OBVIOUS
    <3>1. l \in Keys /\ l # k BY <2>1 DEF TypeOK
    <3>2. buf'[v][l] = buf[v][l] BY <1>5, <3>1
    <3> QED BY <3>2 DEF HeldRows, Written
  <2> QED BY <1>1, <2>2 DEF HeldRows
<1>17. WrittenSettled'
  <2> SUFFICES ASSUME NEW v \in Workers, NEW l \in Keys, Written(v, l)', ent[l].status \in Settled
               PROVE  \/ buf'[v][l] = ent[l]
                      \/ pc'[v] = "void" /\ buf'[v][l] = Void(ent[l]) /\ ~Seen(v, l)'
    BY <1>1 DEF WrittenSettled
  <2>1. v = w
    <3>1. v # w => buf[v] = NoWrites BY <1>3 DEF CleanBuf
    <3>2. v # w => ~Written(v, l) BY <3>1, CleanView
    <3> QED BY <1>5, <3>2 DEF Written
  <2>2. CASE buf'[w][l] = buf[w][l]
    <3>1. Written(w, l) BY <2>1, <2>2 DEF Written
    <3> QED BY <1>1, <1>8, <2>1, <2>2, <3>1 DEF WrittenSettled
  <2>3. CASE buf'[w][l] # buf[w][l]
    <3>1. l = k /\ buf'[w][k] = row BY <1>5, <2>3
    <3>2. buf' # buf BY <2>3
    <3>3. pc[w] = "void" \/ View(w, k).status \in Open BY <1>2, <3>2
    <3>4. View(w, k) = ent[k] \/ View(w, k) = Void(ent[k])
      BY <3>1 DEF View, WrittenSettled
    <3>5. ent[k] \in Row BY DEF TypeOK
    <3>6. row = Void(ent[k]) /\ View(w, k).status \notin Open
      BY <3>1, <3>4, <3>5 DEF Void, Row, Open, Settled
    <3>7. pc[w] = "void" BY <3>3, <3>6
    <3>8. ~Seen(w, k) BY <1>1, <3>7 DEF ObsUnseen
    <3> QED BY <1>1, <1>8, <2>1, <3>1, <3>6, <3>7, <3>8
  <2> QED BY <2>2, <2>3
<1> QED BY <1>9, <1>10, <1>11, <1>12, <1>14, <1>15, <1>16, <1>17 DEF Rest

\* What a run commits open it has seen open and produced itself.
LEMMA CommittedOpen ==
    ASSUME LedgerInv, NEW w \in Workers, CommitRun(w), NEW k \in Keys,
           ent'[k].status \in Open
    PROVE  View(w, k).status \in Open /\ Seen(w, k) /\ pc[w] = "void"
<1>1. ent'[k] = View(w, k) /\ Voiding(w) /\ obs[w] = {}
  BY DEF CommitRun, Voiding
<1> QED BY <1>1 DEF LedgerInv, ObsComplete

\* The commit publishes one open row per recipient and installment.
LEMMA CommitRunInv ==
    ASSUME LedgerInv, NEW w \in Workers, CommitRun(w)
    PROVE  Rest'
<1> USE DEF LedgerInv
<1>1. InTransaction(w) /\ Voiding(w) BY DEF InTransaction, Voiding, CommitRun
<1>2. \A v \in Workers \ {w} : ~InTransaction(v) BY <1>1, OneTransaction
<1>3. /\ pc' = [pc EXCEPT ![w] = "idle"]
      /\ buf' = [buf EXCEPT ![w] = NoWrites]
      /\ held' = held
  BY DEF CommitRun, ForgetRun
<1>4. \A v \in Workers : ~InTransaction(v)' /\ ~Voiding(v)'
  BY <1>2, <1>3 DEF InTransaction, Voiding, TypeOK
<1>5. \A v \in Workers : buf'[v] = NoWrites
  BY <1>2, <1>3 DEF CleanBuf, TypeOK
<1>6. LockInv' /\ CleanBuf' /\ OneUnruled' /\ ObsComplete' /\ ObsUnseen'
  BY <1>4, <1>5 DEF LockInv, CleanBuf, OneUnruled, ObsComplete, ObsUnseen, Voiding, NoWrites, Unwritten
<1>7. OneOpenEntry'
  <2> SUFFICES ASSUME NEW k \in Keys, NEW l \in Keys, SameEntry(k, l),
                      ent'[k].status \in Open, ent'[l].status \in Open
               PROVE  k = l
    BY DEF OneOpenEntry, SameEntry
  <2>1. /\ View(w, k).status \in Open /\ View(w, l).status \in Open
        /\ k[3] \in PlanSlots(w, k[2]) /\ l[3] \in PlanSlots(w, k[2])
    BY CommittedOpen DEF Seen, SameEntry
  <2>2. k = <<k[1], k[2], k[3]>> /\ l = <<l[1], l[2], l[3]>> BY DEF Keys
  <2>3. CASE PlanOf(w, k[2]).rule = NoRule
    BY <1>1, <2>1, <2>3 DEF PlanSlots, OneUnruled
  <2>4. CASE PlanOf(w, k[2]).rule # NoRule
    BY <2>1, <2>2, <2>4 DEF PlanSlots, SameEntry
  <2> QED BY <2>3, <2>4
<1>8. \A v \in Workers, k \in Keys : ~Written(v, k)'
  BY <1>5 DEF NoWrites, Unwritten, Written
<1>9. \A k \in held : ent'[k] = ent[k]
  <2> SUFFICES ASSUME NEW k \in held PROVE ent'[k] = ent[k]
    OBVIOUS
  <2>1. k \in Keys BY DEF TypeOK
  <2>2. View(w, k) = ent[k] BY DEF HeldRows, View
  <2> QED BY <2>1, <2>2 DEF CommitRun
<1>10. HeldRows'
  <2>1. \A k \in held : ent'[k].status \in Open \cup {"paid"} BY <1>9 DEF HeldRows
  <2>2. held \subseteq Keys BY DEF TypeOK
  <2> QED BY <1>3, <1>8, <2>1, <2>2 DEF HeldRows
<1>11. WrittenSettled' BY <1>8 DEF WrittenSettled
<1> QED BY <1>6, <1>7, <1>10, <1>11 DEF Rest

\* A rollback publishes nothing.
LEMMA AbortRunInv ==
    ASSUME LedgerInv, NEW w \in Workers, AbortRun(w) \/ DeadlockVictim(w)
    PROVE  Rest'
<1> USE DEF LedgerInv
<1>1. InTransaction(w)
  <2>1. CASE DeadlockVictim(w)
    <3>1. PICK k \in wanted : Written(w, k) BY <2>1 DEF DeadlockVictim, Circular
    <3>2. k \in Keys BY DEF TypeOK
    <3>3. buf[w] # NoWrites BY <3>1, <3>2, CleanView
    <3> QED BY <3>3 DEF CleanBuf
  <2> QED BY <2>1 DEF AbortRun
<1>2. \A v \in Workers \ {w} : ~InTransaction(v) BY <1>1, OneTransaction
<1>3. /\ pc' = [pc EXCEPT ![w] = "retry"] \/ pc' = [pc EXCEPT ![w] = "idle"]
      /\ buf' = [buf EXCEPT ![w] = NoWrites]
      /\ held' = held
      /\ ent' = ent
  <2>1. FailRun(w) BY DEF AbortRun, DeadlockVictim
  <2>2. pc' = [pc EXCEPT ![w] = "retry"] \/ pc' = [pc EXCEPT ![w] = "idle"]
    BY <2>1, Zenon DEF FailRun
  <2> QED BY <2>2 DEF AbortRun, DeadlockVictim, ForgetRun, saleVars
<1>4. \A v \in Workers : ~InTransaction(v)' /\ ~Voiding(v)'
  BY <1>2, <1>3 DEF InTransaction, Voiding, TypeOK
<1>5. \A v \in Workers : buf'[v] = NoWrites
  BY <1>2, <1>3 DEF CleanBuf, TypeOK
<1>6. LockInv' /\ CleanBuf' /\ OneUnruled' /\ ObsComplete' /\ ObsUnseen'
  BY <1>4, <1>5 DEF LockInv, CleanBuf, OneUnruled, ObsComplete, ObsUnseen, Voiding, NoWrites, Unwritten
<1>7. OneOpenEntry' BY <1>3 DEF OneOpenEntry, SameEntry
<1>8. \A v \in Workers, k \in Keys : ~Written(v, k)'
  BY <1>5 DEF NoWrites, Unwritten, Written
<1>9. HeldRows'
  <2>1. held \subseteq Keys BY DEF TypeOK
  <2> QED BY <1>3, <1>8, <2>1 DEF HeldRows
<1>10. WrittenSettled' BY <1>8 DEF WrittenSettled
<1> QED BY <1>6, <1>7, <1>9, <1>10 DEF Rest

-------------------------------------------------------------------------------
(* The other steps preserve the invariant.                                     *)

\* A row that no run has written may change, and only then: the runs' copies of
\* settled rows stay true.
LEMMA UnwrittenChange ==
    ASSUME LedgerInv, UNCHANGED runVars,
           \A k \in Keys : LockedByRun(k) => ent'[k] = ent[k]
    PROVE  WrittenSettled'
<1> SUFFICES ASSUME NEW w \in Workers, NEW k \in Keys, Written(w, k)', ent'[k].status \in Settled
             PROVE  \/ buf'[w][k] = ent'[k]
                    \/ pc'[w] = "void" /\ buf'[w][k] = Void(ent'[k]) /\ ~Seen(w, k)'
  BY DEF WrittenSettled, Void
<1>1. Written(w, k) /\ buf'[w][k] = buf[w][k] /\ pc'[w] = pc[w] BY DEF Written, runVars
<1>2. ent'[k] = ent[k] BY <1>1 DEF LockedByRun
<1>3. Seen(w, k)' <=> Seen(w, k) BY DEF Seen, PlanSlots, PlanOf, runVars
<1> QED BY <1>1, <1>2, <1>3 DEF LedgerInv, WrittenSettled

\* Without a change of the ledger and of what the refund holds, nothing is lost.
LEMMA LedgerUntouched ==
    ASSUME LedgerInv, UNCHANGED runVars, ent' = ent, held' = held \/ held' = {}
    PROVE  Rest'
<1>1. LockInv' /\ CleanBuf' /\ OneOpenEntry' /\ OneUnruled' /\ ObsComplete' /\ ObsUnseen'
  BY QuietStep
<1>2. HeldRows' BY DEF LedgerInv, HeldRows, Written, runVars
<1>3. WrittenSettled' BY UnwrittenChange
<1> QED BY <1>1, <1>2, <1>3 DEF Rest

\* The refund takes an open or paid row no run has written.
LEMMA ClawBackRowInv ==
    ASSUME LedgerInv, NEW k \in Keys, ClawBackRow(k)
    PROVE  Rest'
<1>1. UNCHANGED <<runVars, ent>> /\ ~LockedByRun(k) BY DEF ClawBackRow
<1>2. LockInv' /\ CleanBuf' /\ OneOpenEntry' /\ OneUnruled' /\ ObsComplete' /\ ObsUnseen'
  BY <1>1, QuietStep
<1>3. WrittenSettled' BY <1>1, UnwrittenChange
<1>4. HeldRows'
  <2>1. held' = held \/ (held' = held \cup {k} /\ ent[k].status \in Open \cup {"paid"})
    BY DEF ClawBackRow
  <2>2. \A l \in held', w \in Workers : ~Written(w, l)
    BY <1>1, <2>1 DEF LedgerInv, HeldRows, LockedByRun
  <2>3. \A l \in held' : ent[l].status \in Open \cup {"paid"} BY <2>1 DEF LedgerInv, HeldRows
  <2> QED BY <1>1, <2>2, <2>3 DEF HeldRows, Written, runVars
<1> QED BY <1>2, <1>3, <1>4 DEF Rest

\* The commit of the refund closes rows no run has written.
LEMMA CommitRefundInv ==
    ASSUME LedgerInv, CommitRefund
    PROVE  Rest'
<1>1. /\ UNCHANGED runVars
      /\ held' = {}
      /\ ent' = [k \in Keys |-> IF k \in held THEN [ent[k] EXCEPT !.status = "clawed_back"]
                                ELSE ent[k]]
  BY DEF CommitRefund
<1>2. ent \in [Keys -> Row] BY DEF LedgerInv, TypeOK
<1>3. \A k \in Keys : ent'[k].status \in Open => ent[k].status \in Open
  BY <1>1, <1>2 DEF Open, Row
<1>4. LockInv' /\ CleanBuf' /\ OneOpenEntry' /\ OneUnruled' /\ ObsComplete' /\ ObsUnseen'
  BY <1>1, <1>3, QuietStep
<1>5. \A k \in Keys : LockedByRun(k) => k \notin held
  BY DEF LockedByRun, LedgerInv, HeldRows
<1>6. WrittenSettled' BY <1>1, <1>2, <1>5, UnwrittenChange
<1>7. HeldRows' BY <1>1 DEF HeldRows
<1> QED BY <1>4, <1>6, <1>7 DEF Rest

\* The transactions of the sale preserve the invariant.
LEMMA SaleStepInv ==
    ASSUME LedgerInv, SaleStep
    PROVE  Rest'
<1> USE DEF saleVars
<1>1. CASE CreateSale BY <1>1, LedgerUntouched DEF CreateSale
<1>2. CASE SoftDeleteSale BY <1>2, LedgerUntouched DEF SoftDeleteSale
<1>3. CASE CommitSale BY <1>3, LedgerUntouched DEF CommitSale
<1>4. CASE ReadRefund BY <1>4, LedgerUntouched DEF ReadRefund
<1>5. CASE StartClawback BY <1>5, LedgerUntouched DEF StartClawback
<1>9. ASSUME NEW k \in Keys, ClawBackRow(k) PROVE Rest' BY <1>9, ClawBackRowInv
<1>10. CASE ApplyRefund BY <1>10, LedgerUntouched DEF ApplyRefund
<1>6. CASE CommitRefund BY <1>6, CommitRefundInv
<1>7. CASE RollbackMutation BY <1>7, LedgerUntouched DEF RollbackMutation
<1>8. CASE RequestRecompute BY <1>8, LedgerUntouched DEF RequestRecompute
<1> QED BY <1>1, <1>2, <1>3, <1>4, <1>5, <1>6, <1>7, <1>8, <1>9, <1>10 DEF SaleStep

\* Rule edits do not touch the ledger.
LEMMA RuleStepInv ==
    ASSUME LedgerInv, RuleStep
    PROVE  Rest'
<1>1. UNCHANGED <<saleVars, ent, runVars>>
  BY DEF RuleStep, CreateRule, UpdateRule, SoftDeleteRule
<1> QED BY <1>1, LedgerUntouched DEF saleVars

\* The release sweep opens nothing and waits for locked rows.
LEMMA ReleaseInv ==
    ASSUME LedgerInv, ReleaseAvailableEntries
    PROVE  Rest'
<1>1. /\ UNCHANGED runVars /\ held' = held
      /\ ent' = [k \in Keys |-> IF Releasable(k) THEN [ent[k] EXCEPT !.status = "available"]
                                ELSE ent[k]]
      /\ \A k \in Keys : Releasable(k) => k \notin held /\ ~LockedByRun(k)
  BY DEF ReleaseAvailableEntries, saleVars
<1>2. \A k \in Keys : ent'[k].status \in Open => ent[k].status \in Open
  BY <1>1 DEF Open, Releasable
<1>3. LockInv' /\ CleanBuf' /\ OneOpenEntry' /\ OneUnruled' /\ ObsComplete' /\ ObsUnseen'
  BY <1>1, <1>2, QuietStep
<1>4. WrittenSettled' BY <1>1, UnwrittenChange
<1>5. \A k \in held : ent'[k] = ent[k]
  <2>1. held \subseteq Keys BY DEF LedgerInv, TypeOK
  <2> QED BY <1>1, <2>1
<1>6. HeldRows' BY <1>1, <1>5 DEF LedgerInv, HeldRows, Written, runVars
<1> QED BY <1>3, <1>4, <1>6 DEF Rest

\* So does a payout.
LEMMA MarkPaidInv ==
    ASSUME LedgerInv, NEW k \in Keys, MarkPaid(k)
    PROVE  Rest'
<1>1. /\ UNCHANGED runVars /\ held' = held
      /\ ent' = [ent EXCEPT ![k].status = "paid"]
      /\ k \notin held /\ ~LockedByRun(k)
  BY DEF MarkPaid, saleVars
<1>2. \A l \in Keys : /\ l # k => ent'[l] = ent[l]
                      /\ l = k => ent'[l].status = "paid"
  BY <1>1 DEF LedgerInv, TypeOK, Row
<1>3. \A l \in Keys : ent'[l].status \in Open => ent[l].status \in Open
  <2> SUFFICES ASSUME NEW l \in Keys, ent'[l].status \in Open
               PROVE  ent[l].status \in Open
    OBVIOUS
  <2>1. l # k BY <1>2 DEF Open
  <2> QED BY <1>2, <2>1
<1>4. LockInv' /\ CleanBuf' /\ OneOpenEntry' /\ OneUnruled' /\ ObsComplete' /\ ObsUnseen'
  BY <1>1, <1>3, QuietStep
<1>5. WrittenSettled' BY <1>1, <1>2, UnwrittenChange
<1>6. \A l \in held : ent'[l] = ent[l]
  <2>1. held \subseteq Keys BY DEF LedgerInv, TypeOK
  <2> QED BY <1>1, <1>2, <2>1
<1>7. HeldRows' BY <1>1, <1>6 DEF LedgerInv, HeldRows, Written, runVars
<1> QED BY <1>4, <1>5, <1>7 DEF Rest

\* The invariant is inductive.
LEMMA LedgerInvStep == LedgerInv /\ [Next]_vars => LedgerInv'
<1> SUFFICES ASSUME LedgerInv, [Next]_vars PROVE LedgerInv'
  OBVIOUS
<1>1. TypeOK' BY TypeOKStep DEF LedgerInv
<1>2. Rest'
  <2>1. ASSUME NEW w \in Workers, RunStep(w) PROVE Rest'
    BY <2>1, BeginMissingInv, BeginDeletedInv, BeginInv, ReadVersionsInv,
       UpsertEntryInv, CheckSettledInv, ReplaceEntryInv, SelectObsoleteInv,
       VoidEntryInv, CommitRunInv DEF RunStep
  <2>2. ASSUME NEW w \in Workers, AbortRun(w) \/ DeadlockVictim(w) PROVE Rest'
    BY <2>2, AbortRunInv
  <2>3. CASE Tick BY <2>3, LedgerUntouched DEF Tick, saleVars
  <2>4. ASSUME NEW i \in Installments, CollectInstallment(i) PROVE Rest'
    BY <2>4, LedgerUntouched DEF CollectInstallment
  <2>5. CASE UNCHANGED vars BY <2>5, LedgerUntouched DEF vars, saleVars
  <2> QED
    BY <2>1, <2>2, <2>3, <2>4, <2>5, SaleStepInv, RuleStepInv, ReleaseInv, MarkPaidInv
    DEF Next
<1> QED BY <1>1, <1>2 DEF LedgerInv, Rest

\* The invariant holds in every reachable state.
THEOREM LedgerInvariant == Spec => []LedgerInv
<1> QED BY InitInv, LedgerInvStep, PTL DEF Spec

-------------------------------------------------------------------------------
(* What follows from it.                                                       *)

\* For any number of installments, recipients, rules and overlapping runs, a
\* recipient never has two open entries for one installment.
THEOREM NeverTwoOpenEntries == Spec => []OneOpenEntry
<1>1. LedgerInv => OneOpenEntry BY DEF LedgerInv
<1> QED BY <1>1, LedgerInvariant, PTL

\* What changes an entry: the commits of a refund, of a run, of the sweep and of a payout.
LEMMA EntryChanges ==
    ASSUME [Next]_vars
    PROVE  \/ ent' = ent \/ CommitRefund \/ ReleaseAvailableEntries
           \/ \E k \in Keys : MarkPaid(k)
           \/ \E w \in Workers : CommitRun(w)
<1>1. ASSUME NEW w \in Workers, RunStep(w) \/ AbortRun(w) \/ DeadlockVictim(w)
      PROVE  ent' = ent \/ CommitRun(w)
  BY <1>1 DEF RunStep, BeginMissing, BeginDeleted, Begin, ReadVersions, UpsertEntry, CheckSettled,
              ReplaceEntry, SelectObsolete, VoidEntry, AbortRun, DeadlockVictim
<1>2. CASE SaleStep
  BY <1>2 DEF SaleStep, CreateSale, SoftDeleteSale, CommitSale, ReadRefund, StartClawback,
              ClawBackRow, ApplyRefund, RollbackMutation, RequestRecompute
<1>3. CASE RuleStep \/ Tick
  BY <1>3 DEF RuleStep, CreateRule, UpdateRule, SoftDeleteRule, Tick
<1>4. ASSUME NEW j \in Installments, CollectInstallment(j) PROVE ent' = ent
  BY <1>4 DEF CollectInstallment
<1>5. CASE UNCHANGED vars BY <1>5 DEF vars
<1> QED BY <1>1, <1>2, <1>3, <1>4, <1>5 DEF Next

\* One step keeps a settled row, unless a refund or a late void by id takes it.
KeepsSettled(k) ==
    ent[k].status \in Settled =>
        \/ ent'[k] = ent[k]
        \/ k \in held /\ ent'[k] = [ent[k] EXCEPT !.status = "clawed_back"]
        \/ /\ \E w \in Workers : /\ pc[w] = "void" /\ pc'[w] = "idle"
                                 /\ Written(w, k) /\ ~Seen(w, k)
           /\ ent'[k] = Void(ent[k])

\* Every step of the ledger keeps every settled row so.
LEMMA SettledStep ==
    ASSUME LedgerInv, [Next]_vars, NEW k \in Keys
    PROVE  KeepsSettled(k)
<1> USE DEF LedgerInv
<1> SUFFICES ASSUME ent[k].status \in Settled PROVE KeepsSettled(k)
  BY DEF KeepsSettled
<1>1. ent[k] \in Row BY DEF TypeOK
<1>2. ASSUME NEW w \in Workers, CommitRun(w) PROVE KeepsSettled(k)
  <2>1. ent'[k] = View(w, k) /\ pc'[w] = "idle" BY <1>2 DEF CommitRun, TypeOK
  <2>2. CASE ~Written(w, k) BY <2>1, <2>2 DEF View, KeepsSettled
  <2>3. CASE Written(w, k)
    <3>1. ent'[k] = buf[w][k] BY <2>1, <2>3 DEF View
    <3>2. \/ buf[w][k] = ent[k]
          \/ pc[w] = "void" /\ buf[w][k] = Void(ent[k]) /\ ~Seen(w, k)
      BY <2>3 DEF WrittenSettled
    <3> QED BY <2>1, <2>3, <3>1, <3>2 DEF KeepsSettled
  <2> QED BY <2>2, <2>3
<1>3. CASE CommitRefund BY <1>3 DEF CommitRefund, KeepsSettled
<1>4. CASE ReleaseAvailableEntries
  BY <1>4 DEF ReleaseAvailableEntries, Releasable, Settled, KeepsSettled
<1>5. ASSUME NEW l \in Keys, MarkPaid(l) PROVE KeepsSettled(k)
  <2>1. ent'[k] = ent[k] BY <1>5 DEF MarkPaid, Settled, TypeOK
  <2> QED BY <2>1 DEF KeepsSettled
<1>6. CASE ent' = ent BY <1>6 DEF KeepsSettled
<1> QED BY <1>2, <1>3, <1>4, <1>5, <1>6, EntryChanges

\* However runs, refunds, sweeps and payouts overlap, a paid or clawed-back row changes only
\* when the refund that holds it commits, or when the run that selected it while it was open
\* voids it by id; no run refreshes it, and none voids what it has just produced.
THEOREM SettledRowsAreKept == Spec => SettledKept
<1>1. LedgerInv /\ [Next]_vars => [\A k \in Keys : KeepsSettled(k)]_ent
  BY SettledStep
<1> QED BY <1>1, LedgerInvariant, PTL DEF Spec, SettledKept, KeepsSettled

-------------------------------------------------------------------------------
(* Where an entry's terms come from.  TermsTraceable and VersionsAdvance speak of committed
   rows; a run commits what it wrote, and writes what its plan says.                      *)

\* A version of rule r no later than ver gives role q this hold.
Cites(q, r, hold, ver) ==
    \E n \in 1 .. ver :
        /\ n <= Len(hist[r])
        /\ hist[r][n].role \in {q, AnyRole}
        /\ hist[r][n].hold = hold

\* A row cites a version that exists, and its hold is traceable to it.
RowCites(q, r, row) == row.ver <= Len(hist[r]) /\ Cites(q, r, row.hold, row.ver)

\* A rule's last version is what it says now; a rule not made yet has none.
HistoryKept ==
    \A r \in Rules :
        /\ rule[r].phase = "absent" => Len(hist[r]) = 0
        /\ rule[r].phase = "live" => Len(hist[r]) > 0 /\ hist[r][Len(hist[r])] = rule[r].terms

EntCites ==
    \A i \in Installments, u \in Recipients, r \in Rules :
        ent[<<i, u, r>>].status # "absent" => RowCites(RoleOf[u], r, ent[<<i, u, r>>])

\* A run knows the versions its plan cites.
Versioned(w) == pc[w] \in {"upsert", "checked", "void"}

\* Until it has read them, any version so far may be the one.
PlanCites(w) ==
    \A q \in Roles :
        plan[w][q].rule # NoRule =>
            /\ pc[w] = "matched" =>
                   Cites(q, plan[w][q].rule, plan[w][q].hold, Len(hist[plan[w][q].rule]))
            /\ Versioned(w) => RowCites(q, plan[w][q].rule, plan[w][q])

BufCites(w) ==
    \A i \in Installments, u \in Recipients, r \in Rules :
        buf[w][<<i, u, r>>].status \notin {"unwritten", "absent"} =>
            RowCites(RoleOf[u], r, buf[w][<<i, u, r>>])

\* A run in its transaction is ahead of every committed entry it may write ...
PlanAhead(w) ==
    \A i \in Installments, u \in Recipients, r \in Rules :
        Versioned(w) /\ PlanOf(w, u).rule = r /\ ent[<<i, u, r>>].status # "absent" =>
            ent[<<i, u, r>>].ver <= PlanOf(w, u).ver

\* ... and of every one it has written.
BufAhead(w) ==
    \A i \in Installments, u \in Recipients, r \in Rules :
        Written(w, <<i, u, r>>) /\ ent[<<i, u, r>>].status # "absent" =>
            /\ buf[w][<<i, u, r>>].status # "absent"
            /\ ent[<<i, u, r>>].ver <= buf[w][<<i, u, r>>].ver

\* What a run is about to void is there.
ObsPresent(w) ==
    pc[w] = "void" =>
        \A i \in Installments, u \in Recipients, r \in Rules :
            <<i, u, r>> \in obs[w] => View(w, <<i, u, r>>).status # "absent"

RunTerms(w) == PlanCites(w) /\ BufCites(w) /\ PlanAhead(w) /\ BufAhead(w) /\ ObsPresent(w)

TermsInv == HistoryKept /\ EntCites /\ \A w \in Workers : RunTerms(w)

\* What most steps do to the history, to the entries with a rule, and to a run.
HistoryGrows ==
    \A r \in Rules : /\ Len(hist[r]) <= Len(hist'[r])
                     /\ \A n \in 1 .. Len(hist[r]) : hist'[r][n] = hist[r][n]

TermsStay ==
    \A i \in Installments, u \in Recipients, r \in Rules :
        /\ ent'[<<i, u, r>>].hold = ent[<<i, u, r>>].hold
        /\ ent'[<<i, u, r>>].ver = ent[<<i, u, r>>].ver
        /\ ent'[<<i, u, r>>].status = "absent" <=> ent[<<i, u, r>>].status = "absent"

GoesOn(w) ==
    /\ plan'[w] = plan[w]
    /\ \A i \in Installments, u \in Recipients, r \in Rules :
           buf'[w][<<i, u, r>>] = buf[w][<<i, u, r>>]
    /\ \/ pc'[w] = pc[w] /\ obs'[w] = obs[w]
       \/ pc'[w] \in {"idle", "retry", "closing"}
       \/ Versioned(w) /\ pc'[w] \in {"upsert", "checked"}

IsOver(w) == pc'[w] \in {"idle", "retry"} /\ buf'[w] = NoWrites

\* An entry with a rule has a key.
LEMMA RuleKeys ==
    \A i \in Installments, u \in Recipients, r \in Rules : <<i, u, r>> \in Keys
<1> QED BY DEF Keys, Slots

\* What is cited stays cited as the history grows.
LEMMA CitesGrow ==
    ASSUME TypeOK, TypeOK', HistoryGrows, NEW r \in Rules, NEW q, NEW h, NEW v \in Nat
    PROVE  /\ Cites(q, r, h, v) => Cites(q, r, h, v)'
           /\ v <= Len(hist[r]) => v <= Len(hist'[r])
           /\ Cites(q, r, h, v) => \A m \in Nat : v <= m => Cites(q, r, h, m)
<1>1. Len(hist[r]) \in Nat /\ Len(hist'[r]) \in Nat BY DEF TypeOK
<1>2. Cites(q, r, h, v) => Cites(q, r, h, v)'
  <2> SUFFICES ASSUME Cites(q, r, h, v) PROVE Cites(q, r, h, v)'
    OBVIOUS
  <2>1. PICK n \in 1 .. v : /\ n <= Len(hist[r])
                            /\ hist[r][n].role \in {q, AnyRole}
                            /\ hist[r][n].hold = h
    BY DEF Cites
  <2>2. n <= Len(hist'[r]) /\ hist'[r][n] = hist[r][n] BY <1>1, <2>1 DEF HistoryGrows
  <2> QED BY <2>1, <2>2 DEF Cites
<1>3. v <= Len(hist[r]) => v <= Len(hist'[r]) BY <1>1 DEF HistoryGrows
<1>4. Cites(q, r, h, v) => \A m \in Nat : v <= m => Cites(q, r, h, m)
  BY DEF Cites
<1> QED BY <1>2, <1>3, <1>4

\* So with rows.
LEMMA RowCitesGrow ==
    ASSUME TypeOK, TypeOK', HistoryGrows, NEW r \in Rules, NEW q, NEW row, row.ver \in Nat,
           RowCites(q, r, row)
    PROVE  row.ver <= Len(hist'[r]) /\ Cites(q, r, row.hold, row.ver)'
<1> QED BY CitesGrow DEF RowCites

\* Entries whose terms stay keep what they cite.
LEMMA EntCitesStay ==
    ASSUME TypeOK, TypeOK', EntCites, HistoryGrows, TermsStay
    PROVE  EntCites'
<1> SUFFICES ASSUME NEW i \in Installments, NEW u \in Recipients, NEW r \in Rules,
                    ent'[<<i, u, r>>].status # "absent"
             PROVE  RowCites(RoleOf[u], r, ent[<<i, u, r>>])'
  BY DEF EntCites
<1>1. PICK row : row = ent[<<i, u, r>>] OBVIOUS
<1>2. PICK new : new = ent'[<<i, u, r>>] OBVIOUS
<1>3. row.ver \in Nat BY <1>1, RuleKeys DEF TypeOK, Row
<1>4. RowCites(RoleOf[u], r, row) BY <1>1 DEF EntCites, TermsStay
<1>5. row.ver <= Len(hist'[r]) /\ Cites(RoleOf[u], r, row.hold, row.ver)'
  BY <1>3, <1>4, RowCitesGrow
<1>6. new.ver = row.ver /\ new.hold = row.hold BY <1>1, <1>2 DEF TermsStay
<1> QED BY <1>2, <1>5, <1>6 DEF RowCites, Cites

\* A run that goes on beside such a step keeps its terms.
LEMMA RunGoesOn ==
    ASSUME TypeOK, TypeOK', HistoryGrows, TermsStay, NEW w \in Workers, RunTerms(w), GoesOn(w)
    PROVE  RunTerms(w)'
<1>1. PlanCites(w)'
  <2> SUFFICES ASSUME NEW q \in Roles, plan'[w][q].rule # NoRule
               PROVE  /\ pc'[w] = "matched" =>
                             Cites(q, plan[w][q].rule, plan[w][q].hold,
                                   Len(hist[plan[w][q].rule]))'
                      /\ Versioned(w)' => RowCites(q, plan[w][q].rule, plan[w][q])'
    BY DEF PlanCites
  <2>1. PICK p : p = plan[w][q] OBVIOUS
  <2>2. p \in Pairing /\ p.rule \in Rules /\ p.ver \in Nat /\ plan'[w][q] = p
    BY <2>1 DEF TypeOK, Pairing, GoesOn
  <2>3. Len(hist[p.rule]) \in Nat /\ Len(hist'[p.rule]) \in Nat BY <2>2 DEF TypeOK
  <2>4. pc'[w] = "matched" => pc[w] = "matched" BY DEF GoesOn, Versioned
  <2>5. Versioned(w)' => Versioned(w) BY DEF GoesOn, Versioned
  <2>6. ASSUME pc'[w] = "matched"
        PROVE  Cites(q, p.rule, p.hold, Len(hist[p.rule]))'
    <3>1. Cites(q, p.rule, p.hold, Len(hist[p.rule]))
      BY <2>1, <2>2, <2>4, <2>6 DEF RunTerms, PlanCites
    <3>2. PICK n \in 1 .. Len(hist[p.rule]) : /\ n <= Len(hist[p.rule])
                                              /\ hist[p.rule][n].role \in {q, AnyRole}
                                              /\ hist[p.rule][n].hold = p.hold
      BY <3>1 DEF Cites
    <3>3. n \in 1 .. Len(hist'[p.rule]) /\ hist'[p.rule][n] = hist[p.rule][n]
      BY <2>2, <2>3 DEF HistoryGrows
    <3> QED BY <2>3, <3>2, <3>3 DEF Cites
  <2>7. ASSUME Versioned(w)'
        PROVE  p.ver <= Len(hist'[p.rule]) /\ Cites(q, p.rule, p.hold, p.ver)'
    <3>1. RowCites(q, p.rule, p)
      BY <2>1, <2>2, <2>5, <2>7 DEF RunTerms, PlanCites
    <3> QED BY <2>2, <3>1, RowCitesGrow
  <2> QED BY <2>2, <2>6, <2>7 DEF RowCites, Cites
<1>2. BufCites(w)'
  <2> SUFFICES ASSUME NEW i \in Installments, NEW u \in Recipients, NEW r \in Rules,
                      buf'[w][<<i, u, r>>].status \notin {"unwritten", "absent"}
               PROVE  RowCites(RoleOf[u], r, buf[w][<<i, u, r>>])'
    BY DEF BufCites
  <2>1. PICK row : row = buf[w][<<i, u, r>>] OBVIOUS
  <2>2. buf'[w][<<i, u, r>>] = row BY <2>1 DEF GoesOn
  <2>3. row.ver \in Nat
    <3>1. <<i, u, r>> \in Keys BY RuleKeys
    <3>2. row \in BufRow BY <2>1, <3>1 DEF TypeOK
    <3> QED BY <3>2 DEF BufRow, Row, Unwritten
  <2>4. RowCites(RoleOf[u], r, row) BY <2>1, <2>2 DEF RunTerms, BufCites
  <2>5. row.ver <= Len(hist'[r]) /\ Cites(RoleOf[u], r, row.hold, row.ver)'
    BY <2>3, <2>4, RowCitesGrow
  <2> QED BY <2>2, <2>5 DEF RowCites, Cites
<1>3. PlanAhead(w)'
  BY DEF RunTerms, PlanAhead, GoesOn, TermsStay, PlanOf, Versioned
<1>4. BufAhead(w)'
  BY DEF RunTerms, BufAhead, GoesOn, TermsStay, Written
<1>5. ObsPresent(w)'
  <2> SUFFICES ASSUME pc'[w] = "void", NEW i \in Installments, NEW u \in Recipients,
                      NEW r \in Rules, <<i, u, r>> \in obs'[w]
               PROVE  View(w, <<i, u, r>>)'.status # "absent"
    BY DEF ObsPresent
  <2>1. pc[w] = "void" /\ obs'[w] = obs[w] BY DEF GoesOn
  <2>2. View(w, <<i, u, r>>).status # "absent" BY <2>1 DEF RunTerms, ObsPresent
  <2>3. buf'[w][<<i, u, r>>] = buf[w][<<i, u, r>>] BY DEF GoesOn
  <2>4. ent'[<<i, u, r>>].status = "absent" <=> ent[<<i, u, r>>].status = "absent"
    BY DEF TermsStay
  <2> QED BY <2>2, <2>3, <2>4 DEF View, Written
<1> QED BY <1>1, <1>2, <1>3, <1>4, <1>5 DEF RunTerms

\* A run that is over has none to keep.
LEMMA RunIsOver ==
    ASSUME NEW w \in Workers, IsOver(w)
    PROVE  RunTerms(w)'
<1>1. \A i \in Installments, u \in Recipients, r \in Rules :
         buf'[w][<<i, u, r>>].status = "unwritten"
  <2> SUFFICES ASSUME NEW i \in Installments, NEW u \in Recipients, NEW r \in Rules
               PROVE  buf'[w][<<i, u, r>>].status = "unwritten"
    OBVIOUS
  <2>1. <<i, u, r>> \in Keys BY RuleKeys
  <2> QED BY <2>1 DEF IsOver, NoWrites, Unwritten
<1>2. ~Versioned(w)' /\ pc'[w] # "matched" BY DEF IsOver, Versioned
<1>3. pc'[w] # "void" BY DEF IsOver
<1> QED BY <1>1, <1>2, <1>3 DEF RunTerms, PlanCites, BufCites, PlanAhead, BufAhead, Written,
                                ObsPresent

-------------------------------------------------------------------------------
(* The steps of a run, and its terms.                                          *)

\* No step of a run edits a rule.
LEMMA HistorySame ==
    ASSUME TypeOK, HistoryKept, UNCHANGED <<rule, hist>>
    PROVE  HistoryKept' /\ HistoryGrows
<1>1. \A r \in Rules : Len(hist[r]) \in Nat BY DEF TypeOK
<1> QED BY <1>1 DEF HistoryKept, HistoryGrows

\* A rule picked for a role is that role's, or any role's, in its last version.
LEMMA BeginTerms ==
    ASSUME LedgerInv, LedgerInv', TermsInv, NEW w \in Workers, Begin(w)
    PROVE  TermsInv'
<1> USE DEF LedgerInv
<1>1. UNCHANGED <<rule, hist, ent, buf, obs>> BY DEF Begin, ruleVars
<1>2. HistoryKept' /\ HistoryGrows BY <1>1, HistorySame DEF TermsInv
<1>3. TermsStay BY <1>1 DEF TermsStay
<1>4. ~InTransaction(w) BY DEF Begin, TakeRequest, InTransaction
<1>5. pc' = [pc EXCEPT ![w] = "matched"] BY DEF Begin
<1>6. PICK pick \in [Roles -> Rules \cup {NoRule}] :
         /\ \A q \in Roles : pick[q] \in Candidates(q)
         /\ plan' = [plan EXCEPT ![w] = [q \in Roles |-> Paired(pick[q])]]
  BY DEF Begin
<1>7. ASSUME NEW v \in Workers, v # w PROVE RunTerms(v)'
  <2>1. GoesOn(v) BY <1>1, <1>5, <1>6, <1>7 DEF GoesOn, TypeOK
  <2> QED BY <1>2, <1>3, <2>1, RunGoesOn DEF TermsInv
<1>8. PlanCites(w)'
  <2>1. pc'[w] = "matched" /\ ~Versioned(w)' BY <1>5 DEF TypeOK, Versioned
  <2> SUFFICES ASSUME NEW q \in Roles, plan'[w][q].rule # NoRule
               PROVE  Cites(q, plan[w][q].rule, plan[w][q].hold, Len(hist[plan[w][q].rule]))'
    BY <2>1 DEF PlanCites
  <2>2. PICK r : r = pick[q] OBVIOUS
  <2>3. plan'[w][q] = Paired(r) BY <1>6, <2>2 DEF TypeOK
  <2>4. r \in Rules /\ r \in Candidates(q) BY <1>6, <2>2, <2>3 DEF Paired
  <2>5. /\ rule[r].phase = "live"
        /\ rule[r].terms.role \in {q, AnyRole}
    BY <2>4, ConstantsAssumption DEF Candidates, Matched
  <2>6. /\ hist[r] \in Seq(Terms)
        /\ Len(hist[r]) > 0
        /\ hist[r][Len(hist[r])] = rule[r].terms
    BY <2>4, <2>5 DEF TypeOK, TermsInv, HistoryKept
  <2>7. Len(hist[r]) \in 1 .. Len(hist[r]) BY <2>6
  <2>8. plan'[w][q].rule = r /\ plan'[w][q].hold = rule[r].terms.hold
    BY <2>3, <2>4, ConstantsAssumption DEF Paired
  <2> QED BY <1>1, <2>5, <2>6, <2>7, <2>8 DEF Cites
<1>9. BufCites(w)' /\ BufAhead(w)'
  <2>1. buf'[w] = NoWrites BY <1>1, <1>4 DEF CleanBuf
  <2> QED BY <2>1, RuleKeys DEF BufCites, BufAhead, Written, NoWrites, Unwritten
<1>10. PlanAhead(w)' BY <1>5 DEF PlanAhead, Versioned, TypeOK
<1>11. ObsPresent(w)' BY <1>5 DEF ObsPresent, TypeOK
<1>12. EntCites' BY <1>2, <1>3, EntCitesStay DEF TermsInv
<1> QED BY <1>2, <1>7, <1>8, <1>9, <1>10, <1>11, <1>12 DEF TermsInv, RunTerms

\* The latest version is at or after the one that was matched, and after all that entries cite.
LEMMA ReadVersionsTerms ==
    ASSUME LedgerInv, LedgerInv', TermsInv, NEW w \in Workers, ReadVersions(w)
    PROVE  TermsInv'
<1> USE DEF LedgerInv
<1>1. UNCHANGED <<rule, hist, ent, buf, obs>> /\ pc[w] = "matched" BY DEF ReadVersions, ruleVars
<1>2. HistoryKept' /\ HistoryGrows BY <1>1, HistorySame DEF TermsInv
<1>3. TermsStay BY <1>1 DEF TermsStay
<1>4. /\ pc' = [pc EXCEPT ![w] = "upsert"]
      /\ plan' = [plan EXCEPT ![w] = [q \in Roles |->
                    IF plan[w][q].rule = NoRule THEN plan[w][q]
                    ELSE [plan[w][q] EXCEPT !.ver = LatestVersion(plan[w][q].rule)]]]
  BY DEF ReadVersions
<1>5. ASSUME NEW v \in Workers, v # w PROVE RunTerms(v)'
  <2>1. GoesOn(v) BY <1>1, <1>4, <1>5 DEF GoesOn, TypeOK
  <2> QED BY <1>2, <1>3, <2>1, RunGoesOn DEF TermsInv
<1>6. \A q \in Roles : plan'[w][q].rule # NoRule =>
         /\ plan[w][q].rule \in Rules
         /\ plan'[w][q].rule = plan[w][q].rule
         /\ plan'[w][q].hold = plan[w][q].hold
         /\ plan'[w][q].ver = Len(hist[plan[w][q].rule])
  <2> SUFFICES ASSUME NEW q \in Roles, plan'[w][q].rule # NoRule
               PROVE  /\ plan[w][q].rule \in Rules
                      /\ plan'[w][q].rule = plan[w][q].rule
                      /\ plan'[w][q].hold = plan[w][q].hold
                      /\ plan'[w][q].ver = Len(hist[plan[w][q].rule])
    OBVIOUS
  <2>1. plan[w][q] \in Pairing BY DEF TypeOK
  <2>2. plan'[w][q] = IF plan[w][q].rule = NoRule THEN plan[w][q]
                      ELSE [plan[w][q] EXCEPT !.ver = LatestVersion(plan[w][q].rule)]
    BY <1>4 DEF TypeOK
  <2>3. plan[w][q].rule # NoRule BY <2>2
  <2> QED BY <2>1, <2>2, <2>3 DEF Pairing, LatestVersion
<1>7. PlanCites(w)'
  <2> SUFFICES ASSUME NEW q \in Roles, plan'[w][q].rule # NoRule
               PROVE  RowCites(q, plan[w][q].rule, plan[w][q])'
    BY <1>4 DEF PlanCites, Versioned, TypeOK
  <2>1. PICK p, x : p = plan[w][q] /\ x = plan'[w][q] OBVIOUS
  <2>2. /\ p.rule \in Rules /\ p.rule # NoRule
        /\ x.rule = p.rule /\ x.hold = p.hold /\ x.ver = Len(hist[p.rule])
    BY <1>6, <2>1
  <2>3. Cites(q, p.rule, p.hold, Len(hist[p.rule]))
    BY <1>1, <2>1, <2>2 DEF TermsInv, RunTerms, PlanCites
  <2>4. Len(hist[p.rule]) \in Nat BY <2>2 DEF TypeOK
  <2>5. RowCites(q, x.rule, x) BY <2>2, <2>3, <2>4 DEF RowCites
  <2> QED BY <1>1, <2>1, <2>5 DEF RowCites, Cites
<1>8. BufCites(w)' /\ BufAhead(w)'
  <2>1. RunTerms(w) BY DEF TermsInv
  <2> QED BY <1>1, <2>1 DEF RunTerms, BufCites, BufAhead, RowCites, Cites, Written
<1>9. PlanAhead(w)'
  <2> SUFFICES ASSUME NEW i \in Installments, NEW u \in Recipients, NEW r \in Rules,
                      PlanOf(w, u)'.rule = r, ent[<<i, u, r>>].status # "absent"
               PROVE  ent[<<i, u, r>>].ver <= PlanOf(w, u)'.ver
    BY <1>1 DEF PlanAhead
  <2>1. RoleOf[u] \in Roles /\ r # NoRule BY ConstantsAssumption
  <2>2. PlanOf(w, u)'.ver = Len(hist[r]) BY <1>6, <2>1 DEF PlanOf
  <2> QED BY <2>2 DEF TermsInv, EntCites, RowCites
<1>10. ObsPresent(w)' BY <1>4 DEF ObsPresent, TypeOK
<1>11. EntCites' BY <1>2, <1>3, EntCitesStay DEF TermsInv
<1> QED BY <1>2, <1>5, <1>7, <1>8, <1>9, <1>10, <1>11 DEF TermsInv, RunTerms

\* An upsert writes the terms of the plan, or leaves the row as it is.
LEMMA UpsertEntryTerms ==
    ASSUME LedgerInv, LedgerInv', TermsInv, NEW w \in Workers, NEW i \in Installments,
           NEW u \in Recipients, UpsertEntry(w, i, u)
    PROVE  TermsInv'
<1> USE DEF LedgerInv
<1> DEFINE k == <<i, u, PlanOf(w, u).rule>>
           new == Upsert(View(w, k), EntryFor(w, i, u))
<1>1. /\ UNCHANGED <<rule, hist, ent, pc, plan, obs>>
      /\ pc[w] = "upsert" /\ PlanOf(w, u).rule # NoRule
      /\ buf' = [buf EXCEPT ![w][k] = new]
  BY DEF UpsertEntry, ruleVars
<1>2. HistoryKept' /\ HistoryGrows BY <1>1, HistorySame DEF TermsInv
<1>3. TermsStay BY <1>1 DEF TermsStay
<1>4. PlanOf(w, u).rule \in Rules /\ k \in Keys
  BY <1>1, EntryForType, RuleKeys DEF Pairing
<1>5. /\ \A v \in Workers \ {w} : buf'[v] = buf[v]
      /\ buf'[w][k] = new
      /\ \A l \in Keys : l # k => buf'[w][l] = buf[w][l]
  BY <1>1, <1>4 DEF TypeOK
<1>6. ASSUME NEW v \in Workers, v # w PROVE RunTerms(v)'
  <2>1. GoesOn(v) BY <1>1, <1>5, <1>6 DEF GoesOn
  <2> QED BY <1>2, <1>3, <2>1, RunGoesOn DEF TermsInv
<1>7. RunTerms(w) /\ EntCites BY DEF TermsInv
<1>8. PlanCites(w)' BY <1>1, <1>7 DEF RunTerms, PlanCites, Versioned, RowCites, Cites
<1>9. PlanAhead(w)' BY <1>1, <1>7 DEF RunTerms, PlanAhead, Versioned, PlanOf
<1>10. /\ EntryFor(w, i, u).status = "pending"
       /\ EntryFor(w, i, u).hold = PlanOf(w, u).hold
       /\ EntryFor(w, i, u).ver = PlanOf(w, u).ver
       /\ EntryFor(w, i, u) \in Row
  BY EntryForType DEF EntryFor, NewRow
<1>11. View(w, k) \in Row BY <1>4, ViewType
<1>12. \/ /\ new.status \in Open
          /\ new.hold = PlanOf(w, u).hold /\ new.ver = PlanOf(w, u).ver
       \/ new = View(w, k) /\ View(w, k).status \notin Open \cup {"absent"}
  BY <1>10, <1>11 DEF Upsert, Row, Open
<1>13. RowCites(RoleOf[u], PlanOf(w, u).rule, PlanOf(w, u))
  <2>1. RoleOf[u] \in Roles BY ConstantsAssumption
  <2> QED BY <1>1, <1>7, <2>1 DEF RunTerms, PlanCites, Versioned, PlanOf
<1>14. RowCites(RoleOf[u], PlanOf(w, u).rule, new)
  <2>1. CASE new.hold = PlanOf(w, u).hold /\ new.ver = PlanOf(w, u).ver
    BY <1>13, <2>1 DEF RowCites
  <2>2. CASE new = View(w, k) /\ View(w, k).status # "absent"
    BY <1>4, <1>7, <2>2 DEF View, Written, RunTerms, BufCites, EntCites
  <2> QED BY <1>12, <2>1, <2>2
<1>15. BufCites(w)'
  <2> SUFFICES ASSUME NEW j \in Installments, NEW x \in Recipients, NEW r \in Rules,
                      buf'[w][<<j, x, r>>].status \notin {"unwritten", "absent"}
               PROVE  RowCites(RoleOf[x], r, buf'[w][<<j, x, r>>])
    <3>1. \A q, s, row : RowCites(q, s, row)' <=> RowCites(q, s, row)
      BY <1>1 DEF RowCites, Cites
    <3> QED BY <3>1 DEF BufCites
  <2>1. CASE <<j, x, r>> = k BY <1>5, <1>14, <2>1
  <2>2. CASE <<j, x, r>> # k
    BY <1>5, <1>7, <2>2, RuleKeys DEF RunTerms, BufCites
  <2> QED BY <2>1, <2>2
<1>16. BufAhead(w)'
  <2> SUFFICES ASSUME NEW j \in Installments, NEW x \in Recipients, NEW r \in Rules,
                      Written(w, <<j, x, r>>)', ent[<<j, x, r>>].status # "absent"
               PROVE  /\ buf'[w][<<j, x, r>>].status # "absent"
                      /\ ent[<<j, x, r>>].ver <= buf'[w][<<j, x, r>>].ver
    BY <1>1 DEF BufAhead
  <2>1. CASE <<j, x, r>> = k
    <3>1. ent[k].ver <= PlanOf(w, u).ver BY <1>1, <1>4, <1>7, <2>1 DEF RunTerms, PlanAhead, Versioned
    <3>2. CASE new.status \in Open /\ new.ver = PlanOf(w, u).ver
      BY <1>5, <2>1, <3>1, <3>2 DEF Open
    <3>3. CASE new = View(w, k) /\ View(w, k).status # "absent"
      <4>1. ent[k].ver \in Nat BY <1>4 DEF TypeOK, Row
      <4>2. ent[k].ver <= View(w, k).ver
        BY <1>4, <1>7, <2>1, <4>1 DEF View, RunTerms, BufAhead
      <4> QED BY <1>5, <2>1, <3>3, <4>2
    <3> QED BY <1>12, <3>2, <3>3
  <2>2. CASE <<j, x, r>> # k
    <3>1. buf'[w][<<j, x, r>>] = buf[w][<<j, x, r>>] BY <1>5, <2>2, RuleKeys
    <3> QED BY <1>7, <3>1 DEF RunTerms, BufAhead, Written
  <2> QED BY <2>1, <2>2
<1>17. ObsPresent(w)' BY <1>1 DEF ObsPresent
<1>18. EntCites' BY <1>2, <1>3, EntCitesStay DEF TermsInv
<1> QED BY <1>2, <1>6, <1>8, <1>9, <1>15, <1>16, <1>17, <1>18 DEF TermsInv, RunTerms

\* A voided row cites what it cited.
LEMMA VoidEntryTerms ==
    ASSUME LedgerInv, LedgerInv', TermsInv, NEW w \in Workers, NEW k \in Keys, VoidEntry(w, k)
    PROVE  TermsInv'
<1> USE DEF LedgerInv
<1>1. /\ UNCHANGED <<rule, hist, ent, pc, plan>> /\ Voiding(w) /\ k \in obs[w]
      /\ obs' = [obs EXCEPT ![w] = @ \ {k}]
      /\ buf' = buf \/ /\ buf' = [buf EXCEPT ![w][k] = Void(View(w, k))]
                       /\ pc[w] = "void" \/ View(w, k).status \in Open
  BY DEF VoidEntry, ruleVars, Voiding
<1>2. HistoryKept' /\ HistoryGrows BY <1>1, HistorySame DEF TermsInv
<1>3. TermsStay BY <1>1 DEF TermsStay
<1>4. \A v \in Workers \ {w} : buf'[v] = buf[v] /\ obs'[v] = obs[v]
  BY <1>1 DEF TypeOK
<1>5. ASSUME NEW v \in Workers, v # w PROVE RunTerms(v)'
  <2>1. GoesOn(v) BY <1>1, <1>4, <1>5 DEF GoesOn
  <2> QED BY <1>2, <1>3, <2>1, RunGoesOn DEF TermsInv
<1>6. RunTerms(w) /\ EntCites BY DEF TermsInv
<1>7. \A l \in Keys : buf'[w][l] = buf[w][l]
                      \/ (l = k /\ buf'[w][l] = Void(View(w, k)) /\ (pc[w] = "void" \/ View(w, k).status \in Open))
  BY <1>1 DEF TypeOK
<1>8. View(w, k) \in Row BY ViewType
<1>9. /\ Void(View(w, k)).status = "voided" /\ Void(View(w, k)).hold = View(w, k).hold
      /\ Void(View(w, k)).ver = View(w, k).ver
  BY <1>8 DEF Void, Row
<1>10. PlanCites(w)' BY <1>1, <1>6 DEF RunTerms, PlanCites, Versioned, RowCites, Cites
<1>11. PlanAhead(w)' BY <1>1, <1>6 DEF RunTerms, PlanAhead, Versioned, PlanOf
<1>12. BufCites(w)'
  <2> SUFFICES ASSUME NEW j \in Installments, NEW x \in Recipients, NEW r \in Rules,
                      buf'[w][<<j, x, r>>].status \notin {"unwritten", "absent"}
               PROVE  RowCites(RoleOf[x], r, buf'[w][<<j, x, r>>])
    <3>1. \A q, s, row : RowCites(q, s, row)' <=> RowCites(q, s, row)
      BY <1>1 DEF RowCites, Cites
    <3> QED BY <3>1 DEF BufCites
  <2>1. CASE buf'[w][<<j, x, r>>] = buf[w][<<j, x, r>>] BY <1>6, <2>1 DEF RunTerms, BufCites
  <2>2. CASE /\ <<j, x, r>> = k /\ buf'[w][k] = Void(View(w, k))
             /\ pc[w] = "void" \/ View(w, k).status \in Open
    <3>1. View(w, k).status # "absent"
      BY <1>1, <1>6, <2>2 DEF RunTerms, ObsPresent, Open
    <3>2. RowCites(RoleOf[x], r, View(w, k))
      BY <1>6, <2>2, <3>1 DEF View, Written, RunTerms, BufCites, EntCites
    <3> QED BY <1>9, <2>2, <3>2 DEF RowCites
  <2> QED BY <1>7, <2>1, <2>2, RuleKeys
<1>13. BufAhead(w)'
  <2> SUFFICES ASSUME NEW j \in Installments, NEW x \in Recipients, NEW r \in Rules,
                      Written(w, <<j, x, r>>)', ent[<<j, x, r>>].status # "absent"
               PROVE  /\ buf'[w][<<j, x, r>>].status # "absent"
                      /\ ent[<<j, x, r>>].ver <= buf'[w][<<j, x, r>>].ver
    BY <1>1 DEF BufAhead
  <2>1. CASE buf'[w][<<j, x, r>>] = buf[w][<<j, x, r>>]
    BY <1>6, <2>1 DEF RunTerms, BufAhead, Written
  <2>2. CASE <<j, x, r>> = k /\ buf'[w][k] = Void(View(w, k))
    <3>1. ent[k].ver \in Nat BY DEF TypeOK, Row
    <3>2. ent[k].ver <= View(w, k).ver BY <1>6, <2>2, <3>1 DEF View, RunTerms, BufAhead
    <3> QED BY <1>9, <2>2, <3>2
  <2> QED BY <1>7, <2>1, <2>2, RuleKeys
<1>14. ObsPresent(w)'
  <2> SUFFICES ASSUME pc[w] = "void", NEW j \in Installments, NEW x \in Recipients,
                      NEW r \in Rules, <<j, x, r>> \in obs'[w]
               PROVE  View(w, <<j, x, r>>)'.status # "absent"
    BY <1>1 DEF ObsPresent
  <2>1. <<j, x, r>> \in obs[w] /\ <<j, x, r>> # k BY <1>1 DEF TypeOK
  <2>2. buf'[w][<<j, x, r>>] = buf[w][<<j, x, r>>] BY <1>7, <2>1, RuleKeys
  <2>3. View(w, <<j, x, r>>).status # "absent" BY <1>6, <2>1 DEF RunTerms, ObsPresent
  <2> QED BY <1>1, <2>2, <2>3 DEF View, Written
<1>15. EntCites' BY <1>2, <1>3, EntCitesStay DEF TermsInv
<1> QED BY <1>2, <1>5, <1>10, <1>11, <1>12, <1>13, <1>14, <1>15 DEF TermsInv, RunTerms

\* What the run publishes it has written or seen.
LEMMA CommitRunTerms ==
    ASSUME LedgerInv, LedgerInv', TermsInv, NEW w \in Workers, CommitRun(w)
    PROVE  TermsInv'
<1> USE DEF LedgerInv
<1>1. InTransaction(w) /\ UNCHANGED <<rule, hist>>
  BY DEF CommitRun, InTransaction, ruleVars
<1>2. HistoryKept' BY <1>1, HistorySame DEF TermsInv
<1>3. ASSUME NEW v \in Workers PROVE RunTerms(v)'
  <2>1. v # w => ~InTransaction(v) BY <1>1, OneTransaction
  <2>2. pc'[v] \in {"idle", "retry"}
    BY <2>1 DEF CommitRun, InTransaction, TypeOK
  <2>3. buf'[v] = NoWrites
    BY <2>1 DEF CommitRun, ForgetRun, CleanBuf, TypeOK
  <2> QED BY <2>2, <2>3, RunIsOver DEF IsOver
<1>4. EntCites'
  <2> SUFFICES ASSUME NEW i \in Installments, NEW u \in Recipients, NEW r \in Rules,
                      ent'[<<i, u, r>>].status # "absent"
               PROVE  RowCites(RoleOf[u], r, ent'[<<i, u, r>>])
    BY <1>1 DEF EntCites, RowCites, Cites
  <2>1. ent'[<<i, u, r>>] = View(w, <<i, u, r>>) BY RuleKeys DEF CommitRun
  <2> QED BY <2>1 DEF TermsInv, RunTerms, View, Written, BufCites, EntCites
<1> QED BY <1>2, <1>3, <1>4 DEF TermsInv

\* A row without a rule cites nothing.
LEMMA ReplaceEntryTerms ==
    ASSUME LedgerInv, LedgerInv', TermsInv, NEW w \in Workers, NEW i \in Installments,
           NEW u \in Recipients, ReplaceEntry(w, i, u)
    PROVE  GoesOn(w)
<1> USE DEF LedgerInv
<1>1. /\ plan' = plan /\ pc[w] = "checked" /\ pc'[w] = "upsert"
  BY DEF ReplaceEntry, TypeOK
<1>2. ASSUME NEW j \in Installments, NEW x \in Recipients, NEW r \in Rules
      PROVE  buf'[w][<<j, x, r>>] = buf[w][<<j, x, r>>]
  <2>1. r \notin NoRuleSlots BY ConstantsAssumption
  <2>2. <<j, x, r>> \in Keys /\ <<j, x, r>> \notin {<<i, u, s>> : s \in NoRuleSlots}
    BY <2>1, RuleKeys
  <2>3. PICK new \in {<<i, u, s>> : s \in NoRuleSlots}, opened \in SUBSET Keys :
            /\ opened = {k \in {<<i, u, s>> : s \in NoRuleSlots} : View(w, k).status \in Open}
            /\ buf' = [buf EXCEPT ![w] = [k \in Keys |->
                          IF k = new THEN EntryFor(w, i, u)
                          ELSE IF k \in opened THEN AbsentRow ELSE buf[w][k]]]
    BY ReplacedRows
  <2>4. <<j, x, r>> # new /\ <<j, x, r>> \notin opened BY <2>2, <2>3
  <2>5. buf'[w] = [k \in Keys |-> IF k = new THEN EntryFor(w, i, u)
                                  ELSE IF k \in opened THEN AbsentRow ELSE buf[w][k]]
    BY <2>3 DEF TypeOK
  <2> QED BY <2>2, <2>4, <2>5
<1> QED BY <1>1, <1>2 DEF GoesOn, Versioned

\* What is found obsolete is open.
LEMMA SelectObsoleteTerms ==
    ASSUME LedgerInv, LedgerInv', TermsInv, NEW w \in Workers, SelectObsolete(w)
    PROVE  TermsInv'
<1> USE DEF LedgerInv
<1>1. /\ UNCHANGED <<rule, hist, ent, plan, buf>> /\ pc[w] = "upsert"
      /\ pc' = [pc EXCEPT ![w] = "void"]
      /\ obs' = [obs EXCEPT ![w] = {k \in Keys : View(w, k).status \in Open /\ ~Seen(w, k)}]
  BY DEF SelectObsolete, ruleVars
<1>2. HistoryKept' /\ HistoryGrows BY <1>1, HistorySame DEF TermsInv
<1>3. TermsStay BY <1>1 DEF TermsStay
<1>4. ASSUME NEW v \in Workers, v # w PROVE RunTerms(v)'
  <2>1. GoesOn(v) BY <1>1, <1>4 DEF GoesOn, TypeOK
  <2> QED BY <1>2, <1>3, <2>1, RunGoesOn DEF TermsInv
<1>5. RunTerms(w) /\ pc'[w] = "void" BY <1>1 DEF TermsInv, TypeOK
<1>6. /\ \A q, s, row : RowCites(q, s, row)' <=> RowCites(q, s, row)
      /\ \A q, s, h, v : Cites(q, s, h, v)' <=> Cites(q, s, h, v)
  BY <1>1 DEF RowCites, Cites
<1>7. PlanCites(w)' BY <1>1, <1>5, <1>6 DEF RunTerms, PlanCites, Versioned
<1>8. BufCites(w)' BY <1>1, <1>5, <1>6 DEF RunTerms, BufCites
<1>9. PlanAhead(w)' BY <1>1, <1>5 DEF RunTerms, PlanAhead, PlanOf, Versioned
<1>10. BufAhead(w)' BY <1>1, <1>5 DEF RunTerms, BufAhead, Written
<1>11. ObsPresent(w)'
  <2> SUFFICES ASSUME NEW i \in Installments, NEW u \in Recipients, NEW r \in Rules,
                      <<i, u, r>> \in obs'[w]
               PROVE  View(w, <<i, u, r>>)'.status # "absent"
    BY DEF ObsPresent
  <2>1. View(w, <<i, u, r>>).status \in Open BY <1>1 DEF TypeOK
  <2>2. View(w, <<i, u, r>>)' = View(w, <<i, u, r>>) BY <1>1 DEF View, Written
  <2> QED BY <2>1, <2>2 DEF Open
<1>12. EntCites' BY <1>2, <1>3, EntCitesStay DEF TermsInv
<1> QED BY <1>2, <1>4, <1>7, <1>8, <1>9, <1>10, <1>11, <1>12 DEF TermsInv, RunTerms

-------------------------------------------------------------------------------
(* The other steps, and the terms.                                             *)

\* A step that edits no rule and changes no terms keeps the invariant, if every run goes on
\* or is over.
LEMMA TermsKept ==
    ASSUME LedgerInv, LedgerInv', TermsInv, UNCHANGED <<rule, hist>>, TermsStay,
           \A w \in Workers : GoesOn(w) \/ IsOver(w)
    PROVE  TermsInv'
<1>1. TypeOK /\ TypeOK' BY DEF LedgerInv
<1>2. HistoryKept' /\ HistoryGrows BY <1>1, HistorySame DEF TermsInv
<1>3. EntCites' BY <1>1, <1>2, EntCitesStay DEF TermsInv
<1>4. \A w \in Workers : RunTerms(w)' BY <1>1, <1>2, RunGoesOn, RunIsOver DEF TermsInv
<1> QED BY <1>2, <1>3, <1>4 DEF TermsInv

\* What changes an entry besides a run's commit keeps its terms and whether it is there.
LEMMA StatusSteps ==
    ASSUME LedgerInv,
           \/ CommitRefund \/ ReleaseAvailableEntries \/ \E k \in Keys : MarkPaid(k)
    PROVE  TermsStay
<1> USE DEF LedgerInv
<1>1. HeldRows /\ TypeOK BY DEF LedgerInv
<1> SUFFICES ASSUME NEW l \in Keys
             PROVE  /\ ent'[l].hold = ent[l].hold
                    /\ ent'[l].ver = ent[l].ver
                    /\ ent'[l].status = "absent" <=> ent[l].status = "absent"
  BY RuleKeys DEF TermsStay
<1>2. ent[l] \in Row BY DEF TypeOK
<1>5. CASE CommitRefund
  <2>1. ent'[l] = IF l \in held THEN [ent[l] EXCEPT !.status = "clawed_back"] ELSE ent[l]
    BY <1>5 DEF CommitRefund
  <2>2. l \in held => ent[l].status # "absent" BY DEF HeldRows, Open
  <2> QED BY <1>2, <2>1, <2>2 DEF Row
<1>6. CASE ReleaseAvailableEntries
  BY <1>2, <1>6 DEF ReleaseAvailableEntries, Releasable, Row
<1>7. ASSUME NEW k \in Keys, MarkPaid(k)
      PROVE  /\ ent'[l].hold = ent[l].hold
             /\ ent'[l].ver = ent[l].ver
             /\ ent'[l].status = "absent" <=> ent[l].status = "absent"
  BY <1>2, <1>7 DEF MarkPaid, TypeOK, Row
<1> QED BY <1>5, <1>6, <1>7

\* An edit of a rule appends to its history, or starts it.
LEMMA RuleStepTerms ==
    ASSUME LedgerInv, LedgerInv', TermsInv, RuleStep
    PROVE  TermsInv'
<1> USE DEF LedgerInv
<1>1. UNCHANGED <<ent, pc, plan, buf, obs>>
  BY DEF RuleStep, CreateRule, UpdateRule, SoftDeleteRule, runVars
<1>2. PICK r \in Rules : \/ \E t \in Terms, applies \in BOOLEAN : CreateRule(r, t, applies)
                                                                \/ UpdateRule(r, t, applies)
                         \/ SoftDeleteRule(r)
  BY DEF RuleStep
<1>3. /\ rule \in [Rules -> RuleRow] /\ hist \in [Rules -> Seq(Terms)] /\ HistoryKept
      /\ \A s \in Rules : Len(hist[s]) \in Nat
  BY DEF TypeOK, TermsInv
<1>4. HistoryKept' /\ HistoryGrows
  <2>1. ASSUME NEW t \in Terms, NEW applies \in BOOLEAN, CreateRule(r, t, applies)
        PROVE  HistoryKept' /\ HistoryGrows
    <3>1. /\ rule' = [rule EXCEPT ![r] = [phase |-> "live", applies |-> applies, terms |-> t]]
          /\ hist' = [hist EXCEPT ![r] = <<t>>]
          /\ rule[r].phase = "absent"
      BY <2>1 DEF CreateRule
    <3>2. /\ rule'[r].phase = "live" /\ rule'[r].terms = t
          /\ hist'[r] = <<t>> /\ Len(hist[r]) = 0
          /\ \A s \in Rules : s # r => rule'[s] = rule[s] /\ hist'[s] = hist[s]
      BY <1>3, <3>1 DEF HistoryKept
    <3>3. Len(hist'[r]) = 1 /\ hist'[r][1] = t BY <3>2
    <3>4. HistoryKept'
      <4> SUFFICES ASSUME NEW s \in Rules
                   PROVE  /\ rule'[s].phase = "absent" => Len(hist'[s]) = 0
                          /\ rule'[s].phase = "live" =>
                                Len(hist'[s]) > 0 /\ hist'[s][Len(hist'[s])] = rule'[s].terms
        BY DEF HistoryKept
      <4>1. CASE s = r
        <5>1. rule'[s].phase = "live" /\ rule'[s].terms = t BY <3>2, <4>1
        <5>2. Len(hist'[s]) = 1 /\ hist'[s][1] = t BY <3>3, <4>1
        <5> QED BY <5>1, <5>2
      <4>2. CASE s # r BY <1>3, <3>2, <4>2 DEF HistoryKept
      <4> QED BY <4>1, <4>2
    <3>5. ASSUME NEW s \in Rules
          PROVE  /\ Len(hist[s]) <= Len(hist'[s])
                 /\ \A n \in 1 .. Len(hist[s]) : hist'[s][n] = hist[s][n]
      BY <1>3, <3>2, <3>3
    <3> QED BY <3>4, <3>5 DEF HistoryGrows
  <2>2. ASSUME NEW t \in Terms, NEW applies \in BOOLEAN, UpdateRule(r, t, applies)
        PROVE  HistoryKept' /\ HistoryGrows
    <3>1. /\ rule' = [rule EXCEPT ![r] = [phase |-> "live", applies |-> applies, terms |-> t]]
          /\ hist' = [hist EXCEPT ![r] = Append(hist[r], t)]
          /\ rule[r].phase = "live"
      BY <2>2 DEF UpdateRule
    <3>2. /\ rule'[r].phase = "live" /\ rule'[r].terms = t
          /\ hist'[r] = Append(hist[r], t)
          /\ \A s \in Rules : s # r => rule'[s] = rule[s] /\ hist'[s] = hist[s]
      BY <1>3, <3>1
    <3>3. /\ Len(hist'[r]) = Len(hist[r]) + 1
          /\ hist'[r][Len(hist[r]) + 1] = t
          /\ \A n \in 1 .. Len(hist[r]) : hist'[r][n] = hist[r][n]
      BY <1>3, <3>2
    <3>4. HistoryKept' BY <1>3, <3>2, <3>3 DEF HistoryKept
    <3>5. ASSUME NEW s \in Rules
          PROVE  /\ Len(hist[s]) <= Len(hist'[s])
                 /\ \A n \in 1 .. Len(hist[s]) : hist'[s][n] = hist[s][n]
      <4>1. CASE s = r BY <1>3, <3>3, <4>1
      <4>2. CASE s # r BY <1>3, <3>2, <4>2
      <4> QED BY <4>1, <4>2
    <3> QED BY <3>4, <3>5 DEF HistoryGrows
  <2>3. CASE SoftDeleteRule(r)
    <3>1. /\ rule' = [rule EXCEPT ![r].phase = "deleted", ![r].applies = FALSE]
          /\ hist' = hist
      BY <2>3 DEF SoftDeleteRule
    <3>2. /\ rule'[r].phase = "deleted"
          /\ \A s \in Rules : s # r => rule'[s] = rule[s]
      BY <1>3, <3>1 DEF RuleRow
    <3> QED BY <1>3, <3>1, <3>2 DEF HistoryKept, HistoryGrows
  <2> QED BY <1>2, <2>1, <2>2, <2>3
<1>5. TermsStay BY <1>1 DEF TermsStay
<1>6. ASSUME NEW w \in Workers PROVE RunTerms(w)'
  <2>1. GoesOn(w) BY <1>1 DEF GoesOn
  <2> QED BY <1>4, <1>5, <2>1, RunGoesOn DEF TermsInv
<1>7. EntCites' BY <1>4, <1>5, EntCitesStay DEF TermsInv
<1> QED BY <1>4, <1>6, <1>7 DEF TermsInv

\* A run that fails or finds nothing to do is over.
LEMMA FailRunOver ==
    ASSUME TypeOK, NEW w \in Workers, FailRun(w)
    PROVE  /\ pc'[w] \in {"idle", "retry"}
           /\ \A v \in Workers : v # w => pc'[v] = pc[v]
<1>1. pc' = [pc EXCEPT ![w] = "retry"] \/ pc' = [pc EXCEPT ![w] = "idle"]
  BY Zenon DEF FailRun
<1> QED BY <1>1 DEF TypeOK

\* The invariant holds initially ...
LEMMA TermsInit == Init => TermsInv
<1> SUFFICES ASSUME Init PROVE TermsInv
  OBVIOUS
<1>1. TypeOK /\ CleanBuf BY InitInv DEF LedgerInv
<1>2. HistoryKept
  <2> SUFFICES ASSUME NEW r \in Rules
               PROVE  /\ rule[r].phase = "absent" => Len(hist[r]) = 0
                      /\ rule[r].phase = "live" =>
                            Len(hist[r]) > 0 /\ hist[r][Len(hist[r])] = rule[r].terms
    BY DEF HistoryKept
  <2>1. /\ hist[r] = IF r \in SeedRules THEN <<rule[r].terms>> ELSE <<>>
        /\ rule[r].phase = IF r \in SeedRules THEN "live" ELSE "absent"
    BY DEF Init
  <2>2. CASE r \in SeedRules
    <3>1. hist[r] = <<rule[r].terms>> BY <2>1, <2>2
    <3>2. Len(hist[r]) = 1 /\ hist[r][1] = rule[r].terms BY <3>1
    <3> QED BY <2>1, <2>2, <3>2
  <2>3. CASE r \notin SeedRules
    <3>1. hist[r] = <<>> BY <2>1, <2>3
    <3> QED BY <2>1, <2>3, <3>1
  <2> QED BY <2>2, <2>3
<1>3. \A k \in Keys : ent[k].status = "absent" BY DEF Init, AbsentRow
<1>4. EntCites BY <1>3, RuleKeys DEF EntCites
<1>5. ASSUME NEW w \in Workers PROVE RunTerms(w)
  <2>1. pc[w] = "idle" /\ buf[w] = NoWrites BY DEF Init
  <2>2. \A k \in Keys : buf[w][k].status = "unwritten" BY <2>1 DEF NoWrites, Unwritten
  <2>3. PlanCites(w) /\ PlanAhead(w) /\ ObsPresent(w)
    BY <2>1 DEF PlanCites, PlanAhead, ObsPresent, Versioned
  <2>4. BufCites(w) /\ BufAhead(w) BY <2>2, RuleKeys DEF BufCites, BufAhead, Written
  <2> QED BY <2>3, <2>4 DEF RunTerms
<1> QED BY <1>2, <1>4, <1>5 DEF TermsInv

\* ... and every step keeps it.
LEMMA TermsNext == LedgerInv /\ LedgerInv' /\ TermsInv /\ [Next]_vars => TermsInv'
<1> SUFFICES ASSUME LedgerInv, LedgerInv', TermsInv, [Next]_vars PROVE TermsInv'
  OBVIOUS
<1>1. ASSUME UNCHANGED <<rule, hist, ent, runVars>> PROVE TermsInv'
  <2>1. TermsStay BY <1>1 DEF TermsStay
  <2>2. \A w \in Workers : GoesOn(w) BY <1>1 DEF GoesOn, runVars
  <2> QED BY <1>1, <2>1, <2>2, TermsKept
<1>2. ASSUME UNCHANGED <<rule, hist, runVars>>, TermsStay PROVE TermsInv'
  <2>1. \A w \in Workers : GoesOn(w) BY <1>2 DEF GoesOn, runVars
  <2> QED BY <1>2, <2>1, TermsKept
<1>3. ASSUME NEW w \in Workers, RunStep(w) PROVE TermsInv'
  <2>1. CASE BeginMissing(w)
    <3>1. /\ UNCHANGED <<rule, hist, ent, plan, buf, obs>> /\ FailRun(w)
      BY <2>1 DEF BeginMissing, ruleVars
    <3>2. TermsStay BY <3>1 DEF TermsStay
    <3>3. \A v \in Workers : GoesOn(v)
      BY <3>1, FailRunOver DEF GoesOn, LedgerInv
    <3> QED BY <3>1, <3>2, <3>3, TermsKept
  <2>2. CASE BeginDeleted(w)
    <3>1. /\ UNCHANGED <<rule, hist, ent, plan, buf>>
          /\ pc' = [pc EXCEPT ![w] = "closing"]
          /\ \A v \in Workers : v # w => obs'[v] = obs[v]
      BY <2>2 DEF BeginDeleted, ruleVars, LedgerInv, TypeOK
    <3>2. TermsStay BY <3>1 DEF TermsStay
    <3>3. \A v \in Workers : GoesOn(v) BY <3>1 DEF GoesOn, LedgerInv, TypeOK
    <3> QED BY <3>1, <3>2, <3>3, TermsKept
  <2>3. ASSUME NEW i \in Installments, NEW u \in Recipients, CheckSettled(w, i, u)
        PROVE  TermsInv'
    <3>1. /\ UNCHANGED <<rule, hist, ent, plan, buf, obs>> /\ pc[w] = "upsert"
          /\ pc' = pc \/ pc' = [pc EXCEPT ![w] = "checked"]
      <4>1. UNCHANGED <<pc, cur>> \/ pc' = [pc EXCEPT ![w] = "checked"]
        BY <2>3, Zenon DEF CheckSettled
      <4> QED BY <2>3, <4>1 DEF CheckSettled, ruleVars
    <3>2. TermsStay BY <3>1 DEF TermsStay
    <3>3. \A v \in Workers : GoesOn(v)
      BY <3>1 DEF GoesOn, LedgerInv, TypeOK, Versioned
    <3> QED BY <3>1, <3>2, <3>3, TermsKept
  <2>4. ASSUME NEW i \in Installments, NEW u \in Recipients, ReplaceEntry(w, i, u)
        PROVE  TermsInv'
    <3>1. /\ UNCHANGED <<rule, hist, ent, plan, obs>>
          /\ \A v \in Workers : v # w => pc'[v] = pc[v] /\ buf'[v] = buf[v]
      BY <2>4 DEF ReplaceEntry, ruleVars, LedgerInv, TypeOK
    <3>2. TermsStay BY <3>1 DEF TermsStay
    <3>3. \A v \in Workers : v # w => GoesOn(v) BY <3>1 DEF GoesOn
    <3>4. GoesOn(w) BY <2>4, ReplaceEntryTerms
    <3> QED BY <3>1, <3>2, <3>3, <3>4, TermsKept
  <2> QED BY <1>3, <2>1, <2>2, <2>3, <2>4, BeginTerms, ReadVersionsTerms, UpsertEntryTerms,
             SelectObsoleteTerms, VoidEntryTerms, CommitRunTerms DEF RunStep
<1>4. ASSUME NEW w \in Workers, AbortRun(w) \/ DeadlockVictim(w) PROVE TermsInv'
  <2>1. /\ UNCHANGED <<rule, hist, ent>> /\ FailRun(w) /\ ForgetRun(w)
    BY <1>4 DEF AbortRun, DeadlockVictim, ruleVars
  <2>2. TermsStay BY <2>1 DEF TermsStay
  <2>3. IsOver(w)
    <3>1. pc'[w] \in {"idle", "retry"} BY <2>1, FailRunOver DEF LedgerInv
    <3>2. buf'[w] = NoWrites BY <2>1 DEF ForgetRun, LedgerInv, TypeOK
    <3> QED BY <3>1, <3>2 DEF IsOver
  <2>4. ASSUME NEW v \in Workers, v # w PROVE GoesOn(v)
    <3>1. pc'[v] = pc[v] BY <2>1, <2>4, FailRunOver DEF LedgerInv
    <3>2. plan'[v] = plan[v] /\ buf'[v] = buf[v] /\ obs'[v] = obs[v]
      BY <2>1, <2>4 DEF ForgetRun, LedgerInv, TypeOK
    <3> QED BY <3>1, <3>2 DEF GoesOn
  <2> QED BY <2>1, <2>2, <2>3, <2>4, TermsKept
<1>5. CASE SaleStep
  <2>1. CASE CommitRefund
    <3>1. UNCHANGED <<rule, hist, runVars>> BY <2>1 DEF CommitRefund, ruleVars
    <3> QED BY <1>2, <2>1, <3>1, StatusSteps
  <2>2. CASE ~CommitRefund
    BY <1>1, <1>5, <2>2 DEF SaleStep, CreateSale, SoftDeleteSale, CommitSale, ReadRefund,
       StartClawback, ClawBackRow, ApplyRefund, RollbackMutation, RequestRecompute, ruleVars
  <2> QED BY <2>1, <2>2
<1>6. CASE RuleStep BY <1>6, RuleStepTerms
<1>7. CASE Tick \/ \E i \in Installments : CollectInstallment(i)
  BY <1>1, <1>7 DEF Tick, CollectInstallment, ruleVars
<1>8. CASE ReleaseAvailableEntries \/ \E k \in Keys : MarkPaid(k)
  <2>1. UNCHANGED <<rule, hist, runVars>>
    BY <1>8 DEF ReleaseAvailableEntries, MarkPaid, ruleVars
  <2> QED BY <1>2, <1>8, <2>1, StatusSteps
<1>9. CASE UNCHANGED vars BY <1>1, <1>9 DEF vars, ruleVars
<1> QED BY <1>3, <1>4, <1>5, <1>6, <1>7, <1>8, <1>9 DEF Next

\* The invariant holds in every reachable state.
LEMMA TermsInvariant == Spec => []TermsInv
<1> QED BY LedgerInvariant, TermsInit, TermsNext, PTL DEF Spec

\* However rules are edited while runs overlap, every entry with a rule was computed with
\* the hold of the version it cites or of an earlier one, made for its recipient's role.
THEOREM TermsAreTraceable == Spec => []TermsTraceable
<1>1. TermsInv => TermsTraceable
  BY DEF TermsInv, EntCites, RowCites, Cites, TermsTraceable
<1> QED BY <1>1, TermsInvariant, PTL

\* One step does not set an entry with a rule back to an older version.
LEMMA VersionStep ==
    ASSUME LedgerInv, TermsInv, [Next]_vars, NEW k \in Keys, ent[k].status # "absent",
           k[3] \in Rules
    PROVE  ent'[k].ver >= ent[k].ver
<1> USE DEF LedgerInv
<1>1. ent[k].ver \in Nat BY DEF TypeOK, Row
<1>2. PICK i \in Installments, u \in Recipients, r \in Rules : k = <<i, u, r>>
  BY DEF Keys
<1>3. ASSUME TermsStay PROVE ent'[k].ver >= ent[k].ver
  BY <1>1, <1>2, <1>3 DEF TermsStay
<1>4. CASE ent' = ent BY <1>1, <1>4
<1>5. ASSUME NEW w \in Workers, CommitRun(w) PROVE ent'[k].ver >= ent[k].ver
  <2>1. ent'[k] = View(w, k) BY <1>5 DEF CommitRun
  <2>2. View(w, k) \in Row BY ViewType
  <2>3. CASE Written(w, k)
    <3>1. ent[k].ver <= buf[w][k].ver BY <1>2, <2>3 DEF TermsInv, RunTerms, BufAhead
    <3> QED BY <1>1, <2>1, <2>2, <2>3, <3>1 DEF View, Row
  <2>4. CASE ~Written(w, k) BY <1>1, <2>1, <2>4 DEF View
  <2> QED BY <2>3, <2>4
<1> QED BY <1>3, <1>4, <1>5, EntryChanges, StatusSteps

\* No run, however late it commits, sets an entry back to an older version of its rule.
THEOREM VersionsOnlyAdvance == Spec => VersionsAdvance
<1>1. LedgerInv /\ TermsInv /\ [Next]_vars =>
         [\A k \in Keys : ent[k].status # "absent" /\ k[3] \in Rules =>
            ent'[k].ver >= ent[k].ver]_ent
  BY VersionStep
<1> QED BY <1>1, LedgerInvariant, TermsInvariant, PTL DEF Spec, VersionsAdvance

-------------------------------------------------------------------------------
(* Who waits for whom, and how a closed sale stays settled.                    *)

\* The lock ends with the transaction, a run out of one needs nothing, a run of a deleted sale
\* produces nothing, and a refund has rows only from its update to its commit.
WaitInv ==
    /\ \A w \in Workers : lock = w => InTransaction(w)
    /\ \A w \in Workers : ~InTransaction(w) => live[w] = {} /\ obs[w] = {}
    /\ \A w \in Workers : pc[w] = "closing" => live[w] = {}
    /\ held # {} => refund \in {"updating", "applied"}

\* A run that ends, or has not begun, leaves nothing behind.
LEMMA RunEndsWait ==
    ASSUME LedgerInv, WaitInv, NEW w \in Workers,
           BeginMissing(w) \/ CommitRun(w) \/ AbortRun(w) \/ DeadlockVictim(w)
    PROVE  WaitInv'
<1> USE DEF LedgerInv
<1>1. /\ UNCHANGED <<held, refund>> /\ lock' = NoWorker
  BY DEF BeginMissing, CommitRun, AbortRun, DeadlockVictim, LockFree, Unlock, saleVars
<1>2. /\ pc'[w] \in {"idle", "retry"}
      /\ \A v \in Workers : v # w => pc'[v] = pc[v]
  <2>1. CASE CommitRun(w) BY <2>1 DEF CommitRun, TypeOK
  <2>2. CASE ~CommitRun(w)
    <3>1. FailRun(w) BY <2>2 DEF BeginMissing, AbortRun, DeadlockVictim
    <3> QED BY <3>1, FailRunOver
  <2> QED BY <2>1, <2>2
<1>3. /\ live'[w] = {} /\ obs'[w] = {}
      /\ \A v \in Workers : v # w => live'[v] = live[v] /\ obs'[v] = obs[v]
  <2>1. CASE BeginMissing(w)
    <3>1. ~InTransaction(w) BY <2>1 DEF BeginMissing, TakeRequest, InTransaction
    <3> QED BY <2>1, <3>1 DEF BeginMissing, WaitInv
  <2>2. CASE ~BeginMissing(w)
    <3>1. ForgetRun(w) BY <2>2 DEF CommitRun, AbortRun, DeadlockVictim
    <3> QED BY <3>1 DEF ForgetRun, TypeOK
  <2> QED BY <2>1, <2>2
<1>4. \A v \in Workers : ~InTransaction(v)' => live'[v] = {} /\ obs'[v] = {}
  BY <1>2, <1>3 DEF WaitInv, InTransaction
<1>5. \A v \in Workers : pc'[v] = "closing" => live'[v] = {}
  BY <1>2, <1>3 DEF WaitInv
<1> QED BY <1>1, <1>4, <1>5, ConstantsAssumption DEF WaitInv

LEMMA RunWaits ==
    ASSUME LedgerInv, WaitInv, NEW w \in Workers,
           RunStep(w) \/ AbortRun(w) \/ DeadlockVictim(w)
    PROVE  WaitInv'
<1> USE DEF LedgerInv
<1>1. ASSUME UNCHANGED <<held, refund>>, InTransaction(w)',
             \A v \in Workers : v # w => pc'[v] = pc[v] /\ live'[v] = live[v] /\ obs'[v] = obs[v],
             lock' = w \/ lock' = lock, pc'[w] = "closing" => live'[w] = {}
      PROVE  WaitInv'
  BY <1>1 DEF WaitInv, InTransaction
<1>2. CASE BeginDeleted(w)
  <2>1. live[w] = {} BY <1>2 DEF BeginDeleted, TakeRequest, InTransaction, WaitInv
  <2> QED BY <1>1, <1>2, <2>1 DEF BeginDeleted, InTransaction, TypeOK, saleVars
<1>3. CASE Begin(w)
  BY <1>1, <1>3 DEF Begin, InTransaction, TypeOK, saleVars
<1>4. CASE ReadVersions(w) \/ SelectObsolete(w)
  BY <1>1, <1>4 DEF ReadVersions, SelectObsolete, InTransaction, TypeOK, saleVars
<1>7. ASSUME NEW i \in Installments, NEW u \in Recipients, UpsertEntry(w, i, u) PROVE WaitInv'
  BY <1>1, <1>7 DEF UpsertEntry, InTransaction, saleVars
<1>8. ASSUME NEW i \in Installments, NEW u \in Recipients, ReplaceEntry(w, i, u) PROVE WaitInv'
  BY <1>1, <1>8 DEF ReplaceEntry, InTransaction, TypeOK, saleVars
<1>5. ASSUME NEW i \in Installments, NEW u \in Recipients, CheckSettled(w, i, u) PROVE WaitInv'
  <2>1. /\ UNCHANGED <<held, refund, lock, live, obs>> /\ pc[w] = "upsert"
        /\ pc' = pc \/ pc' = [pc EXCEPT ![w] = "checked"]
    <3>1. UNCHANGED <<pc, cur>> \/ pc' = [pc EXCEPT ![w] = "checked"]
      BY <1>5, Zenon DEF CheckSettled
    <3> QED BY <1>5, <3>1 DEF CheckSettled, saleVars
  <2> QED BY <1>1, <2>1 DEF InTransaction, TypeOK
<1>6. ASSUME NEW k \in Keys, VoidEntry(w, k) PROVE WaitInv'
  BY <1>1, <1>6 DEF VoidEntry, InTransaction, TypeOK, WaitInv, saleVars
<1> QED BY <1>2, <1>3, <1>4, <1>5, <1>6, <1>7, <1>8, RunEndsWait DEF RunStep

LEMMA WaitNext == LedgerInv /\ WaitInv /\ [Next]_vars => WaitInv'
<1> SUFFICES ASSUME LedgerInv, WaitInv, [Next]_vars PROVE WaitInv'
  OBVIOUS
<1>1. ASSUME UNCHANGED runVars, held' # {} => refund' \in {"updating", "applied"}
      PROVE  WaitInv'
  BY <1>1 DEF WaitInv, InTransaction, runVars
<1>2. CASE SaleStep
  <2>1. UNCHANGED runVars
    BY <1>2 DEF SaleStep, CreateSale, SoftDeleteSale, CommitSale, ReadRefund, StartClawback,
                ClawBackRow, ApplyRefund, CommitRefund, RollbackMutation, RequestRecompute
  <2>2. held' # {} => refund' \in {"updating", "applied"}
    BY <1>2 DEF SaleStep, CreateSale, SoftDeleteSale, CommitSale, ReadRefund, StartClawback,
                ClawBackRow, ApplyRefund, CommitRefund, RollbackMutation, RequestRecompute,
                WaitInv, saleVars
  <2> QED BY <1>1, <2>1, <2>2
<1>3. CASE RuleStep \/ Tick \/ ReleaseAvailableEntries
  BY <1>1, <1>3 DEF RuleStep, CreateRule, UpdateRule, SoftDeleteRule, Tick,
                    ReleaseAvailableEntries, saleVars, WaitInv
<1>4. CASE (\E k \in Keys : MarkPaid(k)) \/ \E j \in Installments : CollectInstallment(j)
  BY <1>1, <1>4 DEF MarkPaid, CollectInstallment, saleVars, WaitInv
<1>5. CASE UNCHANGED vars BY <1>1, <1>5 DEF vars, saleVars, WaitInv
<1> QED BY <1>2, <1>3, <1>4, <1>5, RunWaits DEF Next

\* The two facts hold in every reachable state.
LEMMA WaitInvariant == Spec => []WaitInv
<1>1. Init => WaitInv BY ConstantsAssumption DEF Init, WaitInv, InTransaction
<1> QED BY <1>1, WaitNext, LedgerInvariant, PTL DEF Spec

\* A run that needs a row waits for no other run, and for a refund only while that commits,
\* has a row to take, or is in a circle with this very run, which Postgres breaks; no failure
\* leaves the advisory lock behind: what RunsEnd needs besides fairness.
THEOREM WaitsAreForTheRefund == Spec => []WaitsEnd
<1>1. LedgerInv /\ WaitInv => WaitsEnd
  <2> SUFFICES ASSUME LedgerInv, WaitInv, NEW w \in Workers, NEW k \in Needed(w), LockedFor(w, k)
               PROVE  \/ refund = "applied"
                      \/ /\ refund = "updating"
                         /\ wanted = {} \/ (\E l \in wanted : ~LockedByRun(l)) \/ Circular(w)
    BY DEF WaitsEnd, WaitInv
  <2>1. InTransaction(w)
    <3> SUFFICES ASSUME ~InTransaction(w) PROVE FALSE
      OBVIOUS
    <3>1. Needed(w) = {} BY DEF Needed, InTransaction, WaitInv
    <3> QED BY <3>1
  <2>2. k \in Keys BY DEF Needed, LedgerInv, TypeOK
  <2>3. \A v \in Workers, l \in Keys : Written(v, l) => v = w
    <3> SUFFICES ASSUME NEW v \in Workers, NEW l \in Keys, Written(v, l), v # w PROVE FALSE
      OBVIOUS
    <3>1. buf[v] = NoWrites BY <2>1, OneTransaction DEF LedgerInv, CleanBuf
    <3> QED BY <3>1, CleanView
  <2>4. k \in held BY <2>2, <2>3 DEF LockedFor
  <2>5. refund \in {"updating", "applied"} BY <2>4 DEF WaitInv
  <2>6. ASSUME wanted # {}, \A l \in wanted : LockedByRun(l) PROVE Circular(w)
    <3>1. PICK l \in wanted : TRUE BY <2>6
    <3>2. l \in Keys BY DEF LedgerInv, TypeOK
    <3>3. Written(w, l) BY <2>3, <2>6, <3>1, <3>2 DEF LockedByRun
    <3> QED BY <2>4, <3>1, <3>3 DEF Circular
  <2> QED BY <2>5, <2>6
<1> QED BY <1>1, WaitInvariant, LedgerInvariant, PTL

\* What changes the sale and its installments, and what changes an entry.
LEMMA SaleChanges ==
    ASSUME [Next]_vars
    PROVE  \/ UNCHANGED <<sale, inst>> \/ CommitRefund
           \/ CreateSale \/ SoftDeleteSale \/ CommitSale \/ RollbackMutation
           \/ \E j \in Installments : CollectInstallment(j)
<1>1. ASSUME NEW w \in Workers, RunStep(w) \/ AbortRun(w) \/ DeadlockVictim(w)
      PROVE  UNCHANGED <<sale, inst>>
  BY <1>1 DEF saleVars, RunStep, BeginMissing, BeginDeleted, Begin, ReadVersions, UpsertEntry,
              CheckSettled, ReplaceEntry, SelectObsolete, VoidEntry, CommitRun, AbortRun,
              DeadlockVictim
<1>2. ASSUME \/ ReadRefund \/ StartClawback \/ (\E k \in Keys : ClawBackRow(k))
             \/ ApplyRefund \/ RequestRecompute
      PROVE  UNCHANGED <<sale, inst>>
  BY <1>2 DEF ReadRefund, StartClawback, ClawBackRow, ApplyRefund, RequestRecompute, saleVars
<1>3. CASE RuleStep \/ Tick \/ ReleaseAvailableEntries
  BY <1>3 DEF RuleStep, CreateRule, UpdateRule, SoftDeleteRule, Tick,
              ReleaseAvailableEntries, saleVars
<1>4. ASSUME NEW k \in Keys, MarkPaid(k) PROVE UNCHANGED <<sale, inst>>
  BY <1>4 DEF MarkPaid, saleVars
<1>5. CASE UNCHANGED vars BY <1>5 DEF vars, saleVars
<1> QED BY <1>1, <1>2, <1>3, <1>4, <1>5 DEF Next, SaleStep

\* A full refund is of all installments, and nothing collects one after it.
RefundIsFull == Refunded => \A i \in Installments : inst[i] = "refunded"

LEMMA RefundStep == LedgerInv /\ RefundIsFull /\ [Next]_vars => RefundIsFull'
<1> SUFFICES ASSUME LedgerInv, RefundIsFull, [Next]_vars PROVE RefundIsFull'
  OBVIOUS
<1>1. CASE inst' = inst BY <1>1 DEF RefundIsFull, Refunded
<1>2. CASE CommitRefund BY <1>2 DEF CommitRefund, RefundIsFull
<1>3. ASSUME NEW j \in Installments, CollectInstallment(j) PROVE RefundIsFull'
  <2>1. ~Refunded BY <1>3 DEF CollectInstallment, RefundIsFull
  <2>2. \E x \in {"collected", "failed"} : inst' = [inst EXCEPT ![j] = x]
    BY <1>3 DEF CollectInstallment
  <2>3. ~Refunded' BY <2>1, <2>2 DEF Refunded, LedgerInv, TypeOK
  <2> QED BY <2>3 DEF RefundIsFull
<1>4. CASE CreateSale \/ SoftDeleteSale \/ CommitSale \/ RollbackMutation
  BY <1>1, <1>4 DEF CreateSale, SoftDeleteSale, CommitSale, RollbackMutation
<1> QED BY <1>1, <1>2, <1>3, <1>4, SaleChanges

LEMMA ClosedStays == LedgerInv /\ RefundIsFull /\ Closed /\ [Next]_vars => Closed'
<1> SUFFICES ASSUME LedgerInv, RefundIsFull, Closed, [Next]_vars PROVE Closed'
  OBVIOUS
<1>1. CASE UNCHANGED <<sale, inst>> BY <1>1 DEF Closed, Refunded
<1>2. CASE CommitRefund BY <1>2 DEF CommitRefund, Closed, Refunded
<1>3. ASSUME NEW j \in Installments, CollectInstallment(j) PROVE Closed'
  <2>1. ~Refunded /\ sale' = sale BY <1>3 DEF CollectInstallment, RefundIsFull
  <2> QED BY <2>1 DEF Closed
<1>4. CASE CreateSale \/ SoftDeleteSale \/ CommitSale \/ RollbackMutation
  <2>1. inst' = inst /\ (sale' = sale \/ sale # "deleted")
    BY <1>4 DEF CreateSale, SoftDeleteSale, CommitSale, RollbackMutation
  <2> QED BY <2>1 DEF Closed, Refunded
<1> QED BY <1>1, <1>2, <1>3, <1>4, SaleChanges

\* Only a run that begins gets something to produce, and not of a closed sale.
LEMMA NobodyReadsEarlier ==
    ASSUME LedgerInv, WaitInv, RefundIsFull, Closed, [Next]_vars, NEW w \in Workers,
           ~ReadEarlier(w)
    PROVE  ~ReadEarlier(w)'
<1> USE DEF LedgerInv
<1>1. CASE UNCHANGED runVars BY <1>1 DEF ReadEarlier, InTransaction, runVars
<1>2. ASSUME NEW v \in Workers, Begin(v) PROVE ~ReadEarlier(w)'
  <2>1. Refunded BY <1>2 DEF Begin, Closed
  <2>2. {i \in Installments : inst[i] \notin Terminal} = {}
    BY <2>1 DEF RefundIsFull, Terminal
  <2>3. live' = [live EXCEPT ![v] = {}] /\ pc' = [pc EXCEPT ![v] = "matched"]
    BY <1>2, <2>2 DEF Begin
  <2> QED BY <2>3 DEF ReadEarlier, InTransaction, TypeOK
<1>3. ASSUME NEW v \in Workers,
             \/ ReadVersions(v) \/ SelectObsolete(v)
             \/ \E i \in Installments, u \in Recipients :
                   UpsertEntry(v, i, u) \/ CheckSettled(v, i, u) \/ ReplaceEntry(v, i, u)
      PROVE  ~ReadEarlier(w)'
  <2>1. live' = live /\ InTransaction(v)
    BY <1>3 DEF ReadVersions, UpsertEntry, CheckSettled, ReplaceEntry, SelectObsolete,
                InTransaction
  <2>2. \E x \in {"upsert", "checked", "void"} : pc' = [pc EXCEPT ![v] = x] \/ pc' = pc
    BY <1>3 DEF ReadVersions, UpsertEntry, CheckSettled, ReplaceEntry, SelectObsolete
  <2>3. InTransaction(w)' => InTransaction(w)
    BY <2>1, <2>2 DEF InTransaction, TypeOK
  <2> QED BY <2>1, <2>3 DEF ReadEarlier
<1>4. ASSUME NEW v \in Workers, BeginMissing(v) PROVE ~ReadEarlier(w)'
  <2>1. pc' = [pc EXCEPT ![v] = "retry"] \/ pc' = [pc EXCEPT ![v] = "idle"]
    BY <1>4, Zenon DEF BeginMissing, FailRun
  <2>2. live' = live BY <1>4 DEF BeginMissing
  <2> QED BY <2>1, <2>2 DEF ReadEarlier, InTransaction, TypeOK
<1>9. ASSUME NEW v \in Workers, BeginDeleted(v) PROVE ~ReadEarlier(w)'
  <2>1. live' = live /\ \A x \in Workers : x # v => pc'[x] = pc[x]
    BY <1>9 DEF BeginDeleted, TypeOK
  <2>2. ~InTransaction(v) BY <1>9 DEF BeginDeleted, TakeRequest, InTransaction
  <2>3. live[v] = {} BY <2>2 DEF WaitInv
  <2> QED BY <2>1, <2>3 DEF ReadEarlier, InTransaction
<1>10. ASSUME NEW v \in Workers, NEW k \in Keys, VoidEntry(v, k) PROVE ~ReadEarlier(w)'
  BY <1>10 DEF VoidEntry, ReadEarlier, InTransaction
<1>5. ASSUME NEW v \in Workers, CommitRun(v) \/ AbortRun(v) \/ DeadlockVictim(v)
      PROVE  ~ReadEarlier(w)'
  <2>1. live' = [live EXCEPT ![v] = {}]
    BY <1>5 DEF CommitRun, AbortRun, DeadlockVictim, ForgetRun
  <2>2. CASE v = w BY <2>1, <2>2 DEF ReadEarlier, TypeOK
  <2>3. CASE v # w
    <3>1. pc'[w] = pc[w]
      <4>1. CASE CommitRun(v) BY <2>3, <4>1 DEF CommitRun, TypeOK
      <4>2. CASE ~CommitRun(v)
        <5>1. FailRun(v) BY <1>5, <4>2 DEF AbortRun, DeadlockVictim
        <5> QED BY <2>3, <5>1, FailRunOver
      <4> QED BY <4>1, <4>2
    <3>2. live'[w] = live[w] BY <2>1, <2>3 DEF TypeOK
    <3> QED BY <3>1, <3>2 DEF ReadEarlier, InTransaction
  <2> QED BY <2>2, <2>3
<1>6. CASE SaleStep
  BY <1>1, <1>6 DEF SaleStep, CreateSale, SoftDeleteSale, CommitSale, ReadRefund, StartClawback,
                    ClawBackRow, ApplyRefund, CommitRefund, RollbackMutation, RequestRecompute
<1>7. CASE \/ RuleStep \/ Tick \/ ReleaseAvailableEntries
           \/ (\E k \in Keys : MarkPaid(k)) \/ \E j \in Installments : CollectInstallment(j)
  BY <1>1, <1>7 DEF RuleStep, CreateRule, UpdateRule, SoftDeleteRule, Tick,
                    ReleaseAvailableEntries, MarkPaid, CollectInstallment
<1>8. CASE UNCHANGED vars BY <1>1, <1>8 DEF vars
<1> QED BY <1>2, <1>3, <1>4, <1>5, <1>6, <1>7, <1>8, <1>9, <1>10 DEF Next, RunStep

\* A run that has nothing to produce leaves nothing open.
LEMMA ClosingCommit ==
    ASSUME LedgerInv, NEW w \in Workers, CommitRun(w), ~ReadEarlier(w)
    PROVE  NoOpenEntry'
<1>1. live[w] = {} BY DEF CommitRun, ReadEarlier, InTransaction
<1>2. \A k \in Keys : ent'[k].status \notin Open
  BY <1>1, CommittedOpen DEF Seen
<1> QED BY <1>2 DEF NoOpenEntry

\* Nobody else opens an entry.
LEMMA NothingOpens ==
    ASSUME LedgerInv, NoOpenEntry, \A w \in Workers : ~ReadEarlier(w), [Next]_vars
    PROVE  NoOpenEntry'
<1>1. CASE ent' = ent BY <1>1 DEF NoOpenEntry
<1>2. \A k \in Keys : ent[k] \in Row BY DEF LedgerInv, TypeOK
<1>3. CASE CommitRefund BY <1>2, <1>3 DEF CommitRefund, NoOpenEntry, Open, Row
<1>4. CASE ReleaseAvailableEntries
  BY <1>4 DEF ReleaseAvailableEntries, Releasable, NoOpenEntry, Open
<1>5. ASSUME NEW k \in Keys, MarkPaid(k) PROVE FALSE
  BY <1>5 DEF MarkPaid, NoOpenEntry, Open
<1> QED BY <1>1, <1>3, <1>4, <1>5, EntryChanges, ClosingCommit

\* At the commit of one run no other is in its transaction.
LEMMA OthersAreOut ==
    ASSUME LedgerInv, NEW w \in Workers, CommitRun(w), ~ReadEarlier(w), NEW v \in Workers
    PROVE  ~ReadEarlier(v)
<1>1. InTransaction(w) BY DEF CommitRun, InTransaction
<1> QED BY <1>1, OneTransaction DEF ReadEarlier, LedgerInv

\* A sale that is deleted or refunded, once settled, is settled for good, and the first run
\* that reads it so settles it, however runs, retries, edits, releases and payouts overlap:
\* what ClosedSaleSettles needs besides fairness.
THEOREM ClosedSalesStaySettled == Spec => ClosingSettles
<1> DEFINE Settles == /\ SettledForGood => SettledForGood'
                      /\ \A w \in Workers :
                            Closed /\ CommitRun(w) /\ ~ReadEarlier(w)
                                => SettledForGood'
<1>1. ASSUME LedgerInv, WaitInv, RefundIsFull, [Next]_vars PROVE Settles
  <2>1. ASSUME SettledForGood PROVE SettledForGood'
    BY <1>1, <2>1, ClosedStays, NothingOpens, NobodyReadsEarlier DEF SettledForGood
  <2>2. ASSUME NEW w \in Workers, Closed, CommitRun(w), ~ReadEarlier(w)
        PROVE  SettledForGood'
    <3>1. NoOpenEntry' BY <1>1, <2>2, ClosingCommit
    <3>2. \A v \in Workers : ~ReadEarlier(v)' BY <1>1, <2>2, OthersAreOut, NobodyReadsEarlier
    <3> QED BY <1>1, <2>2, <3>1, <3>2, ClosedStays DEF SettledForGood
  <2> QED BY <2>1, <2>2
<1>2. Init => RefundIsFull BY DEF Init, RefundIsFull, Refunded
<1>3. LedgerInv /\ WaitInv /\ RefundIsFull /\ [Next]_vars => [Settles]_vars BY <1>1
<1> QED BY <1>2, <1>3, RefundStep, WaitInvariant, LedgerInvariant, PTL DEF Spec, ClosingSettles
===============================================================================
