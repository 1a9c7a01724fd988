-------------------------- MODULE WorkspaceSetupProofs --------------------------
(* What holds of a workspace's people and taxonomies for any presets and any number of
   persons, tabs, edits and switches.                                               *)
EXTENDS WorkspaceSetup, TLAPS

Snapshot == [label : 0..1, share : 0..1]
Invitation == [state : {"none", "pending", "accepted", "revoked", "expired"},
               access : Access, roles : SUBSET AllRows]
Member == [state : {"none", "live", "removed"}, access : Access]
Operations == {"idle", "invite", "update", "row", "switch", "deleting", "seed", "seeded users"}
Tx == [op : Operations, person : Persons, access : Access, desired : SUBSET AllRows,
       row : AllRows \cup {NoRow}, read : Snapshot, preset : Presets, seed : 0..MaxSwitches,
       seen : SUBSET AllRows]

PeopleTyped ==
    /\ account \in [Persons -> {"none", "joined", "elsewhere", "stranded"}]
    /\ invitation \in [Persons -> Invitation]
    /\ member \in [Persons -> Member]
    /\ held \in [Persons -> SUBSET roles] /\ dropped \in [Persons -> SUBSET roles]
    /\ crossed \subseteq Persons

TaxonomyTyped ==
    /\ preset \in Presets /\ roles \subseteq AllRows /\ stages \subseteq AllRows
    /\ current \in [AllRows -> Snapshot] /\ versions \in [AllRows -> Seq(Snapshot)]
    /\ dispositions \in BOOLEAN /\ mixed \in BOOLEAN

RestTyped ==
    /\ activity \in BOOLEAN /\ demo \in {"none", "users", "records"}
    /\ wizard \in [Tabs -> [step : 0..3, shown : Presets]]
    /\ edits \in Nat /\ switches \in 0..MaxSwitches /\ failures \in Nat

(* Updates are of members, or the removal has been noted.                            *)
UpdatesOfMembers ==
    \A t \in Tabs : tx[t].op = "update" /\ tx[t].person \notin crossed => Live(tx[t].person)

(* One switch at a time, and it has seen all the roles there are, or the mix is noted. *)
SwitchesAlone ==
    \/ mixed
    \/ /\ \A t, v \in Tabs : Switching(t) /\ Switching(v) => t = v
       /\ \A t \in Tabs : tx[t].op = "deleting" => tx[t].seen = roles

(* RowIsLatestVersion, of the rows that are yet to be seeded too.                     *)
VersionsFollow ==
    \A r \in AllRows : Len(versions[r]) > 0 /\ versions[r][Len(versions[r])] = current[r]

SetupInv ==
    /\ PeopleTyped /\ TaxonomyTyped /\ RestTyped /\ tx \in [Tabs -> Tx]
    /\ UpdatesOfMembers /\ HeldByMembers
    /\ SwitchesAlone /\ RolesOfOnePreset /\ VersionsFollow

-------------------------------------------------------------------------------
(* Data.                                                                       *)

LEMMA PatchIsTyped ==
    ASSUME NEW r \in Snapshot, NEW patch \in {"label", "share"}
    PROVE  [r EXCEPT ![patch] = 1 - @] \in Snapshot
<1>1. CASE patch = "label"
  <2>1. [r EXCEPT ![patch] = 1 - @] = [r EXCEPT !.label = 1 - @]
    BY <1>1
  <2>2. QED
    BY <2>1 DEF Snapshot
<1>2. CASE patch = "share"
  <2>1. [r EXCEPT ![patch] = 1 - @] = [r EXCEPT !.share = 1 - @]
    BY <1>2
  <2>2. QED
    BY <2>1 DEF Snapshot
<1>3. QED
  BY <1>1, <1>2

\* What a preset seeds are rows, and their slugs are the preset's.
LEMMA SeededRows ==
    ASSUME NEW p \in Presets, NEW n \in 0..MaxSwitches
    PROVE  /\ RoleRows(p, n) \subseteq AllRows /\ StageRows(p, n) \subseteq AllRows
           /\ Slugs(RoleRows(p, n)) = RolesOf(p)
<1> DEFINE S == {RoleRows(q, k) \cup StageRows(q, k) : q \in Presets, k \in 0..MaxSwitches}
<1>1. RoleRows(p, n) \cup StageRows(p, n) \in S
  OBVIOUS
<1>2. AllRows = UNION S
  BY DEF AllRows
<1> HIDE DEF S
<1>3. RoleRows(p, n) \subseteq AllRows /\ StageRows(p, n) \subseteq AllRows
  BY <1>1, <1>2
<1>4. ASSUME NEW s \in RolesOf(p)
      PROVE  s \in Slugs(RoleRows(p, n))
  <2>1. Row("role", s, n) \in RoleRows(p, n)
    BY DEF RoleRows
  <2>2. Row("role", s, n).slug = s
    BY DEF Row
  <2>3. QED
    BY <2>1, <2>2 DEF Slugs
<1>5. ASSUME NEW s \in Slugs(RoleRows(p, n))
      PROVE  s \in RolesOf(p)
  <2>1. PICK r \in RoleRows(p, n) : s = r.slug
    BY DEF Slugs
  <2>2. PICK x \in RolesOf(p) : r = Row("role", x, n)
    BY <2>1 DEF RoleRows
  <2>3. QED
    BY <2>1, <2>2 DEF Row
<1>6. QED
  BY <1>3, <1>4, <1>5

LEMMA IdleIsTyped ==
    /\ Idle \in Tx /\ Idle.op = "idle" /\ Fresh \in Snapshot
    /\ MaxSwitches \in Nat /\ 0 \in 0..MaxSwitches
  BY SetupAssumption DEF Idle, Tx, Operations, Access, Fresh, Snapshot

-------------------------------------------------------------------------------
(* Steps by what they write.                                                   *)

\* A transaction that goes on or gives up, counters, the wizard and the sample data.
LEMMA TxMoves ==
    ASSUME SetupInv, NEW t \in Tabs, NEW x \in Tx, tx' = [tx EXCEPT ![t] = x], RestTyped',
           UNCHANGED people, UNCHANGED <<preset, roles, stages, current, versions, dispositions>>,
           mixed' \in BOOLEAN, mixed => mixed',
           x.op = "update" => Live(x.person),
           x.op \in {"switch", "deleting"} /\ ~ mixed' =>
               \A v \in Tabs \ {t} : ~ Switching(v),
           x.op = "deleting" /\ ~ mixed' => x.seen = roles
    PROVE  SetupInv'
<1>1. tx' \in [Tabs -> Tx] /\ tx'[t] = x /\ \A v \in Tabs \ {t} : tx'[v] = tx[v]
  BY DEF SetupInv
<1>2. PeopleTyped' /\ TaxonomyTyped'
  BY DEF SetupInv, PeopleTyped, TaxonomyTyped, people
<1>3. UpdatesOfMembers' /\ HeldByMembers'
  BY <1>1 DEF SetupInv, UpdatesOfMembers, HeldByMembers, Live, people
<1>4. SwitchesAlone'
  BY <1>1 DEF SetupInv, SwitchesAlone, Switching
<1>5. RolesOfOnePreset' /\ VersionsFollow'
  BY DEF SetupInv, RolesOfOnePreset, VersionsFollow, Slugs
<1>6. QED
  BY <1>1, <1>2, <1>3, <1>4, <1>5 DEF SetupInv

LEMMA RestMoves ==
    ASSUME SetupInv, UNCHANGED <<people, taxonomy, tx>>, RestTyped'
    PROVE  SetupInv'
<1>1. PeopleTyped' /\ TaxonomyTyped'
  BY DEF SetupInv, PeopleTyped, TaxonomyTyped, people, taxonomy
<1>2. UpdatesOfMembers' /\ HeldByMembers' /\ SwitchesAlone'
  BY DEF SetupInv, UpdatesOfMembers, HeldByMembers, SwitchesAlone, Switching, Live, people, taxonomy
<1>3. RolesOfOnePreset' /\ VersionsFollow'
  BY DEF SetupInv, RolesOfOnePreset, VersionsFollow, Slugs, taxonomy
<1>4. QED
  BY <1>1, <1>2, <1>3 DEF SetupInv, taxonomy

\* A write to people: members are not removed without it being noted.
LEMMA PeopleWritten ==
    ASSUME SetupInv, PeopleTyped', RestTyped', UNCHANGED taxonomy,
           tx' = tx \/ \E t \in Tabs : tx' = [tx EXCEPT ![t] = Idle],
           crossed \subseteq crossed', HeldByMembers',
           \A p \in Persons : Live(p) => \/ Live(p)'
                                         \/ p \in crossed'
                                         \/ \A t \in Tabs : tx[t].op = "update" => tx[t].person # p
    PROVE  SetupInv'
<1>1. tx' \in [Tabs -> Tx] /\ \A v \in Tabs : tx'[v] = tx[v] \/ tx'[v] = Idle
  BY IdleIsTyped DEF SetupInv
<1>2. TaxonomyTyped' /\ RolesOfOnePreset' /\ VersionsFollow'
  BY DEF SetupInv, TaxonomyTyped, RolesOfOnePreset, VersionsFollow, Slugs, taxonomy
<1>3. UpdatesOfMembers'
  <2>1. SUFFICES ASSUME NEW v \in Tabs, tx'[v].op = "update", tx'[v].person \notin crossed'
                 PROVE  member'[tx'[v].person].state = "live"
    BY DEF UpdatesOfMembers, Live
  <2>2. tx'[v] = tx[v] /\ tx[v].person \in Persons
    BY <1>1, <2>1, IdleIsTyped DEF SetupInv, Tx
  <2>3. Live(tx[v].person)
    BY <2>1, <2>2 DEF SetupInv, UpdatesOfMembers
  <2>4. QED
    BY <2>1, <2>2, <2>3 DEF Live
<1>4. SwitchesAlone'
  BY <1>1, IdleIsTyped DEF SetupInv, SwitchesAlone, Switching, taxonomy
<1>5. QED
  BY <1>1, <1>2, <1>3, <1>4 DEF SetupInv

-------------------------------------------------------------------------------
(* Transactions.                                                               *)

LEMMA RestCounted ==
    ASSUME SetupInv, UNCHANGED <<sample, wizard>>,
           counters' = counters \/ \E t \in Tabs : Edit(t)
    PROVE  RestTyped'
<1>1. edits' \in Nat /\ switches' = switches /\ failures' = failures
  BY DEF SetupInv, RestTyped, Edit, counters
<1>2. QED
  BY <1>1 DEF SetupInv, RestTyped, sample

LEMMA AbortKeeps ==
    ASSUME SetupInv, NEW t \in Tabs, Abort(t)
    PROVE  SetupInv'
<1>1. /\ tx' = [tx EXCEPT ![t] = Idle] /\ UNCHANGED people /\ UNCHANGED taxonomy
      /\ UNCHANGED <<sample, wizard>> /\ counters' = counters
  BY DEF Abort
<1>2. RestTyped'
  BY <1>1, RestCounted
<1>3. mixed' \in BOOLEAN /\ (mixed => mixed')
  BY <1>1 DEF SetupInv, TaxonomyTyped, taxonomy
<1>4. QED
  BY <1>1, <1>2, <1>3, IdleIsTyped, TxMoves DEF taxonomy

\* What a page begins reads what is there.
LEMMA BeginKeeps ==
    ASSUME SetupInv, NEW t \in Tabs, NEW x \in Tx, Begin(t, x),
           x.op \in {"invite", "update", "row"}, x.op = "update" => Live(x.person),
           UNCHANGED <<people, taxonomy, sample, wizard>>
    PROVE  SetupInv'
<1>1. tx' = [tx EXCEPT ![t] = x] /\ Edit(t) /\ UNCHANGED people /\ UNCHANGED taxonomy
  BY DEF Begin
<1>2. RestTyped'
  BY <1>1, RestCounted
<1>3. mixed' \in BOOLEAN /\ (mixed => mixed')
  BY <1>1 DEF SetupInv, TaxonomyTyped, taxonomy
<1>4. QED
  BY <1>1, <1>2, <1>3, TxMoves DEF taxonomy

LEMMA PagesBegin ==
    ASSUME SetupInv, NEW t \in Tabs,
           \/ \E p \in Persons, access \in Access, chosen \in SUBSET roles :
                  BeginInvite(t, p, access, chosen) \/ BeginUpdateMember(t, p, access, chosen)
           \/ \E r \in roles \cup stages : BeginUpdateRow(t, r)
    PROVE  SetupInv'
<1>1. roles \subseteq AllRows /\ stages \subseteq AllRows /\ current \in [AllRows -> Snapshot]
  BY DEF SetupInv, TaxonomyTyped
<1>2. ASSUME NEW p \in Persons, NEW access \in Access, NEW chosen \in SUBSET roles,
             BeginInvite(t, p, access, chosen)
      PROVE  SetupInv'
  <2> DEFINE x == [Idle EXCEPT !.op = "invite", !.person = p, !.access = access,
                               !.desired = chosen]
  <2>1. x \in Tx /\ x.op = "invite"
    BY <1>1, IdleIsTyped DEF Tx, Operations
  <2>2. Begin(t, x) /\ UNCHANGED <<people, taxonomy, sample, wizard>>
    BY <1>2 DEF BeginInvite
  <2> HIDE DEF x
  <2>3. QED
    BY <2>1, <2>2, BeginKeeps
<1>3. ASSUME NEW p \in Persons, NEW access \in Access, NEW chosen \in SUBSET roles,
             BeginUpdateMember(t, p, access, chosen)
      PROVE  SetupInv'
  <2> DEFINE x == [Idle EXCEPT !.op = "update", !.person = p, !.access = access,
                               !.desired = chosen]
  <2>1. x \in Tx /\ x.op = "update" /\ x.person = p
    BY <1>1, IdleIsTyped DEF Tx, Operations
  <2>2. Begin(t, x) /\ Live(p) /\ UNCHANGED <<people, taxonomy, sample, wizard>>
    BY <1>3 DEF BeginUpdateMember
  <2> HIDE DEF x
  <2>3. QED
    BY <2>1, <2>2, BeginKeeps
<1>4. ASSUME NEW r \in roles \cup stages, BeginUpdateRow(t, r)
      PROVE  SetupInv'
  <2> DEFINE x == [Idle EXCEPT !.op = "row", !.row = r, !.read = current[r]]
  <2>1. current[r] \in Snapshot /\ r \in AllRows
    BY <1>1
  <2>2. x \in Tx /\ x.op = "row"
    BY <2>1, IdleIsTyped DEF Tx, Operations
  <2>3. Begin(t, x) /\ UNCHANGED <<people, taxonomy, sample, wizard>>
    BY <1>4 DEF BeginUpdateRow
  <2> HIDE DEF x
  <2>4. QED
    BY <2>2, <2>3, BeginKeeps
<1>5. QED
  BY <1>2, <1>3, <1>4

LEMMA BeginApplyKeeps ==
    ASSUME SetupInv, NEW t \in Tabs, NEW p \in Presets, BeginApply(t, p)
    PROVE  SetupInv'
<1> DEFINE x == [Idle EXCEPT !.op = "switch", !.preset = p, !.seed = switches + 1]
<1>1. switches \in 0..MaxSwitches /\ switches < MaxSwitches /\ switches + 1 \in 0..MaxSwitches
  BY IdleIsTyped DEF SetupInv, RestTyped, BeginApply
<1>2. x \in Tx /\ x.op = "switch"
  BY <1>1, IdleIsTyped DEF Tx, Operations
<1>3. /\ tx' = [tx EXCEPT ![t] = x] /\ switches' = switches + 1
      /\ mixed' = (mixed \/ \E v \in Tabs : Switching(v))
      /\ UNCHANGED <<preset, roles, stages, current, versions, dispositions>>
      /\ UNCHANGED people /\ UNCHANGED <<activity, demo, wizard, edits, failures>>
  BY DEF BeginApply, sample
<1>4. RestTyped'
  BY <1>1, <1>3 DEF SetupInv, RestTyped
<1> HIDE DEF x
<1>5. mixed' \in BOOLEAN /\ (mixed => mixed')
  BY <1>3 DEF SetupInv, TaxonomyTyped
<1>6. QED
  BY <1>2, <1>3, <1>4, <1>5, TxMoves

LEMMA DeleteTaxonomiesKeeps ==
    ASSUME SetupInv, NEW t \in Tabs, DeleteTaxonomies(t)
    PROVE  SetupInv'
<1> DEFINE x == [tx[t] EXCEPT !.op = "deleting", !.seen = roles]
<1>1. tx[t] \in Tx /\ tx[t].op = "switch" /\ roles \subseteq AllRows
  BY DEF SetupInv, TaxonomyTyped, DeleteTaxonomies
<1>2. x \in Tx /\ x.op = "deleting" /\ x.seen = roles
  BY <1>1 DEF Tx, Operations
<1>3. /\ tx' = [tx EXCEPT ![t] = x] /\ UNCHANGED people /\ UNCHANGED taxonomy
      /\ UNCHANGED <<sample, wizard>> /\ counters' = counters
  BY DEF DeleteTaxonomies
<1>4. RestTyped'
  BY <1>3, RestCounted
<1>5. mixed' \in BOOLEAN /\ mixed' = mixed
  BY <1>3 DEF SetupInv, TaxonomyTyped, taxonomy
<1>6. ~ mixed => \A v \in Tabs \ {t} : ~ Switching(v)
  BY <1>1 DEF SetupInv, SwitchesAlone, Switching
<1> HIDE DEF x
<1>7. UNCHANGED <<preset, roles, stages, current, versions, dispositions>>
  BY <1>3 DEF taxonomy
<1>8. x \in Tx /\ x.op # "update"
  BY <1>2
<1>9. QED
  BY <1>2, <1>3, <1>4, <1>5, <1>6, <1>7, <1>8, TxMoves

LEMMA WizardKeeps ==
    ASSUME SetupInv, NEW t \in Tabs,
           \/ OpenWizard(t) \/ Step(t)
           \/ \E p \in Presets : ContinueStep1(t, p) \/ AlreadyApplied(t, p)
    PROVE  SetupInv'
<1>1. /\ wizard \in [Tabs -> [step : 0..3, shown : Presets]] /\ preset \in Presets
      /\ wizard[t].step \in 0..3 /\ wizard[t].shown \in Presets
  BY DEF SetupInv, RestTyped, TaxonomyTyped
<1>2. ASSUME NEW n \in 0..3, NEW shown \in Presets,
             wizard' = [wizard EXCEPT ![t] = [step |-> n, shown |-> shown]],
             UNCHANGED <<people, taxonomy, sample, tx>>, counters' = counters \/ Edit(t)
      PROVE  SetupInv'
  <2>1. wizard' \in [Tabs -> [step : 0..3, shown : Presets]]
    BY <1>1, <1>2
  <2>2. edits' \in Nat /\ switches' = switches /\ failures' = failures
    BY <1>2 DEF SetupInv, RestTyped, Edit, counters
  <2>3. RestTyped'
    BY <1>2, <2>1, <2>2 DEF SetupInv, RestTyped, sample
  <2>4. QED
    BY <1>2, <2>3, RestMoves
<1>3. ASSUME NEW n \in 0..3, wizard' = [wizard EXCEPT ![t].step = n],
             UNCHANGED <<people, taxonomy, sample, tx, counters>>
      PROVE  SetupInv'
  <2>1. [wizard[t] EXCEPT !.step = n] = [step |-> n, shown |-> wizard[t].shown]
    BY <1>1
  <2>2. wizard' = [wizard EXCEPT ![t] = [step |-> n, shown |-> wizard[t].shown]]
    BY <1>3, <2>1
  <2>3. QED
    BY <1>1, <1>2, <1>3, <2>2
<1>4. CASE OpenWizard(t)
  <2>1. /\ wizard' = [wizard EXCEPT ![t] = [step |-> 1, shown |-> preset]] /\ Edit(t)
        /\ UNCHANGED <<people, taxonomy, sample, tx>>
    BY <1>4 DEF OpenWizard
  <2>2. 1 \in 0..3
    OBVIOUS
  <2>3. QED
    BY <1>1, <1>2, <2>1, <2>2
<1>5. CASE Step(t)
  <2>1. CASE wizard[t].step = 2 /\ wizard' = [wizard EXCEPT ![t].step = 3]
    BY <1>3, <1>5, <2>1 DEF Step
  <2>2. CASE wizard[t].step > 1 /\ wizard' = [wizard EXCEPT ![t].step = @ - 1]
    <3>1. wizard[t].step - 1 \in 0..3
      BY <1>1, <2>2
    <3>2. QED
      BY <1>3, <1>5, <2>2, <3>1 DEF Step
  <2>3. CASE wizard' = [wizard EXCEPT ![t] = Closed]
    <3>1. wizard' = [wizard EXCEPT ![t] = [step |-> 0, shown |-> FirstPreset]]
      BY <2>3 DEF Closed
    <3>2. UNCHANGED <<people, taxonomy, sample, tx>> /\ counters' = counters
      BY <1>5 DEF Step
    <3>3. 0 \in 0..3 /\ FirstPreset \in Presets
      BY SetupAssumption
    <3>4. QED
      BY <1>2, <3>1, <3>2, <3>3
  <2>4. QED
    BY <1>5, <2>1, <2>2, <2>3 DEF Step
<1>6. ASSUME NEW p \in Presets, ContinueStep1(t, p) \/ AlreadyApplied(t, p)
      PROVE  SetupInv'
  <2>1. CASE BeginApply(t, p)
    BY <2>1, BeginApplyKeeps
  <2>2. CASE /\ wizard' = [wizard EXCEPT ![t].step = 2]
             /\ UNCHANGED <<people, taxonomy, sample, tx, counters>>
    BY <1>3, <2>2
  <2>3. QED
    BY <1>6, <2>1, <2>2 DEF ContinueStep1, AlreadyApplied
<1>7. QED
  BY <1>4, <1>5, <1>6

LEMMA SeedKeeps ==
    ASSUME SetupInv, NEW t \in Tabs, SeedDemo(t)
    PROVE  SetupInv'
<1>1. tx \in [Tabs -> Tx] /\ tx[t] \in Tx
  BY DEF SetupInv
<1>2. PICK x \in Tx : /\ tx' = tx \/ tx' = [tx EXCEPT ![t] = x]
                      /\ x.op \in {"idle", "seed", "seeded users"}
  <2>1. ASSUME NEW op \in {"seed", "seeded users"}
        PROVE  /\ [Idle EXCEPT !.op = op] \in Tx /\ [Idle EXCEPT !.op = op].op = op
               /\ [tx[t] EXCEPT !.op = op] \in Tx /\ [tx[t] EXCEPT !.op = op].op = op
    BY <1>1, IdleIsTyped DEF Tx, Operations
  <2>2. CASE SeedWipes(t)
    <3> DEFINE y == [Idle EXCEPT !.op = "seed"]
    <3>1. y \in Tx /\ y.op = "seed"
      BY <2>1
    <3>2. tx' = tx \/ tx' = [tx EXCEPT ![t] = y]
      BY <2>2 DEF SeedWipes
    <3> HIDE DEF y
    <3>3. QED
      BY <3>1, <3>2
  <2>3. CASE SeedUsers(t)
    <3> DEFINE y == [tx[t] EXCEPT !.op = "seeded users"]
    <3>1. y \in Tx /\ y.op = "seeded users"
      BY <2>1
    <3>2. tx' = [tx EXCEPT ![t] = y]
      BY <2>3 DEF SeedUsers
    <3> HIDE DEF y
    <3>3. QED
      BY <3>1, <3>2
  <2>4. CASE SeedRecords(t) \/ SeedCutOff(t)
    <3>1. tx' = [tx EXCEPT ![t] = Idle]
      BY <2>4 DEF SeedRecords, SeedCutOff, Finish
    <3>2. QED
      BY <3>1, IdleIsTyped
  <2>5. QED
    BY <2>2, <2>3, <2>4 DEF SeedDemo
<1>3. RestTyped'
  <2>1. CASE SeedCutOff(t)
    <3>1. /\ failures' = failures + 1 /\ UNCHANGED <<activity, demo>>
          /\ UNCHANGED <<wizard, edits, switches>>
      BY <2>1 DEF SeedCutOff, sample
    <3>2. QED
      BY <3>1 DEF SetupInv, RestTyped
  <2>2. CASE SeedWipes(t) \/ SeedUsers(t) \/ SeedRecords(t)
    <3>1. /\ activity' \in BOOLEAN /\ demo' \in {"none", "users", "records"}
          /\ wizard' = wizard /\ UNCHANGED counters
      BY <2>2 DEF SetupInv, RestTyped, SeedWipes, SeedUsers, SeedRecords
    <3>2. UNCHANGED <<edits, switches, failures>>
      BY <3>1 DEF counters
    <3>3. QED
      BY <3>1, <3>2 DEF SetupInv, RestTyped
  <2>3. QED
    BY <2>1, <2>2 DEF SeedDemo
<1>4. UNCHANGED people /\ UNCHANGED taxonomy
  BY DEF SeedDemo, SeedWipes, SeedUsers, SeedRecords, SeedCutOff
<1>5. /\ mixed' \in BOOLEAN /\ (mixed => mixed')
      /\ UNCHANGED <<preset, roles, stages, current, versions, dispositions>>
  BY <1>4 DEF SetupInv, TaxonomyTyped, taxonomy
<1>6. CASE tx' = tx
  BY <1>3, <1>4, <1>6, RestMoves
<1>7. CASE tx' = [tx EXCEPT ![t] = x]
  <2>1. x.op # "update" /\ x.op \notin {"switch", "deleting"}
    BY <1>2
  <2>2. QED
    BY <1>2, <1>3, <1>4, <1>5, <1>7, <2>1, TxMoves
<1>8. QED
  BY <1>2, <1>6, <1>7

LEMMA FirstCallKeeps ==
    ASSUME SetupInv, FirstCall
    PROVE  SetupInv'
<1>1. /\ activity' = TRUE /\ UNCHANGED <<people, taxonomy, tx>>
      /\ UNCHANGED <<demo, wizard>> /\ UNCHANGED <<edits, switches, failures>>
  BY DEF FirstCall, counters
<1>2. RestTyped'
  BY <1>1 DEF SetupInv, RestTyped
<1>3. QED
  BY <1>1, <1>2, RestMoves

-------------------------------------------------------------------------------
(* The team.                                                                   *)

\* The sample, the wizard and the taxonomies are not the team's.
LEMMA TeamRest ==
    ASSUME SetupInv, UNCHANGED <<taxonomy, sample, wizard>>,
           counters' = counters \/ \E t \in Tabs : Edit(t)
    PROVE  RestTyped' /\ UNCHANGED taxonomy /\ roles' = roles
<1>1. UNCHANGED <<sample, wizard>> /\ UNCHANGED taxonomy /\ roles' = roles
  BY DEF taxonomy
<1>2. QED
  BY <1>1, RestCounted

LEMMA InvitationWritten ==
    ASSUME SetupInv, NEW p \in Persons, NEW row \in Invitation,
           invitation' = [invitation EXCEPT ![p] = row],
           UNCHANGED <<account, member, held, dropped, crossed>>,
           UNCHANGED <<taxonomy, sample, wizard>>,
           counters' = counters \/ \E t \in Tabs : Edit(t),
           tx' = tx \/ \E t \in Tabs : tx' = [tx EXCEPT ![t] = Idle]
    PROVE  SetupInv'
<1>1. RestTyped' /\ UNCHANGED taxonomy /\ roles' = roles
  BY TeamRest
<1>2. invitation' \in [Persons -> Invitation]
  BY DEF SetupInv, PeopleTyped
<1>3. PeopleTyped' /\ HeldByMembers' /\ \A q \in Persons : Live(q) => Live(q)'
  BY <1>1, <1>2 DEF SetupInv, PeopleTyped, HeldByMembers, Live
<1>4. QED
  BY <1>1, <1>3, PeopleWritten

LEMMA CommitInviteKeeps ==
    ASSUME SetupInv, NEW t \in Tabs, CommitInvite(t)
    PROVE  SetupInv'
<1> DEFINE row == [state |-> "pending", access |-> tx[t].access, roles |-> tx[t].desired]
<1>1. tx[t] \in Tx
  BY DEF SetupInv
<1>2. row \in Invitation /\ tx[t].person \in Persons
  BY <1>1 DEF Tx, Invitation
<1>3. /\ invitation' = [invitation EXCEPT ![tx[t].person] = row]
      /\ tx' = [tx EXCEPT ![t] = Idle] /\ counters' = counters
      /\ UNCHANGED <<account, member, held, dropped, crossed>>
      /\ UNCHANGED <<taxonomy, sample, wizard>>
  BY DEF CommitInvite, Finish
<1> HIDE DEF row
<1>4. QED
  BY <1>2, <1>3, InvitationWritten

LEMMA InvitationEnds ==
    ASSUME SetupInv, NEW p \in Persons,
           Expires(p) \/ \E t \in Tabs : RevokeInvitation(t, p)
    PROVE  SetupInv'
<1>1. invitation \in [Persons -> Invitation]
  BY DEF SetupInv, PeopleTyped
<1>2. PICK s \in {"revoked", "expired"} : invitation' = [invitation EXCEPT ![p].state = s]
  BY DEF Expires, RevokeInvitation
<1> DEFINE row == [invitation[p] EXCEPT !.state = s]
<1>3. row \in Invitation
  BY <1>1 DEF Invitation
<1>4. invitation' = [invitation EXCEPT ![p] = row]
  BY <1>2
<1>5. /\ UNCHANGED <<account, member, held, dropped, crossed>> /\ tx' = tx
      /\ UNCHANGED <<taxonomy, sample, wizard>>
      /\ counters' = counters \/ \E t \in Tabs : Edit(t)
  BY DEF Expires, RevokeInvitation
<1> HIDE DEF row
<1>6. QED
  BY <1>3, <1>4, <1>5, InvitationWritten

LEMMA RemoveMemberKeeps ==
    ASSUME SetupInv, NEW t \in Tabs, NEW p \in Persons, RemoveMember(t, p)
    PROVE  SetupInv'
<1>1. RestTyped' /\ UNCHANGED taxonomy /\ roles' = roles /\ tx' = tx
  <2>1. UNCHANGED <<taxonomy, sample, wizard>> /\ Edit(t) /\ tx' = tx
    BY DEF RemoveMember
  <2>2. QED
    BY <2>1, TeamRest
<1>2. /\ member \in [Persons -> Member] /\ held \in [Persons -> SUBSET roles]
      /\ dropped \in [Persons -> SUBSET roles] /\ crossed \subseteq Persons
  BY DEF SetupInv, PeopleTyped
<1> DEFINE row == [member[p] EXCEPT !.state = "removed"]
<1>3. row \in Member
  BY <1>2 DEF Member
<1>4. /\ member' = [member EXCEPT ![p] = row] /\ held' = [held EXCEPT ![p] = {}]
      /\ dropped' = [dropped EXCEPT ![p] = @ \cup held[p]]
      /\ crossed' = crossed \cup {q \in {p} : \E v \in Tabs : tx[v].op = "update"
                                                             /\ tx[v].person = q}
      /\ UNCHANGED <<account, invitation>>
  BY DEF RemoveMember
<1> HIDE DEF row
<1>5. PeopleTyped'
  BY <1>1, <1>2, <1>3, <1>4 DEF SetupInv, PeopleTyped
<1>6. /\ \A q \in Persons \ {p} : member'[q] = member[q] /\ held'[q] = held[q]
      /\ held'[p] = {} /\ crossed \subseteq crossed'
  BY <1>2, <1>4
<1>7. HeldByMembers'
  BY <1>6 DEF SetupInv, HeldByMembers, Live
<1>8. \A q \in Persons : Live(q) => \/ Live(q)'
                                    \/ q \in crossed'
                                    \/ \A v \in Tabs : tx[v].op = "update" => tx[v].person # q
  BY <1>4, <1>6 DEF Live
<1>9. QED
  BY <1>1, <1>5, <1>6, <1>7, <1>8, PeopleWritten

\* What an update assigns goes to a member, or the removal in between has been noted.
LEMMA CommitUpdateMemberKeeps ==
    ASSUME SetupInv, NEW t \in Tabs, CommitUpdateMember(t)
    PROVE  SetupInv'
<1> DEFINE p == tx[t].person
           new == tx[t].desired \ held[p]
           row == [member[p] EXCEPT !.access = tx[t].access]
<1>1. RestTyped' /\ UNCHANGED taxonomy /\ roles' = roles /\ tx' = [tx EXCEPT ![t] = Idle]
  <2>1. UNCHANGED <<taxonomy, sample, wizard>> /\ counters' = counters
    BY DEF CommitUpdateMember
  <2>2. tx' = [tx EXCEPT ![t] = Idle]
    BY DEF CommitUpdateMember, Finish
  <2>3. QED
    BY <2>1, <2>2, TeamRest
<1>2. /\ tx[t] \in Tx /\ p \in Persons /\ tx[t].op = "update" /\ new \subseteq roles
  BY DEF SetupInv, Tx, CommitUpdateMember, Finish
<1>3. /\ member \in [Persons -> Member] /\ held \in [Persons -> SUBSET roles]
      /\ dropped \in [Persons -> SUBSET roles]
  BY DEF SetupInv, PeopleTyped
<1>4. row \in Member /\ row.state = member[p].state
  BY <1>2, <1>3 DEF Tx, Member
<1>5. /\ member' = [member EXCEPT ![p] = row]
      /\ held' = [held EXCEPT ![p] = (@ \cap tx[t].desired) \cup (new \ dropped[p])]
      /\ dropped' = [dropped EXCEPT ![p] = @ \cup (held[p] \ tx[t].desired)]
      /\ UNCHANGED <<account, invitation, crossed>>
  BY DEF CommitUpdateMember
<1>6. p \in crossed \/ Live(p)
  BY <1>2 DEF SetupInv, UpdatesOfMembers
<1>7. (held[p] \cap tx[t].desired) \cup (new \ dropped[p]) \in SUBSET roles
      /\ dropped[p] \cup (held[p] \ tx[t].desired) \in SUBSET roles
  BY <1>2, <1>3
<1> HIDE DEF new, row, p
<1>8. held' \in [Persons -> SUBSET roles] /\ dropped' \in [Persons -> SUBSET roles]
  BY <1>2, <1>3, <1>5, <1>7
<1>9. PeopleTyped'
  BY <1>1, <1>2, <1>3, <1>4, <1>5, <1>8 DEF SetupInv, PeopleTyped
<1>10. /\ \A q \in Persons : member'[q].state = member[q].state
       /\ \A q \in Persons \ {p} : held'[q] = held[q]
  BY <1>2, <1>3, <1>4, <1>5
<1>11. HeldByMembers'
  BY <1>5, <1>6, <1>10 DEF SetupInv, HeldByMembers, Live
<1>12. \A q \in Persons : Live(q) => Live(q)'
  BY <1>10 DEF Live
<1>13. QED
  BY <1>1, <1>5, <1>9, <1>11, <1>12, PeopleWritten

LEMMA SignUpKeeps ==
    ASSUME SetupInv, NEW p \in Persons, SignUpHook(p)
    PROVE  SetupInv'
<1>1. RestTyped' /\ UNCHANGED taxonomy /\ roles' = roles /\ tx' = tx /\ crossed' = crossed
  <2>1. /\ UNCHANGED <<taxonomy, sample, wizard>> /\ counters' = counters /\ tx' = tx
        /\ crossed' = crossed
    BY DEF SignUpHook, BootstrapWorkspaceForUser, ClaimPendingInvitation, ClaimThrows
  <2>2. QED
    BY <2>1, TeamRest
<1>2. /\ account \in [Persons -> {"none", "joined", "elsewhere", "stranded"}]
      /\ invitation \in [Persons -> Invitation] /\ member \in [Persons -> Member]
      /\ held \in [Persons -> SUBSET roles] /\ dropped \in [Persons -> SUBSET roles]
  BY DEF SetupInv, PeopleTyped
<1>3. CASE BootstrapWorkspaceForUser(p) \/ ClaimThrows(p)
  <2>1. /\ account' \in [Persons -> {"none", "joined", "elsewhere", "stranded"}]
        /\ UNCHANGED <<invitation, member, held, dropped, crossed>>
    BY <1>2, <1>3 DEF BootstrapWorkspaceForUser, ClaimThrows
  <2>2. PeopleTyped' /\ HeldByMembers' /\ \A q \in Persons : Live(q) => Live(q)'
    BY <1>1, <2>1 DEF SetupInv, PeopleTyped, HeldByMembers, Live
  <2>3. QED
    BY <1>1, <2>2, PeopleWritten
<1>4. CASE ClaimPendingInvitation(p)
  <2> DEFINE row == [state |-> "live", access |-> invitation[p].access]
             claimed == [invitation[p] EXCEPT !.state = "accepted"]
  <2>1. row \in Member /\ claimed \in Invitation /\ row.state = "live"
    BY <1>2 DEF Member, Invitation
  <2>2. /\ account' = [account EXCEPT ![p] = "joined"]
        /\ member' = [member EXCEPT ![p] = row]
        /\ held' = [held EXCEPT ![p] = invitation[p].roles]
        /\ invitation' = [invitation EXCEPT ![p] = claimed]
        /\ invitation[p].roles \subseteq roles /\ UNCHANGED <<dropped, crossed>>
    BY <1>4 DEF ClaimPendingInvitation
  <2> HIDE DEF row, claimed
  <2>3. PeopleTyped'
    BY <1>1, <1>2, <2>1, <2>2 DEF SetupInv, PeopleTyped
  <2>4. /\ \A q \in Persons \ {p} : member'[q] = member[q] /\ held'[q] = held[q]
        /\ member'[p].state = "live"
    BY <1>2, <2>1, <2>2
  <2>5. HeldByMembers' /\ \A q \in Persons : Live(q) => Live(q)'
    BY <1>1, <2>4 DEF SetupInv, HeldByMembers, Live
  <2>6. QED
    BY <1>1, <2>3, <2>5, PeopleWritten
<1>5. QED
  BY <1>3, <1>4 DEF SignUpHook

-------------------------------------------------------------------------------
(* Taxonomies.                                                                 *)

LEMMA CommitUpdateRowKeeps ==
    ASSUME SetupInv, NEW t \in Tabs, NEW patch \in {"label", "share"}, CommitUpdateRow(t, patch)
    PROVE  SetupInv'
<1> DEFINE r == tx[t].row
           next == [tx[t].read EXCEPT ![patch] = 1 - @]
<1>1. /\ tx[t] \in Tx /\ roles \subseteq AllRows /\ stages \subseteq AllRows
      /\ current \in [AllRows -> Snapshot] /\ versions \in [AllRows -> Seq(Snapshot)]
  BY DEF SetupInv, TaxonomyTyped
<1>2. next \in Snapshot
  BY <1>1, PatchIsTyped DEF Tx
<1>3. /\ r \in roles \cup stages
      /\ current' = [current EXCEPT ![r] = next]
      /\ versions' = [versions EXCEPT ![r] = Append(@, next)]
      /\ tx' = [tx EXCEPT ![t] = Idle]
      /\ UNCHANGED <<preset, roles, stages, dispositions, mixed>>
      /\ UNCHANGED people /\ UNCHANGED <<sample, wizard>> /\ counters' = counters
  BY DEF CommitUpdateRow, Finish
<1> HIDE DEF r, next
<1>4. RestTyped'
  BY <1>3, RestCounted
<1>5. TaxonomyTyped' /\ PeopleTyped'
  BY <1>1, <1>2, <1>3 DEF SetupInv, TaxonomyTyped, PeopleTyped, people
<1>6. VersionsFollow'
  <2>1. SUFFICES ASSUME NEW q \in AllRows
                 PROVE  Len(versions'[q]) > 0 /\ versions'[q][Len(versions'[q])] = current'[q]
    BY DEF VersionsFollow
  <2>2. Len(versions[q]) > 0 /\ versions[q][Len(versions[q])] = current[q]
    BY DEF SetupInv, VersionsFollow
  <2>3. CASE q = r
    <3>1. versions'[q] = Append(versions[q], next) /\ current'[q] = next
      BY <1>1, <1>3, <2>3
    <3>2. versions[q] \in Seq(Snapshot)
      BY <1>1
    <3>3. QED
      BY <1>2, <3>1, <3>2
  <2>4. CASE q # r
    BY <1>1, <1>3, <2>2, <2>4
  <2>5. QED
    BY <2>3, <2>4
<1>7. tx' \in [Tabs -> Tx] /\ \A v \in Tabs : tx'[v] = tx[v] \/ tx'[v] = Idle
  BY <1>3, IdleIsTyped DEF SetupInv
<1>8. UpdatesOfMembers' /\ HeldByMembers'
  BY <1>3, <1>7, IdleIsTyped DEF SetupInv, UpdatesOfMembers, HeldByMembers, Live, people
<1>9. SwitchesAlone' /\ RolesOfOnePreset'
  BY <1>3, <1>7, IdleIsTyped DEF SetupInv, SwitchesAlone, Switching, RolesOfOnePreset, Slugs
<1>10. QED
  BY <1>4, <1>5, <1>6, <1>7, <1>8, <1>9 DEF SetupInv

\* A switch that ran alone leaves nothing of the old preset.
LEMMA AppliedKeeps ==
    ASSUME SetupInv, NEW t \in Tabs, Applied(t)
    PROVE  SetupInv'
<1> DEFINE p == tx[t].preset
           left == roles \ tx[t].seen
           seeded == RoleRows(p, tx[t].seed)
<1>1. /\ tx[t] \in Tx /\ tx[t].op = "deleting" /\ roles \subseteq AllRows
      /\ held \in [Persons -> SUBSET roles] /\ dropped \in [Persons -> SUBSET roles]
      /\ wizard \in [Tabs -> [step : 0..3, shown : Presets]]
  BY DEF SetupInv, PeopleTyped, TaxonomyTyped, RestTyped, Applied, CommitApply, Finish
<1>2. p \in Presets /\ tx[t].seed \in 0..MaxSwitches
  BY <1>1 DEF Tx
<1>3. seeded \subseteq AllRows /\ StageRows(p, tx[t].seed) \subseteq AllRows
      /\ Slugs(seeded) = RolesOf(p)
  BY <1>2, SeededRows
<1>4. /\ preset' = p /\ roles' = left \cup seeded /\ stages' = StageRows(p, tx[t].seed)
      /\ dispositions' = FALSE /\ tx' = [tx EXCEPT ![t] = Idle]
      /\ held' = [q \in Persons |-> held[q] \cap left]
      /\ dropped' = [q \in Persons |-> dropped[q] \cap left]
      /\ UNCHANGED <<current, versions, mixed>>
      /\ UNCHANGED <<account, invitation, member, crossed>>
  BY DEF Applied, CommitApply, Finish
<1>5. RestTyped'
  <2> DEFINE row == [wizard[t] EXCEPT !.step = 2]
  <2>1. row \in [step : 0..3, shown : Presets]
    BY <1>1
  <2>2. wizard' = [wizard EXCEPT ![t] = row] /\ UNCHANGED <<sample, counters>>
    BY DEF Applied, CommitApply
  <2> HIDE DEF row
  <2>3. wizard' \in [Tabs -> [step : 0..3, shown : Presets]]
    BY <1>1, <2>1, <2>2
  <2>4. UNCHANGED <<activity, demo, edits, switches, failures>>
    BY <2>2 DEF sample, counters
  <2>5. QED
    BY <2>3, <2>4 DEF SetupInv, RestTyped
<1>6. \A q \in Persons : held'[q] \subseteq held[q] /\ held'[q] \subseteq left
  BY <1>4
<1>7. \A q \in Persons : dropped'[q] \subseteq left
  BY <1>4
<1>8. ~ mixed => left = {}
  BY <1>1 DEF SetupInv, SwitchesAlone
<1> HIDE DEF p, left, seeded
<1>9. held' \in [Persons -> SUBSET roles'] /\ dropped' \in [Persons -> SUBSET roles']
  BY <1>4, <1>6, <1>7
<1>10. left \subseteq AllRows
  BY <1>1 DEF left
<1>11. PeopleTyped' /\ TaxonomyTyped'
  BY <1>2, <1>3, <1>4, <1>9, <1>10 DEF SetupInv, PeopleTyped, TaxonomyTyped
<1>12. tx' \in [Tabs -> Tx] /\ tx'[t] = Idle /\ \A v \in Tabs \ {t} : tx'[v] = tx[v]
  BY <1>4, IdleIsTyped DEF SetupInv
<1>13. UpdatesOfMembers' /\ HeldByMembers'
  <2>1. UpdatesOfMembers'
    BY <1>4, <1>12, IdleIsTyped DEF SetupInv, UpdatesOfMembers, Live
  <2>2. HeldByMembers'
    BY <1>4, <1>6 DEF SetupInv, HeldByMembers, Live
  <2>3. QED
    BY <2>1, <2>2
<1>14. SwitchesAlone'
  <2>1. ~ mixed => \A v \in Tabs \ {t} : ~ Switching(v)
    BY <1>1 DEF SetupInv, SwitchesAlone, Switching
  <2>2. ~ mixed => \A v \in Tabs : tx'[v].op \notin {"switch", "deleting"}
    BY <1>12, <2>1, IdleIsTyped DEF Switching
  <2>3. mixed' = mixed
    BY <1>4
  <2>4. QED
    BY <2>2, <2>3 DEF SwitchesAlone, Switching
<1>15. RolesOfOnePreset'
  <2>1. CASE mixed
    BY <1>4, <2>1 DEF RolesOfOnePreset
  <2>2. CASE ~ mixed
    <3>1. roles' = seeded
      BY <1>4, <1>8, <2>2
    <3>2. Slugs(roles') = RolesOf(preset')
      BY <1>3, <1>4, <3>1
    <3>3. QED
      BY <3>2 DEF RolesOfOnePreset, Slugs
  <2>3. QED
    BY <2>1, <2>2
<1>16. VersionsFollow'
  BY <1>4 DEF SetupInv, VersionsFollow
<1>17. QED
  BY <1>5, <1>11, <1>12, <1>13, <1>14, <1>15, <1>16 DEF SetupInv

-------------------------------------------------------------------------------
(* Theorems.                                                                   *)

LEMMA InitHolds ==
    ASSUME Init
    PROVE  SetupInv
<1>1. FirstPreset \in Presets /\ Founder \in Persons /\ 0 \in 0..MaxSwitches
      /\ Fresh \in Snapshot /\ Idle \in Tx /\ Idle.op = "idle"
  BY SetupAssumption, IdleIsTyped
<1>2. /\ RoleRows(FirstPreset, 0) \subseteq AllRows /\ StageRows(FirstPreset, 0) \subseteq AllRows
      /\ Slugs(RoleRows(FirstPreset, 0)) = RolesOf(FirstPreset)
  BY <1>1, SeededRows
<1>3. PeopleTyped
  <2>1. account \in [Persons -> {"none", "joined", "elsewhere", "stranded"}]
    BY DEF Init
  <2>2. invitation \in [Persons -> Invitation] /\ member \in [Persons -> Member]
    BY DEF Init, Invitation, Member, Access
  <2>3. held \in [Persons -> SUBSET roles] /\ dropped \in [Persons -> SUBSET roles]
        /\ crossed \subseteq Persons
    BY DEF Init
  <2>4. QED
    BY <2>1, <2>2, <2>3 DEF PeopleTyped
<1>4. TaxonomyTyped
  <2>1. current = [r \in AllRows |-> Fresh] /\ versions = [r \in AllRows |-> <<Fresh>>]
    BY DEF Init
  <2>2. <<Fresh>> \in Seq(Snapshot)
    BY <1>1
  <2>3. current \in [AllRows -> Snapshot] /\ versions \in [AllRows -> Seq(Snapshot)]
    BY <1>1, <2>1, <2>2
  <2>4. QED
    BY <1>1, <1>2, <2>3 DEF Init, TaxonomyTyped
<1>5. RestTyped
  <2>1. Closed \in [step : 0..3, shown : Presets]
    BY <1>1 DEF Closed
  <2>2. wizard \in [Tabs -> [step : 0..3, shown : Presets]]
    BY <2>1 DEF Init
  <2>3. QED
    BY <1>1, <2>2 DEF Init, RestTyped
<1>6. tx \in [Tabs -> Tx] /\ \A t \in Tabs : tx[t].op = "idle"
  BY <1>1 DEF Init
<1>7. UpdatesOfMembers /\ HeldByMembers /\ SwitchesAlone
  BY <1>6 DEF Init, UpdatesOfMembers, HeldByMembers, SwitchesAlone, Switching
<1>8. RolesOfOnePreset
  BY <1>2 DEF Init, RolesOfOnePreset
<1>9. VersionsFollow
  <2>1. SUFFICES ASSUME NEW r \in AllRows
                 PROVE  Len(versions[r]) > 0 /\ versions[r][Len(versions[r])] = current[r]
    BY DEF VersionsFollow
  <2>2. versions[r] = <<Fresh>> /\ current[r] = Fresh
    BY DEF Init
  <2>3. QED
    BY <2>2
<1>10. QED
  BY <1>3, <1>4, <1>5, <1>6, <1>7, <1>8, <1>9 DEF SetupInv

LEMMA StepKeeps ==
    ASSUME SetupInv, [Next]_vars
    PROVE  SetupInv'
<1>1. ASSUME NEW t \in Tabs, TeamEditor(t)
      PROVE  SetupInv'
  <2>1. PICK p \in Persons :
            \/ \E access \in Access, chosen \in SUBSET roles :
                   BeginInvite(t, p, access, chosen) \/ BeginUpdateMember(t, p, access, chosen)
            \/ RevokeInvitation(t, p) \/ RemoveMember(t, p)
    BY <1>1 DEF TeamEditor
  <2>2. QED
    BY <2>1, PagesBegin, InvitationEnds, RemoveMemberKeeps
<1>2. ASSUME NEW t \in Tabs, TeamRouter(t)
      PROVE  SetupInv'
  BY <1>2, CommitInviteKeeps, CommitUpdateMemberKeeps DEF TeamRouter
<1>3. ASSUME NEW t \in Tabs, RolesEditor(t) \/ StagesEditor(t) \/ FunnelRouter(t)
      PROVE  SetupInv'
  <2>1. CASE \E r \in roles \cup stages : BeginUpdateRow(t, r)
    BY <2>1, PagesBegin
  <2>2. CASE \E patch \in {"label", "share"} : CommitUpdateRow(t, patch)
    BY <2>2, CommitUpdateRowKeeps
  <2>3. QED
    BY <1>3, <2>1, <2>2 DEF RolesEditor, StagesEditor, FunnelRouter
<1>4. ASSUME NEW t \in Tabs, OnboardingWizard(t)
      PROVE  SetupInv'
  BY <1>4, WizardKeeps, DeleteTaxonomiesKeeps, AppliedKeeps DEF OnboardingWizard
<1>5. ASSUME NEW p \in Persons, SignUpHook(p) \/ Expires(p)
      PROVE  SetupInv'
  BY <1>5, SignUpKeeps, InvitationEnds
<1>6. CASE UNCHANGED vars
  <2>1. /\ UNCHANGED <<people, taxonomy, tx>> /\ UNCHANGED <<sample, wizard>>
        /\ counters' = counters
    BY <1>6 DEF vars
  <2>2. RestTyped'
    BY <2>1, RestCounted
  <2>3. QED
    BY <2>1, <2>2, RestMoves
<1>7. QED
  BY <1>1, <1>2, <1>3, <1>4, <1>5, <1>6, SeedKeeps, AbortKeeps, FirstCallKeeps DEF Next

LEMMA Invariance == Spec => []SetupInv
<1>1. Init => SetupInv
  BY InitHolds
<1>2. SetupInv /\ [Next]_vars => SetupInv'
  BY StepKeeps
<1>3. QED
  BY <1>1, <1>2, PTL DEF Spec

\* Every variable keeps its type over sign-ups, edits and switches of the preset.
THEOREM TypeCorrect == Spec => []TypeOK
<1>1. SetupInv => TypeOK
  <2>1. ASSUME SetupInv
        PROVE  TypeOK
    <3>1. \A t \in Tabs : tx[t] \in Tx
      BY <2>1 DEF SetupInv
    <3>2. /\ account \in [Persons -> {"none", "joined", "elsewhere", "stranded"}]
          /\ invitation \in [Persons ->
                 [state : {"none", "pending", "accepted", "revoked", "expired"},
                  access : Access, roles : SUBSET AllRows]]
          /\ member \in [Persons -> [state : {"none", "live", "removed"}, access : Access]]
          /\ held \in [Persons -> SUBSET roles] /\ dropped \in [Persons -> SUBSET roles]
          /\ crossed \subseteq Persons
      BY <2>1 DEF SetupInv, PeopleTyped, Invitation, Member
    <3>3. /\ preset \in Presets /\ roles \cup stages \subseteq AllRows
          /\ current \in [AllRows -> [label : 0..1, share : 0..1]]
          /\ versions \in [AllRows -> Seq([label : 0..1, share : 0..1])]
          /\ dispositions \in BOOLEAN /\ mixed \in BOOLEAN
      BY <2>1 DEF SetupInv, TaxonomyTyped, Snapshot
    <3>4. /\ activity \in BOOLEAN /\ demo \in {"none", "users", "records"}
          /\ wizard \in [Tabs -> [step : 0..3, shown : Presets]]
          /\ edits \in Nat /\ switches \in Nat /\ failures \in Nat
      BY <2>1, SetupAssumption DEF SetupInv, RestTyped
    <3>5. QED
      BY <3>1, <3>2, <3>3, <3>4 DEF TypeOK, Tx, Operations
  <2>2. QED
    BY <2>1
<1>2. QED
  BY <1>1, Invariance, PTL

\* However invitations, updates and removals interleave, only members hold sales roles, save
\* those whose removal an update crossed.
THEOREM MembersHoldRoles == Spec => []HeldByMembers
<1>1. SetupInv => HeldByMembers
  BY DEF SetupInv
<1>2. QED
  BY <1>1, Invariance, PTL

\* A workspace has the roles of the preset it names and no others, however often it is
\* switched, as long as no two switches overlap.
THEOREM RolesAreOfThePreset == Spec => []RolesOfOnePreset
<1>1. SetupInv => RolesOfOnePreset
  BY DEF SetupInv
<1>2. QED
  BY <1>1, Invariance, PTL

\* The newest version of a role or a stage is what its row says, whoever edits it at once.
THEOREM VersionsSayTheRow == Spec => []RowIsLatestVersion
<1>1. SetupInv => RowIsLatestVersion
  BY DEF SetupInv, TaxonomyTyped, VersionsFollow, RowIsLatestVersion
<1>2. QED
  BY <1>1, Invariance, PTL
===============================================================================
