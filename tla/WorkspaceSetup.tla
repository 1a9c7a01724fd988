----------------------------- MODULE WorkspaceSetup -----------------------------
(* How a workspace gets its people and its taxonomies: domain/src/onboarding,
   domain/src/team, domain/src/roles and domain/src/funnel/stages behind the sign-up hook,
   the onboarding wizard, the route that seeds sample data and the settings pages.

   Mutations are READ COMMITTED transactions, as in SalesDesk.  Two of them can block on
   each other's rows here: a switch of the preset deletes the rows it sees, and one that
   waits for the deletes of another does not see what that other one inserts.          *)
EXTENDS Naturals, FiniteSets, Sequences

CONSTANTS
    Persons, Founder,   \* the founder has signed up and this is his workspace
    Tabs,               \* pages of admins
    Presets, FirstPreset,
    RolesOf(_),         \* slugs of the sales roles a preset seeds
    StagesOf(_),        \* slugs of its funnel stages
    MaxEdits,           \* bound on what admins do
    MaxSwitches,        \* bound on switches of the preset
    MaxFailures         \* bound on requests cut off half way

ASSUME SetupAssumption ==
    /\ Founder \in Persons
    /\ FirstPreset \in Presets
    /\ MaxEdits \in Nat /\ MaxSwitches \in Nat /\ MaxFailures \in Nat

Access == {"workspace_admin", "contributor"}

Row(kind, slug, n) == [kind |-> kind, slug |-> slug, seed |-> n]

RoleRows(p, n) == {Row("role", s, n) : s \in RolesOf(p)}
StageRows(p, n) == {Row("stage", s, n) : s \in StagesOf(p)}

AllRows == UNION {RoleRows(p, n) \cup StageRows(p, n) : p \in Presets, n \in 0..MaxSwitches}

VARIABLES
    account,    \* what the sign-up hook has made of each person
    invitation, \* the row of each e-mail address
    member,     \* memberships
    held,       \* sales-role assignments in force
    dropped,    \* those with deleted_at set: the unique index counts them
    preset, roles, stages,
    current,    \* label and share of each row
    versions,   \* and the snapshots of its versions
    dispositions, activity, demo,
    wizard,     \* the step a tab is at, 0 on other pages, and the preset it was opened with
    tx,         \* the open transaction of each tab
    edits, switches, failures,
    crossed,    \* history: persons removed while an update of them was open
    mixed       \* history: two switches of the preset were open at once

people == <<account, invitation, member, held, dropped, crossed>>
taxonomy == <<preset, roles, stages, current, versions, dispositions, mixed>>
sample == <<activity, demo>>
counters == <<edits, switches, failures>>
vars == <<people, taxonomy, sample, wizard, tx, counters>>

NoRow == Row("none", "none", 0)
Fresh == [label |-> 0, share |-> 0]
Closed == [step |-> 0, shown |-> FirstPreset]
Idle == [op |-> "idle", person |-> Founder, access |-> "contributor", desired |-> {},
         row |-> NoRow, read |-> Fresh, preset |-> FirstPreset, seed |-> 0, seen |-> {}]

Init ==
    /\ account = [p \in Persons |-> IF p = Founder THEN "joined" ELSE "none"]
    /\ invitation = [p \in Persons |-> [state |-> "none", access |-> "contributor",
                                        roles |-> {}]]
    /\ member = [p \in Persons |->
                    IF p = Founder THEN [state |-> "live", access |-> "workspace_admin"]
                                   ELSE [state |-> "none", access |-> "contributor"]]
    /\ held = [p \in Persons |-> {}]
    /\ dropped = [p \in Persons |-> {}]
    /\ preset = FirstPreset
    /\ roles = RoleRows(FirstPreset, 0)
    /\ stages = StageRows(FirstPreset, 0)
    /\ current = [r \in AllRows |-> Fresh]
    /\ versions = [r \in AllRows |-> <<Fresh>>]
    /\ dispositions = TRUE
    /\ activity = FALSE
    /\ demo = "none"
    /\ wizard = [t \in Tabs |-> Closed]
    /\ tx = [t \in Tabs |-> Idle]
    /\ edits = 0 /\ switches = 0 /\ failures = 0
    /\ crossed = {} /\ mixed = FALSE

Live(p) == member[p].state = "live"
Admins == {p \in Persons : Live(p) /\ member[p].access = "workspace_admin"}

Edit(t) ==
    /\ tx[t] = Idle /\ wizard[t].step = 0 /\ Admins # {}
    /\ edits < MaxEdits
    /\ edits' = edits + 1
    /\ UNCHANGED <<switches, failures>>

Begin(t, x) ==
    /\ Edit(t)
    /\ tx' = [tx EXCEPT ![t] = x]

Finish(t, op) ==
    /\ tx[t].op = op
    /\ tx' = [tx EXCEPT ![t] = Idle]

\* The mutation throws and is rolled back.
Abort(t) ==
    /\ tx[t] # Idle
    /\ tx' = [tx EXCEPT ![t] = Idle]
    /\ UNCHANGED <<people, taxonomy, sample, wizard, counters>>

-------------------------------------------------------------------------------
(* The team.                                                                   *)

BeginInvite(t, p, access, chosen) ==
    /\ ~ Live(p)
    /\ Begin(t, [Idle EXCEPT !.op = "invite", !.person = p, !.access = access,
                             !.desired = chosen])
    /\ UNCHANGED <<people, taxonomy, sample, wizard>>

\* An upsert on the address: whatever became of the invitation before, it is pending again.
CommitInvite(t) ==
    /\ Finish(t, "invite")
    /\ invitation' = [invitation EXCEPT ![tx[t].person] =
                         [state |-> "pending", access |-> tx[t].access,
                          roles |-> tx[t].desired]]
    /\ UNCHANGED <<account, member, held, dropped, crossed>>
    /\ UNCHANGED <<taxonomy, sample, wizard, counters>>

RevokeInvitation(t, p) ==
    /\ Edit(t)
    /\ invitation[p].state = "pending"
    /\ invitation' = [invitation EXCEPT ![p].state = "revoked"]
    /\ UNCHANGED <<account, member, held, dropped, crossed>>
    /\ UNCHANGED <<taxonomy, sample, wizard, tx>>

\* Mutant: the assignments are left in force.
RemoveMemberOnly(t, p) ==
    /\ Edit(t)
    /\ Live(p) /\ Admins \ {p} # {}
    /\ member' = [member EXCEPT ![p].state = "removed"]
    /\ crossed' = crossed \cup {q \in {p} : \E v \in Tabs : tx[v].op = "update"
                                                           /\ tx[v].person = q}
    /\ UNCHANGED <<account, invitation, held, dropped>>
    /\ UNCHANGED <<taxonomy, sample, wizard, tx>>

\* By any admin but the member himself; the assignments go with the membership.
RemoveMember(t, p) ==
    /\ Edit(t)
    /\ Live(p) /\ Admins \ {p} # {}
    /\ member' = [member EXCEPT ![p].state = "removed"]
    /\ held' = [held EXCEPT ![p] = {}]
    /\ dropped' = [dropped EXCEPT ![p] = @ \cup held[p]]
    /\ crossed' = crossed \cup {q \in {p} : \E v \in Tabs : tx[v].op = "update"
                                                           /\ tx[v].person = q}
    /\ UNCHANGED <<account, invitation>>
    /\ UNCHANGED <<taxonomy, sample, wizard, tx>>

BeginUpdateMember(t, p, access, chosen) ==
    /\ Live(p)
    /\ Begin(t, [Idle EXCEPT !.op = "update", !.person = p, !.access = access,
                             !.desired = chosen])
    /\ UNCHANGED <<people, taxonomy, sample, wizard>>

\* By id, even if the member is removed by now.  An assignment that was dropped once is in
\* the way of its own insert, and the conflict is ignored.  One of a role that is gone throws.
CommitUpdateMember(t) ==
    LET p == tx[t].person
        new == tx[t].desired \ held[p]
    IN  /\ Finish(t, "update")
        /\ new \subseteq roles
        /\ member' = [member EXCEPT ![p].access = tx[t].access]
        /\ held' = [held EXCEPT ![p] = (@ \cap tx[t].desired) \cup (new \ dropped[p])]
        /\ dropped' = [dropped EXCEPT ![p] = @ \cup (held[p] \ tx[t].desired)]
        /\ UNCHANGED <<account, invitation, crossed>>
        /\ UNCHANGED <<taxonomy, sample, wizard, counters>>

-------------------------------------------------------------------------------
(* Signing up.  The hook runs once, when the account has been created.          *)

\* No invitation is pending for the address: a workspace of one's own.
BootstrapWorkspaceForUser(p) ==
    /\ account[p] = "none"
    /\ invitation[p].state # "pending"
    /\ account' = [account EXCEPT ![p] = "elsewhere"]
    /\ UNCHANGED <<invitation, member, held, dropped, crossed>>
    /\ UNCHANGED <<taxonomy, sample, wizard, tx, counters>>

ClaimPendingInvitation(p) ==
    /\ account[p] = "none"
    /\ invitation[p].state = "pending"
    /\ invitation[p].roles \subseteq roles
    /\ account' = [account EXCEPT ![p] = "joined"]
    /\ member' = [member EXCEPT ![p] = [state |-> "live", access |-> invitation[p].access]]
    /\ held' = [held EXCEPT ![p] = invitation[p].roles]
    /\ invitation' = [invitation EXCEPT ![p].state = "accepted"]
    /\ UNCHANGED <<dropped, crossed>>
    /\ UNCHANGED <<taxonomy, sample, wizard, tx, counters>>

\* The insert of an assignment of a role that is gone breaks its foreign key, which
\* onConflictDoNothing does not catch: the hook logs the error and never runs again.
ClaimThrows(p) ==
    /\ account[p] = "none"
    /\ invitation[p].state = "pending"
    /\ ~ invitation[p].roles \subseteq roles
    /\ account' = [account EXCEPT ![p] = "stranded"]
    /\ UNCHANGED <<invitation, member, held, dropped, crossed>>
    /\ UNCHANGED <<taxonomy, sample, wizard, tx, counters>>

Expires(p) ==
    /\ invitation[p].state = "pending"
    /\ invitation' = [invitation EXCEPT ![p].state = "expired"]
    /\ UNCHANGED <<account, member, held, dropped, crossed>>
    /\ UNCHANGED <<taxonomy, sample, wizard, tx, counters>>

-------------------------------------------------------------------------------
(* Roles and stages: each edit writes a version and the row.                    *)

BeginUpdateRow(t, r) ==
    /\ r \in roles \cup stages
    /\ Begin(t, [Idle EXCEPT !.op = "row", !.row = r, !.read = current[r]])
    /\ UNCHANGED <<people, taxonomy, sample, wizard>>

\* Mutant: the version keeps the row as it was.
CommitUpdateRowBefore(t, patch) ==
    LET r == tx[t].row
    IN  /\ Finish(t, "row")
        /\ r \in roles \cup stages
        /\ current' = [current EXCEPT ![r] = [tx[t].read EXCEPT ![patch] = 1 - @]]
        /\ versions' = [versions EXCEPT ![r] = Append(@, tx[t].read)]
        /\ UNCHANGED <<preset, roles, stages, dispositions, mixed>>
        /\ UNCHANGED <<people, sample, wizard, counters>>

\* The fields that are not in the patch are those that were read at first; the number of the
\* version is read only now.
CommitUpdateRow(t, patch) ==
    LET r == tx[t].row
        next == [tx[t].read EXCEPT ![patch] = 1 - @]
    IN  /\ Finish(t, "row")
        /\ r \in roles \cup stages
        /\ current' = [current EXCEPT ![r] = next]
        /\ versions' = [versions EXCEPT ![r] = Append(@, next)]
        /\ UNCHANGED <<preset, roles, stages, dispositions, mixed>>
        /\ UNCHANGED <<people, sample, wizard, counters>>

-------------------------------------------------------------------------------
(* The preset.                                                                 *)

Switching(t) == tx[t].op \in {"switch", "deleting"}

BeginApply(t, p) ==
    /\ tx[t] = Idle
    /\ switches < MaxSwitches
    /\ p # preset /\ ~ activity
    /\ switches' = switches + 1
    /\ tx' = [tx EXCEPT ![t] = [Idle EXCEPT !.op = "switch", !.preset = p,
                                            !.seed = switches + 1]]
    /\ mixed' = (mixed \/ \E v \in Tabs : Switching(v))
    /\ UNCHANGED <<preset, roles, stages, current, versions, dispositions>>
    /\ UNCHANGED <<people, sample, wizard, edits, failures>>

\* The delete of the roles sees those that are committed.  Of two switches, the second waits
\* at the delete of the assignments instead, if there are any.
DeleteTaxonomies(t) ==
    /\ tx[t].op = "switch"
    /\ (\E p \in Persons : held[p] \cup dropped[p] # {}) =>
           \A v \in Tabs : tx[v].op # "deleting"
    /\ tx' = [tx EXCEPT ![t].op = "deleting", ![t].seen = roles]
    /\ UNCHANGED <<people, taxonomy, sample, wizard, counters>>

Slugs(rows) == {r.slug : r \in rows}

\* Mutant: the roles of the old preset are not deleted.
CommitApplyKeeping(t) ==
    LET p == tx[t].preset
        seeded == RoleRows(p, tx[t].seed)
    IN  /\ Finish(t, "deleting")
        /\ Slugs(roles) \cap Slugs(seeded) = {}
        /\ preset' = p
        /\ roles' = roles \cup seeded
        /\ stages' = StageRows(p, tx[t].seed)
        /\ dispositions' = FALSE
        /\ UNCHANGED <<current, versions, mixed>>
        /\ UNCHANGED <<people, sample, counters>>

\* Mutant: the assignments stay.
CommitApplyDetached(t) ==
    LET p == tx[t].preset
        left == roles \ tx[t].seen
        seeded == RoleRows(p, tx[t].seed)
    IN  /\ Finish(t, "deleting")
        /\ Slugs(left) \cap Slugs(seeded) = {}
        /\ preset' = p
        /\ roles' = left \cup seeded
        /\ stages' = StageRows(p, tx[t].seed)
        /\ dispositions' = FALSE
        /\ UNCHANGED <<current, versions, mixed>>
        /\ UNCHANGED <<people, sample, counters>>

\* The dispositions are deleted, and never seeded again.  The assignments go with their
\* roles.  A slug that is there already, from another switch, throws.
CommitApply(t) ==
    LET p == tx[t].preset
        left == roles \ tx[t].seen
        seeded == RoleRows(p, tx[t].seed)
    IN  /\ Finish(t, "deleting")
        /\ Slugs(left) \cap Slugs(seeded) = {}
        /\ preset' = p
        /\ roles' = left \cup seeded
        /\ stages' = StageRows(p, tx[t].seed)
        /\ dispositions' = FALSE
        /\ held' = [q \in Persons |-> held[q] \cap left]
        /\ dropped' = [q \in Persons |-> dropped[q] \cap left]
        /\ UNCHANGED <<current, versions, mixed>>
        /\ UNCHANGED <<account, invitation, member, crossed>>
        /\ UNCHANGED <<sample, counters>>

-------------------------------------------------------------------------------
(* The wizard and the sample data.                                             *)

\* The page gives the wizard the preset of the moment, and it is never told of another.
OpenWizard(t) ==
    /\ Edit(t)
    /\ wizard' = [wizard EXCEPT ![t] = [step |-> 1, shown |-> preset]]
    /\ UNCHANGED <<people, taxonomy, sample, tx>>

\* The choice is compared with the preset the page was opened with.
ContinueStep1(t, p) ==
    /\ wizard[t].step = 1 /\ tx[t] = Idle
    /\ IF p = wizard[t].shown
       THEN /\ wizard' = [wizard EXCEPT ![t].step = 2]
            /\ UNCHANGED <<people, taxonomy, sample, tx, counters>>
       ELSE BeginApply(t, p)

\* applyTopology returns early when the workspace has the preset already.
AlreadyApplied(t, p) ==
    /\ wizard[t].step = 1 /\ tx[t] = Idle
    /\ p # wizard[t].shown /\ p = preset
    /\ wizard' = [wizard EXCEPT ![t].step = 2]
    /\ UNCHANGED <<people, taxonomy, sample, tx, counters>>

Applied(t) ==
    /\ CommitApply(t)
    /\ wizard' = [wizard EXCEPT ![t].step = 2]

\* The quota of step 2 is in Scoreboard.
Step(t) ==
    /\ tx[t] = Idle
    /\ \/ wizard[t].step = 2 /\ wizard' = [wizard EXCEPT ![t].step = 3]
       \/ wizard[t].step > 1 /\ wizard' = [wizard EXCEPT ![t].step = @ - 1]
       \/ wizard[t].step = 3 /\ wizard' = [wizard EXCEPT ![t] = Closed]
    /\ UNCHANGED <<people, taxonomy, sample, tx, counters>>

\* Statements of their own.  The users of an earlier seed are deleted first, which their
\* goals and calls forbid: only one that was cut off before its goals can be seeded again.
SeedWipes(t) ==
    /\ wizard[t].step = 3 /\ tx[t] = Idle
    /\ demo \in {"none", "users"}
    /\ demo' = "none"
    /\ tx' = IF {"setter", "closer"} \subseteq Slugs(roles)
             THEN [tx EXCEPT ![t] = [Idle EXCEPT !.op = "seed"]]
             ELSE tx
    /\ UNCHANGED <<people, taxonomy, activity, wizard, counters>>

SeedUsers(t) ==
    /\ tx[t].op = "seed" /\ demo = "none"
    /\ demo' = "users"
    /\ tx' = [tx EXCEPT ![t].op = "seeded users"]
    /\ UNCHANGED <<people, taxonomy, activity, wizard, counters>>

SeedRecords(t) ==
    /\ Finish(t, "seeded users")
    /\ demo = "users"
    /\ demo' = "records"
    /\ activity' = TRUE
    /\ UNCHANGED <<people, taxonomy, wizard, counters>>

\* A request cut off leaves what its statements have written.
SeedCutOff(t) ==
    /\ tx[t].op \in {"seed", "seeded users"} /\ failures < MaxFailures
    /\ failures' = failures + 1
    /\ tx' = [tx EXCEPT ![t] = Idle]
    /\ UNCHANGED <<people, taxonomy, sample, wizard, edits, switches>>

\* The first call or sale of the workspace.
FirstCall ==
    /\ ~ activity
    /\ activity' = TRUE
    /\ UNCHANGED <<people, taxonomy, demo, wizard, tx, counters>>

-------------------------------------------------------------------------------
TeamEditor(t) == \E p \in Persons :
    \/ \E access \in Access, chosen \in SUBSET roles :
           BeginInvite(t, p, access, chosen) \/ BeginUpdateMember(t, p, access, chosen)
    \/ RevokeInvitation(t, p) \/ RemoveMember(t, p)

TeamRouter(t) == CommitInvite(t) \/ CommitUpdateMember(t)

SignUpHook(p) ==
    BootstrapWorkspaceForUser(p) \/ ClaimPendingInvitation(p) \/ ClaimThrows(p)

RolesEditor(t) ==
    \/ \E r \in roles : BeginUpdateRow(t, r)
    \/ tx[t].row \in roles /\ \E patch \in {"label", "share"} : CommitUpdateRow(t, patch)

StagesEditor(t) == \E r \in stages : BeginUpdateRow(t, r)

FunnelRouter(t) == tx[t].row \in stages /\ CommitUpdateRow(t, "label")

OnboardingWizard(t) ==
    \/ OpenWizard(t) \/ Step(t)
    \/ \E p \in Presets : ContinueStep1(t, p) \/ AlreadyApplied(t, p)
    \/ DeleteTaxonomies(t) \/ Applied(t)

SeedDemo(t) == SeedWipes(t) \/ SeedUsers(t) \/ SeedRecords(t) \/ SeedCutOff(t)

Next ==
    \/ \E t \in Tabs :
           \/ TeamEditor(t) \/ TeamRouter(t) \/ RolesEditor(t)
           \/ StagesEditor(t) \/ FunnelRouter(t)
           \/ OnboardingWizard(t) \/ SeedDemo(t) \/ Abort(t)
    \/ \E p \in Persons : SignUpHook(p) \/ Expires(p)
    \/ FirstCall

Spec == Init /\ [][Next]_vars

-------------------------------------------------------------------------------
(* Properties.                                                                 *)

TypeOK ==
    /\ account \in [Persons -> {"none", "joined", "elsewhere", "stranded"}]
    /\ invitation \in [Persons ->
           [state : {"none", "pending", "accepted", "revoked", "expired"},
            access : Access, roles : SUBSET AllRows]]
    /\ member \in [Persons -> [state : {"none", "live", "removed"}, access : Access]]
    /\ held \in [Persons -> SUBSET roles]
    /\ dropped \in [Persons -> SUBSET roles]
    /\ preset \in Presets
    /\ roles \cup stages \subseteq AllRows
    /\ current \in [AllRows -> [label : 0..1, share : 0..1]]
    /\ versions \in [AllRows -> Seq([label : 0..1, share : 0..1])]
    /\ dispositions \in BOOLEAN /\ activity \in BOOLEAN
    /\ demo \in {"none", "users", "records"}
    /\ wizard \in [Tabs -> [step : 0..3, shown : Presets]]
    /\ \A t \in Tabs :
           /\ tx[t].op \in {"idle", "invite", "update", "row", "switch", "deleting",
                            "seed", "seeded users"}
           /\ tx[t].person \in Persons
           /\ tx[t].preset \in Presets
    /\ edits \in Nat /\ switches \in Nat /\ failures \in Nat
    /\ crossed \subseteq Persons /\ mixed \in BOOLEAN

\* Leads go to who holds the setter's role, member or not: a sales role is held by members
\* only, over invitations, updates, removals and switches of the preset, unless an update of
\* a member ran across his removal.
HeldByMembers == \A p \in Persons \ crossed : held[p] # {} => Live(p)

\* "Wipes and re-seeds from the new preset": the roles are those of the preset the workspace
\* names, whatever was edited, assigned or given up half way in between, unless two switches
\* overlapped.
RolesOfOnePreset == mixed \/ Slugs(roles) = RolesOf(preset)

\* "Each update inserts a new version": commissions name the newest version of a role and
\* funnel events that of a stage, and it says what the row says, whoever edits at once.
RowIsLatestVersion ==
    \A r \in roles \cup stages : versions[r][Len(versions[r])] = current[r]
===============================================================================
