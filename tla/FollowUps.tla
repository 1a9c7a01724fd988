-------------------------------- MODULE FollowUps --------------------------------
(* Opt-ins, the speed-to-lead sweep and the tasks of the inbox: domain/src/optins and
   domain/src/tasks, the every-minute job and its manual trigger, and the agent's task
   tools.

   The sweep runs without a transaction: it selects at most SweepLimit late opt-ins once,
   then inserts a task for each in a statement of its own, and may fail between two of
   them.  Everything a user does is a transaction, as in SalesDesk.                      *)
EXTENDS Naturals, FiniteSets, Sequences

CONSTANTS
    Optins,
    FollowUpKeys,   \* keys of recordFollowUp: an entity and a day
    Setters,        \* users who may hold the sales role "setter"
    Users,          \* tabs of users and turns of the agent
    Sweepers,       \* the runs of the job, one at a time, and the manual trigger
    Job,
    SweepLimit,     \* LIMIT 200
    MaxEdits,       \* bound on what users do
    MaxFailures,    \* bound on sweeps that fail half way
    NoSetter, NoKey

ASSUME FollowUpsAssumption ==
    /\ Job \in Sweepers
    /\ SweepLimit \in Nat \ {0} /\ MaxEdits \in Nat /\ MaxFailures \in Nat
    /\ IsFiniteSet(Optins)
    /\ Optins \cap FollowUpKeys = {}
    /\ NoSetter \notin Setters /\ NoKey \notin Optins \cup FollowUpKeys

Kinds == {"follow_up_due", "custom"}
Statuses == {"open", "snoozed", "completed"}

VARIABLES
    optin,      \* state, whether the SLA has passed, attributedSetterUserId, contactedCallId
    contacted,  \* "contacted" events of each opt-in
    tasks,      \* rows of the table, in order of insertion
    active,     \* users with an assignment of the role "setter" in force
    tx,         \* the open transaction of each user
    rows,       \* rows each sweep has selected and not yet handled
    edits, failures

vars == <<optin, contacted, tasks, active, tx, rows, edits, failures>>

Idle == [op |-> "idle", optin |-> NoKey, setter |-> NoSetter]

Init ==
    /\ optin = [o \in Optins |-> [state |-> "absent", late |-> FALSE,
                                  setter |-> NoSetter, contacted |-> FALSE]]
    /\ contacted = [o \in Optins |-> 0]
    /\ tasks = <<>>
    /\ active \in SUBSET Setters
    /\ tx = [u \in Users |-> Idle]
    /\ rows = [w \in Sweepers |-> {}]
    /\ edits = 0
    /\ failures = 0

Edit(u) ==
    /\ tx[u] = Idle
    /\ edits < MaxEdits
    /\ edits' = edits + 1

-------------------------------------------------------------------------------
(* The table of tasks.                                                         *)

Task(key, kind, assignee) ==
    [key |-> key, kind |-> kind, assignee |-> assignee, status |-> "open"]

Keyed(key) == {i \in DOMAIN tasks : tasks[i].key = key}

\* createTask: no key, always a new row.
CreateTask(t) == tasks' = Append(tasks, t)

\* Mutant: a plain insert.
UpsertPlain(key, assignee) ==
    tasks' = Append(tasks, Task(key, "follow_up_due", assignee))

\* Mutant: on conflict, the row is written over.
UpsertOver(key, assignee) ==
    IF Keyed(key) = {}
    THEN tasks' = Append(tasks, Task(key, "follow_up_due", assignee))
    ELSE tasks' = [i \in DOMAIN tasks |-> IF i \in Keyed(key)
                                          THEN Task(key, "follow_up_due", assignee)
                                          ELSE tasks[i]]

\* On conflict with the unique index on the key, nothing.
UpsertTaskByUniqueKey(key, assignee) ==
    IF Keyed(key) = {}
    THEN tasks' = Append(tasks, Task(key, "follow_up_due", assignee))
    ELSE UNCHANGED tasks

CompleteTask(u, i) ==
    /\ Edit(u)
    /\ tasks[i].status \in {"open", "snoozed"}
    /\ tasks' = [tasks EXCEPT ![i].status = "completed"]
    /\ UNCHANGED <<optin, contacted, active, tx, rows, failures>>

\* Nothing takes a snoozed task back to open; the inbox lists both.
SnoozeTask(u, i) ==
    /\ Edit(u)
    /\ tasks[i].status = "open"
    /\ tasks' = [tasks EXCEPT ![i].status = "snoozed"]
    /\ UNCHANGED <<optin, contacted, active, tx, rows, failures>>

TasksCreate(u, kind, assignee) ==
    /\ Edit(u)
    /\ CreateTask(Task(NoKey, kind, assignee))
    /\ UNCHANGED <<optin, contacted, active, tx, rows, failures>>

\* On a conflict the tool throws, although nothing is wrong: the insert returns no row.
RecordFollowUp(u, key, assignee) ==
    /\ Edit(u)
    /\ UpsertTaskByUniqueKey(key, assignee)
    /\ UNCHANGED <<optin, contacted, active, tx, rows, failures>>

-------------------------------------------------------------------------------
(* Opt-ins.                                                                    *)

OpenFollowUps(a) ==
    Cardinality({i \in DOMAIN tasks : /\ tasks[i].assignee = a
                                      /\ tasks[i].status = "open"
                                      /\ tasks[i].kind = "follow_up_due"})

\* Of the active setters, any with the fewest open follow-ups.
PickSetter ==
    IF active = {} THEN {NoSetter}
    ELSE {a \in active : \A b \in active : OpenFollowUps(a) <= OpenFollowUps(b)}

BeginOptin(u, o, attribute) ==
    /\ Edit(u)
    /\ optin[o].state = "absent"
    /\ \A v \in Users : tx[v].optin # o
    /\ \E a \in (IF attribute THEN PickSetter ELSE {NoSetter}) :
           tx' = [tx EXCEPT ![u] = [op |-> "optin", optin |-> o, setter |-> a]]
    /\ UNCHANGED <<optin, contacted, tasks, active, rows, failures>>

\* submittedAt is the caller's: the SLA may have passed already, which SlaPasses then says.
CommitOptin(u) ==
    /\ tx[u].op = "optin"
    /\ tx' = [tx EXCEPT ![u] = Idle]
    /\ optin' = [optin EXCEPT ![tx[u].optin] =
                     [state |-> "new", late |-> FALSE,
                      setter |-> tx[u].setter, contacted |-> FALSE]]
    /\ UNCHANGED <<contacted, tasks, active, rows, edits, failures>>

BeginContact(u, o) ==
    /\ Edit(u)
    /\ optin[o].state = "new"
    /\ tx' = [tx EXCEPT ![u] = [Idle EXCEPT !.op = "contact", !.optin = o]]
    /\ UNCHANGED <<optin, contacted, tasks, active, rows, failures>>

\* Mutant: the update does not ask that contacted_call_id is null.
CommitContactAlways(u) ==
    LET o == tx[u].optin
    IN  /\ tx[u].op = "contact"
        /\ tx' = [tx EXCEPT ![u] = Idle]
        /\ optin' = [optin EXCEPT ![o].contacted = TRUE]
        /\ contacted' = [contacted EXCEPT ![o] = @ + 1]
        /\ UNCHANGED <<tasks, active, rows, edits, failures>>

CommitContact(u) ==
    LET o == tx[u].optin
    IN  /\ tx[u].op = "contact"
        /\ ~ optin[o].contacted
        /\ tx' = [tx EXCEPT ![u] = Idle]
        /\ optin' = [optin EXCEPT ![o].contacted = TRUE]
        /\ contacted' = [contacted EXCEPT ![o] = @ + 1]
        /\ UNCHANGED <<tasks, active, rows, edits, failures>>

\* The mutation throws: the opt-in was contacted meanwhile, or a statement failed.
Abort(u) ==
    /\ tx[u] # Idle
    /\ tx' = [tx EXCEPT ![u] = Idle]
    /\ UNCHANGED <<optin, contacted, tasks, active, rows, edits, failures>>

\* The members page assigns and removes the role.
ChangeSetters(u, a) ==
    /\ Edit(u)
    /\ active' = IF a \in active THEN active \ {a} ELSE active \cup {a}
    /\ UNCHANGED <<optin, contacted, tasks, tx, rows, failures>>

SlaPasses(o) ==
    /\ optin[o].state = "new" /\ ~ optin[o].late
    /\ optin' = [optin EXCEPT ![o].late = TRUE]
    /\ UNCHANGED <<contacted, tasks, active, tx, rows, edits, failures>>

-------------------------------------------------------------------------------
(* The sweep.                                                                  *)

\* Mutant: the select does not ask for a setter.
ChasedUnattributed ==
    {o \in Optins : optin[o].state = "new" /\ optin[o].late /\ ~ optin[o].contacted}

\* Whether the opt-in has its task already is not asked.
Chased == {o \in Optins : /\ optin[o].state = "new" /\ optin[o].late
                          /\ optin[o].setter # NoSetter
                          /\ ~ optin[o].contacted}

\* A limit and no order: any of them.
Batches ==
    IF Cardinality(Chased) <= SweepLimit THEN {Chased}
    ELSE {S \in SUBSET Chased : Cardinality(S) = SweepLimit}

StartSweep(w) ==
    /\ rows[w] = {} /\ Chased # {}
    /\ \E S \in Batches : rows' = [rows EXCEPT ![w] = S]
    /\ UNCHANGED <<optin, contacted, tasks, active, tx, edits, failures>>

\* Mutant: the loop ends after its first row.
SweepRowFirst(w) ==
    \E o \in rows[w] :
        /\ UpsertTaskByUniqueKey(o, optin[o].setter)
        /\ rows' = [rows EXCEPT ![w] = {}]
        /\ UNCHANGED <<optin, contacted, active, tx, edits, failures>>

\* The contact is not looked at again: the task may come after it.
SweepRow(w) ==
    \E o \in rows[w] :
        /\ UpsertTaskByUniqueKey(o, optin[o].setter)
        /\ rows' = [rows EXCEPT ![w] = @ \ {o}]
        /\ UNCHANGED <<optin, contacted, active, tx, edits, failures>>

\* The rest of the rows are left to the retry, or to the next minute.
SweepFails(w) ==
    /\ rows[w] # {} /\ failures < MaxFailures
    /\ failures' = failures + 1
    /\ rows' = [rows EXCEPT ![w] = {}]
    /\ UNCHANGED <<optin, contacted, tasks, active, tx, edits>>

-------------------------------------------------------------------------------
OptinsRouter(u) ==
    \/ \E o \in Optins, attribute \in BOOLEAN : BeginOptin(u, o, attribute)
    \/ CommitOptin(u)

TasksRouter(u) ==
    \/ \E i \in DOMAIN tasks : CompleteTask(u, i) \/ SnoozeTask(u, i)
    \/ \E a \in Setters : TasksCreate(u, "follow_up_due", a)

\* The inbox offers a task of kind "custom" for oneself.
CreateTaskButton(u) == \E a \in Setters : TasksCreate(u, "custom", a)

FollowUpTool(u) ==
    \E key \in FollowUpKeys, a \in Setters : RecordFollowUp(u, key, a)

LinkOptin(u) == (\E o \in Optins : BeginContact(u, o)) \/ CommitContact(u)

SpeedToLeadSlaSweep(w) == StartSweep(w) \/ SweepRow(w) \/ SweepFails(w)

Next ==
    \/ \E u \in Users :
           \/ OptinsRouter(u) \/ LinkOptin(u)
           \/ TasksRouter(u) \/ CreateTaskButton(u) \/ FollowUpTool(u)
           \/ Abort(u) \/ \E a \in Setters : ChangeSetters(u, a)
    \/ \E o \in Optins : SlaPasses(o)
    \/ \E w \in Sweepers : SpeedToLeadSlaSweep(w)

Spec == Init /\ [][Next]_vars

\* The job runs every minute, and a run goes on until it has handled its rows or failed.
Fairness == WF_vars(StartSweep(Job)) /\ WF_vars(SweepRow(Job))

FairSpec == Spec /\ Fairness

-------------------------------------------------------------------------------
(* Properties.                                                                 *)

TypeOK ==
    /\ optin \in [Optins -> [state : {"absent", "new"}, late : BOOLEAN,
                             setter : Setters \cup {NoSetter}, contacted : BOOLEAN]]
    /\ contacted \in [Optins -> Nat]
    /\ tasks \in Seq([key : Optins \cup FollowUpKeys \cup {NoKey}, kind : Kinds,
                      assignee : Setters, status : Statuses])
    /\ active \subseteq Setters
    /\ tx \in [Users -> [op : {"idle", "optin", "contact"},
                         optin : Optins \cup {NoKey}, setter : Setters \cup {NoSetter}]]
    /\ \A u \in Users : tx[u].op # "idle" => tx[u].optin \in Optins
    /\ rows \in [Sweepers -> SUBSET Optins]
    /\ \A w \in Sweepers : \A o \in rows[w] : optin[o].setter # NoSetter
    /\ edits \in Nat /\ failures \in Nat

\* "Enforces one task per optin under retry/replay": however sweeps overlap, fail half way
\* and start again, and whatever has become of the task since, a key has one task.
OneTaskPerKey ==
    \A i, j \in DOMAIN tasks :
        tasks[i].key = tasks[j].key /\ tasks[i].key # NoKey => i = j

\* A lead is contacted once: of two users who link it to a call at once, one is refused,
\* and the speed-to-lead metric has one event to count.
ContactedOnce ==
    \A o \in Optins : contacted[o] = IF optin[o].contacted THEN 1 ELSE 0

\* A sweep that goes over an opt-in again neither reopens the task somebody has completed
\* or snoozed, nor gives it to somebody else.
SweepsLeaveTasks ==
    [][\A i \in DOMAIN tasks :
           /\ tasks[i].status = "completed" => tasks'[i] = tasks[i]
           /\ tasks'[i].status = "open" => tasks[i].status = "open"
           /\ tasks'[i].assignee = tasks[i].assignee]_vars

\* No lead is lost between two sweeps: one that is chased stays so until it is contacted, its
\* task stays, a sweep that has the room selects all of them, and whatever it has selected
\* keeps its place until it has a task, unless the sweep fails and the next one starts anew.
NoLeadDropped ==
    [][/\ \A o \in Optins : /\ o \in Chased => o \in Chased' \/ optin'[o].contacted
                            /\ Keyed(o) # {} => Keyed(o)' # {}
       /\ \A w \in Sweepers :
              /\ \A o \in rows[w] : o \in rows'[w] \/ Keyed(o)' # {} \/ failures' > failures
              /\ rows[w] = {} /\ rows'[w] # {} /\ Cardinality(Chased) <= SweepLimit
                     => rows'[w] = Chased]_vars

\* "Finds optins past their SLA window without contact and upserts a task": one that is
\* late, attributed and not contacted gets its task, unless somebody contacts it first.
LateLeadsChased ==
    \A o \in Optins : o \in Chased ~> (Keyed(o) # {} \/ optin[o].contacted)
===============================================================================
