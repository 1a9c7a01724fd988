---------------------------- MODULE FollowUpsProofs ----------------------------
(* What holds of opt-ins, sweeps and tasks for any number of them, any limit and any
   failures.                                                                       *)
EXTENDS FollowUps, TLAPS

TaskRow == [key : Optins \cup FollowUpKeys \cup {NoKey}, kind : Kinds,
            assignee : Setters, status : Statuses]
OptinRow == [state : {"absent", "new"}, late : BOOLEAN,
             setter : Setters \cup {NoSetter}, contacted : BOOLEAN]
Tx == [op : {"idle", "optin", "contact"}, optin : Optins \cup {NoKey},
       setter : Setters \cup {NoSetter}]

(* A row that is being made is nobody else's, and one that has been read is there.  *)
ReadsHold ==
    /\ \A o \in Optins : optin[o].state = "absent" => ~ optin[o].contacted
    /\ \A u \in Users : /\ tx[u].op = "optin" => optin[tx[u].optin].state = "absent"
                        /\ tx[u].op = "contact" => optin[tx[u].optin].state = "new"
    /\ \A u, v \in Users :
           tx[u].op = "optin" /\ tx[v].op = "optin" /\ tx[u].optin = tx[v].optin => u = v
    /\ \A w \in Sweepers : \A o \in rows[w] : optin[o].state = "new"

LeadInv == TypeOK /\ ReadsHold /\ OneTaskPerKey /\ ContactedOnce

\* The step of SweepsLeaveTasks.
TasksLeft ==
    \A i \in DOMAIN tasks :
        /\ tasks[i].status = "completed" => tasks'[i] = tasks[i]
        /\ tasks'[i].status = "open" => tasks[i].status = "open"
        /\ tasks'[i].assignee = tasks[i].assignee

-------------------------------------------------------------------------------
(* The table of tasks.                                                         *)

TasksTyped == tasks \in Seq(TaskRow)

LEMMA TasksKept ==
    ASSUME TasksTyped, OneTaskPerKey, UNCHANGED tasks
    PROVE  TasksTyped' /\ OneTaskPerKey' /\ TasksLeft
  BY DEF TasksTyped, OneTaskPerKey, TasksLeft

LEMMA TaskAdded ==
    ASSUME TasksTyped, OneTaskPerKey, NEW t \in TaskRow, CreateTask(t),
           t.key # NoKey => Keyed(t.key) = {}
    PROVE  TasksTyped' /\ OneTaskPerKey' /\ TasksLeft
<1>1. /\ tasks' \in Seq(TaskRow) /\ Len(tasks) \in Nat
      /\ DOMAIN tasks = 1..Len(tasks) /\ DOMAIN tasks' = 1..(Len(tasks) + 1)
      /\ \A i \in 1..Len(tasks) : tasks'[i] = tasks[i]
      /\ tasks'[Len(tasks) + 1] = t
  BY DEF TasksTyped, CreateTask
<1>2. ASSUME NEW i \in 1..Len(tasks), t.key # NoKey
      PROVE  tasks[i].key # t.key
  BY <1>1, <1>2 DEF Keyed
<1>3. OneTaskPerKey'
  <2>1. SUFFICES ASSUME NEW i \in 1..(Len(tasks) + 1), NEW j \in 1..(Len(tasks) + 1),
                        tasks'[i].key = tasks'[j].key, tasks'[i].key # NoKey
                 PROVE  i = j
    BY <1>1 DEF OneTaskPerKey
  <2>2. CASE i \in 1..Len(tasks) /\ j \in 1..Len(tasks)
    BY <1>1, <2>1, <2>2 DEF OneTaskPerKey
  <2>3. CASE i = Len(tasks) + 1 /\ j \in 1..Len(tasks)
    BY <1>1, <1>2, <2>1, <2>3
  <2>4. CASE i \in 1..Len(tasks) /\ j = Len(tasks) + 1
    BY <1>1, <1>2, <2>1, <2>4
  <2>5. QED
    BY <1>1, <2>2, <2>3, <2>4
<1>4. TasksLeft
  BY <1>1 DEF TasksLeft
<1>5. QED
  BY <1>1, <1>3, <1>4 DEF TasksTyped

LEMMA TaskUpserted ==
    ASSUME TasksTyped, OneTaskPerKey, NEW key \in Optins \cup FollowUpKeys,
           NEW a \in Setters, UpsertTaskByUniqueKey(key, a)
    PROVE  TasksTyped' /\ OneTaskPerKey' /\ TasksLeft
<1>1. CASE Keyed(key) = {}
  <2>1. /\ Task(key, "follow_up_due", a) \in TaskRow
        /\ Task(key, "follow_up_due", a).key = key
    BY DEF Task, TaskRow, Kinds, Statuses
  <2>2. CreateTask(Task(key, "follow_up_due", a))
    BY <1>1 DEF UpsertTaskByUniqueKey, CreateTask
  <2>3. QED
    BY <1>1, <2>1, <2>2, TaskAdded
<1>2. CASE Keyed(key) # {}
  BY <1>2, TasksKept DEF UpsertTaskByUniqueKey
<1>3. QED
  BY <1>1, <1>2

LEMMA TaskSettled ==
    ASSUME TasksTyped, OneTaskPerKey, NEW i \in DOMAIN tasks,
           NEW status \in {"snoozed", "completed"}, tasks[i].status # "completed",
           tasks' = [tasks EXCEPT ![i].status = status]
    PROVE  TasksTyped' /\ OneTaskPerKey' /\ TasksLeft
<1>1. tasks[i] \in TaskRow /\ DOMAIN tasks = 1..Len(tasks) /\ Len(tasks) \in Nat
  BY DEF TasksTyped
<1>2. [tasks[i] EXCEPT !.status = status] \in TaskRow
  BY <1>1 DEF TaskRow, Statuses
<1>3. /\ tasks' \in Seq(TaskRow) /\ DOMAIN tasks' = DOMAIN tasks
      /\ tasks'[i] = [tasks[i] EXCEPT !.status = status]
      /\ \A j \in DOMAIN tasks \ {i} : tasks'[j] = tasks[j]
  BY <1>1, <1>2 DEF TasksTyped
<1>4. /\ tasks'[i].key = tasks[i].key /\ tasks'[i].assignee = tasks[i].assignee
      /\ tasks'[i].status = status
  BY <1>1, <1>3 DEF TaskRow
<1>5. OneTaskPerKey'
  BY <1>3, <1>4 DEF OneTaskPerKey
<1>6. TasksLeft
  BY <1>3, <1>4 DEF TasksLeft
<1>7. QED
  BY <1>3, <1>5, <1>6 DEF TasksTyped

-------------------------------------------------------------------------------
(* The steps.                                                                  *)

Quiet == UNCHANGED <<optin, contacted, active, tx, rows, failures>>

\* Users' work on tasks leaves the opt-ins alone.
LEMMA TaskStepKeeps ==
    ASSUME LeadInv, UNCHANGED <<optin, contacted>>, active' \subseteq Setters,
           tx' \in [Users -> Tx],
           \A u \in Users : tx'[u].op # "idle" => tx'[u].optin \in Optins,
           \A u \in Users : tx'[u].op # "idle" => tx'[u] = tx[u],
           rows' \in [Sweepers -> SUBSET Optins],
           \A w \in Sweepers : rows'[w] \subseteq rows[w] \cup Chased,
           edits' \in Nat, failures' \in Nat,
           TasksTyped' /\ OneTaskPerKey' /\ TasksLeft
    PROVE  LeadInv' /\ TasksLeft
<1>1. \A w \in Sweepers : \A o \in rows'[w] : optin[o].setter # NoSetter /\ optin[o].state = "new"
  BY DEF LeadInv, TypeOK, ReadsHold, Chased
<1>2. TypeOK'
  BY <1>1 DEF LeadInv, TypeOK, TasksTyped, TaskRow, Tx
<1>3. ReadsHold'
  BY <1>1 DEF LeadInv, TypeOK, ReadsHold
<1>4. QED
  BY <1>2, <1>3 DEF LeadInv, ContactedOnce

LEMMA TypesOfRows ==
    ASSUME LeadInv
    PROVE  /\ TasksTyped /\ OneTaskPerKey /\ optin \in [Optins -> OptinRow]
           /\ tx \in [Users -> Tx] /\ rows \in [Sweepers -> SUBSET Optins]
           /\ edits \in Nat /\ edits + 1 \in Nat /\ failures \in Nat /\ failures + 1 \in Nat
           /\ active \subseteq Setters
           /\ \A u \in Users : tx[u].op # "idle" => tx[u].optin \in Optins
  BY DEF LeadInv, TypeOK, TasksTyped, TaskRow, OptinRow, Tx

LEMMA UserTaskKeeps ==
    ASSUME LeadInv, Quiet, edits' = edits + 1, TasksTyped' /\ OneTaskPerKey' /\ TasksLeft
    PROVE  LeadInv' /\ TasksLeft
  BY TypesOfRows, TaskStepKeeps DEF Quiet

LEMMA TasksRouterKeeps ==
    ASSUME LeadInv, NEW u \in Users, TasksRouter(u)
    PROVE  LeadInv' /\ TasksLeft
<1>1. ASSUME NEW i \in DOMAIN tasks, CompleteTask(u, i) \/ SnoozeTask(u, i)
      PROVE  LeadInv' /\ TasksLeft
  <2>1. /\ Quiet /\ edits' = edits + 1
        /\ \E status \in {"snoozed", "completed"} : tasks' = [tasks EXCEPT ![i].status = status]
        /\ tasks[i].status # "completed"
    BY <1>1 DEF CompleteTask, SnoozeTask, Edit, Quiet
  <2>2. TasksTyped' /\ OneTaskPerKey' /\ TasksLeft
    BY <2>1, TypesOfRows, TaskSettled
  <2>3. QED
    BY <2>1, <2>2, UserTaskKeeps
<1>2. ASSUME NEW a \in Setters, TasksCreate(u, "follow_up_due", a)
      PROVE  LeadInv' /\ TasksLeft
  <2>1. Task(NoKey, "follow_up_due", a) \in TaskRow /\ Task(NoKey, "follow_up_due", a).key = NoKey
    BY DEF Task, TaskRow, Kinds, Statuses
  <2>2. Quiet /\ edits' = edits + 1 /\ CreateTask(Task(NoKey, "follow_up_due", a))
    BY <1>2 DEF TasksCreate, Edit, Quiet
  <2>3. QED
    BY <2>1, <2>2, TypesOfRows, TaskAdded, UserTaskKeeps
<1>3. QED
  BY <1>1, <1>2 DEF TasksRouter

LEMMA ButtonAndToolKeep ==
    ASSUME LeadInv, NEW u \in Users, CreateTaskButton(u) \/ FollowUpTool(u)
    PROVE  LeadInv' /\ TasksLeft
<1>1. ASSUME NEW a \in Setters, TasksCreate(u, "custom", a)
      PROVE  LeadInv' /\ TasksLeft
  <2>1. Task(NoKey, "custom", a) \in TaskRow /\ Task(NoKey, "custom", a).key = NoKey
    BY DEF Task, TaskRow, Kinds, Statuses
  <2>2. Quiet /\ edits' = edits + 1 /\ CreateTask(Task(NoKey, "custom", a))
    BY <1>1 DEF TasksCreate, Edit, Quiet
  <2>3. QED
    BY <2>1, <2>2, TypesOfRows, TaskAdded, UserTaskKeeps
<1>2. ASSUME NEW key \in FollowUpKeys, NEW a \in Setters, RecordFollowUp(u, key, a)
      PROVE  LeadInv' /\ TasksLeft
  <2>1. Quiet /\ edits' = edits + 1 /\ UpsertTaskByUniqueKey(key, a)
    BY <1>2 DEF RecordFollowUp, Edit, Quiet
  <2>2. QED
    BY <2>1, TypesOfRows, TaskUpserted, UserTaskKeeps
<1>3. QED
  BY <1>1, <1>2 DEF CreateTaskButton, FollowUpTool

LEMMA StutterKeeps ==
    ASSUME LeadInv, UNCHANGED vars
    PROVE  LeadInv' /\ TasksLeft
  BY TypesOfRows, TasksKept, TaskStepKeeps DEF vars

LEMMA AbortAndRolesKeep ==
    ASSUME LeadInv, NEW u \in Users, Abort(u) \/ \E a \in Setters : ChangeSetters(u, a)
    PROVE  LeadInv' /\ TasksLeft
<1>1. TasksTyped' /\ OneTaskPerKey' /\ TasksLeft
  BY TypesOfRows, TasksKept DEF Abort, ChangeSetters
<1>2. Idle \in Tx /\ Idle.op = "idle"
  BY DEF Idle, Tx
<1>3. CASE Abort(u)
  BY <1>1, <1>2, <1>3, TypesOfRows, TaskStepKeeps DEF Abort
<1>4. CASE \E a \in Setters : ChangeSetters(u, a)
  <2>1. /\ UNCHANGED <<optin, contacted, tx, rows, failures>>
        /\ active' \subseteq Setters /\ edits' = edits + 1
    BY <1>4, TypesOfRows DEF ChangeSetters, Edit
  <2>2. QED
    BY <1>1, <2>1, TypesOfRows, TaskStepKeeps
<1>5. QED
  BY <1>3, <1>4

\* A statement of the sweep, or its end.
LEMMA SweepKeeps ==
    ASSUME LeadInv, NEW w \in Sweepers, SpeedToLeadSlaSweep(w)
    PROVE  LeadInv' /\ TasksLeft
<1>1. CASE StartSweep(w)
  <2>1. PICK S \in Batches : rows' = [rows EXCEPT ![w] = S]
    BY <1>1 DEF StartSweep
  <2>2. S \subseteq Chased /\ Chased \subseteq Optins
    BY <2>1 DEF Batches, Chased
  <2>3. UNCHANGED <<optin, contacted, tasks, active, tx, edits, failures>>
    BY <1>1 DEF StartSweep
  <2>4. TasksTyped' /\ OneTaskPerKey' /\ TasksLeft
    BY <2>3, TypesOfRows, TasksKept
  <2>5. /\ rows' \in [Sweepers -> SUBSET Optins]
        /\ \A v \in Sweepers : rows'[v] \subseteq rows[v] \cup Chased
    BY <2>1, <2>2, TypesOfRows
  <2>6. QED
    BY <2>3, <2>4, <2>5, TypesOfRows, TaskStepKeeps
<1>2. CASE SweepRow(w)
  <2>1. PICK o \in rows[w] : /\ UpsertTaskByUniqueKey(o, optin[o].setter)
                             /\ rows' = [rows EXCEPT ![w] = @ \ {o}]
    BY <1>2 DEF SweepRow
  <2>2. o \in Optins /\ optin[o].setter \in Setters
    BY <2>1 DEF LeadInv, TypeOK
  <2>3. UNCHANGED <<optin, contacted, active, tx, edits, failures>>
    BY <1>2 DEF SweepRow
  <2>4. TasksTyped' /\ OneTaskPerKey' /\ TasksLeft
    BY <2>1, <2>2, TypesOfRows, TaskUpserted
  <2>5. /\ rows' \in [Sweepers -> SUBSET Optins]
        /\ \A v \in Sweepers : rows'[v] \subseteq rows[v]
    BY <2>1, TypesOfRows
  <2>6. QED
    BY <2>3, <2>4, <2>5, TypesOfRows, TaskStepKeeps
<1>3. CASE SweepFails(w)
  <2>1. /\ UNCHANGED <<optin, contacted, tasks, active, tx, edits>>
        /\ failures' = failures + 1 /\ rows' = [rows EXCEPT ![w] = {}]
    BY <1>3 DEF SweepFails
  <2>2. TasksTyped' /\ OneTaskPerKey' /\ TasksLeft
    BY <2>1, TypesOfRows, TasksKept
  <2>3. /\ rows' \in [Sweepers -> SUBSET Optins]
        /\ \A v \in Sweepers : rows'[v] \subseteq rows[v]
    BY <2>1, TypesOfRows
  <2>4. QED
    BY <2>1, <2>2, <2>3, TypesOfRows, TaskStepKeeps
<1>4. QED
  BY <1>1, <1>2, <1>3 DEF SpeedToLeadSlaSweep

\* The row of an opt-in is written, and no task.
LEMMA OptinWritten ==
    ASSUME LeadInv, NEW u \in Users, NEW o \in Optins, NEW row \in OptinRow,
           optin' = [optin EXCEPT ![o] = row],
           tx' = tx \/ tx' = [tx EXCEPT ![u] = Idle],
           UNCHANGED <<tasks, active, rows, edits, failures>>,
           contacted' \in [Optins -> Nat],
           \A p \in Optins \ {o} : contacted'[p] = contacted[p],
           contacted'[o] = IF row.contacted THEN 1 ELSE 0,
           row.state = "new",
           optin[o].state = "absent" => tx[u].op = "optin" /\ tx[u].optin = o /\ tx'[u] = Idle,
           optin[o].state = "new" => row.setter = optin[o].setter
    PROVE  LeadInv' /\ TasksLeft
<1>1. /\ optin' \in [Optins -> OptinRow] /\ optin'[o] = row
      /\ \A p \in Optins \ {o} : optin'[p] = optin[p]
  BY TypesOfRows
<1>2. /\ tx' \in [Users -> Tx]
      /\ \A v \in Users : tx'[v].op # "idle" => tx'[v] = tx[v]
  <2>1. Idle \in Tx /\ Idle.op = "idle"
    BY DEF Idle, Tx
  <2>2. QED
    BY <2>1, TypesOfRows
<1>3. \A w \in Sweepers : \A p \in rows[w] : optin'[p].setter # NoSetter /\ optin'[p].state = "new"
  BY <1>1 DEF LeadInv, TypeOK, ReadsHold
<1>4. TypeOK'
  BY <1>1, <1>2, <1>3 DEF LeadInv, TypeOK, OptinRow, Tx
<1>5. ReadsHold'
  <2>1. \A p \in Optins : optin'[p].state = "absent" => ~ optin'[p].contacted
    BY <1>1 DEF LeadInv, ReadsHold
  <2>2. \A v \in Users : /\ tx'[v].op = "optin" => optin'[tx'[v].optin].state = "absent"
                         /\ tx'[v].op = "contact" => optin'[tx'[v].optin].state = "new"
    <3>1. SUFFICES ASSUME NEW v \in Users, tx'[v].op # "idle"
                   PROVE  /\ tx'[v].op = "optin" => optin'[tx'[v].optin].state = "absent"
                          /\ tx'[v].op = "contact" => optin'[tx'[v].optin].state = "new"
      OBVIOUS
    <3>2. tx'[v] = tx[v] /\ tx[v].optin \in Optins
      BY <1>2, <3>1, TypesOfRows
    <3>3. CASE tx[v].optin # o
      BY <1>1, <3>2, <3>3 DEF LeadInv, ReadsHold
    <3>4. CASE tx[v].optin = o
      <4>1. tx[v].op # "optin"
        <5>1. SUFFICES ASSUME tx[v].op = "optin" PROVE FALSE
          OBVIOUS
        <5>2. optin[o].state = "absent"
          BY <3>4, <5>1 DEF LeadInv, ReadsHold
        <5>3. u = v
          BY <3>4, <5>1, <5>2 DEF LeadInv, ReadsHold
        <5>4. tx'[v] = Idle
          BY <5>2, <5>3
        <5>5. QED
          BY <3>1, <5>4 DEF Idle
      <4>2. QED
        BY <1>1, <3>2, <3>4, <4>1
    <3>5. QED
      BY <3>3, <3>4
  <2>3. QED
    BY <1>2, <1>3, <2>1, <2>2 DEF LeadInv, ReadsHold
<1>6. ContactedOnce'
  BY <1>1 DEF LeadInv, ContactedOnce
<1>7. OneTaskPerKey' /\ TasksLeft
  BY TypesOfRows, TasksKept
<1>8. QED
  BY <1>4, <1>5, <1>6, <1>7 DEF LeadInv

LEMMA OptinStepsKeep ==
    ASSUME LeadInv, NEW u \in Users, CommitOptin(u) \/ CommitContact(u)
    PROVE  LeadInv' /\ TasksLeft
<1> DEFINE o == tx[u].optin
<1>1. tx[u].op # "idle" /\ o \in Optins /\ tx[u] \in Tx /\ optin[o] \in OptinRow
  BY TypesOfRows DEF CommitOptin, CommitContact
<1>2. contacted \in [Optins -> Nat] /\ contacted[o] = IF optin[o].contacted THEN 1 ELSE 0
  BY <1>1 DEF LeadInv, TypeOK, ContactedOnce
<1>3. CASE CommitOptin(u)
  <2> DEFINE row == [state |-> "new", late |-> FALSE, setter |-> tx[u].setter, contacted |-> FALSE]
  <2>1. row \in OptinRow /\ row.state = "new" /\ row.contacted = FALSE
    BY <1>1 DEF OptinRow, Tx
  <2>2. /\ optin' = [optin EXCEPT ![o] = row] /\ tx' = [tx EXCEPT ![u] = Idle]
        /\ tx[u].op = "optin" /\ UNCHANGED <<contacted, tasks, active, rows, edits, failures>>
    BY <1>3 DEF CommitOptin
  <2>3. optin[o].state = "absent" /\ ~ optin[o].contacted /\ tx'[u] = Idle
    BY <1>1, <2>2, TypesOfRows DEF LeadInv, ReadsHold
  <2> HIDE DEF row
  <2>4. QED
    BY <1>1, <1>2, <2>1, <2>2, <2>3, OptinWritten
<1>4. CASE CommitContact(u)
  <2> DEFINE row == [optin[o] EXCEPT !.contacted = TRUE]
  <2>1. /\ optin' = [optin EXCEPT ![o] = row] /\ tx' = [tx EXCEPT ![u] = Idle]
        /\ contacted' = [contacted EXCEPT ![o] = @ + 1] /\ ~ optin[o].contacted
        /\ tx[u].op = "contact" /\ UNCHANGED <<tasks, active, rows, edits, failures>>
    BY <1>4 DEF CommitContact
  <2>2. /\ row \in OptinRow /\ row.state = optin[o].state /\ row.setter = optin[o].setter
        /\ row.contacted
    BY <1>1 DEF OptinRow
  <2>3. optin[o].state = "new"
    BY <2>1 DEF LeadInv, ReadsHold
  <2>4. /\ contacted' \in [Optins -> Nat] /\ contacted'[o] = 1
        /\ \A p \in Optins \ {o} : contacted'[p] = contacted[p]
    BY <1>1, <1>2, <2>1
  <2> HIDE DEF row
  <2>5. QED
    BY <1>1, <2>1, <2>2, <2>3, <2>4, OptinWritten
<1>5. QED
  BY <1>3, <1>4

LEMMA SlaPassesKeeps ==
    ASSUME LeadInv, NEW o \in Optins, SlaPasses(o)
    PROVE  LeadInv' /\ TasksLeft
<1> DEFINE row == [optin[o] EXCEPT !.late = TRUE]
<1>1. /\ optin' = [optin EXCEPT ![o] = row] /\ optin[o].state = "new"
      /\ UNCHANGED <<contacted, tasks, active, tx, rows, edits, failures>>
  BY DEF SlaPasses
<1>2. optin[o] \in OptinRow /\ optin \in [Optins -> OptinRow]
  BY TypesOfRows
<1>3. /\ row \in OptinRow /\ row.state = "new" /\ row.setter = optin[o].setter
      /\ row.contacted = optin[o].contacted
  BY <1>1, <1>2 DEF OptinRow
<1> HIDE DEF row
<1>4. /\ optin' \in [Optins -> OptinRow]
      /\ \A p \in Optins : /\ optin'[p].state = optin[p].state
                           /\ optin'[p].setter = optin[p].setter
                           /\ optin'[p].contacted = optin[p].contacted
  BY <1>1, <1>2, <1>3
<1>5. TypeOK'
  BY <1>1, <1>4 DEF LeadInv, TypeOK, OptinRow
<1>6. ReadsHold' /\ ContactedOnce'
  BY <1>1, <1>4 DEF LeadInv, TypeOK, ReadsHold, ContactedOnce
<1>7. OneTaskPerKey' /\ TasksLeft
  BY <1>1, TypesOfRows, TasksKept
<1>8. QED
  BY <1>5, <1>6, <1>7 DEF LeadInv

LEMMA BeginsKeep ==
    ASSUME LeadInv, NEW u \in Users, NEW o \in Optins,
           BeginContact(u, o) \/ \E attribute \in BOOLEAN : BeginOptin(u, o, attribute)
    PROVE  LeadInv' /\ TasksLeft
<1>1. PICK t \in Tx : /\ tx' = [tx EXCEPT ![u] = t] /\ t.optin = o
                      /\ \/ t.op = "contact" /\ optin[o].state = "new"
                         \/ t.op = "optin" /\ optin[o].state = "absent"
                            /\ \A v \in Users : tx[v].optin # o
  <2>1. CASE BeginContact(u, o)
    <3>1. [Idle EXCEPT !.op = "contact", !.optin = o] \in Tx
      BY DEF Idle, Tx
    <3>2. QED
      BY <2>1, <3>1 DEF BeginContact, Idle
  <2>2. CASE \E attribute \in BOOLEAN : BeginOptin(u, o, attribute)
    <3>1. PICK a \in PickSetter \cup {NoSetter} :
                   tx' = [tx EXCEPT ![u] = [op |-> "optin", optin |-> o, setter |-> a]]
      BY <2>2 DEF BeginOptin
    <3>2. a \in Setters \cup {NoSetter}
      BY <3>1, TypesOfRows DEF PickSetter
    <3> DEFINE t == [op |-> "optin", optin |-> o, setter |-> a]
    <3>3. t \in Tx /\ t.op = "optin" /\ t.optin = o
      BY <3>2 DEF Tx
    <3>4. optin[o].state = "absent" /\ \A v \in Users : tx[v].optin # o
      BY <2>2 DEF BeginOptin
    <3>5. tx' = [tx EXCEPT ![u] = t]
      BY <3>1
    <3> HIDE DEF t
    <3>6. QED
      BY <3>3, <3>4, <3>5
  <2>3. QED
    BY <2>1, <2>2
<1>2. /\ UNCHANGED <<optin, contacted, tasks, active, rows, failures>> /\ edits' = edits + 1
  BY DEF BeginContact, BeginOptin, Edit
<1>3. /\ tx' \in [Users -> Tx] /\ tx'[u] = t /\ \A v \in Users \ {u} : tx'[v] = tx[v]
  BY <1>1, TypesOfRows
<1>4. TypeOK'
  BY <1>1, <1>2, <1>3 DEF LeadInv, TypeOK, Tx
<1>5. ReadsHold' /\ ContactedOnce'
  BY <1>1, <1>2, <1>3 DEF LeadInv, TypeOK, ReadsHold, ContactedOnce
<1>6. OneTaskPerKey' /\ TasksLeft
  BY <1>2, TypesOfRows, TasksKept
<1>7. QED
  BY <1>4, <1>5, <1>6 DEF LeadInv

-------------------------------------------------------------------------------
(* Theorems.                                                                   *)

LEMMA InitHolds == Init => LeadInv
<1> SUFFICES ASSUME Init PROVE LeadInv
  OBVIOUS
<1>1. tasks = <<>> /\ DOMAIN tasks = {} /\ tasks \in Seq(TaskRow)
  BY DEF Init
<1>2. TypeOK
  BY <1>1 DEF Init, TypeOK, Idle, TaskRow
<1>3. ReadsHold /\ ContactedOnce /\ OneTaskPerKey
  BY <1>1 DEF Init, ReadsHold, ContactedOnce, OneTaskPerKey, Idle
<1>4. QED
  BY <1>2, <1>3 DEF LeadInv

LEMMA StepKeeps == LeadInv /\ [Next]_vars => LeadInv' /\ TasksLeft
<1> SUFFICES ASSUME LeadInv, [Next]_vars
             PROVE  LeadInv' /\ TasksLeft
  OBVIOUS
<1>1. CASE UNCHANGED vars
  BY <1>1, StutterKeeps
<1>2. ASSUME NEW u \in Users, OptinsRouter(u) \/ LinkOptin(u)
      PROVE  LeadInv' /\ TasksLeft
  BY <1>2, BeginsKeep, OptinStepsKeep DEF OptinsRouter, LinkOptin
<1>3. ASSUME NEW u \in Users,
             \/ TasksRouter(u) \/ CreateTaskButton(u) \/ FollowUpTool(u)
             \/ Abort(u) \/ \E a \in Setters : ChangeSetters(u, a)
      PROVE  LeadInv' /\ TasksLeft
  BY <1>3, TasksRouterKeeps, ButtonAndToolKeep, AbortAndRolesKeep
<1>4. ASSUME NEW o \in Optins, SlaPasses(o)
      PROVE  LeadInv' /\ TasksLeft
  BY <1>4, SlaPassesKeeps
<1>5. ASSUME NEW w \in Sweepers, SpeedToLeadSlaSweep(w)
      PROVE  LeadInv' /\ TasksLeft
  BY <1>5, SweepKeeps
<1>6. QED
  BY <1>1, <1>2, <1>3, <1>4, <1>5 DEF Next

LEMMA Invariance == Spec => []LeadInv
  BY InitHolds, StepKeeps, PTL DEF Spec

\* Every variable keeps its type, and whom a sweep chases is attributed.
THEOREM TypeCorrect == Spec => []TypeOK
<1>1. LeadInv => TypeOK
  BY DEF LeadInv
<1>2. QED
  BY <1>1, Invariance, PTL

\* upsertTaskByUniqueKey under any number of overlapping sweeps.
THEOREM KeysAreUnique == Spec => []OneTaskPerKey
<1>1. LeadInv => OneTaskPerKey
  BY DEF LeadInv
<1>2. QED
  BY <1>1, Invariance, PTL

\* linkOptin's compare-and-set lets one of any number of users contact a lead.
THEOREM ContactIsOnce == Spec => []ContactedOnce
<1>1. LeadInv => ContactedOnce
  BY DEF LeadInv
<1>2. QED
  BY <1>1, Invariance, PTL

\* No step of the system reopens a task or gives it to somebody else.
THEOREM TasksAreLeft == Spec => SweepsLeaveTasks
<1>1. LeadInv /\ [Next]_vars => [TasksLeft]_vars
  BY StepKeeps
<1>2. QED
  BY <1>1, Invariance, PTL DEF Spec, SweepsLeaveTasks, TasksLeft
-------------------------------------------------------------------------------
(* No lead is dropped.                                                         *)

LeadStays(o) == o \in Chased => o \in Chased' \/ optin'[o].contacted
TasksStay == \A i \in DOMAIN tasks : i \in DOMAIN tasks' /\ tasks'[i].key = tasks[i].key
RowStays(w) ==
    /\ \A o \in rows[w] : o \in rows'[w] \/ Keyed(o)' # {} \/ failures' > failures
    /\ rows[w] = {} /\ rows'[w] # {} /\ Cardinality(Chased) <= SweepLimit => rows'[w] = Chased

\* A task is added at the end, or one changes its status.
LEMMA AddedStay ==
    ASSUME TasksTyped, NEW t \in TaskRow, CreateTask(t)
    PROVE  /\ TasksStay
           /\ \E i \in DOMAIN tasks' : tasks'[i] = t
<1>1. /\ tasks' \in Seq(TaskRow) /\ Len(tasks) \in Nat
      /\ DOMAIN tasks = 1..Len(tasks) /\ DOMAIN tasks' = 1..(Len(tasks) + 1)
      /\ \A i \in 1..Len(tasks) : tasks'[i] = tasks[i]
      /\ tasks'[Len(tasks) + 1] = t
  BY DEF TasksTyped, CreateTask
<1>2. 1..Len(tasks) \subseteq 1..(Len(tasks) + 1) /\ Len(tasks) + 1 \in 1..(Len(tasks) + 1)
  BY <1>1
<1>3. QED
  BY <1>1, <1>2 DEF TasksStay

LEMMA UpsertedStay ==
    ASSUME TasksTyped, NEW key \in Optins \cup FollowUpKeys, NEW a \in Setters,
           UpsertTaskByUniqueKey(key, a)
    PROVE  TasksStay /\ Keyed(key)' # {}
<1>1. CASE Keyed(key) = {}
  <2>1. /\ Task(key, "follow_up_due", a) \in TaskRow
        /\ Task(key, "follow_up_due", a).key = key
    BY DEF Task, TaskRow, Kinds, Statuses
  <2>2. CreateTask(Task(key, "follow_up_due", a))
    BY <1>1 DEF UpsertTaskByUniqueKey, CreateTask
  <2>3. QED
    BY <2>1, <2>2, AddedStay DEF Keyed
<1>2. CASE Keyed(key) # {}
  BY <1>2 DEF UpsertTaskByUniqueKey, Keyed, TasksStay
<1>3. QED
  BY <1>1, <1>2

LEMMA SettledStay ==
    ASSUME TasksTyped, NEW i \in DOMAIN tasks, NEW status,
           tasks' = [tasks EXCEPT ![i].status = status]
    PROVE  TasksStay
<1>1. /\ DOMAIN tasks' = DOMAIN tasks
      /\ \A j \in DOMAIN tasks : j # i => tasks'[j] = tasks[j]
      /\ tasks'[i] = [tasks[i] EXCEPT !.status = status]
  BY DEF TasksTyped
<1>2. tasks[i] \in TaskRow
  BY DEF TasksTyped
<1>3. tasks'[i].key = tasks[i].key
  BY <1>1, <1>2 DEF TaskRow
<1>4. QED
  BY <1>1, <1>3 DEF TasksStay

LEMMA UserTasksStay ==
    ASSUME LeadInv, NEW u \in Users,
           TasksRouter(u) \/ CreateTaskButton(u) \/ FollowUpTool(u)
    PROVE  TasksStay /\ UNCHANGED <<optin, rows, failures>>
<1>1. ASSUME NEW i \in DOMAIN tasks, CompleteTask(u, i) \/ SnoozeTask(u, i)
      PROVE  TasksStay /\ UNCHANGED <<optin, rows, failures>>
  <2>1. \E status \in {"snoozed", "completed"} : tasks' = [tasks EXCEPT ![i].status = status]
    BY <1>1 DEF CompleteTask, SnoozeTask
  <2>2. UNCHANGED <<optin, rows, failures>>
    BY <1>1 DEF CompleteTask, SnoozeTask
  <2>3. QED
    BY <2>1, <2>2, TypesOfRows, SettledStay
<1>2. ASSUME NEW a \in Setters, NEW kind \in Kinds, TasksCreate(u, kind, a)
      PROVE  TasksStay /\ UNCHANGED <<optin, rows, failures>>
  <2>1. Task(NoKey, kind, a) \in TaskRow
    BY DEF Task, TaskRow, Statuses
  <2>2. CreateTask(Task(NoKey, kind, a)) /\ UNCHANGED <<optin, rows, failures>>
    BY <1>2 DEF TasksCreate
  <2>3. QED
    BY <2>1, <2>2, TypesOfRows, AddedStay
<1>3. ASSUME NEW key \in FollowUpKeys, NEW a \in Setters, RecordFollowUp(u, key, a)
      PROVE  TasksStay /\ UNCHANGED <<optin, rows, failures>>
  BY <1>3, TypesOfRows, UpsertedStay DEF RecordFollowUp
<1>4. QED
  BY <1>1, <1>2, <1>3 DEF TasksRouter, CreateTaskButton, FollowUpTool, Kinds

\* A creation never falls on an opt-in that is there, so a lead is only changed by a contact.
LEMMA LeadsStay ==
    ASSUME LeadInv, [Next]_vars, NEW o \in Optins
    PROVE  LeadStays(o)
<1> SUFFICES ASSUME o \in Chased PROVE o \in Chased' \/ optin'[o].contacted
  BY DEF LeadStays
<1>1. /\ optin \in [Optins -> OptinRow] /\ optin[o].state = "new" /\ optin[o].late
      /\ optin[o].setter # NoSetter /\ ~ optin[o].contacted
  BY TypesOfRows DEF Chased
<1>2. CASE optin' = optin
  BY <1>2 DEF Chased
<1>3. ASSUME NEW u \in Users, CommitOptin(u) PROVE optin'[o] = optin[o]
  <2>1. tx[u].optin # o
    BY <1>1, <1>3 DEF CommitOptin, LeadInv, ReadsHold
  <2>2. QED
    BY <1>1, <1>3, <2>1 DEF CommitOptin
<1>4. ASSUME NEW u \in Users, CommitContact(u) PROVE optin'[o] = optin[o] \/ optin'[o].contacted
  <2>1. optin' = [optin EXCEPT ![tx[u].optin].contacted = TRUE]
    BY <1>4 DEF CommitContact
  <2>2. QED
    BY <1>1, <2>1 DEF OptinRow
<1>5. ASSUME NEW p \in Optins, SlaPasses(p) PROVE optin'[o] = optin[o]
  BY <1>1, <1>5 DEF SlaPasses
<1>6. optin' = optin \/ optin'[o] = optin[o] \/ optin'[o].contacted
  <2>1. CASE UNCHANGED vars  BY <2>1 DEF vars
  <2>2. ASSUME NEW u \in Users, OptinsRouter(u) \/ LinkOptin(u)
        PROVE  optin' = optin \/ optin'[o] = optin[o] \/ optin'[o].contacted
    BY <2>2, <1>3, <1>4 DEF OptinsRouter, LinkOptin, BeginOptin, BeginContact
  <2>3. ASSUME NEW u \in Users, TasksRouter(u) \/ CreateTaskButton(u) \/ FollowUpTool(u)
        PROVE  optin' = optin
    BY <2>3, UserTasksStay
  <2>4. ASSUME NEW u \in Users, Abort(u) \/ \E a \in Setters : ChangeSetters(u, a)
        PROVE  optin' = optin
    BY <2>4 DEF Abort, ChangeSetters
  <2>5. ASSUME NEW w \in Sweepers, SpeedToLeadSlaSweep(w) PROVE optin' = optin
    BY <2>5 DEF SpeedToLeadSlaSweep, StartSweep, SweepRow, SweepFails
  <2>6. QED
    BY <2>1, <2>2, <2>3, <2>4, <2>5, <1>5 DEF Next
<1>7. QED
  BY <1>1, <1>2, <1>6 DEF Chased

LEMMA SweepStays ==
    ASSUME LeadInv, NEW w \in Sweepers, SpeedToLeadSlaSweep(w)
    PROVE  TasksStay /\ \A v \in Sweepers : RowStays(v)
<1>1. /\ rows \in [Sweepers -> SUBSET Optins] /\ failures \in Nat /\ TasksTyped
      /\ \A o \in rows[w] : optin[o].setter \in Setters
  BY DEF LeadInv, TypeOK, TasksTyped, TaskRow
<1>2. CASE StartSweep(w)
  <2>1. PICK S \in Batches : rows' = [rows EXCEPT ![w] = S]
    BY <1>2 DEF StartSweep
  <2>2. tasks' = tasks /\ rows[w] = {}
    BY <1>2 DEF StartSweep
  <2>3. Cardinality(Chased) <= SweepLimit => S = Chased
    BY <2>1 DEF Batches
  <2>4. rows'[w] = S /\ \A v \in Sweepers \ {w} : rows'[v] = rows[v]
    BY <1>1, <2>1
  <2>5. QED
    BY <2>2, <2>3, <2>4 DEF TasksStay, RowStays
<1>3. CASE SweepRow(w)
  <2>1. PICK o \in rows[w] : /\ UpsertTaskByUniqueKey(o, optin[o].setter)
                             /\ rows' = [rows EXCEPT ![w] = @ \ {o}]
    BY <1>3 DEF SweepRow
  <2>2. o \in Optins
    BY <1>1
  <2>3. TasksStay /\ Keyed(o)' # {}
    BY <1>1, <2>1, <2>2, UpsertedStay
  <2>4. rows'[w] = rows[w] \ {o} /\ \A v \in Sweepers \ {w} : rows'[v] = rows[v]
    BY <1>1, <2>1
  <2>5. QED
    BY <2>1, <2>3, <2>4 DEF RowStays
<1>4. CASE SweepFails(w)
  <2>1. tasks' = tasks /\ failures' = failures + 1 /\ rows' = [rows EXCEPT ![w] = {}]
    BY <1>4 DEF SweepFails
  <2>2. failures' > failures
    BY <1>1, <2>1
  <2>3. rows'[w] = {} /\ \A v \in Sweepers \ {w} : rows'[v] = rows[v]
    BY <1>1, <2>1
  <2>4. QED
    BY <2>1, <2>2, <2>3 DEF TasksStay, RowStays
<1>5. QED
  BY <1>2, <1>3, <1>4 DEF SpeedToLeadSlaSweep

\* The step of NoLeadDropped.
LEMMA DropsNothing ==
    ASSUME LeadInv, [Next]_vars
    PROVE  /\ \A o \in Optins : LeadStays(o) /\ (Keyed(o) # {} => Keyed(o)' # {})
           /\ \A w \in Sweepers : RowStays(w)
<1>1. TasksStay /\ \A w \in Sweepers : RowStays(w)
  <2>1. CASE UNCHANGED vars
    BY <2>1 DEF vars, TasksStay, RowStays
  <2>2. ASSUME NEW u \in Users, OptinsRouter(u) \/ LinkOptin(u)
        PROVE  tasks' = tasks /\ rows' = rows
    BY <2>2 DEF OptinsRouter, LinkOptin, BeginOptin, CommitOptin, BeginContact, CommitContact
  <2>3. ASSUME NEW u \in Users, TasksRouter(u) \/ CreateTaskButton(u) \/ FollowUpTool(u)
        PROVE  TasksStay /\ rows' = rows
    BY <2>3, UserTasksStay
  <2>4. ASSUME NEW u \in Users, Abort(u) \/ \E a \in Setters : ChangeSetters(u, a)
        PROVE  tasks' = tasks /\ rows' = rows
    BY <2>4 DEF Abort, ChangeSetters
  <2>5. ASSUME NEW o \in Optins, SlaPasses(o) PROVE tasks' = tasks /\ rows' = rows
    BY <2>5 DEF SlaPasses
  <2>6. ASSUME NEW w \in Sweepers, SpeedToLeadSlaSweep(w)
        PROVE  TasksStay /\ \A v \in Sweepers : RowStays(v)
    BY <2>6, SweepStays
  <2>7. tasks' = tasks => TasksStay
    BY DEF TasksStay
  <2>8. rows' = rows => \A w \in Sweepers : RowStays(w)
    BY DEF RowStays
  <2>9. QED
    BY <2>1, <2>2, <2>3, <2>4, <2>5, <2>6, <2>7, <2>8 DEF Next
<1>2. \A o \in Optins : Keyed(o) # {} => Keyed(o)' # {}
  BY <1>1 DEF TasksStay, Keyed
<1>3. QED
  BY <1>1, <1>2, LeadsStay

\* Over any number of users, sweeps and failures, a late lead is never dropped: what is left
\* to fairness is that the job runs.
THEOREM LeadsAreKept == Spec => NoLeadDropped
<1>1. LeadInv /\ [Next]_vars =>
        [/\ \A o \in Optins : /\ o \in Chased => o \in Chased' \/ optin'[o].contacted
                              /\ Keyed(o) # {} => Keyed(o)' # {}
         /\ \A w \in Sweepers :
                /\ \A o \in rows[w] : o \in rows'[w] \/ Keyed(o)' # {} \/ failures' > failures
                /\ rows[w] = {} /\ rows'[w] # {} /\ Cardinality(Chased) <= SweepLimit
                       => rows'[w] = Chased]_vars
  BY DropsNothing DEF LeadStays, RowStays
<1>2. QED
  BY <1>1, Invariance, PTL DEF Spec, NoLeadDropped
===============================================================================
