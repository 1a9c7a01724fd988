---------------------------- MODULE ScoreboardProofs ----------------------------
(* What holds of a team's quotas for any calendar and any number of members, tabs, goals
   and edits.                                                                       *)
EXTENDS Scoreboard, FiniteSetTheorems, TLAPS

Goal == [live : BOOLEAN, kind : Kinds, user : Members, target : Targets,
         start : Nat, end : Nat, created : Nat]
Drawer == [op : {"closed", "cell", "create"}, user : Members, kind : Kinds, start : Nat, end : Nat,
           goal : Nat, target : Targets \cup {0}, created : Nat]
Sale == [live : BOOLEAN, closed : Nat, amount : Nat, shares : [Members -> 0..(Full + Tolerance)]]
Call == [live : BOOLEAN, at : Nat, closer : Members, done : BOOLEAN]

GoalsTyped ==
    /\ goals \in Seq(Goal) /\ begun \in Nat
    /\ \A g \in Goals : goals[g].created \in 1..begun

DrawersTyped ==
    /\ drawer \in [Tabs -> Drawer]
    /\ \A t \in Tabs :
           /\ drawer[t].goal \in 0..Len(goals)
           /\ drawer[t].op = "create" => /\ drawer[t].created \in 1..begun
                                         /\ drawer[t].target \in Targets

FiguresTyped ==
    /\ now \in Start..Horizon /\ sale \in [Sales -> Sale] /\ call \in [Calls -> Call]
    /\ \A s \in Sales : sale[s].live => sale[s].shares \in Splits

CountersTyped ==
    /\ edits \in 0..MaxEdits /\ patches \in 0..MaxPatches
    /\ contended \subseteq Members /\ patched \subseteq Members /\ dated \subseteq Members

\* The months a quota can be given for.
QuotaMonths == UNION {(m - 1)..(m + 1) : m \in CurrentMonths}

IsMonth(start, end) ==
    \E m \in QuotaMonths : start = MonthStart(m) /\ end = MonthStart(m + 1) - 1

(* The goals page and the wizard write whole months.                                *)
DrawersOfMonths ==
    \A t \in Tabs :
        /\ drawer[t].op = "cell" => IsMonth(drawer[t].start, drawer[t].end)
        /\ drawer[t].op = "create" /\ drawer[t].kind = "quota" =>
               drawer[t].user \in dated \/ IsMonth(drawer[t].start, drawer[t].end)

IsQuota(g) == goals[g].live /\ goals[g].kind = "quota"

QuotasOfMonths ==
    \A g \in Goals : IsQuota(g) => \/ goals[g].user \in patched \cup dated
                                   \/ IsMonth(goals[g].start, goals[g].end)

(* What a creation has checked holds until it commits, unless another is under way.   *)
CreationsAlone ==
    \A t, v \in Tabs : /\ drawer[t].op = "create" /\ drawer[v].op = "create"
                       /\ drawer[t].kind = "quota" /\ drawer[v].kind = "quota"
                       /\ drawer[t].user = drawer[v].user
                       => t = v \/ drawer[t].user \in contended

CreationsFree ==
    \A t \in Tabs, g \in Goals :
        /\ drawer[t].op = "create" /\ drawer[t].kind = "quota"
        /\ drawer[t].user \notin contended \cup patched
        /\ IsQuota(g) /\ goals[g].user = drawer[t].user
        => goals[g].end < drawer[t].start \/ drawer[t].end < goals[g].start

BoardInv ==
    /\ GoalsTyped /\ DrawersTyped /\ FiguresTyped /\ CountersTyped
    /\ DrawersOfMonths /\ QuotasOfMonths
    /\ CreationsAlone /\ CreationsFree /\ QuotasDisjoint

-------------------------------------------------------------------------------
(* Data.                                                                       *)

LEMMA RowReplaced ==
    ASSUME NEW S, NEW s \in Seq(S), NEW i \in 1..Len(s), NEW x \in S
    PROVE  /\ [s EXCEPT ![i] = x] \in Seq(S) /\ Len([s EXCEPT ![i] = x]) = Len(s)
           /\ [s EXCEPT ![i] = x][i] = x
           /\ \A j \in 1..Len(s) \ {i} : [s EXCEPT ![i] = x][j] = s[j]
  OBVIOUS

LEMMA DayOfMidnight ==
    ASSUME NEW d \in Nat
    PROVE  Day(Midnight(d)) = d
<1>1. DayLength \in Nat \ {0}
  BY ScoreboardAssumption
<1>2. (d * DayLength) \div DayLength = d
  BY <1>1
<1>3. QED
  BY <1>2 DEF Day, Midnight

LEMMA MonthsOrdered ==
    ASSUME NEW m \in QuotaMonths
    PROVE  /\ m \in Int /\ m \in Months /\ m + 1 \in Months
           /\ MonthStart(m) \in Nat /\ MonthStart(m + 1) \in Nat
           /\ MonthStart(m) < MonthStart(m + 1)
<1>1. PICK c \in CurrentMonths : m \in (c - 1)..(c + 1)
  BY DEF QuotaMonths
<1>2. c \in Int
  BY CalendarAssumption
<1>3. m \in Int /\ m \in (c - 1)..(c + 2) /\ m + 1 \in (c - 1)..(c + 2)
  BY <1>1, <1>2
<1>4. m \in Months /\ m + 1 \in Months
  BY <1>3 DEF Months
<1>5. MonthStart(m) \in Nat /\ MonthStart(m + 1) \in Nat
  BY <1>3, <1>4, CalendarAssumption
<1>6. m < m + 1
  BY <1>3
<1>7. \A a, b \in Months : a < b => MonthStart(a) < MonthStart(b)
  BY CalendarAssumption
<1>8. MonthStart(m) < MonthStart(m + 1)
  BY <1>3, <1>4, <1>6, <1>7
<1>9. QED
  BY <1>3, <1>4, <1>5, <1>8

\* Two different months share no day.
LEMMA MonthsApart ==
    ASSUME NEW m \in QuotaMonths, NEW k \in QuotaMonths,
           MonthStart(k) <= MonthStart(m + 1) - 1, MonthStart(k + 1) - 1 >= MonthStart(m)
    PROVE  k = m
<1>1. /\ m \in Int /\ k \in Int /\ m \in Months /\ k \in Months
      /\ m + 1 \in Months /\ k + 1 \in Months
      /\ MonthStart(m) \in Nat /\ MonthStart(m + 1) \in Nat
      /\ MonthStart(k) \in Nat /\ MonthStart(k + 1) \in Nat
  BY MonthsOrdered
<1>2. \A a, b \in Months : a < b => MonthStart(a) < MonthStart(b)
  BY CalendarAssumption
<1>3. ~ (m + 1 < k) /\ ~ (k + 1 < m)
  BY <1>1, <1>2
<1>4. m + 1 # k /\ k + 1 # m
  BY <1>1
<1>5. QED
  BY <1>1, <1>3, <1>4

LEMMA PeriodBoundary ==
    ASSUME now \in Start..Horizon, NEW offset \in {-1, 0, 1}
    PROVE  LET m == MonthOf(now) + offset
               p == periodBoundaryAt(offset)
           IN  /\ m \in QuotaMonths
               /\ Day(p.from) = MonthStart(m) /\ Day(p.to) = MonthStart(m + 1)
<1> DEFINE c == MonthOf(now)
           m == c + offset
<1>1. c \in CurrentMonths
  BY CalendarAssumption DEF MonthOf
<1>2. m \in QuotaMonths
  <2>1. c \in Int
    BY <1>1, CalendarAssumption
  <2>2. m \in (c - 1)..(c + 1)
    BY <2>1
  <2>3. QED
    BY <1>1, <2>2 DEF QuotaMonths
<1>3. MonthStart(m) \in Nat /\ MonthStart(m + 1) \in Nat
  BY <1>2, MonthsOrdered
<1>4. /\ periodBoundaryAt(offset).from = Midnight(MonthStart(m))
      /\ periodBoundaryAt(offset).to = Midnight(MonthStart(m + 1))
  BY DEF periodBoundaryAt
<1>5. QED
  BY <1>2, <1>3, <1>4, DayOfMidnight

-------------------------------------------------------------------------------
(* Steps that give no member a new quota.                                      *)

\* A cell of the goals page that is empty has a free month.
LEMMA EmptyCells ==
    ASSUME BoardInv
    PROVE  EmptyCellsCanBeFilled
<1>1. SUFFICES ASSUME NEW u \in Members, u \notin patched \cup dated, NEW offset \in {-1, 0, 1},
                      CellGoals(u, periodBoundaryAt(offset)) = {}
               PROVE  LET p == periodBoundaryAt(offset)
                      IN  findOverlappingGoals(u, Day(p.from), Day(p.to) - 1) = {}
  BY DEF EmptyCellsCanBeFilled
<1> DEFINE m == MonthOf(now) + offset
           p == periodBoundaryAt(offset)
<1>2. m \in QuotaMonths /\ Day(p.from) = MonthStart(m) /\ Day(p.to) = MonthStart(m + 1)
  BY PeriodBoundary DEF BoardInv, FiguresTyped
<1> HIDE DEF m, p
<1>3. SUFFICES ASSUME NEW g \in QuotasOf(u),
                      goals[g].start <= MonthStart(m + 1) - 1, goals[g].end >= MonthStart(m)
               PROVE  FALSE
  BY <1>2 DEF findOverlappingGoals, p
<1>4. g \in Goals /\ IsQuota(g) /\ goals[g].user = u
  BY DEF QuotasOf, IsQuota
<1>5. PICK k \in QuotaMonths : goals[g].start = MonthStart(k)
                               /\ goals[g].end = MonthStart(k + 1) - 1
  BY <1>1, <1>4 DEF BoardInv, QuotasOfMonths, IsMonth
<1>6. k = m
  BY <1>2, <1>3, <1>5, MonthsApart
<1>7. MonthStart(m) \in Nat /\ MonthStart(m + 1) \in Nat /\ MonthStart(m) < MonthStart(m + 1)
  BY <1>2, MonthsOrdered
<1>8. goals[g].start <= MonthStart(m) /\ goals[g].end >= MonthStart(m)
  BY <1>5, <1>6, <1>7
<1>9. g \in CellGoals(u, periodBoundaryAt(offset))
  BY <1>2, <1>8 DEF CellGoals, p
<1>10. QED
  BY <1>1, <1>9

\* Quotas are left, dropped, or changed past the goals page, which is noted.
LEMMA QuotasKept ==
    ASSUME BoardInv, GoalsTyped', DrawersTyped', FiguresTyped', CountersTyped',
           contended \subseteq contended', patched \subseteq patched', dated \subseteq dated',
           \A g \in Goals' : goals'[g].live /\ goals'[g].kind = "quota" =>
               \/ goals'[g].user \in patched'
               \/ /\ g \in Goals /\ IsQuota(g) /\ goals'[g].user = goals[g].user
                  /\ goals'[g].start = goals[g].start /\ goals'[g].end = goals[g].end,
           \A t \in Tabs : \/ drawer'[t] = drawer[t]
                           \/ /\ drawer'[t].op # "create"
                              /\ drawer'[t].op = "cell" =>
                                     IsMonth(drawer'[t].start, drawer'[t].end)
    PROVE  BoardInv'
<1>1. DrawersOfMonths'
  BY DEF BoardInv, DrawersOfMonths, IsMonth
<1>2. QuotasOfMonths'
  BY DEF BoardInv, QuotasOfMonths, IsQuota, IsMonth
<1>3. CreationsAlone'
  BY DEF BoardInv, CreationsAlone
<1>4. CreationsFree'
  BY DEF BoardInv, CreationsFree, IsQuota
<1>5. QuotasDisjoint'
  <2>1. SUFFICES ASSUME NEW u \in Members, u \notin contended' \cup patched',
                        NEW g \in Goals', NEW h \in Goals', g # h,
                        goals'[g].live, goals'[g].kind = "quota", goals'[g].user = u,
                        goals'[h].live, goals'[h].kind = "quota", goals'[h].user = u
                 PROVE  goals'[g].end < goals'[h].start \/ goals'[h].end < goals'[g].start
    BY DEF QuotasDisjoint, QuotasOf
  <2>2. /\ g \in QuotasOf(u) /\ goals'[g].start = goals[g].start /\ goals'[g].end = goals[g].end
        /\ h \in QuotasOf(u) /\ goals'[h].start = goals[h].start /\ goals'[h].end = goals[h].end
    BY <2>1 DEF QuotasOf, IsQuota
  <2>3. goals[g].end < goals[h].start \/ goals[h].end < goals[g].start
    BY <2>1, <2>2 DEF BoardInv, QuotasDisjoint
  <2>4. QED
    BY <2>2, <2>3
<1>6. QED
  BY <1>1, <1>2, <1>3, <1>4, <1>5 DEF BoardInv

LEMMA ClosedIsTyped == Closed \in Drawer /\ Closed.op = "closed" /\ Closed.goal = 0
  BY ScoreboardAssumption DEF Closed, Drawer, Kinds

\* A tab opens a cell or closes its drawer.
LEMMA DrawerMoves ==
    ASSUME BoardInv, NEW t \in Tabs, NEW x \in Drawer, drawer' = [drawer EXCEPT ![t] = x],
           x.op # "create", x.goal \in 0..Len(goals),
           x.op = "cell" => IsMonth(x.start, x.end),
           UNCHANGED <<goals, begun, patches, contended, patched, dated>>, UNCHANGED figures,
           edits' \in 0..MaxEdits
    PROVE  BoardInv'
<1>1. /\ drawer'[t] = x /\ \A v \in Tabs \ {t} : drawer'[v] = drawer[v]
      /\ drawer' \in [Tabs -> Drawer]
  BY DEF BoardInv, DrawersTyped
<1>2. GoalsTyped' /\ FiguresTyped' /\ CountersTyped'
  BY DEF BoardInv, GoalsTyped, Goals, FiguresTyped, CountersTyped, figures
<1>3. DrawersTyped'
  BY <1>1 DEF BoardInv, DrawersTyped
<1>4. \A v \in Tabs : \/ drawer'[v] = drawer[v]
                      \/ /\ drawer'[v].op # "create"
                         /\ drawer'[v].op = "cell" => IsMonth(drawer'[v].start, drawer'[v].end)
  BY <1>1
<1>5. \A g \in Goals' : goals'[g].live /\ goals'[g].kind = "quota" =>
          /\ g \in Goals /\ IsQuota(g) /\ goals'[g].user = goals[g].user
          /\ goals'[g].start = goals[g].start /\ goals'[g].end = goals[g].end
  BY DEF Goals, IsQuota
<1>6. QED
  BY <1>2, <1>3, <1>4, <1>5, QuotasKept

LEMMA EditCounts ==
    ASSUME BoardInv
    PROVE  /\ Edit => edits' \in 0..MaxEdits
           /\ Patch => edits' \in 0..MaxEdits /\ patches' \in 0..MaxPatches
  BY ScoreboardAssumption DEF Edit, Patch, BoardInv, CountersTyped

LEMMA OpenCellKeeps ==
    ASSUME BoardInv, NEW t \in Tabs, NEW u \in Members, NEW offset \in {-1, 0, 1},
           OpenCell(t, u, offset)
    PROVE  BoardInv'
<1> DEFINE p == periodBoundaryAt(offset)
           m == MonthOf(now) + offset
<1>1. m \in QuotaMonths /\ Day(p.from) = MonthStart(m) /\ Day(p.to) = MonthStart(m + 1)
  BY PeriodBoundary DEF BoardInv, FiguresTyped
<1>2. MonthStart(m) \in Nat /\ MonthStart(m + 1) \in Nat /\ MonthStart(m) < MonthStart(m + 1)
  BY <1>1, MonthsOrdered
<1>3. PICK g \in 0..Len(goals) :
          drawer' = [drawer EXCEPT ![t] =
              [Closed EXCEPT !.op = "cell", !.user = u, !.goal = g,
                             !.start = Day(p.from), !.end = Day(p.to) - 1]]
  <2>1. CellGoals(u, p) \subseteq 0..Len(goals) /\ 0 \in 0..Len(goals)
    BY DEF CellGoals, QuotasOf, Goals, BoardInv, GoalsTyped
  <2>2. QED
    BY <2>1 DEF OpenCell
<1> DEFINE x == [Closed EXCEPT !.op = "cell", !.user = u, !.goal = g,
                               !.start = MonthStart(m), !.end = MonthStart(m + 1) - 1]
<1>4. drawer' = [drawer EXCEPT ![t] = x]
  BY <1>1, <1>3
<1>5. MonthStart(m + 1) - 1 \in Nat /\ g \in Nat
  BY <1>2
<1>6. /\ x \in Drawer /\ x.op = "cell" /\ x.goal = g
      /\ x.start = MonthStart(m) /\ x.end = MonthStart(m + 1) - 1
  BY <1>2, <1>5, ClosedIsTyped DEF Drawer
<1>7. /\ UNCHANGED <<goals, begun, patches, contended, patched, dated>> /\ UNCHANGED figures
      /\ edits' \in 0..MaxEdits
  BY EditCounts DEF OpenCell
<1> HIDE DEF x
<1>8. IsMonth(x.start, x.end)
  BY <1>1, <1>6 DEF IsMonth
<1>9. x.op # "create" /\ x.goal \in 0..Len(goals)
  BY <1>6
<1>10. QED
  BY <1>4, <1>6, <1>7, <1>8, <1>9, DrawerMoves

LEMMA DrawerCloses ==
    ASSUME BoardInv, NEW t \in Tabs, Cancel(t) \/ Abort(t)
    PROVE  BoardInv'
<1>1. /\ drawer' = [drawer EXCEPT ![t] = Closed]
      /\ UNCHANGED <<goals, begun, patches, contended, patched, dated>> /\ UNCHANGED figures
      /\ edits' = edits
  BY DEF Cancel, Abort
<1>2. edits' \in 0..MaxEdits /\ Len(goals) \in Nat
  BY <1>1 DEF BoardInv, CountersTyped, GoalsTyped
<1>3. Closed.goal \in 0..Len(goals) /\ Closed.op # "create" /\ Closed.op # "cell"
  BY <1>2, ClosedIsTyped
<1>4. QED
  BY <1>1, <1>2, <1>3, ClosedIsTyped, DrawerMoves

\* A goal's row written from its drawer, which closes.
LEMMA GoalWritten ==
    ASSUME BoardInv, NEW t \in Tabs, NEW x \in Goal, NEW g \in Goals,
           goals' = [goals EXCEPT ![g] = x], drawer' = [drawer EXCEPT ![t] = Closed],
           x.user = goals[g].user, x.created = goals[g].created,
           x.kind = goals[g].kind, x.start = goals[g].start, x.end = goals[g].end,
           x.live => goals[g].live,
           UNCHANGED <<begun, edits, patches, contended, patched, dated>>, UNCHANGED figures
    PROVE  BoardInv'
<1>1. /\ goals' \in Seq(Goal) /\ Len(goals') = Len(goals)
      /\ goals'[g] = x /\ \A h \in Goals \ {g} : goals'[h] = goals[h]
  BY RowReplaced DEF BoardInv, GoalsTyped, Goals
<1>2. Goals' = Goals
  BY <1>1 DEF Goals
<1>3. GoalsTyped'
  BY <1>1, <1>2 DEF BoardInv, GoalsTyped
<1>4. /\ drawer'[t] = Closed /\ \A v \in Tabs \ {t} : drawer'[v] = drawer[v]
      /\ drawer' \in [Tabs -> Drawer]
  BY ClosedIsTyped DEF BoardInv, DrawersTyped
<1>5. 0 \in 0..Len(goals)
  BY DEF BoardInv, GoalsTyped
<1>6. DrawersTyped'
  BY <1>1, <1>4, <1>5, ClosedIsTyped DEF BoardInv, DrawersTyped
<1>7. FiguresTyped' /\ CountersTyped'
  BY DEF BoardInv, FiguresTyped, CountersTyped, figures
<1>8. \A h \in Goals' : goals'[h].live /\ goals'[h].kind = "quota" =>
          /\ h \in Goals /\ IsQuota(h) /\ goals'[h].user = goals[h].user
          /\ goals'[h].start = goals[h].start /\ goals'[h].end = goals[h].end
  BY <1>1, <1>2 DEF IsQuota
<1>9. \A v \in Tabs : drawer'[v] = drawer[v] \/ drawer'[v].op \notin {"create", "cell"}
  BY <1>4, ClosedIsTyped
<1>10. QED
  BY <1>3, <1>6, <1>7, <1>8, <1>9, QuotasKept

LEMMA GoalEditsKeep ==
    ASSUME BoardInv, NEW t \in Tabs,
           softDeleteGoal(t) \/ \E target \in Targets : updateGoal(t, target)
    PROVE  BoardInv'
<1> DEFINE g == drawer[t].goal
<1>1. /\ g \in Goals /\ goals \in Seq(Goal) /\ goals[g] \in Goal
      /\ goals[g].created \in 1..begun
  <2>1. g \in 0..Len(goals) /\ g # 0 /\ goals \in Seq(Goal) /\ Len(goals) \in Nat
    <3>1. g # 0
      BY DEF softDeleteGoal, updateGoal
    <3>2. g \in 0..Len(goals)
      BY DEF BoardInv, DrawersTyped
    <3>3. QED
      BY <3>1, <3>2 DEF BoardInv, GoalsTyped
  <2>2. g \in Goals
    BY <2>1 DEF Goals
  <2>3. QED
    BY <2>1, <2>2 DEF BoardInv, GoalsTyped, Goals
<1>2. /\ drawer' = [drawer EXCEPT ![t] = Closed]
      /\ UNCHANGED <<begun, edits, patches, contended, patched, dated>> /\ UNCHANGED figures
  BY DEF softDeleteGoal, updateGoal
<1>3. CASE softDeleteGoal(t)
  <2> DEFINE x == [goals[g] EXCEPT !.live = FALSE]
  <2>1. /\ x \in Goal /\ ~ x.live /\ x.user = goals[g].user /\ x.kind = goals[g].kind
        /\ x.start = goals[g].start /\ x.end = goals[g].end /\ x.created = goals[g].created
    BY <1>1 DEF Goal
  <2>2. goals' = [goals EXCEPT ![g] = x]
    BY <1>3 DEF softDeleteGoal
  <2> HIDE DEF x, g
  <2>3. QED
    BY <1>1, <1>2, <2>1, <2>2, GoalWritten
<1>4. ASSUME NEW target \in Targets, updateGoal(t, target), goals[g].live
      PROVE  BoardInv'
  <2> DEFINE x == [goals[g] EXCEPT !.target = target]
  <2>1. /\ x \in Goal /\ x.live = goals[g].live /\ x.user = goals[g].user
        /\ x.kind = goals[g].kind /\ x.start = goals[g].start /\ x.end = goals[g].end
        /\ x.created = goals[g].created
    BY <1>1 DEF Goal
  <2>2. goals' = [goals EXCEPT ![g] = x]
    BY <1>4 DEF updateGoal
  <2> HIDE DEF x, g
  <2>3. QED
    BY <1>1, <1>2, <2>1, <2>2, GoalWritten
<1>5. ASSUME NEW target \in Targets, updateGoal(t, target), ~ goals[g].live
      PROVE  BoardInv'
  <2>1. goals' = goals
    BY <1>5 DEF updateGoal
  <2>2. edits' \in 0..MaxEdits /\ Len(goals) \in Nat
    BY <1>2 DEF BoardInv, CountersTyped, GoalsTyped
  <2>3. Closed.goal \in 0..Len(goals) /\ Closed.op # "create" /\ Closed.op # "cell"
    BY <2>2, ClosedIsTyped
  <2>4. QED
    BY <1>2, <2>1, <2>2, <2>3, ClosedIsTyped, DrawerMoves
<1>6. QED
  BY <1>3, <1>4, <1>5

\* The route writes no row past the goals page without its being noted.
LEMMA PatchGoalKeeps ==
    ASSUME BoardInv, NEW g \in Goals, NEW kind \in Kinds, NEW days \in Periods,
           PatchGoal(g, kind, days[1], days[2])
    PROVE  BoardInv'
<1> DEFINE x == [goals[g] EXCEPT !.kind = kind, !.start = days[1], !.end = days[2]]
<1>1. goals \in Seq(Goal) /\ goals[g] \in Goal /\ goals[g].created \in 1..begun
  BY DEF BoardInv, GoalsTyped, Goals
<1>2. days[1] \in Nat /\ days[2] \in Nat
  BY ScoreboardAssumption
<1>3. x \in Goal /\ x.user = goals[g].user /\ x.created = goals[g].created
  BY <1>1, <1>2 DEF Goal
<1>4. /\ goals' = [goals EXCEPT ![g] = x] /\ patched' = patched \cup {goals[g].user}
      /\ edits' \in 0..MaxEdits /\ patches' \in 0..MaxPatches
      /\ UNCHANGED <<begun, drawer, contended, dated>> /\ UNCHANGED figures
  BY EditCounts DEF PatchGoal
<1> HIDE DEF x
<1>5. /\ goals' \in Seq(Goal) /\ Len(goals') = Len(goals)
      /\ goals'[g] = x /\ \A h \in Goals \ {g} : goals'[h] = goals[h]
  BY <1>1, <1>3, <1>4, RowReplaced DEF Goals
<1>6. Goals' = Goals
  BY <1>5 DEF Goals
<1>7. GoalsTyped'
  BY <1>1, <1>3, <1>4, <1>5, <1>6 DEF BoardInv, GoalsTyped
<1>8. DrawersTyped'
  BY <1>4, <1>5 DEF BoardInv, DrawersTyped
<1>9. FiguresTyped' /\ CountersTyped'
  <2>1. goals[g].user \in Members
    BY <1>1 DEF Goal
  <2>2. QED
    BY <1>4, <2>1, ScoreboardAssumption DEF BoardInv, FiguresTyped, CountersTyped, figures
<1>10. \A h \in Goals' : goals'[h].live /\ goals'[h].kind = "quota" =>
           \/ goals'[h].user \in patched'
           \/ /\ h \in Goals /\ IsQuota(h) /\ goals'[h].user = goals[h].user
              /\ goals'[h].start = goals[h].start /\ goals'[h].end = goals[h].end
  BY <1>3, <1>4, <1>5, <1>6 DEF IsQuota
<1>11. patched \subseteq patched' /\ contended \subseteq contended' /\ dated \subseteq dated'
       /\ \A v \in Tabs : drawer'[v] = drawer[v]
  BY <1>4
<1>12. QED
  BY <1>7, <1>8, <1>9, <1>10, <1>11, QuotasKept

\* The clock, sales and calls.
LEMMA FiguresKeep ==
    ASSUME BoardInv, Desk \/ Tick
    PROVE  BoardInv'
<1>1. UNCHANGED <<goals, begun, drawer, patches, contended, patched, dated>>
  BY DEF Desk, Tick, CreateSale, SoftDeleteSale, CreateCall, FinishCall
<1>2. edits' \in 0..MaxEdits
  BY EditCounts DEF BoardInv, CountersTyped, Desk, Tick, CreateSale, SoftDeleteSale, CreateCall,
                    FinishCall
<1>3. /\ now \in Start..Horizon /\ sale \in [Sales -> Sale] /\ call \in [Calls -> Call]
      /\ \A s \in Sales : sale[s].live => sale[s].shares \in Splits
  BY DEF BoardInv, FiguresTyped
<1>4. FiguresTyped'
  <2>1. CASE Tick
    <3>1. now' \in Start..Horizon /\ UNCHANGED <<sale, call>>
      BY <1>3, <2>1, ScoreboardAssumption DEF Tick
    <3>2. QED
      BY <1>3, <3>1 DEF FiguresTyped
  <2>2. ASSUME NEW s \in Sales, SoftDeleteSale(s)
        PROVE  FiguresTyped'
    <3> DEFINE x == [sale[s] EXCEPT !.live = FALSE]
    <3>1. x \in Sale /\ ~ x.live
      BY <1>3 DEF Sale
    <3>2. sale' = [sale EXCEPT ![s] = x] /\ now' = now /\ call' = call
      BY <2>2 DEF SoftDeleteSale
    <3> HIDE DEF x
    <3>3. sale'[s] = x /\ \A r \in Sales \ {s} : sale'[r] = sale[r]
      BY <1>3, <3>2
    <3>4. sale' \in [Sales -> Sale]
      BY <1>3, <3>1, <3>2
    <3>5. \A r \in Sales : sale'[r].live => sale'[r].shares \in Splits
      BY <1>3, <3>1, <3>3
    <3>6. QED
      BY <1>3, <3>2, <3>4, <3>5 DEF FiguresTyped
  <2>3. ASSUME NEW s \in Sales, NEW amount \in Amounts, NEW closed \in {now} \cup Chosen,
               NEW shares \in Splits, CreateSale(s, amount, closed, shares)
        PROVE  FiguresTyped'
    <3> DEFINE x == [live |-> TRUE, closed |-> closed, amount |-> amount, shares |-> shares]
    <3>1. closed \in Nat
      BY <1>3, ScoreboardAssumption
    <3>2. x \in Sale /\ x.shares \in Splits
      BY <3>1, ScoreboardAssumption DEF Sale
    <3>3. sale' = [sale EXCEPT ![s] = x] /\ now' = now /\ call' = call
      BY <2>3 DEF CreateSale
    <3> HIDE DEF x
    <3>4. sale'[s] = x /\ \A r \in Sales \ {s} : sale'[r] = sale[r]
      BY <1>3, <3>3
    <3>5. sale' \in [Sales -> Sale]
      BY <1>3, <3>2, <3>3
    <3>6. \A r \in Sales : sale'[r].live => sale'[r].shares \in Splits
      BY <1>3, <3>2, <3>4
    <3>7. QED
      BY <1>3, <3>3, <3>5, <3>6 DEF FiguresTyped
  <2>4. ASSUME NEW c \in Calls, FinishCall(c)
        PROVE  FiguresTyped'
    <3> DEFINE x == [call[c] EXCEPT !.done = TRUE]
    <3>1. x \in Call
      BY <1>3 DEF Call
    <3>2. call' = [call EXCEPT ![c] = x] /\ now' = now /\ sale' = sale
      BY <2>4 DEF FinishCall
    <3> HIDE DEF x
    <3>3. call' \in [Calls -> Call]
      BY <1>3, <3>1, <3>2
    <3>4. QED
      BY <1>3, <3>2, <3>3 DEF FiguresTyped
  <2>5. ASSUME NEW c \in Calls, NEW u \in Members, NEW at \in Appointments, CreateCall(c, u, at)
        PROVE  FiguresTyped'
    <3> DEFINE x == [live |-> TRUE, at |-> at, closer |-> u, done |-> FALSE]
    <3>1. x \in Call
      BY ScoreboardAssumption DEF Call
    <3>2. call' = [call EXCEPT ![c] = x] /\ now' = now /\ sale' = sale
      BY <2>5 DEF CreateCall
    <3> HIDE DEF x
    <3>3. call' \in [Calls -> Call]
      BY <1>3, <3>1, <3>2
    <3>4. QED
      BY <1>3, <3>2, <3>3 DEF FiguresTyped
  <2>6. QED
    BY <2>1, <2>2, <2>3, <2>4, <2>5 DEF Desk
<1>5. GoalsTyped' /\ DrawersTyped' /\ CountersTyped' /\ Goals' = Goals
  BY <1>1, <1>2 DEF BoardInv, GoalsTyped, DrawersTyped, CountersTyped, Goals
<1>6. \A g \in Goals' : goals'[g].live /\ goals'[g].kind = "quota" =>
          /\ g \in Goals /\ IsQuota(g) /\ goals'[g].user = goals[g].user
          /\ goals'[g].start = goals[g].start /\ goals'[g].end = goals[g].end
  BY <1>1, <1>5 DEF IsQuota
<1>7. QED
  BY <1>1, <1>4, <1>5, <1>6, QuotasKept

-------------------------------------------------------------------------------
(* Creations.                                                                  *)

LEMMA BeginCreateGoalKeeps ==
    ASSUME BoardInv, NEW t \in Tabs, NEW u \in Members, NEW kind \in Kinds,
           NEW start \in Nat, NEW end \in Nat,
           NEW target \in Targets, BeginCreateGoal(t, u, kind, start, end, target),
           IsMonth(start, end) \/ u \in dated',
           edits' \in 0..MaxEdits, patches' \in 0..MaxPatches,
           dated \subseteq dated', dated' \subseteq Members
    PROVE  BoardInv'
<1> DEFINE x == [op |-> "create", user |-> u, kind |-> kind, start |-> start, end |-> end,
                 goal |-> 0, target |-> target, created |-> begun + 1]
           rivals == {v \in {u} : kind = "quota" /\ \E w \in Tabs \ {t} : Creating(w, v)}
<1>1. begun \in Nat /\ goals \in Seq(Goal) /\ drawer \in [Tabs -> Drawer] /\ 0 \in 0..Len(goals)
  BY DEF BoardInv, GoalsTyped, DrawersTyped
<1>2. /\ x \in Drawer /\ x.op = "create" /\ x.user = u /\ x.kind = kind
      /\ x.start = start /\ x.end = end
      /\ x.goal = 0 /\ x.target = target /\ x.created = begun + 1
  BY <1>1 DEF Drawer
<1>3. /\ drawer' = [drawer EXCEPT ![t] = x] /\ begun' = begun + 1
      /\ contended' = contended \cup rivals
      /\ kind = "quota" => findOverlappingGoals(u, start, end) = {}
      /\ UNCHANGED <<goals, patched>> /\ UNCHANGED figures
  BY DEF BeginCreateGoal
<1>4. /\ rivals \subseteq {u}
      /\ kind = "quota" =>
             \A w \in Tabs \ {t} : /\ drawer[w].op = "create" /\ drawer[w].kind = "quota"
                                   /\ drawer[w].user = u
                                   => u \in rivals
  BY DEF Creating
<1> HIDE DEF x, rivals
<1>5. drawer' \in [Tabs -> Drawer] /\ drawer'[t] = x /\ \A v \in Tabs \ {t} : drawer'[v] = drawer[v]
  BY <1>1, <1>2, <1>3
<1>6. GoalsTyped' /\ Goals' = Goals
  BY <1>1, <1>3 DEF BoardInv, GoalsTyped, Goals
<1>7. DrawersTyped'
  BY <1>1, <1>2, <1>3, <1>5 DEF BoardInv, DrawersTyped
<1>8. FiguresTyped' /\ CountersTyped'
  BY <1>3, <1>4 DEF BoardInv, FiguresTyped, CountersTyped, figures
<1>9. DrawersOfMonths' /\ QuotasOfMonths'
  <2>1. DrawersOfMonths'
    BY <1>2, <1>5 DEF BoardInv, DrawersOfMonths, IsMonth
  <2>2. QuotasOfMonths'
    BY <1>3, <1>6 DEF BoardInv, QuotasOfMonths, IsQuota, IsMonth
  <2>3. QED
    BY <2>1, <2>2
<1>10. CreationsAlone'
  BY <1>2, <1>3, <1>4, <1>5 DEF BoardInv, CreationsAlone
<1>11. ASSUME NEW g \in Goals, IsQuota(g), goals[g].user = u, kind = "quota"
       PROVE  goals[g].end < start \/ end < goals[g].start
  <2>1. ~ (goals[g].start <= end /\ goals[g].end >= start)
    BY <1>3, <1>11 DEF findOverlappingGoals, QuotasOf, IsQuota
  <2>2. goals[g].start \in Nat /\ goals[g].end \in Nat
    <3>1. goals[g] \in Goal
      BY <1>1 DEF Goals
    <3>2. QED
      BY <3>1 DEF Goal
  <2>3. QED
    BY <2>1, <2>2
<1>12. CreationsFree'
  BY <1>2, <1>3, <1>5, <1>6, <1>11 DEF BoardInv, CreationsFree, IsQuota
<1>13. QuotasDisjoint'
  BY <1>3, <1>6 DEF BoardInv, QuotasDisjoint, QuotasOf
<1>14. QED
  BY <1>6, <1>7, <1>8, <1>9, <1>10, <1>12, <1>13 DEF BoardInv

LEMMA CreationsBegin ==
    ASSUME BoardInv, NEW t \in Tabs, NEW target \in Targets,
           SaveNew(t, target) \/ \E u \in Members : setFirstQuota(t, u, target)
    PROVE  BoardInv'
<1>1. CASE SaveNew(t, target)
  <2>1. drawer[t] \in Drawer /\ drawer[t].op = "cell"
    BY <1>1 DEF BoardInv, DrawersTyped, SaveNew
  <2>2. /\ drawer[t].user \in Members /\ drawer[t].start \in Nat /\ drawer[t].end \in Nat
        /\ IsMonth(drawer[t].start, drawer[t].end)
    BY <2>1 DEF BoardInv, DrawersOfMonths, Drawer
  <2>3. /\ edits' \in 0..MaxEdits /\ patches' \in 0..MaxPatches /\ dated' = dated
        /\ dated \subseteq Members /\ "quota" \in Kinds
    BY <1>1 DEF SaveNew, BoardInv, CountersTyped, Kinds
  <2>4. QED
    BY <1>1, <2>2, <2>3, BeginCreateGoalKeeps DEF SaveNew
<1>2. ASSUME NEW u \in Members, setFirstQuota(t, u, target)
      PROVE  BoardInv'
  <2> DEFINE p == periodBoundaryAt(0)
             m == MonthOf(now) + 0
  <2>1. m \in QuotaMonths /\ Day(p.from) = MonthStart(m) /\ Day(p.to) = MonthStart(m + 1)
    BY PeriodBoundary DEF BoardInv, FiguresTyped
  <2>2. MonthStart(m) \in Nat /\ MonthStart(m + 1) \in Nat /\ MonthStart(m) < MonthStart(m + 1)
    BY <2>1, MonthsOrdered
  <2>3. /\ MonthStart(m + 1) - 1 \in Nat /\ edits' \in 0..MaxEdits
        /\ patches' \in 0..MaxPatches /\ dated' = dated
        /\ dated \subseteq Members /\ "quota" \in Kinds
    BY <1>2, <2>2, EditCounts DEF setFirstQuota, BoardInv, CountersTyped, Kinds
  <2>4. BeginCreateGoal(t, u, "quota", MonthStart(m), MonthStart(m + 1) - 1, target)
    BY <1>2, <2>1 DEF setFirstQuota, currentMonth
  <2> HIDE DEF m
  <2>5. IsMonth(MonthStart(m), MonthStart(m + 1) - 1)
    BY <2>1 DEF IsMonth
  <2>6. QED
    BY <2>2, <2>3, <2>4, <2>5, BeginCreateGoalKeeps
<1>3. QED
  BY <1>1, <1>2

\* The route gives a goal any period, and its member is noted.
LEMMA CreateGoalKeeps ==
    ASSUME BoardInv, NEW t \in Tabs, NEW u \in Members, NEW kind \in Kinds, NEW days \in Periods,
           NEW target \in Targets, CreateGoal(t, u, kind, days[1], days[2], target)
    PROVE  BoardInv'
<1>1. days[1] \in Nat /\ days[2] \in Nat
  BY ScoreboardAssumption
<1>2. /\ BeginCreateGoal(t, u, kind, days[1], days[2], target) /\ dated' = dated \cup {u}
      /\ edits' \in 0..MaxEdits /\ patches' \in 0..MaxPatches
  BY EditCounts DEF CreateGoal
<1>3. dated \subseteq dated' /\ dated' \subseteq Members /\ u \in dated'
  BY <1>2 DEF BoardInv, CountersTyped
<1>4. QED
  BY <1>1, <1>2, <1>3, BeginCreateGoalKeeps

\* The check of a creation that ran alone still holds when its row appears.
LEMMA CommitCreateGoalKeeps ==
    ASSUME BoardInv, NEW t \in Tabs, CommitCreateGoal(t)
    PROVE  BoardInv'
<1> DEFINE d == drawer[t]
           x == [live |-> TRUE, kind |-> d.kind, user |-> d.user, target |-> d.target,
                 start |-> d.start, end |-> d.end, created |-> d.created]
           n == Len(goals) + 1
<1>1. /\ goals \in Seq(Goal) /\ drawer \in [Tabs -> Drawer] /\ d \in Drawer
      /\ d.op = "create" /\ d.created \in 1..begun /\ d.target \in Targets /\ begun \in Nat
      /\ Len(goals) \in Nat
      /\ d.kind = "quota" => d.user \in dated \/ IsMonth(d.start, d.end)
  BY DEF BoardInv, GoalsTyped, DrawersTyped, DrawersOfMonths, CommitCreateGoal
<1>2. /\ x \in Goal /\ x.live /\ x.kind = d.kind /\ x.user = d.user /\ x.start = d.start
      /\ x.end = d.end /\ x.created = d.created
  BY <1>1 DEF Drawer, Goal
<1>3. /\ goals' = Append(goals, x) /\ drawer' = [drawer EXCEPT ![t] = Closed]
      /\ UNCHANGED <<begun, edits, patches, contended, patched, dated>> /\ UNCHANGED figures
  BY DEF CommitCreateGoal
<1> HIDE DEF x, d
<1>4. /\ goals' \in Seq(Goal) /\ Len(goals') = n /\ goals'[n] = x
      /\ \A g \in 1..Len(goals) : goals'[g] = goals[g]
  BY <1>1, <1>2, <1>3
<1>5. Goals' = Goals \cup {n} /\ n \notin Goals
  BY <1>1, <1>4 DEF Goals
<1>6. GoalsTyped'
  BY <1>1, <1>2, <1>3, <1>4, <1>5 DEF BoardInv, GoalsTyped, Goals
<1>7. /\ drawer' \in [Tabs -> Drawer] /\ drawer'[t] = Closed
      /\ \A v \in Tabs \ {t} : drawer'[v] = drawer[v]
  BY <1>1, <1>3, ClosedIsTyped
<1>8. DrawersTyped'
  BY <1>1, <1>3, <1>4, <1>7, ClosedIsTyped DEF BoardInv, DrawersTyped
<1>9. FiguresTyped' /\ CountersTyped'
  BY <1>3 DEF BoardInv, FiguresTyped, CountersTyped, figures
<1>10. DrawersOfMonths' /\ CreationsAlone'
  BY <1>3, <1>7, ClosedIsTyped DEF BoardInv, DrawersOfMonths, CreationsAlone, IsMonth
<1>11. \A g \in Goals : goals'[g] = goals[g]
  BY <1>4 DEF Goals
<1>12. QuotasOfMonths'
  <2>1. SUFFICES ASSUME NEW g \in Goals', goals'[g].live, goals'[g].kind = "quota",
                        goals'[g].user \notin patched \cup dated
                 PROVE  IsMonth(goals'[g].start, goals'[g].end)
    BY <1>3 DEF QuotasOfMonths, IsQuota, IsMonth
  <2>2. CASE g = n
    BY <1>1, <1>2, <1>4, <2>1, <2>2
  <2>3. CASE g \in Goals
    BY <1>11, <2>1, <2>3 DEF BoardInv, QuotasOfMonths, IsQuota
  <2>4. QED
    BY <1>5, <2>2, <2>3
<1>13. CreationsFree'
  <2>1. SUFFICES ASSUME NEW v \in Tabs, NEW g \in Goals', drawer'[v].op = "create",
                        drawer'[v].kind = "quota",
                        drawer'[v].user \notin contended \cup patched,
                        goals'[g].live, goals'[g].kind = "quota",
                        goals'[g].user = drawer'[v].user
                 PROVE  goals'[g].end < drawer'[v].start \/ drawer'[v].end < goals'[g].start
    BY <1>3 DEF CreationsFree, IsQuota
  <2>2. v # t /\ drawer'[v] = drawer[v]
    BY <1>7, <2>1, ClosedIsTyped
  <2>3. drawer[v].user # d.user \/ d.kind # "quota"
    BY <1>1, <2>1, <2>2 DEF BoardInv, CreationsAlone, d
  <2>4. g \in Goals /\ goals'[g] = goals[g]
    BY <1>2, <1>4, <1>5, <1>11, <2>1, <2>2, <2>3
  <2>5. QED
    BY <2>1, <2>2, <2>4 DEF BoardInv, CreationsFree, IsQuota
<1>14. QuotasDisjoint'
  <2>1. SUFFICES ASSUME NEW u \in Members, u \notin contended \cup patched,
                        NEW g \in Goals', NEW h \in Goals', g # h,
                        goals'[g].live, goals'[g].kind = "quota", goals'[g].user = u,
                        goals'[h].live, goals'[h].kind = "quota", goals'[h].user = u
                 PROVE  goals'[g].end < goals'[h].start \/ goals'[h].end < goals'[g].start
    BY <1>3 DEF QuotasDisjoint, QuotasOf
  <2>2. ASSUME NEW k \in Goals, goals[k].live, goals[k].kind = "quota", goals[k].user = u,
               x.user = u, x.kind = "quota"
        PROVE  goals[k].end < x.start \/ x.end < goals[k].start
    BY <1>1, <1>2, <2>1, <2>2 DEF BoardInv, CreationsFree, IsQuota, d
  <2>3. CASE g \in Goals /\ h \in Goals
    <3>1. g \in QuotasOf(u) /\ h \in QuotasOf(u)
      BY <1>11, <2>1, <2>3 DEF QuotasOf
    <3>2. QED
      BY <1>11, <2>1, <2>3, <3>1 DEF BoardInv, QuotasDisjoint
  <2>4. CASE g = n
    BY <1>4, <1>5, <1>11, <2>1, <2>2, <2>4
  <2>5. CASE h = n
    BY <1>4, <1>5, <1>11, <2>1, <2>2, <2>5
  <2>6. QED
    BY <1>5, <2>3, <2>4, <2>5
<1>15. QED
  BY <1>6, <1>8, <1>9, <1>10, <1>12, <1>13, <1>14 DEF BoardInv

-------------------------------------------------------------------------------
(* Sums: what SumFunctionOnSet says of any finite set, shown by induction over its subsets.  A
   property is the set of the subsets that have it.                                 *)

LEMMA FiniteInduction ==
    ASSUME NEW S, IsFiniteSet(S), NEW W,
           \A T \in SUBSET S : (\A U \in SUBSET T : U # T => U \in W) => T \in W
    PROVE  SUBSET S \subseteq W
<1> DEFINE Bad == (SUBSET S) \ W
<1>1. SUFFICES ASSUME Bad # {} PROVE FALSE
  OBVIOUS
<1>2. PICK T \in Bad : \A U \in Bad : ~ (<<U, T>> \in StrictSubsetOrdering(S))
  <2>1. IsWellFoundedOn(StrictSubsetOrdering(S), FiniteSubsetsOf(S))
    BY FS_StrictSubsetOrderingWellFounded
  <2>2. Bad \subseteq FiniteSubsetsOf(S)
    BY FS_FiniteSubsetsOfFinite
  <2>3. QED
    <3>1. PICK B, R, F : B = Bad /\ R = StrictSubsetOrdering(S) /\ F = FiniteSubsetsOf(S)
      OBVIOUS
    <3>2. IsWellFoundedOn(R, F) /\ B \subseteq F /\ B # {}
      BY <2>1, <2>2, <1>1, <3>1
    <3>3. \E T \in B : \A U \in B : ~ (<<U, T>> \in R)
      BY <3>2, WFMin
    <3>4. QED
      BY <3>1, <3>3
<1>3. \A U \in SUBSET T : U # T => U \in W
  <2>1. SUFFICES ASSUME NEW U \in SUBSET T, U # T, U \notin W PROVE FALSE
    OBVIOUS
  <2>2. U \in Bad /\ T \in SUBSET S /\ U \in SUBSET S
    BY <1>2, <2>1
  <2>3. <<U, T>> \in StrictSubsetOrdering(S)
    BY <2>1, <2>2 DEF StrictSubsetOrdering
  <2>4. QED
    BY <1>2, <2>2, <2>3
<1>4. T \in W
  BY <1>2, <1>3
<1>5. QED
  BY <1>2, <1>4

\* One element after another.
LEMMA ElementInduction ==
    ASSUME NEW S, IsFiniteSet(S), NEW W, {} \in W,
           \A T \in SUBSET S, x \in S : T \in W /\ x \notin T => T \cup {x} \in W
    PROVE  SUBSET S \subseteq W
<1>1. SUFFICES ASSUME NEW T \in SUBSET S, \A U \in SUBSET T : U # T => U \in W
               PROVE  T \in W
  BY FiniteInduction
<1>2. CASE T = {}
  BY <1>2
<1>3. CASE T # {}
  <2>1. PICK x \in T : TRUE
    BY <1>3
  <2>2. PICK U : U = T \ {x}
    OBVIOUS
  <2>3. U \in SUBSET S /\ x \in S /\ x \notin U /\ U \in W /\ U \cup {x} = T
    BY <1>1, <2>1, <2>2
  <2>4. QED
    BY <2>3
<1>4. QED
  BY <1>2, <1>3

\* The element a sum takes first.
Some(s) == CHOOSE x \in s : TRUE

LEMMA SomeElement ==
    ASSUME NEW s, s # {}
    PROVE  Some(s) \in s
  BY DEF Some

Totals(f, S, I) ==
    I = [s \in SUBSET S |-> IF s = {} THEN 0 ELSE f[Some(s)] + I[s \ {Some(s)}]]

LEMMA SumIsTotal ==
    ASSUME NEW f, NEW S
    PROVE  SumFunctionOnSet(f, S) = (CHOOSE I : Totals(f, S, I))[S]
  BY DEF SumFunctionOnSet, FoldFunctionOnSet, MapThenFoldSet, Totals, Some

LEMMA TotalsUnique ==
    ASSUME NEW f, NEW S, NEW T, IsFiniteSet(T), T \subseteq S,
           NEW I, Totals(f, S, I), NEW J, Totals(f, T, J)
    PROVE  \A U \in SUBSET T : I[U] = J[U]
<1> DEFINE W == {U \in SUBSET T : I[U] = J[U]}
<1>1. ASSUME NEW U \in SUBSET T, \A V \in SUBSET U : V # U => V \in W
      PROVE  U \in W
  <2>1. U \in SUBSET S
    OBVIOUS
  <2>2. CASE U = {}
    BY <2>1, <2>2 DEF Totals
  <2>3. CASE U # {}
    <3>1. PICK c : c = Some(U)
      OBVIOUS
    <3>2. PICK V : V = U \ {c}
      OBVIOUS
    <3>3. c \in U /\ V \in SUBSET U /\ V # U
      BY <2>3, <3>1, <3>2, SomeElement
    <3>4. I[V] = J[V]
      BY <1>1, <3>3
    <3>5. I[U] = f[c] + I[V] /\ J[U] = f[c] + J[V]
      BY <2>1, <2>3, <3>1, <3>2 DEF Totals
    <3>6. QED
      BY <3>4, <3>5
  <2>4. QED
    BY <2>2, <2>3
<1> HIDE DEF W
<1>2. SUBSET T \subseteq W
  BY <1>1, FiniteInduction
<1>3. QED
  BY <1>2 DEF W

LEMMA TotalIsSum ==
    ASSUME NEW f, NEW S, IsFiniteSet(S), NEW I, Totals(f, S, I)
    PROVE  \A U \in SUBSET S : I[U] = SumFunctionOnSet(f, U)
<1>1. SUFFICES ASSUME NEW U \in SUBSET S PROVE I[U] = SumFunctionOnSet(f, U)
  OBVIOUS
<1>2. PICK K : K = [s \in SUBSET U |-> I[s]]
  OBVIOUS
<1>3. Totals(f, U, K)
  <2>1. ASSUME NEW s \in SUBSET U
        PROVE  I[s] = IF s = {} THEN 0 ELSE f[Some(s)] + K[s \ {Some(s)}]
    BY <1>2 DEF Totals
  <2>2. QED
    BY <1>2, <2>1 DEF Totals
<1>4. PICK J : J = CHOOSE L : Totals(f, U, L)
  OBVIOUS
<1>5. Totals(f, U, J)
  BY <1>3, <1>4
<1>6. IsFiniteSet(U)
  BY FS_Subset
<1>7. I[U] = J[U]
  BY <1>5, <1>6, TotalsUnique
<1>8. QED
  BY <1>4, <1>7, SumIsTotal

LEMMA TotalsExist ==
    ASSUME NEW f, NEW S, IsFiniteSet(S), \A x \in S : f[x] \in Int
    PROVE  \E I \in [SUBSET S -> Int] : Totals(f, S, I)
<1> DEFINE W == {T \in SUBSET S : \E I \in [SUBSET T -> Int] : Totals(f, T, I)}
<1>1. ASSUME NEW T \in SUBSET S, \A U \in SUBSET T : U # T => U \in W
      PROVE  T \in W
  <2>1. ASSUME NEW U \in SUBSET T, U # T
        PROVE  /\ SumFunctionOnSet(f, U) \in Int
               /\ SumFunctionOnSet(f, U) = IF U = {} THEN 0 ELSE f[Some(U)] + SumFunctionOnSet(f, U \ {Some(U)})
    <3>1. PICK I \in [SUBSET U -> Int] : Totals(f, U, I)
      BY <1>1, <2>1
    <3>2. IsFiniteSet(U)
      BY FS_Subset
    <3>3. \A V \in SUBSET U : I[V] = SumFunctionOnSet(f, V)
      BY <3>1, <3>2, TotalIsSum
    <3>4. I[U] = IF U = {} THEN 0 ELSE f[Some(U)] + I[U \ {Some(U)}]
      BY <3>1 DEF Totals
    <3>5. I[U] = SumFunctionOnSet(f, U) /\ I[U \ {Some(U)}] = SumFunctionOnSet(f, U \ {Some(U)})
      BY <3>3
    <3>6. I[U] \in Int
      BY <3>1
    <3>7. QED
      BY <3>4, <3>5, <3>6
  <2>2. PICK I : I = [s \in SUBSET T |-> IF s = {} THEN 0 ELSE f[Some(s)] + SumFunctionOnSet(f, s \ {Some(s)})]
    OBVIOUS
  <2>3. ASSUME NEW s \in SUBSET T, s # {}
        PROVE  /\ Some(s) \in T /\ s \ {Some(s)} \in SUBSET T /\ s \ {Some(s)} # T
               /\ I[s \ {Some(s)}] = SumFunctionOnSet(f, s \ {Some(s)})
    <3>1. Some(s) \in s
      BY <2>3, SomeElement
    <3>2. PICK V : V = s \ {Some(s)}
      OBVIOUS
    <3>3. V \in SUBSET T /\ V # T
      BY <3>1, <3>2
    <3>4. I[V] = IF V = {} THEN 0 ELSE f[Some(V)] + SumFunctionOnSet(f, V \ {Some(V)})
      BY <2>2, <3>3
    <3>5. I[V] = SumFunctionOnSet(f, V)
      BY <2>1, <3>3, <3>4
    <3>6. QED
      BY <3>1, <3>2, <3>3, <3>5
  <2>4. I \in [SUBSET T -> Int]
    <3>1. ASSUME NEW s \in SUBSET T
          PROVE  (IF s = {} THEN 0 ELSE f[Some(s)] + SumFunctionOnSet(f, s \ {Some(s)})) \in Int
      <4>1. CASE s = {}
        BY <4>1
      <4>2. CASE s # {}
        <5>1. f[Some(s)] \in Int
          BY <2>3, <4>2
        <5>2. SumFunctionOnSet(f, s \ {Some(s)}) \in Int
          BY <2>1, <2>3, <4>2
        <5>3. QED
          BY <4>2, <5>1, <5>2
      <4>3. QED
        BY <4>1, <4>2
    <3>2. QED
      BY <2>2, <3>1
  <2>5. Totals(f, T, I)
    <3>1. ASSUME NEW s \in SUBSET T
          PROVE  (IF s = {} THEN 0 ELSE f[Some(s)] + SumFunctionOnSet(f, s \ {Some(s)}))
                     = IF s = {} THEN 0 ELSE f[Some(s)] + I[s \ {Some(s)}]
      BY <2>3
    <3>2. QED
      BY <2>2, <3>1 DEF Totals
  <2>6. QED
    BY <2>4, <2>5
<1> HIDE DEF W
<1>2. SUBSET S \subseteq W
  BY <1>1, FiniteInduction
<1>3. S \in W
  BY <1>2
<1>4. QED
  BY <1>3 DEF W

LEMMA SumTaken ==
    ASSUME NEW f, NEW S, IsFiniteSet(S), \A x \in S : f[x] \in Int
    PROVE  /\ SumFunctionOnSet(f, S) \in Int
           /\ S = {} => SumFunctionOnSet(f, S) = 0
           /\ S # {} => SumFunctionOnSet(f, S) = f[Some(S)] + SumFunctionOnSet(f, S \ {Some(S)})
<1>1. PICK I \in [SUBSET S -> Int] : Totals(f, S, I)
  BY TotalsExist
<1>2. \A U \in SUBSET S : I[U] = SumFunctionOnSet(f, U)
  BY <1>1, TotalIsSum
<1>3. I[S] = IF S = {} THEN 0 ELSE f[Some(S)] + I[S \ {Some(S)}]
  BY <1>1 DEF Totals
<1>4. I[S] = SumFunctionOnSet(f, S) /\ I[S \ {Some(S)}] = SumFunctionOnSet(f, S \ {Some(S)})
  BY <1>2
<1>5. I[S] \in Int
  BY <1>1
<1>6. QED
  BY <1>3, <1>4, <1>5


\* The order does not matter.
LEMMA SumRemoves ==
    ASSUME NEW f, NEW S, IsFiniteSet(S), \A x \in S : f[x] \in Int, NEW x \in S
    PROVE  SumFunctionOnSet(f, S) = f[x] + SumFunctionOnSet(f, S \ {x})
<1> DEFINE W == {T \in SUBSET S : \A y \in T : SumFunctionOnSet(f, T) = f[y] + SumFunctionOnSet(f, T \ {y})}
<1>1. ASSUME NEW T \in SUBSET S, \A U \in SUBSET T : U # T => U \in W
      PROVE  T \in W
  <2>1. SUFFICES ASSUME NEW y \in T
                 PROVE  SumFunctionOnSet(f, T) = f[y] + SumFunctionOnSet(f, T \ {y})
    OBVIOUS
  <2>2. PICK c : c = Some(T)
    OBVIOUS
  <2>3. c \in T
    BY <2>2, SomeElement
  <2>4. IsFiniteSet(T)
    BY FS_Subset
  <2>5. SumFunctionOnSet(f, T) = f[c] + SumFunctionOnSet(f, T \ {c})
    BY <2>2, <2>4, SumTaken
  <2>6. CASE y = c
    BY <2>5, <2>6
  <2>7. CASE y # c
    <3>1. PICK B, C, D : B = T \ {c} /\ C = T \ {y} /\ D = (T \ {c}) \ {y}
      OBVIOUS
    <3>2. /\ B \in SUBSET T /\ B # T /\ y \in B /\ D = B \ {y}
          /\ C \in SUBSET T /\ C # T /\ c \in C /\ D = C \ {c}
          /\ D \in SUBSET S
      BY <2>3, <2>7, <3>1
    <3>3. SumFunctionOnSet(f, B) = f[y] + SumFunctionOnSet(f, D)
      BY <1>1, <3>2
    <3>4. SumFunctionOnSet(f, C) = f[c] + SumFunctionOnSet(f, D)
      BY <1>1, <3>2
    <3>5. SumFunctionOnSet(f, D) \in Int /\ f[c] \in Int /\ f[y] \in Int
      <4>1. IsFiniteSet(D)
        BY <3>2, FS_Subset
      <4>2. \A z \in D : f[z] \in Int
        BY <3>2
      <4>3. QED
        BY <2>3, <4>1, <4>2, SumTaken
    <3>6. QED
      BY <2>5, <3>1, <3>3, <3>4, <3>5
  <2>8. QED
    BY <2>6, <2>7
<1> HIDE DEF W
<1>2. SUBSET S \subseteq W
  BY <1>1, FiniteInduction
<1>3. S \in W
  BY <1>2
<1>4. QED
  BY <1>3 DEF W

LEMMA SumAdds ==
    ASSUME NEW f, NEW S, IsFiniteSet(S), NEW x, x \notin S, \A y \in S \cup {x} : f[y] \in Int
    PROVE  SumFunctionOnSet(f, S \cup {x}) = f[x] + SumFunctionOnSet(f, S)
<1>1. PICK T : T = S \cup {x}
  OBVIOUS
<1>2. IsFiniteSet(T) /\ x \in T /\ T \ {x} = S
  BY <1>1, FS_AddElement
<1>3. \A y \in T : f[y] \in Int
  BY <1>1
<1>4. SumFunctionOnSet(f, T) = f[x] + SumFunctionOnSet(f, T \ {x})
  BY <1>2, <1>3, SumRemoves
<1>5. QED
  BY <1>1, <1>2, <1>4

LEMMA SumOfNothing ==
    ASSUME NEW f
    PROVE  SumFunctionOnSet(f, {}) = 0
<1>1. IsFiniteSet({})
  BY FS_EmptySet
<1>2. QED
  BY <1>1, SumTaken

LEMMA SumSame ==
    ASSUME NEW S, IsFiniteSet(S), NEW f, NEW g, \A x \in S : f[x] \in Int /\ f[x] = g[x]
    PROVE  SumFunctionOnSet(f, S) = SumFunctionOnSet(g, S)
<1> DEFINE W == {T \in SUBSET S : SumFunctionOnSet(f, T) = SumFunctionOnSet(g, T)}
<1>1. {} \in W
  BY SumOfNothing
<1>2. ASSUME NEW T \in SUBSET S, NEW x \in S, T \in W, x \notin T
      PROVE  T \cup {x} \in W
  <2>1. IsFiniteSet(T) /\ \A y \in T \cup {x} : f[y] \in Int /\ g[y] \in Int
    BY <1>2, FS_Subset
  <2>2. SumFunctionOnSet(f, T \cup {x}) = f[x] + SumFunctionOnSet(f, T)
    BY <1>2, <2>1, SumAdds
  <2>3. SumFunctionOnSet(g, T \cup {x}) = g[x] + SumFunctionOnSet(g, T)
    BY <1>2, <2>1, SumAdds
  <2>4. f[x] = g[x] /\ SumFunctionOnSet(f, T) = SumFunctionOnSet(g, T)
    BY <1>2
  <2>5. T \cup {x} \in SUBSET S
    OBVIOUS
  <2>6. QED
    BY <2>2, <2>3, <2>4, <2>5
<1> HIDE DEF W
<1>3. SUBSET S \subseteq W
  BY <1>1, <1>2, ElementInduction
<1>4. S \in W
  BY <1>3
<1>5. QED
  BY <1>4 DEF W

LEMMA SumLinear ==
    ASSUME NEW S, IsFiniteSet(S), NEW k \in Int, NEW f, NEW g, NEW h,
           \A x \in S : f[x] \in Int /\ g[x] \in Int /\ h[x] = k * f[x] + g[x]
    PROVE  SumFunctionOnSet(h, S) = k * SumFunctionOnSet(f, S) + SumFunctionOnSet(g, S)
<1> DEFINE W == {T \in SUBSET S : SumFunctionOnSet(h, T)
                                      = k * SumFunctionOnSet(f, T) + SumFunctionOnSet(g, T)}
<1>1. {} \in W
  BY SumOfNothing
<1>2. ASSUME NEW T \in SUBSET S, NEW x \in S, T \in W, x \notin T
      PROVE  T \cup {x} \in W
  <2>1. \A y \in S : k * f[y] \in Int /\ h[y] \in Int
    OBVIOUS
  <2>2. IsFiniteSet(T) /\ \A y \in T \cup {x} : f[y] \in Int /\ g[y] \in Int /\ h[y] \in Int
    BY <1>2, <2>1, FS_Subset
  <2>3. SumFunctionOnSet(f, T \cup {x}) = f[x] + SumFunctionOnSet(f, T)
    BY <1>2, <2>2, SumAdds
  <2>4. SumFunctionOnSet(g, T \cup {x}) = g[x] + SumFunctionOnSet(g, T)
    BY <1>2, <2>2, SumAdds
  <2>5. SumFunctionOnSet(h, T \cup {x}) = h[x] + SumFunctionOnSet(h, T)
    BY <1>2, <2>2, SumAdds
  <2>6. /\ SumFunctionOnSet(f, T) \in Int /\ SumFunctionOnSet(g, T) \in Int
        /\ f[x] \in Int /\ g[x] \in Int
    BY <2>2, SumTaken
  <2>7. h[x] = k * f[x] + g[x]
    OBVIOUS
  <2>8. SumFunctionOnSet(h, T) = k * SumFunctionOnSet(f, T) + SumFunctionOnSet(g, T)
    BY <1>2
  <2>9. ASSUME NEW a \in Int, NEW b \in Int, NEW c \in Int, NEW d \in Int
        PROVE  (k * a + c) + (k * b + d) = k * (a + b) + (c + d)
    BY <2>9
  <2>10. SumFunctionOnSet(h, T \cup {x})
             = k * SumFunctionOnSet(f, T \cup {x}) + SumFunctionOnSet(g, T \cup {x})
    BY <2>3, <2>4, <2>5, <2>6, <2>7, <2>8, <2>9
  <2>11. QED
    BY <2>10
<1> HIDE DEF W
<1>3. SUBSET S \subseteq W
  BY <1>1, <1>2, ElementInduction
<1>4. S \in W
  BY <1>3
<1>5. QED
  BY <1>4 DEF W

LEMMA SumOfZeros ==
    ASSUME NEW S, IsFiniteSet(S), NEW f, \A x \in S : f[x] = 0
    PROVE  SumFunctionOnSet(f, S) = 0
<1>1. PICK k : k = 1
  OBVIOUS
<1>2. k \in Int /\ \A x \in S : f[x] \in Int /\ f[x] = k * f[x] + f[x]
  BY <1>1
<1>3. SumFunctionOnSet(f, S) = k * SumFunctionOnSet(f, S) + SumFunctionOnSet(f, S)
  BY <1>2, SumLinear
<1>4. SumFunctionOnSet(f, S) \in Int
  BY <1>2, SumTaken
<1>5. PICK n : n = SumFunctionOnSet(f, S)
  OBVIOUS
<1>6. n \in Int /\ n = k * n + n
  BY <1>3, <1>4, <1>5
<1>7. n = 0
  <2>1. \A m \in Int : 1 * m = m
    OBVIOUS
  <2>2. n = n + n
    BY <1>1, <1>6, <2>1
  <2>3. QED
    BY <1>6, <2>2
<1>8. QED
  BY <1>5, <1>7

\* The elements that k puts in group t.
Group(S, k, t) == {x \in S : k[x] = t}

\* What is summed by groups is summed.
LEMMA SumOfGroups ==
    ASSUME NEW S, IsFiniteSet(S), NEW T, IsFiniteSet(T), NEW k, \A x \in S : k[x] \in T,
           NEW f, \A x \in S : f[x] \in Int,
           NEW g, \A t \in T : g[t] = SumFunctionOnSet(f, Group(S, k, t))
    PROVE  SumFunctionOnSet(g, T) = SumFunctionOnSet(f, S)
<1> DEFINE Totalled(D) == [t \in T |-> SumFunctionOnSet(f, Group(D, k, t))]
           W == {D \in SUBSET S : SumFunctionOnSet(Totalled(D), T) = SumFunctionOnSet(f, D)}
<1>1. \A D \in SUBSET S : IsFiniteSet(D) /\ SumFunctionOnSet(f, D) \in Int
  <2>1. SUFFICES ASSUME NEW D \in SUBSET S PROVE IsFiniteSet(D) /\ SumFunctionOnSet(f, D) \in Int
    OBVIOUS
  <2>2. IsFiniteSet(D) /\ \A x \in D : f[x] \in Int
    BY FS_Subset
  <2>3. QED
    BY <2>2, SumTaken
<1>2. \A D \in SUBSET S : \A t : Group(D, k, t) \in SUBSET S
  BY DEF Group
<1>3. {} \in W
  <2>1. \A t \in T : Group({}, k, t) = {}
    BY DEF Group
  <2>2. PICK z : z = Totalled({})
    OBVIOUS
  <2>3. \A t \in T : z[t] = 0
    BY <2>1, <2>2, SumOfNothing
  <2>4. SumFunctionOnSet(z, T) = 0
    BY <2>3, SumOfZeros
  <2>5. QED
    BY <2>2, <2>4, SumOfNothing
<1>4. ASSUME NEW D \in SUBSET S, NEW x \in S, D \in W, x \notin D
      PROVE  D \cup {x} \in W
  <2>1. PICK E, a, b, t : E = D \cup {x} /\ a = Totalled(D) /\ b = Totalled(E) /\ t = k[x]
    OBVIOUS
  <2>2. t \in T /\ E \in SUBSET S
    BY <2>1
  <2>3. /\ \A u \in T : a[u] = SumFunctionOnSet(f, Group(D, k, u)) /\ a[u] \in Int
        /\ \A u \in T : b[u] = SumFunctionOnSet(f, Group(E, k, u)) /\ b[u] \in Int
    BY <1>1, <1>2, <2>1, <2>2
  <2>4. \A u \in T : u # t => a[u] = b[u]
    <3>1. \A u \in T : u # t => Group(E, k, u) = Group(D, k, u)
      BY <2>1 DEF Group
    <3>2. QED
      BY <2>3, <3>1
  <2>5. b[t] = f[x] + a[t]
    <3>1. PICK G : G = Group(D, k, t)
      OBVIOUS
    <3>2. Group(E, k, t) = G \cup {x} /\ x \notin G
      BY <1>4, <2>1, <3>1 DEF Group
    <3>3. G \in SUBSET S /\ IsFiniteSet(G)
      BY <1>1, <1>2, <3>1
    <3>4. \A y \in G \cup {x} : f[y] \in Int
      BY <3>3
    <3>5. SumFunctionOnSet(f, G \cup {x}) = f[x] + SumFunctionOnSet(f, G)
      BY <3>2, <3>3, <3>4, SumAdds
    <3>6. QED
      BY <2>2, <2>3, <3>1, <3>2, <3>5
  <2>6. SumFunctionOnSet(f, E) = f[x] + SumFunctionOnSet(f, D)
    <3>1. \A y \in D \cup {x} : f[y] \in Int
      OBVIOUS
    <3>2. QED
      BY <1>1, <1>4, <2>1, <3>1, SumAdds
  <2>7. PICK R : R = T \ {t}
    OBVIOUS
  <2>8. IsFiniteSet(R)
    BY <2>7, FS_RemoveElement
  <2>9. SumFunctionOnSet(a, R) = SumFunctionOnSet(b, R) /\ SumFunctionOnSet(a, R) \in Int
    <3>1. \A u \in R : a[u] \in Int /\ a[u] = b[u]
      BY <2>3, <2>4, <2>7
    <3>2. QED
      BY <2>8, <3>1, SumSame, SumTaken
  <2>10. SumFunctionOnSet(a, T) = a[t] + SumFunctionOnSet(a, R)
    <3>1. \A u \in T : a[u] \in Int
      BY <2>3
    <3>2. QED
      BY <2>2, <2>7, <3>1, SumRemoves
  <2>11. SumFunctionOnSet(b, T) = b[t] + SumFunctionOnSet(b, R)
    <3>1. \A u \in T : b[u] \in Int
      BY <2>3
    <3>2. QED
      BY <2>2, <2>7, <3>1, SumRemoves
  <2>12. f[x] \in Int /\ a[t] \in Int
    BY <2>2, <2>3
  <2>13. SumFunctionOnSet(b, T) = f[x] + SumFunctionOnSet(a, T)
    BY <2>5, <2>9, <2>10, <2>11, <2>12
  <2>14. SumFunctionOnSet(a, T) = SumFunctionOnSet(f, D)
    BY <1>4, <2>1
  <2>15. SumFunctionOnSet(Totalled(E), T) = SumFunctionOnSet(f, E)
    BY <2>1, <2>6, <2>13, <2>14
  <2>16. QED
    BY <2>1, <2>2, <2>15
<1> HIDE DEF W
<1>5. SUBSET S \subseteq W
  BY <1>3, <1>4, ElementInduction
<1>6. S \in W
  BY <1>5
<1>7. SumFunctionOnSet(Totalled(S), T) = SumFunctionOnSet(f, S)
  BY <1>6 DEF W
<1>8. \A t \in T : g[t] \in Int /\ g[t] = Totalled(S)[t]
  BY <1>1, <1>2
<1> HIDE DEF Totalled
<1>9. SumFunctionOnSet(g, T) = SumFunctionOnSet(Totalled(S), T)
  BY <1>8, SumSame
<1>10. QED
  BY <1>7, <1>9

LEMMA SumOfOnes ==
    ASSUME NEW S, IsFiniteSet(S), NEW f, \A x \in S : f[x] = 1
    PROVE  SumFunctionOnSet(f, S) = Cardinality(S)
<1> DEFINE W == {T \in SUBSET S : SumFunctionOnSet(f, T) = Cardinality(T)}
<1>1. {} \in W
  BY SumOfNothing, FS_EmptySet
<1>2. ASSUME NEW T \in SUBSET S, NEW x \in S, T \in W, x \notin T
      PROVE  T \cup {x} \in W
  <2>1. IsFiniteSet(T) /\ (\A y \in T \cup {x} : f[y] \in Int) /\ Cardinality(T) \in Nat
    BY FS_Subset, FS_CardinalityType
  <2>2. SumFunctionOnSet(f, T \cup {x}) = f[x] + SumFunctionOnSet(f, T)
    BY <1>2, <2>1, SumAdds
  <2>3. Cardinality(T \cup {x}) = Cardinality(T) + 1
    BY <1>2, <2>1, FS_AddElement
  <2>4. SumFunctionOnSet(f, T) = Cardinality(T) /\ f[x] = 1
    BY <1>2
  <2>5. SumFunctionOnSet(f, T \cup {x}) = Cardinality(T \cup {x})
    BY <2>1, <2>2, <2>3, <2>4
  <2>6. QED
    BY <2>5
<1> HIDE DEF W
<1>3. SUBSET S \subseteq W
  BY <1>1, <1>2, ElementInduction
<1>4. S \in W
  BY <1>3
<1>5. QED
  BY <1>4 DEF W

\* Groups share out the set.
LEMMA SizeOfGroups ==
    ASSUME NEW S, IsFiniteSet(S), NEW T, IsFiniteSet(T), NEW k, \A x \in S : k[x] \in T,
           NEW g, \A t \in T : g[t] = Cardinality(Group(S, k, t))
    PROVE  SumFunctionOnSet(g, T) = Cardinality(S)
<1>1. PICK f : f = [x \in S |-> 1]
  OBVIOUS
<1>2. \A x \in S : f[x] = 1
  BY <1>1
<1>3. ASSUME NEW t \in T
      PROVE  g[t] = SumFunctionOnSet(f, Group(S, k, t))
  <2>1. PICK D : D = Group(S, k, t)
    OBVIOUS
  <2>2. D \in SUBSET S
    BY <2>1 DEF Group
  <2>3. IsFiniteSet(D) /\ \A x \in D : f[x] = 1
    BY <1>2, <2>2, FS_Subset
  <2>4. SumFunctionOnSet(f, D) = Cardinality(D)
    BY <2>3, SumOfOnes
  <2>5. QED
    BY <2>1, <2>4
<1>4. SumFunctionOnSet(g, T) = SumFunctionOnSet(f, S)
  <2>1. \A x \in S : f[x] \in Int
    BY <1>2
  <2>2. QED
    BY <1>3, <2>1, SumOfGroups
<1>5. QED
  BY <1>2, <1>4, SumOfOnes

-------------------------------------------------------------------------------
(* The figures.                                                                *)

LEMMA LeastElement ==
    ASSUME NEW S, IsFiniteSet(S), S \subseteq Int, S # {}
    PROVE  \E x \in S : \A y \in S : x <= y
<1> DEFINE W == {T \in SUBSET S : T # {} => \E x \in T : \A y \in T : x <= y}
<1>1. {} \in W
  OBVIOUS
<1>2. ASSUME NEW T \in SUBSET S, NEW z \in S, T \in W, z \notin T
      PROVE  T \cup {z} \in W
  <2>1. \E x \in T \cup {z} : \A y \in T \cup {z} : x <= y
    <3>1. CASE T = {}
      BY <3>1
    <3>2. CASE T # {}
      <4>1. PICK x \in T : \A y \in T : x <= y
        BY <1>2, <3>2
      <4>2. x \in Int /\ z \in Int /\ \A y \in T : y \in Int
        BY <4>1
      <4>3. CASE x <= z
        BY <4>1, <4>2, <4>3
      <4>4. CASE z < x
        <5>1. \A y \in T \cup {z} : z <= y
          BY <4>1, <4>2, <4>4
        <5>2. QED
          BY <5>1
      <4>5. QED
        BY <4>2, <4>3, <4>4
    <3>3. QED
      BY <3>1, <3>2
  <2>2. QED
    BY <2>1
<1> HIDE DEF W
<1>3. SUBSET S \subseteq W
  BY <1>1, <1>2, ElementInduction
<1>4. S \in W
  BY <1>3
<1>5. QED
  BY <1>4 DEF W

LEMMA DayBounds ==
    ASSUME NEW i \in Int
    PROVE  Day(i) \in Int /\ Midnight(Day(i)) <= i /\ i < Midnight(Day(i) + 1)
<1>1. PICK k \in Nat \ {0} : k = DayLength
  BY ScoreboardAssumption
<1>2. i \div k \in Int /\ i % k \in 0..(k - 1)
  BY <1>1
<1>3. i = k * (i \div k) + (i % k)
  BY <1>1
<1>4. PICK q \in Int, r \in 0..(k - 1) : q = i \div k /\ r = i % k
  BY <1>1, <1>2
<1>5. i = q * k + r
  BY <1>1, <1>3, <1>4
<1>6. q * k <= i /\ i < (q + 1) * k
  BY <1>1, <1>4, <1>5
<1>7. QED
  BY <1>1, <1>4, <1>6 DEF Day, Midnight

LEMMA MidnightsOrdered ==
    ASSUME NEW d \in Int, NEW e \in Int, d <= e
    PROVE  Midnight(d) \in Int /\ Midnight(e) \in Int /\ Midnight(d) <= Midnight(e)
<1>1. PICK k \in Nat \ {0} : k = DayLength
  BY ScoreboardAssumption
<1>2. d * k \in Int /\ e * k \in Int
  BY <1>1
<1>3. (e - d) * k >= 0
  BY <1>1
<1>4. (e - d) * k = e * k - d * k
  BY <1>1
<1>5. QED
  BY <1>1, <1>2, <1>3, <1>4 DEF Midnight

LEMMA DaysOrdered ==
    ASSUME NEW i \in Int, NEW j \in Int, i <= j
    PROVE  Day(i) <= Day(j)
<1>1. /\ Day(i) \in Int /\ Midnight(Day(i)) <= i
      /\ Day(j) \in Int /\ j < Midnight(Day(j) + 1)
  BY DayBounds
<1>2. SUFFICES ASSUME Day(j) + 1 <= Day(i) PROVE FALSE
  BY <1>1
<1>3. /\ Midnight(Day(j) + 1) \in Int /\ Midnight(Day(i)) \in Int
      /\ Midnight(Day(j) + 1) <= Midnight(Day(i))
  BY <1>1, <1>2, MidnightsOrdered
<1>4. QED
  BY <1>1, <1>3

\* The month goes on.
LEMMA MonthUnderWay ==
    ASSUME BoardInv
    PROVE  /\ now \in Nat /\ currentMonth.to \in Int
           /\ now < currentMonth.to
<1>1. now \in Start..Horizon /\ now \in Nat
  BY ScoreboardAssumption DEF BoardInv, FiguresTyped
<1>2. PICK m : m = MonthOf(now)
  OBVIOUS
<1>3. m \in CurrentMonths /\ Day(now) < MonthStart(m + 1)
  BY <1>1, <1>2, CalendarAssumption DEF MonthOf
<1>4. m \in Int
  BY <1>3, CalendarAssumption
<1>5. m \in QuotaMonths
  <2>1. m \in (m - 1)..(m + 1)
    BY <1>4
  <2>2. QED
    BY <1>3, <2>1 DEF QuotaMonths
<1>6. MonthStart(m + 1) \in Nat
  BY <1>5, MonthsOrdered
<1>7. Day(now) \in Int /\ now < Midnight(Day(now) + 1)
  BY <1>1, DayBounds
<1>8. /\ Midnight(Day(now) + 1) <= Midnight(MonthStart(m + 1))
      /\ Midnight(Day(now) + 1) \in Int /\ Midnight(MonthStart(m + 1)) \in Int
  BY <1>3, <1>6, <1>7, MidnightsOrdered
<1>9. currentMonth.to = Midnight(MonthStart(m + 1))
  <2>1. m + 0 = m
    BY <1>4
  <2>2. QED
    BY <1>2, <2>1 DEF currentMonth, periodBoundaryAt
<1>10. QED
  BY <1>1, <1>7, <1>8, <1>9

LEMMA FiguresOfSales ==
    ASSUME BoardInv
    PROVE  /\ IsFiniteSet(Members) /\ IsFiniteSet(Sales) /\ IsFiniteSet(Calls)
           /\ Full \in Nat /\ Tolerance \in 0..Full
           /\ \A s \in Sales : /\ sale[s].amount \in Nat /\ sale[s].closed \in Nat
                               /\ sale[s].shares \in [Members -> 0..(Full + Tolerance)]
                               /\ sale[s].live => sale[s].shares \in Splits
           /\ \A c \in Calls : call[c].at \in Nat /\ call[c].closer \in Members
<1>1. \A s \in Sales : sale[s] \in Sale
  BY DEF BoardInv, FiguresTyped
<1>2. \A c \in Calls : call[c] \in Call
  BY DEF BoardInv, FiguresTyped
<1>3. \A s \in Sales : sale[s].live => sale[s].shares \in Splits
  BY DEF BoardInv, FiguresTyped
<1>4. QED
  BY <1>1, <1>2, <1>3, ScoreboardAssumption DEF Sale, Call

\* The ends of an interval, scaled.
LEMMA ScaledBounds ==
    ASSUME NEW a \in Nat, NEW x \in Int, NEW y \in Int, x <= y
    PROVE  a * x <= a * y
<1>1. PICK d \in Nat : y = x + d
  <2>1. y - x \in Nat /\ y = x + (y - x)
    OBVIOUS
  <2>2. QED
    BY <2>1
<1>2. a * y = a * x + a * d
  BY <1>1
<1>3. a * d \in Nat /\ a * x \in Int
  OBVIOUS
<1>4. QED
  BY <1>2, <1>3

\* What sales bring the closers is their amounts, as far as the shares add up to Full.
LEMMA CreditsAddUp ==
    ASSUME BoardInv, NEW D \in SUBSET LiveSales
    PROVE  LET total == SumFunction([u \in Members |-> Credit(u, D)])
           IN  /\ (Full - Tolerance) * Booked(D) <= total
               /\ total <= (Full + Tolerance) * Booked(D)
<1> DEFINE amounts == [s \in Sales |-> sale[s].amount]
           parts(u) == [s \in Sales |-> sale[s].amount * sale[s].shares[u]]
           credits(E) == [u \in Members |-> Credit(u, E)]
           low == Full - Tolerance
           high == Full + Tolerance
           W == {E \in SUBSET LiveSales :
                     /\ low * Booked(E) <= SumFunctionOnSet(credits(E), Members)
                     /\ SumFunctionOnSet(credits(E), Members) <= high * Booked(E)}
<1>0. Full \in Nat /\ Tolerance \in 0..Full /\ low \in Nat /\ high \in Nat
  BY FiguresOfSales
<1>1. /\ IsFiniteSet(Members) /\ IsFiniteSet(Sales)
      /\ \A s \in Sales : /\ sale[s].amount \in Nat
                          /\ sale[s].shares \in [Members -> 0..(Full + Tolerance)]
                          /\ sale[s].live => sale[s].shares \in Splits
  BY FiguresOfSales
<1>2. /\ \A s \in Sales : amounts[s] \in Int
      /\ \A u \in Members, s \in Sales : parts(u)[s] \in Int
  <2>1. \A s \in Sales : amounts[s] \in Int
    BY <1>1
  <2>2. ASSUME NEW u \in Members, NEW s \in Sales
        PROVE  parts(u)[s] \in Int
    <3>1. sale[s].amount \in Int /\ sale[s].shares[u] \in Int
      BY <1>1
    <3>2. sale[s].amount * sale[s].shares[u] \in Int
      BY <3>1
    <3>3. QED
      BY <3>2
  <2>3. QED
    BY <2>1, <2>2
<1>3. \A E \in SUBSET LiveSales : E \in SUBSET Sales /\ IsFiniteSet(E)
  BY <1>1, FS_Subset DEF LiveSales
<1>4. \A E, u : Booked(E) = SumFunctionOnSet(amounts, E) /\ Credit(u, E) = SumFunctionOnSet(parts(u), E)
  BY DEF Booked, Credit
<1>5. ASSUME NEW E \in SUBSET LiveSales
      PROVE  Booked(E) \in Int /\ \A u \in Members : Credit(u, E) \in Int
  <2>1. IsFiniteSet(E) /\ \A s \in E : amounts[s] \in Int
    BY <1>2, <1>3
  <2>2. Booked(E) \in Int
    <3> HIDE DEF amounts
    <3>1. QED
      BY <1>4, <2>1, SumTaken
  <2>3. ASSUME NEW u \in Members
        PROVE  Credit(u, E) \in Int
    <3>1. \A s \in E : parts(u)[s] \in Int
      BY <1>2, <1>3
    <3> HIDE DEF parts
    <3>2. QED
      BY <1>4, <2>1, <3>1, SumTaken
  <2>4. QED
    BY <2>2, <2>3
<1>6. {} \in W
  <2>1. \A u \in Members : credits({})[u] = 0
    BY <1>4, SumOfNothing
  <2>2. SumFunctionOnSet(credits({}), Members) = 0
    <3> HIDE DEF credits
    <3>1. QED
      BY <1>1, <2>1, SumOfZeros
  <2>3. Booked({}) = 0
    BY <1>4, SumOfNothing
  <2>4. low * 0 = 0 /\ high * 0 = 0
    BY <1>0
  <2>5. QED
    BY <2>2, <2>3, <2>4
<1>7. ASSUME NEW E \in SUBSET LiveSales, NEW s \in LiveSales, E \in W, s \notin E
      PROVE  E \cup {s} \in W
  <2>1. PICK H : H = E \cup {s}
    OBVIOUS
  <2>2. s \in Sales /\ sale[s].live /\ H \in SUBSET LiveSales
    BY <2>1 DEF LiveSales
  <2>3. PICK a, sh : a = sale[s].amount /\ sh = sale[s].shares
    OBVIOUS
  <2>4. a \in Nat /\ a \in Int /\ sh \in [Members -> 0..(Full + Tolerance)] /\ sh \in Splits
    BY <1>1, <2>2, <2>3
  <2>5. SumFunctionOnSet(sh, Members) \in low..high
    <3>1. SumFunction(sh) \in low..high
      BY <2>4, ScoreboardAssumption
    <3>2. DOMAIN sh = Members
      BY <2>4
    <3>3. QED
      BY <3>1, <3>2 DEF SumFunction
  <2>6. Booked(H) = a + Booked(E)
    <3>1. amounts[s] = a /\ IsFiniteSet(E) /\ \A r \in E \cup {s} : amounts[r] \in Int
      BY <1>2, <1>3, <2>2, <2>3
    <3> HIDE DEF amounts
    <3>2. SumFunctionOnSet(amounts, E \cup {s}) = amounts[s] + SumFunctionOnSet(amounts, E)
      BY <1>7, <3>1, SumAdds
    <3>3. QED
      BY <1>4, <2>1, <3>1, <3>2
  <2>7. ASSUME NEW u \in Members
        PROVE  Credit(u, H) = a * sh[u] + Credit(u, E)
    <3>1. parts(u)[s] = a * sh[u] /\ IsFiniteSet(E) /\ \A r \in E \cup {s} : parts(u)[r] \in Int
      BY <1>2, <1>3, <2>2, <2>3
    <3> HIDE DEF parts
    <3>2. SumFunctionOnSet(parts(u), E \cup {s}) = parts(u)[s] + SumFunctionOnSet(parts(u), E)
      BY <1>7, <3>1, SumAdds
    <3>3. QED
      BY <1>4, <2>1, <3>1, <3>2
  <2>8. PICK g, h : g = credits(E) /\ h = credits(H)
    OBVIOUS
  <2>9. \A u \in Members : sh[u] \in Int /\ g[u] \in Int /\ h[u] = a * sh[u] + g[u]
    <3>1. ASSUME NEW u \in Members
          PROVE  sh[u] \in Int
      BY <2>4
    <3>2. \A u \in Members : g[u] = Credit(u, E) /\ h[u] = Credit(u, H)
      BY <2>8
    <3>3. \A u \in Members : Credit(u, E) \in Int
      BY <1>5
    <3>4. QED
      BY <2>7, <3>1, <3>2, <3>3
  <2>10. SumFunctionOnSet(h, Members) = a * SumFunctionOnSet(sh, Members) + SumFunctionOnSet(g, Members)
    <3>1. IsFiniteSet(Members) /\ a \in Int
      BY <1>1, <2>4
    <3>2. QED
      BY <2>9, <3>1, SumLinear
  <2>11. PICK b, z, n : b = Booked(E) /\ z = SumFunctionOnSet(sh, Members)
                        /\ n = SumFunctionOnSet(g, Members)
    OBVIOUS
  <2>12. low * b <= n /\ n <= high * b
    BY <1>7, <2>8, <2>11
  <2>13. b \in Int /\ z \in Int /\ low <= z /\ z <= high /\ n \in Int
    <3>1. b \in Int
      BY <1>5, <2>11
    <3>2. z \in Int /\ low <= z /\ z <= high
      BY <1>0, <2>5, <2>11
    <3>3. n \in Int
      BY <1>1, <2>9, <2>11, SumTaken
    <3>4. QED
      BY <3>1, <3>2, <3>3
  <2> HIDE DEF low, high
  <2>14. a * low <= a * z /\ a * z <= a * high
    BY <1>0, <2>4, <2>13, ScaledBounds
  <2>15. low * (a + b) = a * low + low * b /\ high * (a + b) = a * high + high * b
    BY <1>0, <2>4, <2>13
  <2>16. /\ a * low \in Int /\ a * z \in Int /\ a * high \in Int
         /\ low * b \in Int /\ high * b \in Int
    BY <1>0, <2>4, <2>13
  <2>17. low * (a + b) <= a * z + n /\ a * z + n <= high * (a + b)
    BY <2>12, <2>13, <2>14, <2>15, <2>16
  <2>18. SumFunctionOnSet(h, Members) = a * z + n /\ Booked(H) = a + b
    BY <2>6, <2>10, <2>11
  <2>19. QED
    BY <2>1, <2>2, <2>8, <2>17, <2>18
<1> HIDE DEF W, credits
<1>8. IsFiniteSet(LiveSales)
  BY <1>3
<1>9. SUBSET LiveSales \subseteq W
  BY <1>6, <1>7, <1>8, ElementInduction
<1>10. /\ low * Booked(D) <= SumFunctionOnSet(credits(D), Members)
       /\ SumFunctionOnSet(credits(D), Members) <= high * Booked(D)
  BY <1>9 DEF W
<1>11. QED
  BY <1>10 DEF credits, SumFunction

LEMMA SalesFiguresAgree ==
    ASSUME BoardInv, \A s \in LiveSales : sale[s].closed <= now
    PROVE  /\ \A u \in Members :
                  /\ attainment(u, currentMonth) = leaderboard(currentMonth)[u]
                  /\ attainment(u, currentMonth) = CellAttained(u, currentMonth)
                  /\ getQuotaContext(u)[3] = CellAttained(u, periodBoundaryAt(-1))
           /\ LET total == SumFunction([u \in Members |-> attainment(u, currentMonth)])
              IN  /\ (Full - Tolerance) * teamAttainment(currentMonth) <= total
                  /\ total <= (Full + Tolerance) * teamAttainment(currentMonth)
<1>1. PICK p : p = currentMonth
  OBVIOUS
<1>2. now \in Nat /\ p.to \in Int /\ now < p.to
  BY <1>1, MonthUnderWay
<1>3. \A s \in LiveSales : sale[s].closed \in Nat
  BY FiguresOfSales DEF LiveSales
<1>4. \A s \in LiveSales : sale[s].closed <= now /\ sale[s].closed <= p.to /\ sale[s].closed < p.to
  BY <1>2, <1>3
<1>5. /\ ClosedByNow(p) = {s \in LiveSales : p.from <= sale[s].closed /\ sale[s].closed <= p.to}
      /\ ClosedByNow(p) = {s \in LiveSales : p.from <= sale[s].closed /\ sale[s].closed < p.to}
  BY <1>4 DEF ClosedByNow
<1>6. ASSUME NEW u \in Members
      PROVE  /\ attainment(u, p) = leaderboard(p)[u]
             /\ attainment(u, p) = CellAttained(u, p)
  BY <1>5 DEF attainment, leaderboard, CellAttained
<1>7. ASSUME NEW u \in Members
      PROVE  getQuotaContext(u)[3] = CellAttained(u, periodBoundaryAt(-1))
  <2>1. 3 \in 1..3 /\ 3 - 4 = -1
    OBVIOUS
  <2>2. QED
    BY <2>1 DEF getQuotaContext, CellAttained
<1>8. LET total == SumFunction([u \in Members |-> attainment(u, p)])
      IN  /\ (Full - Tolerance) * teamAttainment(p) <= total
          /\ total <= (Full + Tolerance) * teamAttainment(p)
  <2>1. PICK D : D = ClosedByNow(p)
    OBVIOUS
  <2>2. D \in SUBSET LiveSales
    BY <2>1 DEF ClosedByNow
  <2>3. LET total == SumFunction([u \in Members |-> Credit(u, D)])
        IN  /\ (Full - Tolerance) * Booked(D) <= total
            /\ total <= (Full + Tolerance) * Booked(D)
    BY <2>2, CreditsAddUp
  <2>4. QED
    BY <2>1, <2>3 DEF attainment, teamAttainment
<1>9. QED
  BY <1>1, <1>6, <1>7, <1>8

Buckets == 1..(Len(AgingEdges) + 1)

LEMMA CallsInBuckets ==
    ASSUME BoardInv
    PROVE  /\ IsFiniteSet(Buckets) /\ IsFiniteSet(Upcoming(Members))
           /\ \A n \in Buckets : IsFiniteSet(Aging(Members, n)) /\ Aging(Members, n) \subseteq Calls
           /\ AgingEdges \in Seq(Nat) /\ Len(AgingEdges) \in Nat
<1>1. IsFiniteSet(Calls)
  BY FiguresOfSales
<1>2. Upcoming(Members) \in SUBSET Calls
  BY DEF Upcoming
<1>3. \A n : Aging(Members, n) \in SUBSET Calls
  BY <1>2 DEF Aging
<1>4. AgingEdges \in Seq(Nat) /\ Len(AgingEdges) \in Nat
  BY ScoreboardAssumption
<1>5. PICK m \in Nat : m = Len(AgingEdges) + 1
  BY <1>4
<1>6. 1 \in Int /\ m \in Int
  BY <1>5
<1>7. IsFiniteSet(1..m)
  BY <1>6, FS_Interval
<1>8. IsFiniteSet(Buckets)
  BY <1>5, <1>7 DEF Buckets
<1>9. QED
  BY <1>1, <1>2, <1>3, <1>4, <1>8, FS_Subset

\* A call that is coming up is one closer's.
LEMMA AgingByCloser ==
    ASSUME BoardInv, NEW n \in Buckets
    PROVE  Cardinality(Aging(Members, n))
               = SumFunction([u \in Members |-> Cardinality(Aging({u}, n))])
<1>1. PICK k : k = [c \in Calls |-> call[c].closer]
  OBVIOUS
<1>2. PICK S : S = Aging(Members, n)
  OBVIOUS
<1>3. PICK g : g = [u \in Members |-> Cardinality(Aging({u}, n))]
  OBVIOUS
<1>4. IsFiniteSet(S) /\ S \subseteq Calls /\ IsFiniteSet(Members)
  BY <1>2, CallsInBuckets, FiguresOfSales
<1>5. \A c \in S : k[c] \in Members
  BY <1>1, <1>4, FiguresOfSales
<1>6. ASSUME NEW u \in Members
      PROVE  Group(S, k, u) = Aging({u}, n)
  BY <1>1, <1>2 DEF Group, Aging, Upcoming
<1>7. \A u \in Members : g[u] = Cardinality(Group(S, k, u))
  BY <1>3, <1>6
<1>8. SumFunctionOnSet(g, Members) = Cardinality(S)
  BY <1>4, <1>5, <1>7, SizeOfGroups
<1>9. SumFunction(g) = Cardinality(S)
  BY <1>3, <1>8 DEF SumFunction
<1>10. QED
  BY <1>2, <1>3, <1>9

\* A call that is on no edge is in one bucket.
LEMMA OneBucket ==
    ASSUME BoardInv, NEW c \in Upcoming(Members),
           \A n \in 1..Len(AgingEdges) : call[c].at # now + Midnight(AgingEdges[n])
    PROVE  /\ \E n \in Buckets : c \in Aging(Members, n)
           /\ \A m, n \in Buckets : c \in Aging(Members, m) /\ c \in Aging(Members, n) => m = n
<1>1. PICK len \in Nat : len = Len(AgingEdges)
  BY CallsInBuckets
<1>2. PICK edge : edge = [n \in 1..len |-> now + Midnight(AgingEdges[n])]
  OBVIOUS
<1>3. PICK at : at = call[c].at
  OBVIOUS
<1>4. now \in Nat /\ at \in Nat
  BY <1>3, MonthUnderWay, FiguresOfSales DEF Upcoming
<1>5. \A n \in 1..len : edge[n] \in Int /\ edge[n] # at
  <2>1. SUFFICES ASSUME NEW n \in 1..len PROVE edge[n] \in Int /\ edge[n] # at
    OBVIOUS
  <2>2. AgingEdges[n] \in Int
    BY <1>1, ScoreboardAssumption
  <2>3. Midnight(AgingEdges[n]) \in Int
    BY <2>2, MidnightsOrdered
  <2>4. QED
    BY <1>1, <1>2, <1>3, <1>4, <2>3
<1>6. \A m, n \in 1..len : m <= n => edge[m] <= edge[n]
  <2>1. SUFFICES ASSUME NEW m \in 1..len, NEW n \in 1..len, m <= n PROVE edge[m] <= edge[n]
    OBVIOUS
  <2>2. AgingEdges[m] \in Int /\ AgingEdges[n] \in Int /\ AgingEdges[m] <= AgingEdges[n]
    <3>1. AgingEdges \in Seq(Nat)
      BY ScoreboardAssumption
    <3>2. m \in DOMAIN AgingEdges /\ n \in DOMAIN AgingEdges
      BY <1>1, <3>1
    <3>3. AgingEdges[m] \in Nat /\ AgingEdges[n] \in Nat
      BY <1>1, <3>1
    <3>4. AgingEdges[m] <= AgingEdges[n]
      BY <2>1, <3>2, ScoreboardAssumption
    <3>5. QED
      BY <3>3, <3>4
  <2>3. /\ Midnight(AgingEdges[m]) \in Int /\ Midnight(AgingEdges[n]) \in Int
        /\ Midnight(AgingEdges[m]) <= Midnight(AgingEdges[n])
    BY <2>2, MidnightsOrdered
  <2>4. QED
    BY <1>2, <1>4, <2>3
<1>7. Buckets = 1..(len + 1)
  BY <1>1 DEF Buckets
<1>8. \A n \in Buckets : c \in Aging(Members, n) <=> /\ n = 1 \/ at >= edge[n - 1]
                                                     /\ n > len \/ at <= edge[n]
  <2>1. SUFFICES ASSUME NEW n \in 1..(len + 1)
                 PROVE  c \in Aging(Members, n) <=> /\ n = 1 \/ at >= edge[n - 1]
                                                    /\ n > len \/ at <= edge[n]
    BY <1>7
  <2>2. n = 1 \/ n - 1 \in 1..len
    BY <2>1
  <2>3. n > len \/ n \in 1..len
    BY <2>1
  <2>4. n = 1 \/ edge[n - 1] = now + Midnight(AgingEdges[n - 1])
    BY <1>2, <2>2
  <2>5. n > len \/ edge[n] = now + Midnight(AgingEdges[n])
    BY <1>2, <2>3
  <2>6. QED
    BY <1>1, <1>3, <2>4, <2>5 DEF Aging
<1>9. \E n \in Buckets : c \in Aging(Members, n)
  <2>1. PICK T : T = {n \in 1..(len + 1) : n > len \/ at <= edge[n]}
    OBVIOUS
  <2>2. len + 1 \in T /\ T \subseteq Int
    BY <2>1
  <2>3. IsFiniteSet(T)
    <3>1. IsFiniteSet(Buckets) /\ T \in SUBSET Buckets
      BY <1>7, <2>1, CallsInBuckets
    <3>2. QED
      BY <3>1, FS_Subset
  <2>4. PICK n \in T : \A m \in T : n <= m
    BY <2>2, <2>3, LeastElement
  <2>5. n \in 1..(len + 1) /\ (n > len \/ at <= edge[n])
    BY <2>1, <2>4
  <2>6. n = 1 \/ at >= edge[n - 1]
    <3>1. SUFFICES ASSUME n # 1, ~ (at >= edge[n - 1]) PROVE FALSE
      OBVIOUS
    <3>2. n - 1 \in 1..len /\ n - 1 \in 1..(len + 1)
      BY <2>5, <3>1
    <3>3. at <= edge[n - 1]
      BY <1>4, <1>5, <3>1, <3>2
    <3>4. n - 1 \in T
      BY <2>1, <3>2, <3>3
    <3>5. QED
      BY <2>4, <2>5, <3>4
  <2>7. QED
    BY <1>7, <1>8, <2>5, <2>6
<1>10. ASSUME NEW m \in Buckets, NEW n \in Buckets, m < n,
              c \in Aging(Members, m), c \in Aging(Members, n)
       PROVE  FALSE
  <2>1. m \in 1..(len + 1) /\ n \in 1..(len + 1)
    BY <1>7
  <2>2. m \in 1..len /\ n - 1 \in 1..len /\ m <= n - 1
    BY <1>10, <2>1
  <2>3. at <= edge[m]
    BY <1>8, <1>10, <2>2
  <2>4. at >= edge[n - 1]
    BY <1>8, <1>10, <2>2
  <2>5. edge[m] <= edge[n - 1]
    BY <1>6, <2>2
  <2>6. edge[m] \in Int /\ edge[n - 1] \in Int /\ edge[m] # at /\ edge[n - 1] # at
    BY <1>5, <2>2
  <2>7. QED
    BY <1>4, <2>3, <2>4, <2>5, <2>6
<1>11. \A m, n \in Buckets : m < n \/ n < m \/ m = n
  BY <1>7
<1>12. QED
  BY <1>9, <1>10, <1>11

LEMMA BucketsAddUp ==
    ASSUME BoardInv,
           \A c \in Calls, n \in 1..Len(AgingEdges) :
               call[c].live => call[c].at # now + Midnight(AgingEdges[n])
    PROVE  SumFunction([n \in Buckets |-> Cardinality(Aging(Members, n))])
               = Cardinality(Upcoming(Members))
<1>1. PICK S : S = Upcoming(Members)
  OBVIOUS
<1>2. PICK k : k = [c \in S |-> CHOOSE n \in Buckets : c \in Aging(Members, n)]
  OBVIOUS
<1>3. PICK g : g = [n \in Buckets |-> Cardinality(Aging(Members, n))]
  OBVIOUS
<1>4. ASSUME NEW c \in S
      PROVE  /\ \E n \in Buckets : c \in Aging(Members, n)
             /\ \A m, n \in Buckets : c \in Aging(Members, m) /\ c \in Aging(Members, n) => m = n
  <2>1. c \in Upcoming(Members) /\ c \in Calls /\ call[c].live
    BY <1>1 DEF Upcoming
  <2>2. \A n \in 1..Len(AgingEdges) : call[c].at # now + Midnight(AgingEdges[n])
    BY <2>1
  <2>3. QED
    BY <2>1, <2>2, OneBucket
<1>5. \A c \in S : k[c] \in Buckets /\ c \in Aging(Members, k[c])
  BY <1>2, <1>4
<1>6. ASSUME NEW n \in Buckets
      PROVE  Group(S, k, n) = Aging(Members, n)
  <2>1. Aging(Members, n) \subseteq S
    BY <1>1 DEF Aging
  <2>2. QED
    BY <1>4, <1>5, <2>1 DEF Group
<1>7. \A n \in Buckets : g[n] = Cardinality(Group(S, k, n))
  BY <1>3, <1>6
<1>8. IsFiniteSet(S) /\ IsFiniteSet(Buckets)
  BY <1>1, CallsInBuckets
<1>9. \A c \in S : k[c] \in Buckets
  BY <1>5
<1>10. SumFunctionOnSet(g, Buckets) = Cardinality(S)
  BY <1>7, <1>8, <1>9, SizeOfGroups
<1>11. SumFunction(g) = Cardinality(S)
  BY <1>3, <1>10 DEF SumFunction
<1>12. QED
  BY <1>1, <1>3, <1>11

\* A stale call is one closer's.
LEMMA StaleByCloser ==
    ASSUME BoardInv
    PROVE  Cardinality(Stale(Members)) = SumFunction([u \in Members |-> Cardinality(Stale({u}))])
<1>1. PICK k : k = [c \in Calls |-> call[c].closer]
  OBVIOUS
<1>2. PICK S : S = Stale(Members)
  OBVIOUS
<1>3. PICK g : g = [u \in Members |-> Cardinality(Stale({u}))]
  OBVIOUS
<1>4. IsFiniteSet(S) /\ S \subseteq Calls /\ IsFiniteSet(Members)
  <2>1. S \in SUBSET Calls
    BY <1>2 DEF Stale
  <2>2. QED
    BY <2>1, FiguresOfSales, FS_Subset
<1>5. \A c \in S : k[c] \in Members
  BY <1>1, <1>4, FiguresOfSales
<1>6. ASSUME NEW u \in Members
      PROVE  Group(S, k, u) = Stale({u})
  BY <1>1, <1>2 DEF Group, Stale
<1>7. \A u \in Members : g[u] = Cardinality(Group(S, k, u))
  BY <1>3, <1>6
<1>8. SumFunctionOnSet(g, Members) = Cardinality(S)
  BY <1>4, <1>5, <1>7, SizeOfGroups
<1>9. SumFunction(g) = Cardinality(S)
  BY <1>3, <1>8 DEF SumFunction
<1>10. QED
  BY <1>2, <1>3, <1>9

\* The quotas that are active are those of the cell, and there is one at most.
LEMMA ActiveInCell ==
    ASSUME BoardInv, NEW u \in Members, Unambiguous(u)
    PROVE  /\ ActiveQuotas(u) = CellGoals(u, currentMonth)
           /\ \A g, h \in ActiveQuotas(u) : g = h
<1> DEFINE m == MonthOf(now) + 0
           p == periodBoundaryAt(0)
<1>1. m \in QuotaMonths /\ Day(p.from) = MonthStart(m) /\ Day(p.to) = MonthStart(m + 1)
  BY PeriodBoundary DEF BoardInv, FiguresTyped
<1>2. currentMonth = p
  BY DEF currentMonth
<1> HIDE DEF m, p
<1>3. MonthStart(m) \in Nat /\ MonthStart(m + 1) \in Nat /\ MonthStart(m) < MonthStart(m + 1)
  BY <1>1, MonthsOrdered
<1>4. ASSUME NEW g \in ActiveQuotas(u)
      PROVE  goals[g].start = MonthStart(m) /\ goals[g].end = MonthStart(m + 1) - 1
  <2>1. /\ g \in Goals /\ IsQuota(g) /\ goals[g].user = u
        /\ goals[g].start <= MonthStart(m + 1) /\ goals[g].end >= MonthStart(m)
        /\ goals[g].start # MonthStart(m + 1)
    BY <1>1, <1>2 DEF ActiveQuotas, QuotasOf, IsQuota, Unambiguous
  <2>2. PICK k \in QuotaMonths : goals[g].start = MonthStart(k)
                                 /\ goals[g].end = MonthStart(k + 1) - 1
    BY <2>1 DEF BoardInv, QuotasOfMonths, IsMonth, Unambiguous
  <2>3. MonthStart(k) \in Nat /\ MonthStart(k) <= MonthStart(m + 1) - 1
    BY <1>3, <2>1, <2>2, MonthsOrdered
  <2>4. k = m
    BY <1>1, <2>1, <2>2, <2>3, MonthsApart
  <2>5. QED
    BY <2>2, <2>4
<1>5. ActiveQuotas(u) \subseteq CellGoals(u, currentMonth)
  BY <1>1, <1>2, <1>3, <1>4 DEF CellGoals, ActiveQuotas
<1>6. CellGoals(u, currentMonth) \subseteq ActiveQuotas(u)
  <2>1. SUFFICES ASSUME NEW g \in CellGoals(u, currentMonth) PROVE g \in ActiveQuotas(u)
    OBVIOUS
  <2>2. g \in QuotasOf(u) /\ goals[g].start <= MonthStart(m) /\ goals[g].end >= MonthStart(m)
    BY <1>1, <1>2 DEF CellGoals
  <2>3. goals[g].start \in Nat
    <3>1. g \in 1..Len(goals) /\ goals \in Seq(Goal)
      BY <2>2 DEF QuotasOf, Goals, BoardInv, GoalsTyped
    <3>2. goals[g] \in Goal
      BY <3>1
    <3>3. QED
      BY <3>2 DEF Goal
  <2>4. goals[g].start <= MonthStart(m + 1)
    BY <1>3, <2>2, <2>3
  <2>5. QED
    BY <1>1, <1>2, <2>2, <2>4 DEF ActiveQuotas
<1>7. ASSUME NEW g \in ActiveQuotas(u), NEW h \in ActiveQuotas(u), g # h
      PROVE  FALSE
  <2>1. g \in QuotasOf(u) /\ h \in QuotasOf(u)
    BY DEF ActiveQuotas
  <2>2. goals[g].end < goals[h].start \/ goals[h].end < goals[g].start
    BY <1>7, <2>1 DEF BoardInv, QuotasDisjoint, Unambiguous
  <2>3. QED
    BY <1>3, <1>4, <2>2
<1>8. QED
  BY <1>5, <1>6, <1>7

\* What a closer reads is what he adds to the team's quota.
LEMMA QuotaRead ==
    ASSUME BoardInv, NEW u \in Members, Unambiguous(u)
    PROVE  /\ CellGoals(u, currentMonth) = {} => CloserDashboardPage(u).quota = 0
           /\ \A g \in CellGoals(u, currentMonth) : CloserDashboardPage(u).quota = goals[g].target
           /\ SumFunction([g \in ActiveQuotas(u) |-> goals[g].target]) = CloserDashboardPage(u).quota
<1>1. PICK f : f = [g \in ActiveQuotas(u) |-> goals[g].target]
  OBVIOUS
<1>2. SumFunction(f) = SumFunctionOnSet(f, ActiveQuotas(u))
  BY <1>1 DEF SumFunction
<1>3. CloserDashboardPage(u).quota
          = IF getActiveQuota(u) = 0 THEN 0 ELSE goals[getActiveQuota(u)].target
  BY DEF CloserDashboardPage
<1>4. CASE ActiveQuotas(u) = {}
  <2>1. getActiveQuota(u) = 0
    BY <1>4 DEF getActiveQuota
  <2>2. SumFunction(f) = 0
    BY <1>2, <1>4, SumOfNothing
  <2>3. QED
    BY <1>1, <1>3, <1>4, <2>1, <2>2, ActiveInCell
<1>5. CASE ActiveQuotas(u) # {}
  <2>1. PICK g : g \in ActiveQuotas(u)
    BY <1>5
  <2>2. ActiveQuotas(u) = {g} /\ CellGoals(u, currentMonth) = {g}
    BY <2>1, ActiveInCell
  <2>3. g \in 1..Len(goals) /\ goals \in Seq(Goal)
    BY <2>1 DEF ActiveQuotas, QuotasOf, Goals, BoardInv, GoalsTyped
  <2>4. goals[g] \in Goal
    BY <2>3
  <2>5. goals[g].target \in Int /\ goals[g].created \in Nat /\ g # 0
    <3>1. goals[g].target \in Targets /\ goals[g].created \in Nat
      BY <2>4 DEF Goal
    <3>2. goals[g].target \in Nat
      BY <3>1, ScoreboardAssumption
    <3>3. Len(goals) \in Nat
      BY <2>3
    <3>4. QED
      BY <2>3, <3>1, <3>2, <3>3
  <2>6. getActiveQuota(u) = g
    BY <2>2, <2>5 DEF getActiveQuota
  <2>7. CloserDashboardPage(u).quota = goals[g].target
    BY <1>3, <2>5, <2>6
  <2>8. SumFunctionOnSet(f, {g}) = goals[g].target
    <3>1. f[g] = goals[g].target
      BY <1>1, <2>1
    <3>2. IsFiniteSet({}) /\ g \notin {} /\ \A y \in {} \cup {g} : f[y] \in Int
      BY <2>5, <3>1, FS_EmptySet
    <3>3. SumFunctionOnSet(f, {} \cup {g}) = f[g] + SumFunctionOnSet(f, {})
      BY <3>2, SumAdds
    <3>4. {} \cup {g} = {g}
      OBVIOUS
    <3>5. QED
      BY <2>5, <3>1, <3>3, <3>4, SumOfNothing
  <2>9. QED
    BY <1>1, <1>2, <2>2, <2>7, <2>8
<1>6. QED
  BY <1>4, <1>5

LEMMA BoardsAgree ==
    ASSUME BoardInv
    PROVE  DashboardsAgree
<1>1. PICK closer, team : /\ closer = [u \in Members |-> CloserDashboardPage(u)]
                          /\ team = ManagerDashboardPage
  OBVIOUS
<1>2. /\ team.quota = TeamQuota
      /\ team.attained = teamAttainment(currentMonth)
      /\ team.board = leaderboard(currentMonth)
      /\ team.pipeline = pipelineHealth(Members)
  BY <1>1 DEF ManagerDashboardPage
<1>3. \A u \in Members : /\ closer[u].quota = CloserDashboardPage(u).quota
                         /\ closer[u].attained = attainment(u, currentMonth)
                         /\ closer[u].pipeline = pipelineHealth({u})
  BY <1>1 DEF CloserDashboardPage
<1>4. \A closers : /\ pipelineHealth(closers).total = Cardinality(Upcoming(closers))
                   /\ pipelineHealth(closers).stale = Cardinality(Stale(closers))
                   /\ pipelineHealth(closers).aging
                          = [n \in Buckets |-> Cardinality(Aging(closers, n))]
  BY DEF pipelineHealth, Buckets
<1>5. QuotasAgree(closer, team)
  <2>1. ASSUME NEW u \in Members, Unambiguous(u)
        PROVE  /\ CellGoals(u, currentMonth) = {} => closer[u].quota = 0
               /\ \A g \in CellGoals(u, currentMonth) : closer[u].quota = goals[g].target
    BY <1>3, <2>1, QuotaRead
  <2>2. ASSUME \A u \in Members : Unambiguous(u)
        PROVE  team.quota = SumFunction([u \in Members |-> closer[u].quota])
    <3>1. ASSUME NEW u \in Members
          PROVE  SumFunction([g \in ActiveQuotas(u) |-> goals[g].target]) = closer[u].quota
      BY <1>3, <2>2, QuotaRead
    <3>2. [u \in Members |-> SumFunction([g \in ActiveQuotas(u) |-> goals[g].target])]
              = [u \in Members |-> closer[u].quota]
      BY <3>1
    <3>3. QED
      BY <1>2, <3>2 DEF TeamQuota
  <2>3. QED
    BY <2>1, <2>2 DEF QuotasAgree
<1>6. SalesAgree(closer, team)
  <2>1. SUFFICES ASSUME \A s \in LiveSales : sale[s].closed <= now
                 PROVE  LET total == SumFunction([u \in Members |-> closer[u].attained])
                        IN  /\ \A u \in Members :
                                   /\ closer[u].attained = team.board[u]
                                   /\ closer[u].attained = CellAttained(u, currentMonth)
                                   /\ getQuotaContext(u)[3] = CellAttained(u, periodBoundaryAt(-1))
                            /\ (Full - Tolerance) * team.attained <= total
                            /\ total <= (Full + Tolerance) * team.attained
    BY DEF SalesAgree
  <2>2. [u \in Members |-> closer[u].attained] = [u \in Members |-> attainment(u, currentMonth)]
    BY <1>3
  <2>3. QED
    BY <1>2, <1>3, <2>1, <2>2, SalesFiguresAgree
<1>7. CallsAgree(closer, team.pipeline)
  <2>1. ASSUME NEW n \in Buckets
        PROVE  team.pipeline.aging[n] = SumFunction([u \in Members |-> closer[u].pipeline.aging[n]])
    <3>1. ASSUME NEW u \in Members
          PROVE  closer[u].pipeline.aging[n] = Cardinality(Aging({u}, n))
      <4>1. PICK f : f = closer[u].pipeline.aging
        OBVIOUS
      <4>2. f = [m \in Buckets |-> Cardinality(Aging({u}, m))]
        BY <1>3, <1>4, <4>1
      <4>3. f[n] = Cardinality(Aging({u}, n))
        BY <4>2
      <4>4. QED
        BY <4>1, <4>3
    <3>2. [u \in Members |-> closer[u].pipeline.aging[n]]
              = [u \in Members |-> Cardinality(Aging({u}, n))]
      BY <3>1
    <3>3. team.pipeline.aging[n] = Cardinality(Aging(Members, n))
      <4>1. PICK f : f = team.pipeline.aging
        OBVIOUS
      <4>2. f = [m \in Buckets |-> Cardinality(Aging(Members, m))]
        BY <1>2, <1>4, <4>1
      <4>3. f[n] = Cardinality(Aging(Members, n))
        BY <4>2
      <4>4. QED
        BY <4>1, <4>3
    <3>4. QED
      BY <3>2, <3>3, AgingByCloser
  <2>2. DOMAIN team.pipeline.aging = Buckets
    BY <1>2, <1>4
  <2>3. team.pipeline.stale = SumFunction([u \in Members |-> closer[u].pipeline.stale])
    <3>1. [u \in Members |-> closer[u].pipeline.stale] = [u \in Members |-> Cardinality(Stale({u}))]
      BY <1>3, <1>4
    <3>2. QED
      BY <1>2, <1>4, <3>1, StaleByCloser
  <2> DEFINE onEdge == \E c \in Calls, n \in 1..Len(AgingEdges) :
                           call[c].live /\ call[c].at = now + Midnight(AgingEdges[n])
  <2>4. ASSUME ~ onEdge
        PROVE  SumFunction(team.pipeline.aging) = team.pipeline.total
    <3>1. SumFunction([n \in Buckets |-> Cardinality(Aging(Members, n))])
              = Cardinality(Upcoming(Members))
      BY <2>4, BucketsAddUp
    <3>2. QED
      BY <1>2, <1>4, <3>1
  <2> HIDE DEF onEdge
  <2>5. QED
    BY <2>1, <2>2, <2>3, <2>4 DEF CallsAgree, onEdge
<1>8. QED
  BY <1>1, <1>5, <1>6, <1>7 DEF DashboardsAgree

\* Every sale of a sparkline's window has its day among the buckets.
LEMMA SeriesIsWhole ==
    ASSUME BoardInv
    PROVE  SeriesAddUp
<1>1. PICK from, to : from = LastDays.from /\ to = LastDays.to
  OBVIOUS
<1>2. PICK T : T = emptyBuckets(LastDays)
  OBVIOUS
<1>3. PICK S : S = {s \in LiveSales : from <= sale[s].closed /\ sale[s].closed <= now}
  OBVIOUS
<1>4. now \in Nat /\ to = now /\ from \in Int
  <2>1. now \in Nat
    BY MonthUnderWay
  <2>2. SeriesDays \in Int
    BY ScoreboardAssumption
  <2>3. Midnight(SeriesDays) \in Int
    BY <2>2, MidnightsOrdered
  <2>4. QED
    BY <1>1, <2>1, <2>3 DEF LastDays
<1>5. Day(from) \in Int /\ Day(to) \in Int
  BY <1>4, DayBounds
<1>6. T = Day(from)..Day(to)
  BY <1>1, <1>2 DEF emptyBuckets
<1>7. IsFiniteSet(T)
  BY <1>5, <1>6, FS_Interval
<1>8. PICK k : k = [s \in S |-> Day(sale[s].closed)]
  OBVIOUS
<1>9. PICK amounts : amounts = [s \in Sales |-> sale[s].amount]
  OBVIOUS
<1>10. IsFiniteSet(S) /\ S \subseteq Sales /\ S \subseteq LiveSales
  <2>1. IsFiniteSet(Sales)
    BY FiguresOfSales
  <2>2. S \in SUBSET Sales
    BY <1>3 DEF LiveSales
  <2>3. QED
    BY <1>3, <2>1, <2>2, FS_Subset
<1>11. \A s \in S : amounts[s] \in Int
  BY <1>9, <1>10, FiguresOfSales
<1>12. ASSUME NEW s \in S
       PROVE  k[s] \in T
  <2>1. sale[s].closed \in Int /\ from <= sale[s].closed /\ sale[s].closed <= to
    BY <1>3, <1>4, <1>10, FiguresOfSales
  <2>2. Day(from) <= Day(sale[s].closed) /\ Day(sale[s].closed) <= Day(to)
    BY <1>4, <2>1, DaysOrdered
  <2>3. Day(sale[s].closed) \in Int
    BY <2>1, DayBounds
  <2>4. QED
    BY <1>5, <1>6, <1>8, <2>2, <2>3
<1>13. PICK g : g = bookedAmountSeries(LastDays)
  OBVIOUS
<1>14. ASSUME NEW d \in T
       PROVE  g[d] = SumFunctionOnSet(amounts, Group(S, k, d))
  <2>1. PICK D : D = {s \in LiveSales : /\ from <= sale[s].closed /\ sale[s].closed <= to
                                        /\ Day(sale[s].closed) = d}
    OBVIOUS
  <2>2. g[d] = Booked(D)
    BY <1>1, <1>2, <1>13, <2>1 DEF bookedAmountSeries
  <2>3. D = Group(S, k, d)
    BY <1>3, <1>4, <1>8, <2>1 DEF Group
  <2>4. QED
    BY <1>9, <2>2, <2>3 DEF Booked
<1>15. SumFunctionOnSet(g, T) = SumFunctionOnSet(amounts, S)
  BY <1>7, <1>10, <1>11, <1>12, <1>14, SumOfGroups
<1>16. DOMAIN g = T
  BY <1>2, <1>13 DEF bookedAmountSeries
<1>17. SumFunction(g) = Booked(S)
  BY <1>9, <1>15, <1>16 DEF SumFunction, Booked
<1>18. ManagerDashboardPage.series = g
  BY <1>13 DEF ManagerDashboardPage
<1>19. QED
  BY <1>1, <1>3, <1>17, <1>18 DEF SeriesAddUp

-------------------------------------------------------------------------------
(* Theorems.                                                                   *)

LEMMA InitHolds ==
    ASSUME Init
    PROVE  BoardInv
<1>1. GoalsTyped /\ Goals = {}
  BY DEF Init, GoalsTyped, Goals
<1>2. 0 \in 0..Len(goals)
  BY DEF Init
<1>3. drawer \in [Tabs -> Drawer] /\ \A t \in Tabs : drawer[t] = Closed
  BY ClosedIsTyped DEF Init
<1>4. DrawersTyped
  BY <1>2, <1>3, ClosedIsTyped DEF DrawersTyped
<1>5. NoSale \in Sale /\ NoCall \in Call /\ ~ NoSale.live
  BY ScoreboardAssumption DEF NoSale, NoCall, Sale, Call
<1>6. FiguresTyped
  <2>1. now \in Start..Horizon
    BY ScoreboardAssumption DEF Init
  <2>2. sale \in [Sales -> Sale] /\ \A s \in Sales : ~ sale[s].live
    BY <1>5 DEF Init
  <2>3. call \in [Calls -> Call]
    BY <1>5 DEF Init
  <2>4. QED
    BY <2>1, <2>2, <2>3 DEF FiguresTyped
<1>7. CountersTyped
  BY ScoreboardAssumption DEF Init, CountersTyped
<1>8. DrawersOfMonths /\ CreationsAlone
  BY <1>3, ClosedIsTyped DEF DrawersOfMonths, CreationsAlone
<1>9. QuotasOfMonths /\ CreationsFree /\ QuotasDisjoint
  BY <1>1 DEF QuotasOfMonths, CreationsFree, QuotasDisjoint, QuotasOf
<1>10. QED
  BY <1>1, <1>4, <1>6, <1>7, <1>8, <1>9 DEF BoardInv

LEMMA StepKeeps ==
    ASSUME BoardInv, [Next]_vars
    PROVE  BoardInv'
<1>1. ASSUME NEW t \in Tabs, GoalsGridEditor(t)
      PROVE  BoardInv'
  BY <1>1, OpenCellKeeps, CreationsBegin, GoalEditsKeep, DrawerCloses DEF GoalsGridEditor
<1>2. ASSUME NEW t \in Tabs, NEW u \in Members, NEW target \in Targets,
             setFirstQuota(t, u, target)
      PROVE  BoardInv'
  BY <1>2, CreationsBegin
<1>3. CASE goalsRouter
  BY <1>3, CommitCreateGoalKeeps, CreateGoalKeeps, DrawerCloses, PatchGoalKeeps DEF goalsRouter
<1>4. CASE Desk \/ Tick
  BY <1>4, FiguresKeep
<1>5. CASE UNCHANGED vars
  <2>1. /\ GoalsTyped' /\ DrawersTyped' /\ FiguresTyped' /\ CountersTyped' /\ Goals' = Goals
        /\ UNCHANGED <<goals, drawer, contended, patched, dated>>
    BY <1>5 DEF vars, BoardInv, GoalsTyped, DrawersTyped, FiguresTyped, CountersTyped, Goals
  <2>2. \A g \in Goals' : goals'[g].live /\ goals'[g].kind = "quota" =>
            /\ g \in Goals /\ IsQuota(g) /\ goals'[g].user = goals[g].user
            /\ goals'[g].start = goals[g].start /\ goals'[g].end = goals[g].end
    BY <2>1 DEF IsQuota
  <2>3. QED
    BY <2>1, <2>2, QuotasKept
<1>6. QED
  BY <1>1, <1>2, <1>3, <1>4, <1>5 DEF Next

LEMMA Invariance == Spec => []BoardInv
<1>1. Init => BoardInv
  BY InitHolds
<1>2. BoardInv /\ [Next]_vars => BoardInv'
  BY StepKeeps
<1>3. QED
  BY <1>1, <1>2, PTL DEF Spec

\* Every variable keeps its type while quotas, sales and calls are written.
THEOREM TypeCorrect == Spec => []TypeOK
<1>1. ASSUME BoardInv
      PROVE  TypeOK
  <2>1. goals \in Seq([live : BOOLEAN, kind : Kinds, user : Members, target : Targets,
                       start : Nat, end : Nat, created : 1..begun])
    <3> DEFINE G == [live : BOOLEAN, kind : Kinds, user : Members, target : Targets,
                     start : Nat, end : Nat, created : 1..begun]
    <3>1. goals \in Seq(Goal) /\ \A g \in 1..Len(goals) : goals[g].created \in 1..begun
      BY <1>1 DEF BoardInv, GoalsTyped, Goals
    <3>2. ASSUME NEW g \in 1..Len(goals)
          PROVE  goals[g] \in G
      <4>1. goals[g] \in Goal /\ goals[g].created \in 1..begun
        BY <3>1
      <4>2. QED
        BY <4>1 DEF Goal
    <3> HIDE DEF G
    <3>3. goals \in Seq(G)
      BY <3>1, <3>2
    <3>4. QED
      BY <3>3 DEF G
  <2>2. \A s \in Sales : sale[s] \in Sale
    BY <1>1 DEF BoardInv, FiguresTyped
  <2>3. \A s \in Sales : /\ sale[s].live \in BOOLEAN /\ sale[s].amount \in Nat
                         /\ sale[s].shares \in [Members -> 0..(Full + Tolerance)]
    BY <2>2 DEF Sale
  <2>4. /\ now \in Start..Horizon
        /\ call \in [Calls -> [live : BOOLEAN, at : Nat, closer : Members, done : BOOLEAN]]
    BY <1>1 DEF BoardInv, FiguresTyped, Call
  <2>5. \A t \in Tabs : drawer[t] \in Drawer /\ drawer[t].goal \in 0..Len(goals)
    BY <1>1 DEF BoardInv, DrawersTyped
  <2>6. begun \in Nat
    BY <1>1 DEF BoardInv, GoalsTyped
  <2>7. CountersTyped
    BY <1>1 DEF BoardInv
  <2>8. QED
    BY <2>1, <2>3, <2>4, <2>5, <2>6, <2>7 DEF TypeOK, Drawer, CountersTyped
<1>2. BoardInv => TypeOK
  BY <1>1
<1>3. QED
  BY <1>2, Invariance, PTL

\* Two quotas of a member share no day, however the pages of managers interleave, unless two
\* of his were being created at once or one was changed past the goals page.
THEOREM QuotasShareNoDay == Spec => []QuotasDisjoint
<1>1. BoardInv => QuotasDisjoint
  BY DEF BoardInv
<1>2. QED
  BY <1>1, Invariance, PTL

\* The month of a cell shown as empty is free, on every day of every calendar, for members
\* whose goals were given their periods by the goals page and the wizard alone.
THEOREM EmptyMonthsAreFree == Spec => []EmptyCellsCanBeFilled
<1>1. BoardInv => EmptyCellsCanBeFilled
  BY EmptyCells
<1>2. QED
  BY <1>1, Invariance, PTL

\* Closers, managers and the goals page read the same of the same quotas, sales and calls,
\* whatever the calendar, the shares of sales and the edges of the buckets; the closers' figures
\* add up to the team's as closely as the shares of each sale add up to one.
THEOREM FiguresAgree == Spec => []DashboardsAgree
<1>1. BoardInv => DashboardsAgree
  BY BoardsAgree
<1>2. QED
  BY <1>1, Invariance, PTL

\* A sparkline has a bucket for every sale of its window, however many days it looks back.
THEOREM SparklinesAddUp == Spec => []SeriesAddUp
<1>1. BoardInv => SeriesAddUp
  BY SeriesIsWhole
<1>2. QED
  BY <1>1, Invariance, PTL
===============================================================================
