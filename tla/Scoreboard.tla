------------------------------- MODULE Scoreboard -------------------------------
(* Quotas and the figures the dashboards compare them with: domain/src/goals and
   domain/src/analytics behind the goals page, the wizard and the dashboards of closers and
   managers.

   A mutation is a READ COMMITTED transaction, as in SalesDesk.  Instants are numbered, and
   DayLength of them make a day, the first of them midnight.  Amounts are whole, and a share
   is so many parts of Full: of 10000, as shares are kept to four decimals, and 10 of them is
   the tolerance.  SQL's days are taken to be UTC's.  Members are fixed here: WorkspaceSetup has
   them come and go.                                                               *)
EXTENDS Integers, FiniteSets, FiniteSetsExt, Functions, Sequences

CONSTANTS
    Members, Tabs, Sales, Calls,
    Amounts, Targets,
    Full, Tolerance,    \* how far from Full the shares of a sale may add up to
    Splits,             \* what they can be: functions from Members to parts of Full
    DayLength,          \* instants in a day
    MonthStart(_),      \* the first day of the nth month
    CurrentMonths,      \* the months the clock runs through
    AgingEdges,         \* the days 7, 14 and 30 of the aging buckets
    SeriesDays,         \* the days a sparkline looks back
    Start, Horizon,     \* the clock starts and stops here
    Chosen,             \* instants a user gives for a sale
    Appointments,       \* and for a call
    Periods,            \* and first and last days for a goal
    MaxEdits,           \* bound on what users do
    MaxPatches          \* and on what of it goes past the goals page

ASSUME ScoreboardAssumption ==
    /\ Members # {}
    /\ IsFiniteSet(Members) /\ IsFiniteSet(Sales) /\ IsFiniteSet(Calls)
    /\ Amounts \subseteq Nat /\ Targets \subseteq Nat
    /\ Full \in Nat /\ Tolerance \in 0..Full
    /\ Splits \subseteq [Members -> 0..(Full + Tolerance)]
    /\ \A split \in Splits : SumFunction(split) \in (Full - Tolerance)..(Full + Tolerance)
    /\ DayLength \in Nat \ {0}
    /\ AgingEdges \in Seq(Nat)
    /\ \A m, n \in DOMAIN AgingEdges : m <= n => AgingEdges[m] <= AgingEdges[n]
    /\ SeriesDays \in Nat
    /\ Start \in Nat /\ Horizon \in Nat /\ Start <= Horizon
    /\ Chosen \cup Appointments \subseteq Nat /\ Periods \subseteq Nat \X Nat
    /\ MaxEdits \in Nat /\ MaxPatches \in Nat

VARIABLES
    now,
    goals,
    begun,      \* creations begun: created_at is the start of the transaction
    sale, call,
    drawer,     \* what a tab has open: a cell of the grid, or an insert in a transaction
    edits, patches,
    contended,  \* history: members two quotas of whom were being created at once
    patched,    \* history: members a goal of whom was changed past the goals page
    dated       \* history: members a goal of whom was created past it, for any period

vars == <<now, goals, begun, sale, call, drawer, edits, patches, contended, patched, dated>>
figures == <<now, sale, call>>

Goals == 1..Len(goals)
Kinds == {"quota", "target"}

Closed == [op |-> "closed", user |-> CHOOSE u \in Members : TRUE, start |-> 0, end |-> 0,
           kind |-> "quota", goal |-> 0, target |-> 0, created |-> 0]

NoSale == [live |-> FALSE, closed |-> 0, amount |-> 0, shares |-> [u \in Members |-> 0]]
NoCall == [live |-> FALSE, at |-> 0, closer |-> CHOOSE u \in Members : TRUE, done |-> FALSE]

Init ==
    /\ now = Start
    /\ goals = <<>>
    /\ begun = 0
    /\ sale = [s \in Sales |-> NoSale]
    /\ call = [c \in Calls |-> NoCall]
    /\ drawer = [t \in Tabs |-> Closed]
    /\ edits = 0 /\ patches = 0
    /\ contended = {} /\ patched = {} /\ dated = {}

-------------------------------------------------------------------------------
(* Periods.  One ends at the midnight that follows it.                         *)

Day(i) == i \div DayLength
Midnight(d) == d * DayLength

\* The months the goals page looks at, and the one after.
Months == UNION {(m - 1)..(m + 2) : m \in CurrentMonths}

ASSUME CalendarAssumption ==
    /\ CurrentMonths \subseteq Int
    /\ \A m \in Months : MonthStart(m) \in Nat
    /\ \A m, n \in Months : m < n => MonthStart(m) < MonthStart(n)
    /\ \A i \in Start..Horizon : \E m \in CurrentMonths :
           MonthStart(m) <= Day(i) /\ Day(i) < MonthStart(m + 1)

MonthOf(i) == CHOOSE m \in CurrentMonths : MonthStart(m) <= Day(i) /\ Day(i) < MonthStart(m + 1)

periodBoundaryAt(offset) ==
    LET m == MonthOf(now) + offset
    IN  [from |-> Midnight(MonthStart(m)), to |-> Midnight(MonthStart(m + 1))]

currentMonth == periodBoundaryAt(0)

-------------------------------------------------------------------------------
(* Quotas.                                                                     *)

QuotasOf(u) == {g \in Goals : goals[g].live /\ goals[g].kind = "quota" /\ goals[g].user = u}

\* Mutant: the comparisons are swapped.
findSwapped(u, start, end) ==
    {g \in QuotasOf(u) : goals[g].start >= end /\ goals[g].end <= start}

findOverlappingGoals(u, start, end) ==
    {g \in QuotasOf(u) : goals[g].start <= end /\ goals[g].end >= start}

\* The last day of the period asked for is the day after it: the quota of the next month is
\* active too, and the one created last is taken.
ActiveQuotas(u) ==
    {g \in QuotasOf(u) : /\ goals[g].start <= Day(currentMonth.to)
                         /\ goals[g].end >= Day(currentMonth.from)}

getActiveQuota(u) ==
    IF ActiveQuotas(u) = {} THEN 0
    ELSE CHOOSE g \in ActiveQuotas(u) :
             \A h \in ActiveQuotas(u) : goals[h].created <= goals[g].created

TeamQuota ==
    SumFunction([u \in Members |-> SumFunction([g \in ActiveQuotas(u) |-> goals[g].target])])

\* Mutant: the cell of a period holds the quotas that end after it.
CellGoalsPast(u, p) ==
    {g \in QuotasOf(u) : goals[g].start <= Day(p.from) /\ goals[g].end >= Day(p.to)}

\* The quotas a cell of the grid may hold; it shows the first the database returns.
CellGoals(u, p) ==
    {g \in QuotasOf(u) : goals[g].start <= Day(p.from) /\ goals[g].end >= Day(p.from)}

Edit == edits < MaxEdits /\ edits' = edits + 1
Patch == patches < MaxPatches /\ patches' = patches + 1 /\ Edit

OpenCell(t, u, offset) ==
    LET p == periodBoundaryAt(offset)
        cell == CellGoals(u, p)
    IN  /\ drawer[t] = Closed
        /\ Edit
        /\ \E g \in IF cell = {} THEN {0} ELSE cell :
               drawer' = [drawer EXCEPT ![t] =
                   [Closed EXCEPT !.op = "cell", !.user = u, !.goal = g,
                                  !.start = Day(p.from), !.end = Day(p.to) - 1]]
        /\ UNCHANGED <<goals, begun, patches, contended, patched, dated, figures>>

Cancel(t) ==
    /\ drawer[t].op = "cell"
    /\ drawer' = [drawer EXCEPT ![t] = Closed]
    /\ UNCHANGED <<goals, begun, edits, patches, contended, patched, dated, figures>>

\* One statement.  A goal deleted meanwhile is not updated, and the drawer closes as if it were.
updateGoal(t, target) ==
    LET g == drawer[t].goal
    IN  /\ drawer[t].op = "cell" /\ g # 0
        /\ drawer' = [drawer EXCEPT ![t] = Closed]
        /\ goals' = IF goals[g].live THEN [goals EXCEPT ![g].target = target] ELSE goals
        /\ UNCHANGED <<begun, edits, patches, contended, patched, dated, figures>>

\* Mutant: the row is deleted.
hardDeleteGoal(t) ==
    LET g == drawer[t].goal
    IN  /\ drawer[t].op = "cell" /\ g # 0
        /\ drawer' = [drawer EXCEPT ![t] = Closed]
        /\ goals' = SubSeq(goals, 1, g - 1) \o SubSeq(goals, g + 1, Len(goals))
        /\ UNCHANGED <<begun, edits, patches, contended, patched, dated, figures>>

softDeleteGoal(t) ==
    LET g == drawer[t].goal
    IN  /\ drawer[t].op = "cell" /\ g # 0
        /\ drawer' = [drawer EXCEPT ![t] = Closed]
        /\ goals' = [goals EXCEPT ![g].live = FALSE]
        /\ UNCHANGED <<begun, edits, patches, contended, patched, dated, figures>>

Creating(t, u) == drawer[t].op = "create" /\ drawer[t].kind = "quota" /\ drawer[t].user = u

\* The checks of createGoal: they read what is committed, and nothing holds it still.  Only
\* quotas are checked for overlaps.
BeginCreateGoal(t, u, kind, start, end, target) ==
    /\ start <= end
    /\ kind = "quota" => findOverlappingGoals(u, start, end) = {}
    /\ drawer' = [drawer EXCEPT ![t] = [op |-> "create", user |-> u, kind |-> kind,
                                        start |-> start, end |-> end,
                                        goal |-> 0, target |-> target,
                                        created |-> begun + 1]]
    /\ begun' = begun + 1
    /\ contended' = contended \cup {v \in {u} : /\ kind = "quota"
                                               /\ \E w \in Tabs \ {t} : Creating(w, v)}
    /\ UNCHANGED <<goals, patched, figures>>

\* "Save" on a cell that was empty when it was opened.
SaveNew(t, target) ==
    /\ drawer[t].op = "cell" /\ drawer[t].goal = 0
    /\ BeginCreateGoal(t, drawer[t].user, "quota", drawer[t].start, drawer[t].end, target)
    /\ UNCHANGED <<edits, patches, dated>>

\* The second step of the wizard, a quota for the current month of one's own.
setFirstQuota(t, u, target) ==
    /\ drawer[t] = Closed
    /\ Edit
    /\ BeginCreateGoal(t, u, "quota", Day(currentMonth.from), Day(currentMonth.to) - 1, target)
    /\ UNCHANGED <<patches, dated>>

\* The route takes any period, and a target as well, past what the pages send.
CreateGoal(t, u, kind, start, end, target) ==
    /\ drawer[t] = Closed
    /\ Patch
    /\ BeginCreateGoal(t, u, kind, start, end, target)
    /\ dated' = dated \cup {u}

CommitCreateGoal(t) ==
    LET d == drawer[t]
    IN  /\ d.op = "create"
        /\ goals' = Append(goals, [live |-> TRUE, kind |-> d.kind, user |-> d.user,
                                   target |-> d.target, start |-> d.start, end |-> d.end,
                                   created |-> d.created])
        /\ drawer' = [drawer EXCEPT ![t] = Closed]
        /\ UNCHANGED <<begun, edits, patches, contended, patched, dated, figures>>

\* The insert fails, or the drawer shows the error of a check.
Abort(t) ==
    /\ drawer[t].op = "create"
    /\ drawer' = [drawer EXCEPT ![t] = Closed]
    /\ UNCHANGED <<goals, begun, edits, patches, contended, patched, dated, figures>>

\* The route takes another kind and another period as well, and checks neither.
PatchGoal(g, kind, start, end) ==
    /\ goals[g].live
    /\ Patch
    /\ goals' = [goals EXCEPT ![g].kind = kind, ![g].start = start, ![g].end = end]
    /\ patched' = patched \cup {goals[g].user}
    /\ UNCHANGED <<begun, drawer, contended, dated, figures>>

-------------------------------------------------------------------------------
(* What the figures are made of.                                               *)

\* The shares are those of the roles, split evenly and rounded, or were typed in: they add up
\* to one within the tolerance.
CreateSale(s, amount, closed, shares) ==
    /\ ~ sale[s].live
    /\ Edit
    /\ sale' = [sale EXCEPT ![s] = [live |-> TRUE, closed |-> closed, amount |-> amount,
                                    shares |-> shares]]
    /\ UNCHANGED <<now, call, goals, begun, drawer, patches, contended, patched, dated>>

SoftDeleteSale(s) ==
    /\ sale[s].live
    /\ Edit
    /\ sale' = [sale EXCEPT ![s].live = FALSE]
    /\ UNCHANGED <<now, call, goals, begun, drawer, patches, contended, patched, dated>>

CreateCall(c, closer, at) ==
    /\ ~ call[c].live
    /\ Edit
    /\ call' = [call EXCEPT ![c] = [live |-> TRUE, at |-> at, closer |-> closer, done |-> FALSE]]
    /\ UNCHANGED <<now, sale, goals, begun, drawer, patches, contended, patched, dated>>

\* Completed, or given a disposition.
FinishCall(c) ==
    /\ call[c].live /\ ~ call[c].done
    /\ Edit
    /\ call' = [call EXCEPT ![c].done = TRUE]
    /\ UNCHANGED <<now, sale, goals, begun, drawer, patches, contended, patched, dated>>

Tick ==
    /\ now < Horizon
    /\ now' = now + 1
    /\ UNCHANGED <<goals, begun, sale, call, drawer, edits, patches, contended, patched, dated>>

-------------------------------------------------------------------------------
(* The figures.  Each query has its own bounds.                                *)

LiveSales == {s \in Sales : sale[s].live}
Booked(set) == SumFunctionOnSet([s \in Sales |-> sale[s].amount], set)
Credit(u, set) == SumFunctionOnSet([s \in Sales |-> sale[s].amount * sale[s].shares[u]], set)

\* Of a period that is under way: what is closed by now.
ClosedByNow(p) == {s \in LiveSales : p.from <= sale[s].closed /\ sale[s].closed <= now}

\* Mutant: what was closed before the period counts too.
attainmentEver(u, p) == Credit(u, {s \in LiveSales : sale[s].closed <= now})

attainment(u, p) == Credit(u, ClosedByNow(p))

teamAttainment(p) == Booked(ClosedByNow(p))

leaderboard(p) ==
    [u \in Members |->
        Credit(u, {s \in LiveSales : p.from <= sale[s].closed /\ sale[s].closed <= p.to})]

CellAttained(u, p) ==
    Credit(u, {s \in LiveSales : p.from <= sale[s].closed /\ sale[s].closed < p.to})

\* What the drawer shows beside the value: the last three months.
getQuotaContext(u) ==
    [n \in 1..3 |->
        LET p == periodBoundaryAt(n - 4)
        IN  Credit(u, {s \in LiveSales : p.from <= sale[s].closed /\ sale[s].closed < p.to})]

\* Mutant: the last day has no bucket.
emptyBucketsShort(p) == Day(p.from)..(Day(p.to) - 1)

emptyBuckets(p) == Day(p.from)..Day(p.to)

\* What the query returns for a day that has no bucket is dropped.
bookedAmountSeries(p) ==
    [d \in emptyBuckets(p) |->
        Booked({s \in LiveSales : /\ p.from <= sale[s].closed /\ sale[s].closed <= p.to
                                  /\ Day(sale[s].closed) = d})]

LastDays == [from |-> now - Midnight(SeriesDays), to |-> now]

Upcoming(closers) ==
    {c \in Calls : call[c].live /\ call[c].closer \in closers /\ call[c].at >= now}

\* Calls by how far off they are; each bucket has both its ends.
Aging(closers, n) ==
    {c \in Upcoming(closers) :
        /\ n = 1 \/ call[c].at >= now + Midnight(AgingEdges[n - 1])
        /\ n > Len(AgingEdges) \/ call[c].at <= now + Midnight(AgingEdges[n])}

Stale(closers) ==
    {c \in Calls : call[c].live /\ call[c].closer \in closers /\ ~ call[c].done /\ call[c].at <= now}

pipelineHealth(closers) ==
    [total |-> Cardinality(Upcoming(closers)),
     aging |-> [n \in 1..(Len(AgingEdges) + 1) |-> Cardinality(Aging(closers, n))],
     stale |-> Cardinality(Stale(closers))]

ManagerDashboardPage ==
    [quota |-> TeamQuota,
     attained |-> teamAttainment(currentMonth),
     board |-> leaderboard(currentMonth),
     pipeline |-> pipelineHealth(Members),
     series |-> bookedAmountSeries(LastDays)]

CloserDashboardPage(u) ==
    LET g == getActiveQuota(u)
    IN  [quota |-> IF g = 0 THEN 0 ELSE goals[g].target,
         attained |-> attainment(u, currentMonth),
         pipeline |-> pipelineHealth({u})]

-------------------------------------------------------------------------------
GoalsGridEditor(t) ==
    \/ \E u \in Members, offset \in {-1, 0, 1} : OpenCell(t, u, offset)
    \/ \E target \in Targets : SaveNew(t, target) \/ updateGoal(t, target)
    \/ softDeleteGoal(t) \/ Cancel(t)

goalsRouter ==
    \/ \E t \in Tabs : CommitCreateGoal(t) \/ Abort(t)
    \/ \E t \in Tabs, u \in Members, kind \in Kinds, days \in Periods, target \in Targets :
           CreateGoal(t, u, kind, days[1], days[2], target)
    \/ \E g \in Goals, kind \in Kinds, days \in Periods : PatchGoal(g, kind, days[1], days[2])

Desk ==
    \/ \E s \in Sales : \/ SoftDeleteSale(s)
                        \/ \E amount \in Amounts, closed \in {now} \cup Chosen, shares \in Splits :
                               CreateSale(s, amount, closed, shares)
    \/ \E c \in Calls : \/ FinishCall(c)
                        \/ \E u \in Members, at \in Appointments : CreateCall(c, u, at)

Next ==
    \/ \E t \in Tabs : \/ GoalsGridEditor(t)
                       \/ \E u \in Members, target \in Targets : setFirstQuota(t, u, target)
    \/ goalsRouter \/ Desk \/ Tick

Spec == Init /\ [][Next]_vars

-------------------------------------------------------------------------------
(* Properties.                                                                 *)

TypeOK ==
    /\ now \in Start..Horizon
    /\ goals \in Seq([live : BOOLEAN, kind : Kinds, user : Members, target : Targets,
                      start : Nat, end : Nat, created : 1..begun])
    /\ \A s \in Sales : /\ sale[s].live \in BOOLEAN /\ sale[s].amount \in Nat
                        /\ sale[s].shares \in [Members -> 0..(Full + Tolerance)]
    /\ call \in [Calls -> [live : BOOLEAN, at : Nat, closer : Members, done : BOOLEAN]]
    /\ \A t \in Tabs : /\ drawer[t].op \in {"closed", "cell", "create"}
                       /\ drawer[t].user \in Members /\ drawer[t].kind \in Kinds
                       /\ drawer[t].goal \in 0..Len(goals)
    /\ begun \in Nat /\ edits \in 0..MaxEdits /\ patches \in 0..MaxPatches
    /\ contended \subseteq Members /\ patched \subseteq Members /\ dated \subseteq Members

\* "Reject ambiguous quota lookups at write time": two quotas of a member never share a day,
\* unless they were created at the same time or changed past the goals page.
QuotasDisjoint ==
    \A u \in Members \ (contended \cup patched) : \A g, h \in QuotasOf(u) :
        g # h => goals[g].end < goals[h].start \/ goals[h].end < goals[g].start

\* A cell that says "+ Quota" takes one: the check for overlaps and the grid, which look
\* quotas up in different ways, agree on which months are free, whatever the date, unless a
\* goal of the member was given its period past the goals page and the wizard.
EmptyCellsCanBeFilled ==
    \A u \in Members \ (patched \cup dated), offset \in {-1, 0, 1} :
        LET p == periodBoundaryAt(offset)
        IN  CellGoals(u, p) = {} => findOverlappingGoals(u, Day(p.from), Day(p.to) - 1) = {}

\* No quota of the next month competes for the current one, nor any that was raced or given
\* its period past the goals page.
Unambiguous(u) ==
    /\ u \notin contended \cup patched \cup dated
    /\ \A g \in QuotasOf(u) : goals[g].start # Day(currentMonth.to)

\* The quota a closer reads is the one his cell shows, and the manager's is the sum of them.
QuotasAgree(closer, team) ==
    /\ \A u \in Members : Unambiguous(u) =>
           LET cell == CellGoals(u, currentMonth)
           IN  /\ cell = {} => closer[u].quota = 0
               /\ \A g \in cell : closer[u].quota = goals[g].target
    /\ (\A u \in Members : Unambiguous(u)) =>
           team.quota = SumFunction([u \in Members |-> closer[u].quota])

\* For sales that are closed by now, a closer reads of himself what the manager's board and
\* the goals page say of him, and the drawer says of the last month what its cell does:
\* queries with their own ways to bound a month.  The closers' figures add up to the team's
\* within the tolerance of the shares.
SalesAgree(closer, team) ==
    LET total == SumFunction([u \in Members |-> closer[u].attained])
    IN  (\A s \in LiveSales : sale[s].closed <= now) =>
            /\ \A u \in Members :
                   /\ closer[u].attained = team.board[u]
                   /\ closer[u].attained = CellAttained(u, currentMonth)
                   /\ getQuotaContext(u)[3] = CellAttained(u, periodBoundaryAt(-1))
            /\ (Full - Tolerance) * team.attained <= total
            /\ total <= (Full + Tolerance) * team.attained

\* The closers' stale calls and buckets of upcoming ones add up to the team's, and buckets to
\* their total but on the edge of one.
CallsAgree(closer, team) ==
    LET onEdge == \E c \in Calls, n \in 1..Len(AgingEdges) :
                      call[c].live /\ call[c].at = now + Midnight(AgingEdges[n])
    IN  /\ team.stale = SumFunction([u \in Members |-> closer[u].pipeline.stale])
        /\ \A n \in DOMAIN team.aging :
               team.aging[n] = SumFunction([u \in Members |-> closer[u].pipeline.aging[n]])
        /\ onEdge \/ SumFunction(team.aging) = team.total

\* The dashboards of closers and managers and the goals page show the same.
DashboardsAgree ==
    LET closer == [u \in Members |-> CloserDashboardPage(u)]
        team   == ManagerDashboardPage
    IN  /\ QuotasAgree(closer, team) /\ SalesAgree(closer, team)
        /\ CallsAgree(closer, team.pipeline)

\* "Every series function returns a stable array": a sparkline has a bucket for every sale of
\* its window, those of the first and of the last day included.
SeriesAddUp ==
    LET series == ManagerDashboardPage.series
    IN  SumFunction(series)
            = Booked({s \in LiveSales : LastDays.from <= sale[s].closed /\ sale[s].closed <= now})
===============================================================================
