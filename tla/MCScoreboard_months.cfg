CONSTANTS
    u1 = u1
    u2 = u2
    t1 = t1
    t2 = t2
    s1 = s1
    s2 = s2
    Members = {u1, u2}
    Tabs = {t1, t2}
    Sales = {s1, s2}
    Calls = {"c1"}
    Amounts = {3}
    Targets = {4}
    Full = 4
    Tolerance = 1
    Splits <- MCSplits
    DayLength = 2
    MonthStart <- MCMonthStart
    CurrentMonths = {1, 2}
    AgingEdges <- MCEdges
    SeriesDays = 1
    Start = 6
    Horizon = 9
    Chosen = {4, 8}
    Appointments = {6, 9}
    Periods <- MCPeriods
    MaxEdits = 3
    MaxPatches = 1
SPECIFICATION Spec
SYMMETRY Symmetric
CHECK_DEADLOCK FALSE
INVARIANTS TypeOK QuotasDisjoint EmptyCellsCanBeFilled DashboardsAgree SeriesAddUp
