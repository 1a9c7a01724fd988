CONSTANTS
    f = f
    p1 = p1
    t1 = t1
    t2 = t2
    Persons = {f, p1}
    Founder = f
    Tabs = {t1, t2}
    Presets = {"solo", "setter_closer"}
    FirstPreset = "solo"
    RolesOf <- MCRoles
    StagesOf <- MCStages
    MaxEdits = 3
    MaxSwitches = 2
    MaxFailures = 1
SPECIFICATION Spec
SYMMETRY Symmetric
CHECK_DEADLOCK FALSE
INVARIANTS TypeOK HeldByMembers RolesOfOnePreset RowIsLatestVersion
