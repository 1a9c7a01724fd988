CONSTANTS
    s1 = s1
    s2 = s2
    c1 = c1
    c2 = c2
    u1 = u1
    u2 = u2
    Sales = {s1, s2}
    Calls = {c1, c2}
    Users = {u1, u2}
    Candidates <- MCCandidates
    PresetStages = {"booked", "showed", "pitched", "closed", "refunded"}
    MaxEdits = 6
    NoSale = NoSale
    NoCall = NoCall
SPECIFICATION Spec
SYMMETRY Symmetric
CHECK_DEADLOCK FALSE
INVARIANTS TypeOK PairsAgree OutcomesEmitted
PROPERTIES LinksMadeAlive
