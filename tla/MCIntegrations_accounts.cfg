CONSTANTS
    k1 = k1
    k2 = k2
    r1 = r1
    r2 = r2
    NoAccount = NoAccount
    Accounts = {a1}
    Users = {u1, u2}
    Refreshers = {w1, w2}
    Learners = {l1, l2}
    Customers = {k1, k2}
    Recordings = {r1, r2}
    Transcript <- TwoTranscripts
    Invitees <- TwoInvitations
    MaxChunk = 5
    MinChunk = 2
    MaxRetries = 2
    MaxRequests = 4
    MaxFailures = 1
SPECIFICATION Spec
INVARIANTS
    TypeOK
    AsksWithStoredToken
    LearntOnce
CHECK_DEADLOCK FALSE
CONSTRAINT OneSideAtATime
SYMMETRY Symmetric
