SPECIFICATION ApiSpec
CONSTANTS
    Codes = {c1, c2}
    Sessions = {s1, s2}
    Peers = {p1}
    RequestIds = {q1}
    Calls = {k1, k2}
    NoCode = NoCode
    NoRoom = NoRoom
    NoSession = NoSession
    NoPeer = NoPeer
    NoId = NoId
    MaxRevision = 8
    RevisionBudget = 8
    MaxTime = 5
    MaxClock = 3
    MaxCreate = 3
    MaxLag = 1
    RoomTtl = 2
    JoinTtl = 1
    SessionTtl = 3
    InviteTtl = 1
    CodeAttempts = 2
    MaxRequests = 2
    WindowLength = 2
    MaxTrackedKeys = 2
    Scenarios <- Mixes
    Addresses = {a1, a2, a3}
    Batch = 1
    Watched = c1
    FreshIds = TRUE
SYMMETRY Symmetry
CHECK_DEADLOCK FALSE
INVARIANTS
    OneRoomPerRequest
    InvitesHold
    JoinAnswersHold
    WithinRate
