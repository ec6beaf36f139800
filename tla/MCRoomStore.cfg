SPECIFICATION Spec
CONSTANTS
    Codes = {c1, c2}
    Sessions = {s1, s2}
    Peers = {p1}
    RequestIds = {q1, q2}
    NoCode = NoCode
    NoRoom = NoRoom
    NoSession = NoSession
    NoPeer = NoPeer
    MaxRevision = 6
    RevisionBudget = 4
    MaxTime = 4
    MaxClock = 2
    MaxCreate = 0
    MaxLag = 1
    RoomTtl = 2
    JoinTtl = 1
    Batch = 1
    Watched = c1
    FreshIds = TRUE
SYMMETRY Symmetry
INVARIANTS
    StoredRoomsLoad
PROPERTIES
    ImplementsRoom
