SPECIFICATION Spec
CONSTANTS
    Sessions = {o, a, b}
    Peers = {p1, p2}
    RequestIds = {q1, q2}
    MaxRevision = 8
    MaxTime = 3
    NoSession = NoSession
    NoPeer = NoPeer
    NoRoom = NoRoom
SYMMETRY Symmetry
CHECK_DEADLOCK FALSE
INVARIANTS
    TypeOK
    AlwaysRestorable
    OneWayIn
PROPERTIES
    AdmittedByApproval
    DecisionsAreFinal
    ExpiredIsFinal
    RevisionNamesState
