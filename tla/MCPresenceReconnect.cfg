SPECIFICATION Spec
CONSTANTS
    Connections = {k1, k2}
    Rooms = {r}
    Sessions = {o}
    Peers = {p1}
    Capacity = 1
    NoConnection = NoConnection
    NoSession = NoSession
    NoAttachment = NoAttachment
    NoWatch = NoWatch
    NoPeer = NoPeer
    TheRoom = r
    Owner = o
    Leavers = {}
    Maintenance = Maintenance
    DatabaseFails = FALSE
    AnyClient = FALSE
SYMMETRY Symmetry
CHECK_DEADLOCK FALSE
INVARIANTS
    ConnectedIsOnline
