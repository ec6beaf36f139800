SPECIFICATION Spec
CONSTANTS
    Connections = {k1, k2, k3}
    Rooms = {r1, r2}
    Sessions = {s1, s2}
    Peers = {p1, p2}
    Capacity = 1
    NoConnection = NoConnection
    NoSession = NoSession
    NoAttachment = NoAttachment
    NoWatch = NoWatch
SYMMETRY Symmetry
INVARIANTS
    RoutesMatch
    BindingsOwned
    EvictedAreGone
PROPERTIES
    NoAttachmentLost
