SPECIFICATION FairSpec
CONSTANTS
    RetryDelays = 1
    SignalLimit = 2
    Gathered = 1
    MaxNegotiations = 6
    Faults <- AllFaults
    Scenarios <- OneFault
CHECK_DEADLOCK FALSE
INVARIANTS
    OnlyOwnNegotiation
    CandidatesArrive
    ReadyIsOpen
    NotStranded
PROPERTIES
    Settles
    Agree
