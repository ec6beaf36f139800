SPECIFICATION FairSpec
CONSTANTS
    Requests = {mine, other}
    Mine = mine
    Host = host
    Self = self
    NoRequest = NoRequest
    MaxRevision = 7
    MaxEntries = 2
    Faults <- AllFaults
    Budgets <- OneReceiver
CHECK_DEADLOCK FALSE
PROPERTIES
    WaitingEnds
