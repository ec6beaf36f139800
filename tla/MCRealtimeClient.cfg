SPECIFICATION Spec
CONSTANTS
    Requests = {mine, other}
    Mine = mine
    Host = host
    Self = self
    NoRequest = NoRequest
    MaxRevision = 7
    MaxEntries = 2
    Faults <- AllFaults
    Budgets <- OneFault
CHECK_DEADLOCK FALSE
INVARIANTS
    RetryUnderWay
    
PROPERTIES
    NeverGoesBack
    SupersededIsFinal
