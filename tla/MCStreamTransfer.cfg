SPECIFICATION FairSpec
CONSTANTS
    Sizes <- FewSizes
    SegmentChunks = 2
    OfferKinds = {TRUE, FALSE}
    Budgets <- AnyFaults
INVARIANTS
    NothingOutOfPlace
    AckedIsDurable
    RecordIsDurable
    CompletedIsWhole
    
    
PROPERTY NoSilentHang
CHECK_DEADLOCK FALSE
