CONSTANTS
    Tx = {t1, t2}
    Id = {i1, i2}
    Policy = {1, 2}
SPECIFICATION RecordersSpec
CHECK_DEADLOCK FALSE
INVARIANTS
    NothingManagedLeaves
    ReservationsExact
    RetiredLeavesNothing
    BytesExact
    SampledPastThreshold
    
    EvidenceAccounted
    RequestsAccounted
    PathsAccounted
    SuccessorPublished
    
