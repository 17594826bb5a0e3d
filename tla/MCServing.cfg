CONSTANTS
    Req = {r1, r2}
    Arriving = {"P0", "P1", "P2", "P3"}
    hardLimit = 1
    minLimit = 1
    Rate = {0}
SPECIFICATION ServingSpec
CHECK_DEADLOCK FALSE
INVARIANTS
    HardLimitHolds
    LimitHeld
    
    
    ReadingsExact
    NothingCarried
    
    ExemptByCapture
    
    LastAttemptDecides
    
PROPERTY
    Hysteresis
