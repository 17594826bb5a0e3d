SPECIFICATION Spec
CHECK_DEADLOCK FALSE
INVARIANTS
    OwnersServed
PROPERTIES
    RegistryProgresses
    ReExplored
    Debounced
