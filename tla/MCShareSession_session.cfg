SPECIFICATION Spec
CONSTANTS
    Clients = {q1}
    Child = child
    NoHeaders = none
    Seed = seed
    Kinds <- AllKinds
    MaxAttempts = 2
INVARIANTS
    Inv
    CaptureStaysLocal
    ForwardedIsConfigured
PROPERTIES
    ImplementsLifecycle
    GoroutinesEnd
CHECK_DEADLOCK FALSE
