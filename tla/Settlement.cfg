SPECIFICATION Spec
CONSTANTS
    MaxPayment = 2
    Workers = {w1, w2}
    Callbacks = {c}
    Limit = 2
    Window = 4
    MaxFaults = 1
    Nobody = Nobody
INVARIANTS
    LoserHasNothing
PROPERTIES
    ReturnedIsReversed
    ReportIsAnswered
CHECK_DEADLOCK FALSE
