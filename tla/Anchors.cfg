SPECIFICATION AnchorsSpec
CONSTANTS
    Releases = {r1, r2}
    Replicas = {w1, w2}
    Days = 4
    MaxFaults = 1
INVARIANTS
    OnlyLateEntriesAreMissing
PROPERTIES
    AnchorsImplementLog
    EveryDayIsAnchored
CHECK_DEADLOCK FALSE
