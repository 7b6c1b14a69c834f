SPECIFICATION FairSpec
CONSTANTS
    w1 = w1
    w2 = w2
    v = v
    notices = notices
    projection = projection
    Anyone = Anyone
    Events = {e1}
    Groups = {notices, projection}
    Safe = {projection}
    Workers = {w1, w2, v}
    GroupOf <- MCGroupOf
    BatchSize = 2
    MaxStream = 2
    MaxFaults = 1
INVARIANTS
    AckedIsHandled
    WrittenOnce
    SentOncePerFault
PROPERTY
    HeldIsAcknowledged
CHECK_DEADLOCK FALSE
