SPECIFICATION FairSpec
CONSTANTS
    Events = {e1, e2}
    Publishers = {p1, p2}
    MaxAttempts = 2
    BatchSize = 2
    MaxFaults = 2
INVARIANTS
    DuplicatesComeFromFaults
PROPERTY
    CommittedIsPublishedOrStuck
