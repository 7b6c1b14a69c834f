SPECIFICATION FairSpec
CONSTANTS
    MaxOp = 3
    Kinds = {"assessment", "unlisted", "report"}
    BatchSize = 2
    Requests = {q1, q2}
    MaxFaults = 1
    MaxKills = 1
    None = None
INVARIANTS
    SyncedIsStored
    AppliedWithoutGaps
    NothingBehindCursor
    RepeatedOnlyAfterLoss
PROPERTIES
    DeviceCatchesUp
