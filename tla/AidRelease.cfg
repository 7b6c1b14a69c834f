SPECIFICATION Spec
CONSTANTS
    Assessor = assessor
    Officers = {assessor, ds, d1, d2}
    DistrictOfficers = {d1, d2}
    Requests = {r1, r2}
    MaxTransfers <- Transfers
    MaxGrievances <- Complaints
SYMMETRY Symmetric
INVARIANTS
    IndependentJudgements
    NoOneApprovesTwice
    DisputeHoldsMoney
    ReturnHasOneCase
PROPERTY
    KeepsPromise
