SPECIFICATION FairSpec
CONSTANTS
    p1 = p1
    p2 = p2
    i1 = i1
    i2 = i2
    Requests = {r1, r2, r3}
    Plans = {p1, p2}
    Incidents = {i1, i2}
    People = {a, b}
    Threaded = {p1}
    PlanIncidents <- MCPlanIncidents
    Targets = {"RESOLVED"}
    Nobody = Nobody
INVARIANTS
    OneApproverIsTold
    ReleasedWasReasoned
PROPERTIES
    RejectionGivesBack
    RejectionIsFinalAtRest
    EveryRequestEnds
CHECK_DEADLOCK FALSE
