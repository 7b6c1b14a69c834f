SPECIFICATION Spec
CONSTANTS
    app = app
    mesh = mesh
    odd = odd
    flood = flood
    Incidents = {i1, i2, i3}
    Requests = {q1, q2}
    Keys = {app, mesh, odd}
    Batches <- MCBatches
    Areas = {flood}
    AreaOf <- MCAreaOf
    Near <- MCNear
    Observed <- MCObserved
    Unlisted = {odd}
    Window = 1
    Limit = 1
    Horizon = 1
    Handled = {app}
    Targets = {"RESOLVED"}
    Nowhere = Nowhere
    Absent = Absent
    None = None
INVARIANTS
    SecondHasAReason
PROPERTIES
    ResolvedIsFinal
SYMMETRY MCSymmetry
CHECK_DEADLOCK FALSE
