SPECIFICATION AlertingSpec
CONSTANTS
    h1 = h1
    h2 = h2
    h3 = h3
    phone = phone
    Alerts = {a1}
    Requests = {q1, q2}
    Households = {h1, h2, h3}
    PhoneOf <- MCPhoneOf
    Verdicts <- MCVerdicts
    MaxAborts = 1
    NoPhone = NoPhone
    Raised = Raised
    None = None
INVARIANTS
    RepeatsWereRolledBack
    ClosedIsProved
    FiguresAgree
PROPERTY EveryDispatchEnds
CHECK_DEADLOCK FALSE
