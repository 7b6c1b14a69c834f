SPECIFICATION WarningSpec
CONSTANTS
    home = home
    phone = phone
    e1 = e1
    e2 = e2
    e3 = e3
    Threads = {t1}
    Executions = {e1, e2, e3}
    Alerts = {e1, e2, e3}
    Requests = {e1, e2, e3}
    Households = {home}
    PhoneOf <- MCPhoneOf
    Verdicts <- MCVerdicts
    MaxAborts = 1
    MaxFailures = 1
    NoPhone = NoPhone
    Raised = Raised
    None = None
INVARIANTS
    SecondAlertNeedsAFailure
    AnswersAreKept
    TextPassedBothGates
SYMMETRY MCSymmetry
CHECK_DEADLOCK FALSE
