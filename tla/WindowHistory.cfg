SPECIFICATION Spec
CONSTANTS
    Events = {e1, e2}
    Margin = 1
    Season = 2
    FirstDay = 1
    LastDay = 4
    MaxSlip = 1
    Requests <- SomeRequests
    Never = Never
    Torn = Torn
SYMMETRY Symmetry
CONSTRAINT Reported
INVARIANTS
    PicksUpWhereItStopped
    NeverLaterIfReported
CHECK_DEADLOCK FALSE
