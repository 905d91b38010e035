SPECIFICATION Spec
CONSTANTS
    x = x
    y = y
    Runs = {r1, r2}
    Paths = {x, y}
    Foreign = {f, g}
    Absent = Absent
    Torn = Torn
    Never = Never
    None = None
    Requests <- SomeRequests
    MaxRounds = 2
    MaxBackups = 1
SYMMETRY Symmetry
INVARIANTS
    IInv
    StoppedRunsWriteNothing
    OnlySoundResultsOnDisk
    ReplacedIsBackedUp
PROPERTIES
    OnlyLateWritersLose
    PreviewsLeaveNoTrace
    KeepsPromise
CHECK_DEADLOCK FALSE
