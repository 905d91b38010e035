SPECIFICATION SwapSpec
CONSTANTS
    Procs = {p1, p2}
    None = None
    MaxCopies = 2
INVARIANTS
    InstalledIsWhole
CHECK_DEADLOCK FALSE
