SPECIFICATION SwapSpec
CONSTANTS
    Procs = {p1, p2, p3}
    None = None
    MaxCopies = 3
SYMMETRY Symmetry
INVARIANTS
    RecoverableExe
    SwapAlone
PROPERTIES
    RollbackRestores
CHECK_DEADLOCK FALSE
