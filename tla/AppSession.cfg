SPECIFICATION Spec
CONSTANTS
    Users = {"leaves", "chooses", "updates"}
    MaxRuns = 2
    MaxWakes = 2
    good = good
    bad = bad
    game = game
    Nothing = Nothing
    Saves = {good, bad}
    Games = {game}
    Readable = {good}
    Installed = {game}
    Fitting <- MCFitting
    Remembered <- MCRemembered
    Found <- MCFound
    MaxChoices = 2
    Current <- MCCurrent
    Planned <- MCPlanned
    Sizes = {0, 2, 4}
    MaxSize = 3
    Damaged = Damaged
INVARIANTS
    InStep
    CommitOutlivesNoWindow
    ChecksAreCurrent
    InstallsWhatWasReleased
CHECK_DEADLOCK FALSE
PROPERTIES
    ClosesByItself
    RunsAreReported
    ChecksEnd
