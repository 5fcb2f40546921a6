\* The launcher ends, and so does the script: a state without successor is the end.
SPECIFICATION Spec
CONSTANTS
    Leader = leader
    None = none
    ErrFork <- MCErrFork
    ErrExec <- MCErrExec
    PercentArgs <- MCPercents
    FractionArgs <- MCFractions
    UninitSuspended = {FALSE}
    KillRequests = {"quit_request"}
    CanCrash = TRUE
    Background = {}
    ExitCodes = {0}
    FinalRepeats = 1
    MaxWall = 1
    MaxRuns = 2
INVARIANT FractionEarned
PROPERTY ProgressNeverDrops
CHECK_DEADLOCK FALSE
