\* The launcher ends, and so does the script: a state without successor is the end.
SPECIFICATION FairSpec
CONSTANTS
    Leader = leader
    None = none
    ErrFork <- MCErrFork
    ErrExec <- MCErrExec
    PercentArgs <- NoArgs
    FractionArgs <- NoArgs
    UninitSuspended = {TRUE, FALSE}
    KillRequests = {"quit_request", "abort_request"}
    CanCrash = TRUE
    Background = {bg}
    ExitCodes = {0, 3}
    FinalRepeats = 5
    MaxWall = 0
    MaxRuns = 2
INVARIANTS SuspendedMeansStopped NobodyLeftStopped ExitLeavesNobody
PROPERTIES FinalReportArrives ImplementsWorkUnit RequestsObeyed
CHECK_DEADLOCK FALSE
