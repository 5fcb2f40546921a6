\* Signals with and without a trap, and a fork or a pipe that fails.
SPECIFICATION FairSpec
CONSTANTS
    Pids = {p1, p2}
    WaitStatuses = {9}
    MaxPipe = 2
    MaxJobs = 2
    MaxSlots = 4
    MaxLevel = 1
    MaxDrift = 1
    TrappedSignals = {15}
    CanInterrupt = TRUE
    Interactive = {FALSE}
    Failures = {"fork", "pipe"}
    CommandCatches = TRUE
    Alive = alive
    None = none
PROPERTIES WaitReturns TrapServed
