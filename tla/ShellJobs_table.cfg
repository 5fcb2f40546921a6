\* No signals: every pid is used again and again.
SPECIFICATION Spec
CONSTANTS
    Pids = {p1, p2, p3}
    WaitStatuses = {256, 9}
    MaxPipe = 2
    MaxJobs = 2
    MaxSlots = 4
    MaxLevel = 1
    MaxDrift = 0
    TrappedSignals = {}
    CanInterrupt = FALSE
    Interactive = {FALSE}
    Failures = {"pipe"}
    CommandCatches = FALSE
    Alive = alive
    None = none
SYMMETRY PidSymmetry
 
PROPERTIES   WaitAllMeansAll
