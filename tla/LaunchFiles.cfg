\* Two launches, both streams, one failure.  A finished work unit stops.
SPECIFICATION FairSpec
CONSTANTS
    Default = default
    Named = named
    Option = option
    Arguments <- CommandLines
    DcApi = TRUE
    MaxLines = 1
    MaxLaunches = 2
    MaxFailures = 1
    None = none
INVARIANTS  RunsWholeScript 
 
CHECK_DEADLOCK FALSE
