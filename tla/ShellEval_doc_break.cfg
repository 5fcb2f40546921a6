\* A trap comes while a break is on its way.
SPECIFICATION Spec
CONSTANTS
    FirstSaved = 1
    MaxOpen = 4
    Files = {f, g}
    Target = g
    FirstOpen = {0}
    Redirs <- NoRedirection
    Closed = closed
    Kinds = {"for", "command", "break", "semi"}
    MaxStack = 4
    MaxCount = 1
    MaxLevel = 0
    MaxSignals = 1
    Statuses = {0, 1}
    Interactive = {FALSE}
PROPERTIES BreakReachesLoop
