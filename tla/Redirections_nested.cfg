\* Two descriptors of which one is open, lists of up to two redirections.
SPECIFICATION Spec
CONSTANTS
    FirstSaved = 2
    MaxOpen = 7
    Files = {f, g}
    Target = g
    FirstOpen = {1}
    Redirs <- UpToTwo
    MaxNest = 2
    Closed = closed
INVARIANT SavedOnce
PROPERTIES Restores
