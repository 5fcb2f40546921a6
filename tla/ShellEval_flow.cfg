\* Loops, functions, eval strings and dot files inside each other, under set -e.
SPECIFICATION Spec
CONSTANTS
    FirstSaved = 1
    MaxOpen = 4
    Files = {f, g}
    Target = g
    FirstOpen = {0}
    Redirs <- NoRedirection
    Closed = closed
    Kinds = {"and", "semi", "if", "case", "while", "for", "command", "break", "return", "set", "evalstring", "dotcmd", "function"}
    MaxStack = 6
    MaxCount = 2
    MaxLevel = 0
    MaxSignals = 0
    Statuses = {0, 1}
    Interactive = {FALSE}
INVARIANTS SkipHasTarget NothingWhileSkipping ErrexitStops
