\* Subshells, errors, exit, traps and redirections, interactive or not.
SPECIFICATION Spec
CONSTANTS
    FirstSaved = 1
    MaxOpen = 5
    Files = {f, g}
    Target = g
    FirstOpen = {0}
    Redirs <- OneFd
    Closed = closed
    Kinds = {"not", "or", "group", "semi", "trivial", "for", "subshell", "background", "pipe", "backquote", "command", "error", "break", "exit", "exec", "trap", "evalstring", "function"}
    MaxStack = 4
    MaxCount = 1
    MaxLevel = 1
    MaxSignals = 1
    Statuses = {0, 1}
    Interactive = {FALSE, TRUE}
INVARIANTS CountersMatchStack ExitTrapServed SubshellStays
PROPERTIES RedirectionsUndone
