SPECIFICATION Spec
CONSTANTS
    Names = {"x", "PATH", "OPTIND", "OPTARG", "PWD", "OLDPWD"}
    Values <- SomeValues
    Paths <- SomePaths
    Commands <- AllCommands
    Files <- AllFiles
    Applets = {}
    Builtins <- AllBuiltins
    ArgLists <- AllArgs
    OptString <- AB
    Groups <- AllGroups
    Uses <- AllUses
    Cwds = {"/a", "/c"}
    OptVars = {"x"}
    MaxDepth <- AllDepths
    MaxLocals = 2
    MaxTexts = 4
INVARIANTS TextsAlive LookupsAreFresh GetoptsReportsAll
PROPERTIES CallRestores
CHECK_DEADLOCK FALSE
