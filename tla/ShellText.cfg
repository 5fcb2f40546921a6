SPECIFICATION Spec
CHECK_DEADLOCK FALSE
CONSTANT
 Width = 8
 CharCode <- Characters
 ClassOf <- Class
 CommandOutput <- Output
 WordTexts <- Texts
 Contents <- SomeContents
 Strings <- SomeStrings
 BufSize = 3
 MaxFiles = 2
 MaxPushed = 2
 MaxEnds = 2
 Trees <- SomeTrees
 WordJobs <- SomeWords
 Expressions <- SomeExpressions
 Shell <- SomeShell
 ShellOf <- SomeShellOf
 ForkJobs <- SomeForks
 VTABSIZE = 3
 CMDTABLESIZE = 3
 Chain <- ChainOf
 DefaultPath <- RootPath
INVARIANT
 InputDelivered
 ParsesBack
 
 ComputesAsC
 CopiesAreWhole
