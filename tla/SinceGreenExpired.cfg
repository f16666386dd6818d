CONSTANTS
    Files <- MCFiles
    Compiled <- MCCompiled
    Trees <- MCTrees
    Begins <- MCBegins
    FrontendDirs <- MCFrontendDirs
    SuiteDirs <- MCSuiteDirs
    Until <- MCUntil
    LastDay = 2
    MaxStarts = 3
    MaxReds = 1
SPECIFICATION Spec
INVARIANT ExpiredIsRun
CHECK_DEADLOCK FALSE
