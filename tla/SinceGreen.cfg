CONSTANTS
    Files <- MCFiles
    Compiled <- MCCompiled
    Trees <- MCTrees
    Begins <- MCBegins
    FrontendDirs <- MCFrontendDirs
    SuiteDirs <- MCSuiteDirs
    Until <- MCUntil
    LastDay = 2
    MaxStarts = 3
    MaxReds = 1
SPECIFICATION Spec
INVARIANTS GreenIsHeld LeftOutIsUnmoved
CHECK_DEADLOCK FALSE
