CONSTANTS
    Programs <- MCPrograms
    Repositories <- MCRepositories
    SpecTrees <- MCSpecTrees
    Wirings <- MCWirings
    Settings <- MCSettings
SPECIFICATION GatesSpec
INVARIANTS JSONVerdictsAreRight PostgresRoleIsHeld CyclesAreNamed CitationsHold WiringSettles RestatedIsExact
CHECK_DEADLOCK FALSE
