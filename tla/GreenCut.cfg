SPECIFICATION GreenSpec
CONSTANTS
  Workflows = {ci, docs}
  PerPage = 1
  RunPages = 2
  MaxRuns = 3
  MaxEvents = 2
SYMMETRY Symmetric
INVARIANTS NoRedSlipsBy RefusedOnTheAnswer UnforcedIsEarned
CHECK_DEADLOCK FALSE
