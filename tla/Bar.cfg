SPECIFICATION Spec
CONSTANTS
  Order <- MCOrder
  Modules = {sub}
  Root = root
  Waivable = {"suite", "test", "race"}
  MaxWaivers = 2
  MaxDefects = 2
  None = None
INVARIANTS PassIsEarned LeaksReported FailureIsOwed EveryModuleJudged
CHECK_DEADLOCK FALSE
