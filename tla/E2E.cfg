SPECIFICATION FairSpec
CONSTANTS
  store = store
  walk = walk
  kind = kind
  bun = bun
  Nobody = Nobody
  Runs = {r1, r2}
  Pids = {1, 2}
  Suites <- MCSuites
  TestSuites = {store}
  AllowSkip = {walk}
  EventsOf <- MCEventsOf
  ServicesOf <- MCServicesOf
  ToolsOf <- MCToolsOf
  RunnerTools = {bun}
  Requests <- MCRequests
  MaxFaults = 1
INVARIANTS ServicesHold CacheIsVerified PassIsWhole EndedLeavesNothing
PROPERTIES PassProves InterruptStops
CHECK_DEADLOCK FALSE
