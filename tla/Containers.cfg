SPECIFICATION FairSpec
CONSTANTS
  here = here
  there = there
  p1 = p1
  p2 = p2
  p3 = p3
  g = g
  s = s
  Hosts = {here, there}
  Procs = {p1, p2, p3}
  Pids = {1}
  Gates = {g}
  Sweepers = {s}
  HostOf <- MCHostOf
  GateOf <- MCGateOf
  Ctrs = {c1}
  Nets = {n1}
  MaxFaults = 1
  NoRun = NoRun
  Nobody = Nobody
INVARIANTS BlamesOnlyOwn PassLeavesNothing
PROPERTIES LiveOwnerKept OrphansGo
CHECK_DEADLOCK FALSE
