SPECIFICATION FairSpec
CONSTANTS
  Runs = {r1, r2, r3}
  Entries = {leak, cache, tree}
  Allowed = {cache}
  Pinned = {tree}
  OrphansOutlive = FALSE
INVARIANTS MutualExclusion ReportsOnlyOwn
PROPERTIES LeaksStayVisible AsIfPrivate EveryRunEnds
