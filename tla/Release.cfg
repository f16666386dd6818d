SPECIFICATION Spec
CONSTANTS
  Checkouts = {a, b}
  Clones = {x, y}
  Versions = {1, 2}
  MaxCommits = 4
  MaxFaults = 1
  Elsewhere = Elsewhere
SYMMETRY Symmetric
INVARIANTS TagsMatchBranch UndoneIsClean
PROPERTIES ShipsWhatWasBarred AsALine
CHECK_DEADLOCK FALSE
