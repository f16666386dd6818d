SPECIFICATION Spec
CONSTANTS
  a = a
  b = b
  c = c
  da = da
  dc = dc
  s1 = s1
  s2 = s2
  Packages = {a, b, c}
  Data = {da, dc}
  Within <- MCWithin
  Depth <- MCDepth
  Statements <- MCStatements
  Exempt = {}
  Threshold = 50
  Trees <- MCTrees
  Changes <- MCChanges
  DropsEmbedded = FALSE
  Failed = Failed
SYMMETRY MCSymmetry
INVARIANTS OutsideIsTheBases Agreement
CHECK_DEADLOCK FALSE
