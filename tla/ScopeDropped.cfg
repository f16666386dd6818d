SPECIFICATION Spec
CONSTANTS
  a = a
  b = b
  c = c
  da = da
  dc = dc
  s1 = s1
  s2 = s2
  Packages = {a, b, c}
  Data = {da, dc}
  Within <- MCWithin
  Depth <- MCDepth
  Statements <- MCStatements
  Exempt = {}
  Threshold = 50
  Trees <- MCTrees
  Changes <- MCChanges
  DropsEmbedded = TRUE
  Failed = Failed
SYMMETRY MCSymmetry
INVARIANTS OutsideIsTheBases
CHECK_DEADLOCK FALSE
