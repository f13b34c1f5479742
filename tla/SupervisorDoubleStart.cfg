SPECIFICATION Spec
CONSTANTS
  Controllers = {ui, watchdog}
  Stoppers = {}
  Children = {p1, p2, p3}
  Externals = {}
  Features = {grpc}
  Plans <- MCOnePlan
  None = None
  ToolsMayFail = FALSE
SYMMETRY Symmetry
INVARIANTS
  NoSecondNode
