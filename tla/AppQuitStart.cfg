SPECIFICATION AppSpec
CONSTANTS
  Controllers = {ui}
  Stoppers = {quit}
  Children = {p1, p2}
  Externals = {}
  Features = {}
  Plans <- MCOnePlan
  None = None
  ToolsMayFail = FALSE
  Quit = quit
  Closes = {f1}
  MenuBarMode = TRUE
VIEW WithoutAnswers
CHECK_DEADLOCK FALSE
INVARIANTS
  QuitStopsNode
