SPECIFICATION FairSpec
CONSTANTS
  Controllers = {ui}
  Stoppers = {tray}
  Children = {p1, p2}
  Externals = {x1}
  Features = {grpc}
  Plans <- MCPlans
  None = None
  ToolsMayFail = TRUE
INVARIANTS
  TypeOK
  NoOrphan
  KillFollowsTerm
PROPERTIES
  StopMeansNoNode
  StartedAsConfigured
  ImplementsManagedNode
  RequestsReturn
