SPECIFICATION FairBackupSpec
CONSTANTS
  NodeOperations = {o1, o2}
  None = None
  Kinds <- AllKinds
  MaxTimers = 1
CHECK_DEADLOCK FALSE
INVARIANTS BackupTypeOK ActivityTruthful CancelledLocalTouchesNothing
PROPERTIES CompleteMeansRestored PolledCancelAsks OperationReturns CancelKills
