SPECIFICATION FairWatchdogSpec
CONSTANTS
  MaxHeight = 3
  Null = Null
  SyncGap = 1
  ChainGap = 2
  VerifyGap = 1
  Slack = 1
  MinStall = 2
  MinNoPeers = 2
  Cooldown = 1
  Restores = TRUE
  ConfigFails = FALSE
PROPERTY VerifyTurnedOff
