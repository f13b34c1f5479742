SPECIFICATION FairWatchdogSpec
CONSTANTS
  MaxHeight = 5
  Null = Null
  SyncGap = 1
  ChainGap = 2
  VerifyGap = 1
  Slack = 1
  MinStall = 2
  MinNoPeers = 2
  Cooldown = 5
  Restores = TRUE
  ConfigFails = TRUE
INVARIANTS WatchdogTypeOK AdvancingLeftAlone PeersLeftAlone DisableAlone DoneMeansOff
PROPERTIES StallRestartsSpaced RecoveryTurnedOff
