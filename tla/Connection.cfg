SPECIFICATION FairSpec
CONSTANTS
  PingTimeout = 1
  SessionTimeout = 6
  ConnectLimit = 2
  Delay = 1
  MaxLoss = 1
  MaxPing = 2
  AppSends = "reliable"
  AppDisconnects = TRUE
  MayStop = TRUE
  MayRestart = TRUE
  KeepsDispatching = FALSE
PROPERTIES
  StaysConnected
  GoneClientIsForgotten
  LostSessionIsNoticed
  EndedConnectionIsForgotten
