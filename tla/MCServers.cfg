SPECIFICATION ServersSpec
CONSTANTS
  WebPort = 1
  SidePort = 2
  ProxyPort = 3
  TracerRegistered = FALSE
  Configs <- MCConfigs
  Flags <- MCFlags
  MaxBuilds = 2
  MaxFaults = 1
  MaxSlots = 6
INVARIANTS ReturnSound WebserverAsConfigured
PROPERTIES StopsEverything
CHECK_DEADLOCK FALSE
