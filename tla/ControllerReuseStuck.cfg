SPECIFICATION Spec
CONSTANTS
  Catalog <- MCCatalog
  UnknownGames <- MCUnknown
  RconGames <- MCRcon
  CachedGames <- MCCached
  GamePorts <- MCPorts
  RconPort <- MCRconPort
  Customers = {"acme", "globex"}
  Versions = {"1.21.1", "1.20.6"}
  Baked = {"1.21.1"}
  None = None
  UserSpecs <- MCLiveSpecs
  CustomerEdits = FALSE
  WaitForGC = FALSE
  MaxUid = 2
  MaxEdits = 0
  MaxFaults = 0
PROPERTIES
  SettledServersRun
CHECK_DEADLOCK FALSE
