SPECIFICATION Spec
CONSTANTS
  Catalog <- MCCatalog
  UnknownGames <- MCUnknown
  RconGames <- MCRcon
  CachedGames <- MCCached
  GamePorts <- MCPorts
  RconPort <- MCRconPort
  Customers = {"acme", "globex"}
  Versions = {"1.21.1", "1.20.6"}
  Baked = {"1.21.1"}
  None = None
  UserSpecs <- MCErrorSpecs
  CustomerEdits = FALSE
  WaitForGC = TRUE
  MaxUid = 1
  MaxEdits = 1
  MaxFaults = 1
PROPERTIES
  SettledServersRun
  ChildrenConverge
  StatusConverges
  UnknownGameErrors
  ImplementsResource
  OrphansCollected
CHECK_DEADLOCK FALSE
