SPECIFICATION SafeSpec
CONSTANTS
  Catalog <- MCCatalog
  UnknownGames <- MCUnknown
  RconGames <- MCRcon
  CachedGames <- MCCached
  GamePorts <- MCPorts
  RconPort <- MCRconPort
  Customers = {"acme", "globex"}
  Versions = {"1.21.1", "1.20.6"}
  Baked = {"1.21.1"}
  None = None
  UserSpecs <- MCSpecs
  CustomerEdits = FALSE
  WaitForGC = TRUE
  MaxUid = 2
  MaxEdits = 1
  MaxFaults = 1
INVARIANTS
  FinalizerGuard
  ChildrenBelong
  SecretBeforeStatefulSet
  StatusBacked
  LabelsMirrorCustomer
  HandledIsBuilt
  UnknownNeverServed
PROPERTIES
  SecretStable
  ResourceSafety
CHECK_DEADLOCK FALSE
