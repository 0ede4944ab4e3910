SPECIFICATION SafeSpec
CONSTANTS
  Procs = {p1, p2}
  Admin = "admin"
  UserNames = {"admin", "ana", "google:1"}
  GoogleNames = {"google:1"}
  CustomerIds = {"acme"}
  Variants = {"v1"}
  None = None
  MaxRequests = 5
  MaxFaults = 1
PROPERTIES
  BootstrapSurvivesRace
