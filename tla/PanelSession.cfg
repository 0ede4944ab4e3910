SPECIFICATION Spec
CONSTANTS
  Accounts = {"ana", "root"}
  Dev = "dev"
  Admins = {"dev", "root"}
  Names = {"lobby"}
  Polls = {"poll1", "poll2"}
  None = None
  MaxClicks = 2
  MaxChanges = 1
  MaxFaults = 1
INVARIANTS
  SessionAgrees
  FreshPageIsWalled
PROPERTIES
  SplashEnds
  ListConverges
CHECK_DEADLOCK FALSE
