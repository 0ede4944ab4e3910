SPECIFICATION SafeSpec
CONSTANTS
  Accounts = {"ana", "root"}
  Dev = "dev"
  Admins = {"dev", "root"}
  Names = {"lobby"}
  Polls = {"poll1", "poll2"}
  None = None
  MaxClicks = 2
  MaxChanges = 0
  MaxFaults = 0
INVARIANTS
  LoginPageIfEnforced
CHECK_DEADLOCK FALSE
