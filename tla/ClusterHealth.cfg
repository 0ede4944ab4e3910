\* One server, one node, two polls in flight.
SPECIFICATION Spec
CONSTANTS
  Names = {lobby}
  Nodes = {node}
  Polls = {p1, p2}
  Threshold = 2
  MaxFaults = 1
  None = None
INVARIANTS
  NoFalseAlarm
PROPERTIES
  CrashLoopShown
  SettlesGreen
