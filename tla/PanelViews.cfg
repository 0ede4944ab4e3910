\* The two views of an administrator: metrics of a server, dashboard.
SPECIFICATION Spec
CONSTANTS
  None = None
  Unset = Unset
  c1 = c1
  c2 = c2
  u1 = u1
  u2 = u2
  n1 = n1
  q1 = q1
  q2 = q2
  Limits <- MCLimits
  Samples <- MCSamples
  Volumes <- MCVolumes
  Nodes <- MCNodes
  Polls <- MCPolls
  Clusters <- MCClusters
  Customers <- MCCustomers
  First = c1
  MaxChanges = 1
  MaxFaults = 1
  MaxSelects = 2
  MaxClicks = 2
INVARIANTS
  MetricsHonest
  TableOfSelection
PROPERTIES
  MetricsConverge
  LoadingEnds
CHECK_DEADLOCK FALSE
