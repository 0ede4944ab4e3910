\* Upstream releases, the list on main, the images, the servers.
SPECIFICATION Spec
CONSTANTS
  None = None
  Absent = Absent
  s1 = s1
  Servers <- MCServers
  Offered <- MCOffered
  NoJar <- MCNoJar
  Pinned <- MCPinned
  MaxEntries = 3
  MaxByHand = 1
  MaxFaults = 1
INVARIANTS
  ListedIsBuilt
PROPERTIES
  MergeAddsRelease
  NewReleasesListed
  ListedServersStart
