CONSTANTS
  Router <- Three
  Iface <- Triangle
  Arrival <- Ascending
  MaxTtl = 3
  Faults = 1
  MaxQueue = 2
SPECIFICATION FairSpec
INVARIANTS HostRoutes
PROPERTIES LastStays Settles
