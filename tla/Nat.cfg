SPECIFICATION FairSpec
CONSTANTS
  client = client  server = server  r1 = r1  r2 = r2
  Internal = {client, server}
  Remote = {r1, r2}
  PortMin = 11
  PortMax = 12
  DnatRules <- RulesOf80
  InPorts = {11, 12, 80, 99}
  Timeout = 1
  NumPackets = 3
INVARIANTS PortsUnique PoolIsRight
PROPERTIES PortsComeBack RemovedOnlyIdle
CHECK_DEADLOCK FALSE
