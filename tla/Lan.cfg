CONSTANTS
  Host = {"h1", "h2", "h3"}
  MacSwitch = {"s"}
  Hub = {"b"}
  PortsOf <- OnePort
  Wire <- OneWire
  Start <- OneStart
  Timeout = 1
  MaxFrames = 3
  MaxMoves = 1
SPECIFICATION LanSpec
INVARIANTS StaleIsBrief ArrivesOnce
