SPECIFICATION FairSpec
CONSTANTS
  a = a  b = b  a1 = a1  a2 = a2  b1 = b1
  Hop = {a, b}
  Self = Self
  Mac = {a1, a2, b1}
  Owner <- MCOwner
  Size = 1
  EntryTimeout = 0
  MaxRetries = 1
  NumPackets = 3
INVARIANTS OnceEach InOrder SentToNextHop WaitsOnlyUnknown
PROPERTIES PacketSettles
CHECK_DEADLOCK FALSE
