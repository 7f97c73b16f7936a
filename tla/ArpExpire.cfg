SPECIFICATION Spec
CONSTANTS
  a = a  b = b  a1 = a1  a2 = a2  b1 = b1
  Hop = {a, b}
  Self = Self
  Mac = {a1, b1}
  Owner <- MCOwner
  Size = 1
  EntryTimeout = 0
  MaxRetries = 1
  NumPackets = 1
PROPERTIES EntriesExpire
CHECK_DEADLOCK FALSE
