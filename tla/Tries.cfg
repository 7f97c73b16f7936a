CONSTANTS
  Width = 16
  AdHead = 6
  SuperHead = 8
  SuperChunk = 4
  Prefix <- Prefixes
  Address <- Addresses
  MaxEntries = 4
SPECIFICATION Spec
INVARIANTS TrieIsLongestMatch AdTrieIsLongestMatch SuperTrieIsLongestMatch RtableIsLongestMatch
CHECK_DEADLOCK FALSE
