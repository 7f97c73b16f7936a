SPECIFICATION BufSpec
CONSTANTS
  Size = 3
  MaxRequest = 4
  Byte <- MCByte
PROPERTY ImplementsQueue
