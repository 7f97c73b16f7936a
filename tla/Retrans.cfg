SPECIFICATION FairSpec
CONSTANTS
  Mod = 8
  Files = {0, 1, 3}
  Window = 2
  Seg = 1
  MaxLoss = 1
  
PROPERTY ConnectSettles
CHECK_DEADLOCK FALSE
