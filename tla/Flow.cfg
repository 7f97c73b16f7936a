SPECIFICATION FairSpec
CONSTANTS
  StreamLen = 5
  WriteSize = 5
  MSS = 2
  Capacity = 3
  ReadSize = 2
INVARIANTS StreamIntegrity AckOnlyStored BlockedCanBeWoken
PROPERTIES ImplementsPipe NotifiedReturns StreamArrives
CHECK_DEADLOCK FALSE
