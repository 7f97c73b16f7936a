SPECIFICATION HttpFairSpec
CONSTANTS
  Clients = {c1, c2}
  Requests <- MCRequests
  Files <- MCFiles
  Open = open
  Junk = junk
INVARIANTS AnswerIsRight
PROPERTY PoliteIsServed
CHECK_DEADLOCK FALSE
