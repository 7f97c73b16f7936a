SPECIFICATION FairSpec
CONSTANTS
  c1 = c1  c2 = c2
  Client = {c1, c2}
  Server = Server
  Listener = Listener
INVARIANTS CrashOnlyOvertaken EstablishedByBoth ForgottenByBoth PacketsGoHome PortStaysBound
PROPERTIES ConnectionEnds
CHECK_DEADLOCK FALSE
