\* A test that asks for MPTCP is followed by one that does not.
CONSTANTS
  MaxTests = 2
  MaxChosen = 1
SPECIFICATION Spec
INVARIANT SocketIsAsRequested
CHECK_DEADLOCK FALSE
