\* A client that hangs in the middle of a test in which the server receives.
CONSTANTS
  Client = {c1}
  NoConn = NoConn
  NumStreams = 1
  Modes = {"SENDER"}
  Unauthorized = {}
  Multipath = {}
  SocketOptions = {}
  BitrateLimit = FALSE
  IdleTimeout = FALSE
  OneOff = FALSE
  Killed = {}
  Silent = {c1}
  Stray = {}
  Interrupted = {}
SPECIFICATION FairSpec
PROPERTY StuckTestEnds
CHECK_DEADLOCK FALSE
