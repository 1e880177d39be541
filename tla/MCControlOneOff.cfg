\* A one-off server; a client it rejects, one that may be killed, one more.
CONSTANTS
  Client = {c1, c2, c3}
  NoConn = NoConn
  NumStreams = 1
  Modes = {"SENDER"}
  Unauthorized = {c2}
  Multipath = {}
  SocketOptions = {}
  BitrateLimit = FALSE
  IdleTimeout = TRUE
  OneOff = TRUE
  Killed = {c3}
  Silent = {}
  Stray = {c3}
  Interrupted = {}
SPECIFICATION FairSpec
INVARIANT OneOffServesOneTest
PROPERTY OneOffServerEnds
CHECK_DEADLOCK FALSE
