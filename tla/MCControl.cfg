\* Two clients of any modes; one may be killed, one may fall silent.
CONSTANTS
  Client = {c1, c2}
  NoConn = NoConn
  NumStreams = 1
  Modes = {"SENDER", "RECEIVER", "BIDIRECTIONAL"}
  Unauthorized = {}
  Multipath = {}
  SocketOptions = {c2}
  BitrateLimit = TRUE
  IdleTimeout = TRUE
  OneOff = FALSE
  Killed = {c2}
  Silent = {c1}
  Stray = {}
  Interrupted = {"c", "s"}
SPECIFICATION Spec
INVARIANTS TypeOK StreamsArePaired TestRunsOnAllStreams IdleServerHoldsNobody
PROPERTY ServesOneAtATime
CHECK_DEADLOCK FALSE
