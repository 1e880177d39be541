\* Two clients that may be killed, one of which asks for MPTCP.
CONSTANTS
  Client = {c1, c2}
  NoConn = NoConn
  NumStreams = 1
  Modes = {"RECEIVER", "BIDIRECTIONAL"}
  Unauthorized = {}
  Multipath = {c1}
  SocketOptions = {}
  BitrateLimit = FALSE
  IdleTimeout = FALSE
  OneOff = FALSE
  Killed = {c1}
  Silent = {}
  Stray = {}
  Interrupted = {}
SPECIFICATION FairSpec
PROPERTIES ClientsFinish ServerBecomesFree
CHECK_DEADLOCK FALSE
