---------------------------- MODULE MCStreamData ----------------------------
(* Tests that between them reach every branch of StreamData. *)
EXTENDS StreamData

Plain ==
  [proto |-> "tcp", sender |-> "c", streams |-> 1, omit |-> FALSE, rate |-> 0,
   burst |-> 0, multisend |-> 2, bytes |-> 0, stale |-> 0, blocks |-> 0, file |-> 0,
   zerocopy |-> FALSE, limit |-> 0, window |-> 0, errors |-> FALSE,
   maxPackets |-> 3, maxIntervals |-> 1]

Udp == [Plain EXCEPT !.proto = "udp", !.multisend = 1]

MCConfigs ==
  {\* datagrams, both directions, with and without an omitted period
   [Udp EXCEPT !.omit = TRUE, !.maxIntervals = 0],
   [Udp EXCEPT !.sender = "s", !.omit = TRUE, !.maxPackets = 2, !.maxIntervals = 0],
   [Udp EXCEPT !.maxPackets = 2],
   [Udp EXCEPT !.streams = 2, !.maxPackets = 2, !.maxIntervals = 0],
   \* limits on bytes and blocks, several streams
   [Plain EXCEPT !.bytes = 5, !.streams = 2, !.multisend = 3],
   [Plain EXCEPT !.bytes = 2, !.omit = TRUE, !.maxPackets = 1],
   [Plain EXCEPT !.blocks = 2, !.streams = 2],
   [Plain EXCEPT !.bytes = 3, !.sender = "s", !.zerocopy = TRUE],
   [Plain EXCEPT !.stale = 3, !.sender = "s"],
   \* a rate, per send and per burst, over an omitted period
   [Plain EXCEPT !.rate = 1, !.omit = TRUE, !.maxPackets = 2, !.maxIntervals = 0],
   [Plain EXCEPT !.rate = 2, !.burst = 2, !.maxIntervals = 0],
   \* the server's limit; errors; a file that ends within a block; SCTP
   [Plain EXCEPT !.limit = 1, !.window = 2, !.maxPackets = 2, !.maxIntervals = 2],
   [Plain EXCEPT !.errors = TRUE, !.maxPackets = 2],
   [Plain EXCEPT !.file = 5, !.bytes = 9], [Plain EXCEPT !.proto = "sctp", !.blocks = 2]}

=============================================================================
