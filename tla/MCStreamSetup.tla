--------------------------- MODULE MCStreamSetup ---------------------------
(* Tests of all protocols and directions. *)
EXTENDS StreamSetup

Udp ==
  [proto |-> "udp", mode |-> "normal", streams |-> 1, blksize |-> 1, bufsize |-> 0,
   xbind |-> <<>>, tcpopts |-> FALSE, stranger |-> FALSE,
   srvmax |-> 3]

Strange == [Udp EXCEPT !.stranger = TRUE]
Tcp == [Strange EXCEPT !.proto = "tcp"]
Sctp == [Tcp EXCEPT !.proto = "sctp"]

MCConfigs ==
  {\* a block that fits, one that needs a larger buffer, one that is too large
   \* for the client, and one for the server
   [Udp EXCEPT !.streams = 2, !.blksize = 2], [Strange EXCEPT !.mode = "bidir"],
   [Strange EXCEPT !.mode = "reverse", !.streams = 2], [Udp EXCEPT !.blksize = 4],
   [Udp EXCEPT !.bufsize = 2, !.blksize = 3], [Udp EXCEPT !.blksize = 2, !.srvmax = 2],
   \* connections, with addresses, with options
   [Sctp EXCEPT !.streams = 2, !.xbind = <<"a", "b">>], [Sctp EXCEPT !.mode = "bidir"],
   [Tcp EXCEPT !.mode = "bidir"], [Tcp EXCEPT !.streams = 2, !.tcpopts = TRUE]}

=============================================================================
