---------------------------- MODULE StreamSetup ----------------------------
(***************************************************************************)
(* How the streams of a test are set up over UDP, SCTP and TCP, with the   *)
(* server's descriptors: iperf_*_listen, _accept and _connect,             *)
(* iperf_create_streams, iperf_new_stream, the CREATE_STREAMS part of      *)
(* iperf_run_server, and what cleanup_server and iperf_reset_test make of  *)
(* an attempt that failed.  The server runs several tests.                 *)
(*                                                                         *)
(* UDP has no connections: the client announces each stream with a         *)
(* datagram, the hello, and waits for the server's reply, at most 30       *)
(* seconds.  Datagrams are lost, duplicated and reordered.  The server     *)
(* takes whatever comes for a hello, from whom it may be: a stranger's     *)
(* datagram, or one that outlives its test, makes a stream as well.  The   *)
(* control connection is module Control's: here the server just learns     *)
(* that its client is gone.                                                *)
(***************************************************************************)
EXTENDS Integers, FiniteSets, SequencesExt

CONSTANTS
  Configs,        \* the tests that clients ask for
  Fds,            \* bound: the server's descriptors are 1..Fds
  MaxTests,       \* bound: tests of the server
  MaxFailures,    \* bound: system calls that fail
  MaxDuplicates,  \* bound: datagrams that arrive twice, and what strangers send
  DefaultBuffer,  \* the systems' socket buffer
  MaxBuffer       \* and the largest the client's system grants

ASSUME SetupAssumption ==
  /\ {Fds, MaxTests, MaxFailures, MaxDuplicates, DefaultBuffer, MaxBuffer} \subseteq Nat
  /\ DefaultBuffer <= MaxBuffer

\* Settings as the command line leaves them; addresses (-X) are for SCTP only.
ASSUME ConfigsAssumption ==
  \A c \in Configs :
    /\ c.proto \in {"udp", "tcp", "sctp"} /\ c.mode \in {"normal", "reverse", "bidir"}
    /\ c.streams \in Nat \ {0} /\ c.blksize \in Int /\ {c.bufsize, c.srvmax} \subseteq Nat
    /\ c.xbind \in Seq(STRING) /\ (c.proto # "sctp" => c.xbind = <<>>)
    /\ {c.tcpopts, c.stranger} \subseteq BOOLEAN

\* The streams of a test: -P in each direction.
StreamsOf(c) == IF c.mode = "bidir" THEN 2 * c.streams ELSE c.streams

\* The bound on descriptors is never reached: a socket() that finds none is one
\* of the calls that fail.
ASSUME FdsAssumption == \A c \in Configs : 2 * MaxFailures + 2 * StreamsOf(c) + 3 <= Fds

VARIABLES
  conf,    \* the settings of the current test
  fds,     \* the server's descriptors
  srv,     \* struct iperf_test of the server, and the locals of its loop
  cli,     \* the client
  net,     \* datagrams on their way
  ghost    \* failures and duplicates so far; no code reads it

vars == <<conf, fds, srv, cli, net, ghost>>

-----------------------------------------------------------------------------
(* Descriptors.  q is what can be read from a socket: datagrams or pending  *)
(* connections, by the number of the client's stream, 0 for a stranger's.   *)

Socket(kind, peer, buf) == [kind |-> kind, peer |-> peer, buf |-> buf, q |-> <<>>]
Free == Socket("free", 0, 0)
IsOpen(f, n) == n \in DOMAIN f /\ f[n].kind # "free"
OpenFds(f) == {n \in DOMAIN f : IsOpen(f, n)}

\* The lowest free descriptor is the next one.
NextFd(f) == CHOOSE n \in DOMAIN f : ~IsOpen(f, n) /\ \A k \in 1..n - 1 : IsOpen(f, k)
Close(f, N) == [n \in DOMAIN f |-> IF n \in N THEN Free ELSE f[n]]

\* netannounce.
netannounce(f, proto) == [f EXCEPT ![NextFd(f)] = Socket(proto, 0, DefaultBuffer)]

Streams == StreamsOf(conf)

\* The peer of a UDP socket that is connected to a stranger.
Foreign == Streams + 1

\* iperf_create_streams(1) comes before iperf_create_streams(0).
ClientSends(k) == conf.mode = "normal" \/ (conf.mode = "bidir" /\ k <= conf.streams)

\* streams_to_rec of the server.
StreamsToRec == IF conf.mode = "reverse" THEN 0 ELSE conf.streams

\* TCP options for which the listening socket is made anew.
Relisten == conf.proto = "tcp" /\ conf.tcpopts

-----------------------------------------------------------------------------
(* Socket buffers of UDP, and addresses of SCTP *)

UDP_BUFFER_EXTRA == 1

\* What getsockopt says after setsockopt (not called for 0).
Actual(bufsize, max) == IF bufsize = 0 THEN DefaultBuffer ELSE Min({bufsize, max})

iperf_udp_buffercheck(bufsize, max) ==
  IF bufsize > Actual(bufsize, max) THEN -1
  ELSE IF conf.blksize > Actual(bufsize, max) THEN 1 ELSE 0

\* The check, and a second one with a larger buffer if the default one is too
\* small for a block; the larger size stays in the settings.
UdpBuffers(bufsize, max) ==
  LET raise == iperf_udp_buffercheck(bufsize, max) > 0 /\ bufsize = 0
      size == IF raise THEN conf.blksize + UDP_BUFFER_EXTRA ELSE bufsize
  IN  [ok |-> iperf_udp_buffercheck(size, max) >= 0, actual |-> Actual(size, max), bufsize |-> size]

iperf_sctp_bindx_wrong(x) ==
  {[ok |-> TRUE, xbind |-> Tail(x), bound |-> ToSet(x)],
   [ok |-> FALSE, xbind |-> x, bound |-> {}]}

\* The client takes the first address off the list for bind(), binds the rest
\* with sctp_bindx(), and puts it back, whatever failed.
iperf_sctp_bindx(x) ==
  LET first == Head(x)
      rest == Tail(x)
  IN  {[ok |-> ok, xbind |-> <<first>> \o rest,
        bound |-> IF ok THEN {first} \cup ToSet(rest) ELSE {}] : ok \in BOOLEAN}

-----------------------------------------------------------------------------
(* The server between tests *)

Idle(f, tests) ==
  LET n == NextFd(f)
  IN  [state |-> "IPERF_START", pc |-> "loop", s |-> 0, listener |-> n,
       prot_listener |-> -1, ctrl_sck |-> -1, rec |-> 0, snd |-> 0, streams |-> <<>>,
       read_set |-> {n}, bufsize |-> 0, tests |-> tests]

cleanup_server_wrong(t, f) ==
  Close(f, {t.streams[k].fd : k \in DOMAIN t.streams} \cup {t.ctrl_sck, t.prot_listener})

\* cleanup_server closes what the test says is open, also by numbers that are
\* stale; a listener of 0 is none.
cleanup_server(t, f) ==
  Close(f, {t.streams[k].fd : k \in DOMAIN t.streams}
           \cup {t.ctrl_sck, t.listener, t.prot_listener})

\* iperf_free_stream, in iperf_reset_test, closes the buffers' files.
iperf_reset_test(t, f) == Close(f, {t.streams[k].file : k \in DOMAIN t.streams})

\* iperf_run_server returns, and is called again.  Leaked sockets have lost
\* their peer.
Restart(t, f) ==
  \E kept \in {OpenFds(iperf_reset_test(t, cleanup_server(t, f)))} :
  \E g \in {[n \in 1..Fds |-> IF n \in kept THEN Socket("leaked", 0, 0) ELSE Free]} :
    /\ fds' = netannounce(g, "tcp")
    /\ srv' = Idle(g, t.tests)

\* One more system call fails.
Fail == /\ ghost.failures < MaxFailures
        /\ ghost' = [ghost EXCEPT !.failures = @ + 1]

NoClient == [state |-> "failed", made |-> <<>>, bufsize |-> 0, xbind |-> <<>>]

Init ==
  /\ conf \in Configs
  /\ LET none == [n \in 1..Fds |-> Free]
     IN  fds = netannounce(none, "tcp") /\ srv = Idle(none, 0)
  /\ cli = NoClient
  /\ net = {}
  /\ ghost = [failures |-> 0, copies |-> 0]

-----------------------------------------------------------------------------
(* The server *)

\* protocol->listen, as what it makes of the test and the descriptors.  SCTP,
\* and TCP with options, replace the listening socket.
Listen(t, f) ==
  IF conf.proto = "udp"
  THEN LET g == netannounce(f, "udp")
       IN  [f |-> g, s |-> NextFd(f), t |-> t]
  ELSE IF conf.proto = "sctp" \/ Relisten
  THEN LET closed == Close(f, {t.listener})
           s == NextFd(closed)
       IN  [f |-> netannounce(closed, conf.proto), s |-> s,
            t |-> [t EXCEPT !.listener = s,
                            !.read_set = IF Relisten THEN @ \ {t.listener} ELSE @]]
  ELSE [f |-> f, s |-> t.listener, t |-> t]

\* A client connects and the parameters are exchanged: iperf_accept and the
\* server's part of iperf_exchange_parameters.
StartTest ==
  /\ srv.state = "IPERF_START" /\ srv.tests < MaxTests /\ cli.state = "failed"
  /\ conf' \in Configs /\ net' = {}
  /\ LET ctrl == NextFd(fds)
     IN  /\ fds' = [fds EXCEPT ![ctrl] = Socket("ctrl", 0, 0)]
         /\ srv' = [srv EXCEPT !.state = "PARAM_EXCHANGE", !.ctrl_sck = ctrl,
                               !.read_set = @ \cup {ctrl}, !.tests = @ + 1,
                               !.bufsize = conf'.bufsize]
  /\ cli' = [state |-> "connect", made |-> <<>>, bufsize |-> conf'.bufsize,
             xbind |-> conf'.xbind]
  /\ UNCHANGED ghost

CreateStreams ==
  /\ srv.state = "PARAM_EXCHANGE"
  /\ LET o == Listen(srv, fds)
     IN  /\ fds' = o.f
         /\ srv' = [o.t EXCEPT !.state = "CREATE_STREAMS", !.prot_listener = o.s,
                               !.read_set = @ \cup {o.s}]
  /\ UNCHANGED <<conf, cli, net, ghost>>

\* protocol->listen fails: a listening socket it replaces is closed already, and
\* a new one is closed again, except by an error of listen() or of the buffers.
ListenFails ==
  /\ srv.state = "PARAM_EXCHANGE" /\ Fail
  /\ LET o == Listen(srv, fds)
     IN  \E f \in IF conf.proto = "udp" THEN {fds} ELSE {Close(fds, {srv.listener}), o.f} :
           Restart(srv, f)
  /\ cli' = [cli EXCEPT !.state = "failed"]
  /\ UNCHANGED <<conf, net>>

Accepting ==
  /\ srv.state = "CREATE_STREAMS" /\ srv.pc = "loop"
  /\ IsOpen(fds, srv.prot_listener) /\ fds[srv.prot_listener].q # <<>>

Popped(f, n) == [f EXCEPT ![n].q = Tail(@)]

EndSetup_wrong(t, f) ==
  IF conf.proto # "tcp"
  THEN [f |-> Close(f, {t.prot_listener}),
        t |-> [t EXCEPT !.state = "TEST_RUNNING", !.prot_listener = -1]]
  ELSE [f |-> f, t |-> [t EXCEPT !.state = "TEST_RUNNING", !.prot_listener = -1]]

\* All streams are there: the protocol's listening socket is closed, or the one
\* with options replaced by a plain one.
EndSetup(t, f) ==
  IF conf.proto # "tcp"
  THEN [f |-> Close(f, {t.prot_listener}),
        t |-> [t EXCEPT !.state = "TEST_RUNNING", !.read_set = @ \ {t.prot_listener},
                        !.prot_listener = -1]]
  ELSE IF Relisten
  THEN LET closed == Close(f, {t.listener})
           n == NextFd(closed)
       IN  [f |-> netannounce(closed, "tcp"),
            t |-> [t EXCEPT !.state = "TEST_RUNNING", !.listener = n, !.prot_listener = -1,
                            !.read_set = (@ \ {t.listener}) \cup {n}]]
  ELSE [f |-> f, t |-> [t EXCEPT !.state = "TEST_RUNNING", !.prot_listener = -1]]

AddStream_wrong(t, f, s) ==
  LET sender == t.snd # Streams - StreamsToRec
      file == NextFd(f)
      g == [f EXCEPT ![file] = Socket("file", 0, 0)]
      u == [t EXCEPT !.pc = "loop",
              !.rec = IF sender THEN @ ELSE @ + 1, !.snd = IF sender THEN @ + 1 ELSE @,
              !.streams = Append(@, [fd |-> s, file |-> file, sender |-> sender]),
              !.read_set = IF sender THEN @ ELSE @ \cup {s}]
  IN  IF u.rec + u.snd = Streams THEN EndSetup(u, g) ELSE [f |-> g, t |-> u]

\* iperf_new_stream and iperf_add_stream in the server: streams to receive on
\* come first.  Reading is watched for a receiver; the socket of a UDP sender
\* is still watched from the time it was the listening one.
AddStream(t, f, s) ==
  LET sender == t.rec = StreamsToRec
      file == NextFd(f)
      g == [f EXCEPT ![file] = Socket("file", 0, 0)]
      u == [t EXCEPT !.pc = "loop",
              !.rec = IF sender THEN @ ELSE @ + 1, !.snd = IF sender THEN @ + 1 ELSE @,
              !.streams = Append(@, [fd |-> s, file |-> file, sender |-> sender]),
              !.read_set = IF sender THEN @ ELSE @ \cup {s}]
  IN  IF u.rec + u.snd = Streams THEN EndSetup(u, g) ELSE [f |-> g, t |-> u]

\* iperf_new_stream fails: the socket stays open, and with most errors after
\* mkstemp() the buffer's file too.
NewStreamFails(t, f) ==
  \E g \in {f, [f EXCEPT ![NextFd(f)] = Socket("file", 0, 0)]} :
    Fail /\ Restart(t, g) /\ UNCHANGED <<conf, cli, net>>

\* The order of what follows in iperf_udp_accept.
AcceptStep_wrong(n) == <<"reply", "announce", "stream">>[n]

AcceptStep(n) == <<"announce", "reply", "stream">>[n]

AfterStep(pc) == AcceptStep((CHOOSE n \in 1..2 : AcceptStep(n) = pc) + 1)

\* What recvfrom() says of a datagram: nothing in it is compared with the test.
Sender(i) == IF i = 0 THEN Foreign ELSE i

\* iperf_udp_accept, up to connect() and the buffers.  A buffer that the system
\* does not grant is an error; then nothing is lost, as s is prot_listener.
UdpAccept ==
  /\ conf.proto = "udp" /\ Accepting
  /\ LET s == srv.prot_listener
         b == UdpBuffers(srv.bufsize, conf.srvmax)
     IN  IF b.ok
         THEN /\ fds' = [Popped(fds, s) EXCEPT ![s].peer = Sender(Head(fds[s].q)), ![s].buf = b.actual]
              /\ srv' = [srv EXCEPT !.pc = AcceptStep(1), !.s = s, !.bufsize = b.bufsize]
         ELSE Restart(srv, fds)
  /\ UNCHANGED <<conf, cli, net, ghost>>

\* The new listening socket.
UdpAnnounce ==
  /\ srv.pc = "announce"
  /\ fds' = netannounce(fds, "udp")
  /\ srv' = [srv EXCEPT !.pc = AfterStep("announce"), !.prot_listener = NextFd(fds),
                        !.read_set = @ \cup {NextFd(fds)}]
  /\ UNCHANGED <<conf, cli, net, ghost>>

\* The reply, from the socket that is connected now; what becomes of a
\* stranger's is nobody's concern here.
UdpReply ==
  /\ srv.pc = "reply"
  /\ net' = IF fds[srv.s].peer = Foreign THEN net
            ELSE net \cup {[kind |-> "reply", i |-> fds[srv.s].peer]}
  /\ srv' = [srv EXCEPT !.pc = AfterStep("reply")]
  /\ UNCHANGED <<conf, fds, cli, ghost>>

\* netannounce() or write() fails: s is nobody's any more.
UdpAcceptFails ==
  /\ srv.pc \in {"announce", "reply"} /\ Fail
  /\ Restart([srv EXCEPT !.prot_listener = IF srv.pc = "announce" THEN -1 ELSE @], fds)
  /\ UNCHANGED <<conf, cli, net>>

UdpStream ==
  /\ srv.pc = "stream"
  /\ \/ /\ \E o \in {AddStream(srv, fds, srv.s)} : fds' = o.f /\ srv' = o.t
        /\ UNCHANGED <<conf, cli, net, ghost>>
     \/ NewStreamFails(srv, fds)

\* iperf_tcp_accept and iperf_sctp_accept: a connection with another cookie is
\* refused and closed, and is_closed() then makes the server pass over it.
AcceptConnection ==
  /\ conf.proto # "udp" /\ Accepting
  /\ \E f \in {Popped(fds, srv.listener)} :
     \E i \in {Head(fds[srv.listener].q)}, s \in {NextFd(f)} :
     \E g \in {[f EXCEPT ![s] = Socket("conn", i, DefaultBuffer)]} :
       \/ /\ i = 0 /\ fds' = f
          /\ UNCHANGED <<conf, srv, cli, net, ghost>>
       \/ /\ i # 0
          /\ \E o \in {AddStream(srv, g, s)} : fds' = o.f /\ srv' = o.t
          /\ UNCHANGED <<conf, cli, net, ghost>>
       \/ i # 0 /\ NewStreamFails(srv, g)
       \/ /\ Fail                 \* reading the cookie: only SCTP closes s
          /\ Restart(srv, IF conf.proto = "sctp" THEN f ELSE g)
          /\ UNCHANGED <<conf, cli, net>>

\* With all streams there, the plain listening socket, TEST_START or a timer
\* fails, or the client asked for more than the server's bitrate limit.
StartFails ==
  /\ srv.state = "TEST_RUNNING" /\ cli.state # "failed" /\ Fail
  /\ \/ Restart(srv, fds)
     \/ Relisten /\ Restart([srv EXCEPT !.listener = 0], Close(fds, {srv.listener}))
  /\ UNCHANGED <<conf, cli, net>>

\* The control connection ends, or the receive timeout of a server that does
\* not only send finds nothing to read.
ClientGone ==
  /\ srv.state \in {"CREATE_STREAMS", "TEST_RUNNING"} /\ srv.pc = "loop"
  /\ cli.state = "failed"
  /\ Restart(srv, fds)
  /\ UNCHANGED <<conf, cli, net, ghost>>

ReceiveTimeout ==
  /\ srv.state = "CREATE_STREAMS" /\ srv.pc = "loop" /\ ~Accepting
  /\ conf.mode # "reverse"
  /\ Restart(srv, fds)
  /\ UNCHANGED <<conf, cli, net, ghost>>

-----------------------------------------------------------------------------
(* The client *)

Made == Len(cli.made)

ClientFails ==
  /\ cli' = [cli EXCEPT !.state = "failed"]
  /\ UNCHANGED <<conf, fds, srv, net>>

AddClientStream_wrong(sock) ==
  [cli EXCEPT !.made = Append(@, sock),
              !.state = IF Made = Streams THEN "created" ELSE "connect"]

\* A stream more; after the last one the client waits for TEST_START.
AddClientStream(sock) ==
  [cli EXCEPT !.made = Append(@, sock),
              !.state = IF Made + 1 = Streams THEN "created" ELSE "connect"]

\* iperf_udp_connect: the hello.
UdpConnect ==
  /\ conf.proto = "udp" /\ cli.state = "connect" /\ srv.state # "PARAM_EXCHANGE"
  /\ LET b == UdpBuffers(cli.bufsize, MaxBuffer)
     IN  IF b.ok
         THEN /\ cli' = [cli EXCEPT !.state = "wait", !.bufsize = b.bufsize]
              /\ net' = net \cup {[kind |-> "hello", i |-> Made + 1]}
              /\ UNCHANGED <<conf, fds, srv, ghost>>
         ELSE ClientFails /\ UNCHANGED ghost

\* The reply.
UdpConnected ==
  /\ cli.state = "wait" /\ [kind |-> "reply", i |-> Made + 1] \in net
  /\ cli' = AddClientStream([buf |-> Actual(cli.bufsize, MaxBuffer), bound |-> {}])
  /\ UNCHANGED <<conf, fds, srv, net, ghost>>

RecvTimeout_wrong ==
  /\ cli.state = "wait" /\ Made = 0
  /\ ClientFails /\ UNCHANGED ghost

\* SO_RCVTIMEO: recv() gives up after 30 seconds.
RecvTimeout ==
  /\ cli.state = "wait"
  /\ ClientFails /\ UNCHANGED ghost

\* iperf_sctp_connect and iperf_tcp_connect.
Connect ==
  /\ conf.proto # "udp" /\ cli.state = "connect" /\ srv.state # "PARAM_EXCHANGE"
  /\ IF srv.state # "CREATE_STREAMS"
     THEN ClientFails /\ UNCHANGED ghost
     ELSE \E b \in IF conf.xbind = <<>>
                   THEN {[ok |-> TRUE, xbind |-> <<>>, bound |-> {}]}
                   ELSE iperf_sctp_bindx(cli.xbind) :
            IF b.ok
            THEN /\ fds' = [fds EXCEPT ![srv.listener].q = Append(@, Made + 1)]
                 /\ cli' = [AddClientStream([buf |-> DefaultBuffer, bound |-> b.bound])
                              EXCEPT !.xbind = b.xbind]
                 /\ UNCHANGED <<conf, srv, net, ghost>>
            ELSE Fail /\ ClientFails

\* socket(), bind(), connect() or an option in between fails, and the client gives up.
ConnectFails ==
  /\ cli.state = "connect" /\ srv.state # "PARAM_EXCHANGE"
  /\ Fail /\ ClientFails

\* The user interrupts a client that waits.
Interrupt ==
  /\ cli.state \in {"wait", "created"}
  /\ Fail /\ ClientFails

\* The test runs to its end.
Finish ==
  /\ cli.state = "created" /\ srv.state = "TEST_RUNNING"
  /\ ClientFails /\ UNCHANGED ghost

\* The client learns that the server has given up.
ServerGone ==
  /\ cli.state = "created" /\ srv.state = "IPERF_START"
  /\ ClientFails /\ UNCHANGED ghost

-----------------------------------------------------------------------------
(* The network *)

\* The socket that gets the hello of stream i: the one connected to it, or the
\* one that is not connected, which also gets a stranger's (i = 0).
Receivers(i) ==
  LET mine(p) == {n \in OpenFds(fds) : fds[n].kind = "udp" /\ fds[n].peer = p}
  IN  IF mine(i) # {} THEN mine(i) ELSE mine(0)

\* A hello arrives, and may do so again.  Without a socket it is lost.
Deliver ==
  \E d \in {e \in net : e.kind = "hello"}, again \in BOOLEAN :
    /\ net' = IF again THEN net ELSE net \ {d}
    /\ again => ghost.copies < MaxDuplicates
    /\ ghost' = IF again THEN [ghost EXCEPT !.copies = @ + 1] ELSE ghost
    /\ fds' = [n \in DOMAIN fds |-> IF n \in Receivers(d.i)
                 THEN [fds[n] EXCEPT !.q = Append(@, d.i)] ELSE fds[n]]
    /\ UNCHANGED <<conf, srv, cli>>

\* A connection or a datagram of somebody else, or a hello of an earlier test.
Stranger ==
  /\ conf.stranger /\ srv.state = "CREATE_STREAMS"
  /\ \A n \in OpenFds(fds) : 0 \notin ToSet(fds[n].q)
  /\ ghost.copies < MaxDuplicates
  /\ \E n \in IF conf.proto = "udp" THEN Receivers(0) ELSE {srv.listener} :
       fds' = [fds EXCEPT ![n].q = Append(@, 0)]
  /\ ghost' = [ghost EXCEPT !.copies = @ + 1]
  /\ UNCHANGED <<conf, srv, cli, net>>

Server ==
  \/ CreateStreams \/ UdpAccept \/ UdpAnnounce \/ UdpReply \/ UdpStream
  \/ AcceptConnection \/ ClientGone
Client ==
  \/ StartTest \/ UdpConnect \/ UdpConnected \/ RecvTimeout \/ Connect \/ Finish
  \/ ServerGone
Faults ==
  \/ ListenFails \/ UdpAcceptFails \/ StartFails \/ ReceiveTimeout \/ ConnectFails \/ Interrupt
  \/ Deliver \/ Stranger

Next == Server \/ Client \/ Faults

\* Both processes go on; what is queued is accepted before anything times out
\* for ever.  The network need not deliver anything.
Spec == Init /\ [][Next]_vars /\ WF_vars(Server) /\ WF_vars(Client)

-----------------------------------------------------------------------------
(* Properties *)

\* The type invariant.
TypeOK ==
  /\ conf \in Configs
  /\ \A n \in 1..Fds :
       /\ fds[n].kind \in {"free", "tcp", "udp", "sctp", "ctrl", "conn", "file", "leaked"}
       /\ fds[n].peer \in 0..Foreign
  /\ srv.state \in {"IPERF_START", "PARAM_EXCHANGE", "CREATE_STREAMS", "TEST_RUNNING"}
  /\ srv.pc \in {"loop", "announce", "reply", "stream"}
  /\ srv.rec \in 0..StreamsToRec /\ srv.snd \in 0..Streams
  /\ cli.state \in {"connect", "wait", "created", "failed"}
  /\ Len(cli.made) <= Streams

\* Every descriptor that select() watches is open, although sockets change
\* hands while streams are accepted and the listening socket is replaced under
\* its number: a closed one would end the test with an error.
SelectIsValid == srv.pc = "loop" => srv.read_set \subseteq OpenFds(fds)

\* When the client announces a stream, a socket is there to hear it, or the
\* stream is already accepted: iperf_udp_accept opens the next listening socket
\* before it replies.  Only while it accepts a stranger's datagram, between
\* connect() and netannounce(), no socket hears the client.
HelloIsHeard ==
  cli.state = "wait" /\ srv.state = "CREATE_STREAMS" =>
    \/ Receivers(Made + 1) # {}
    \/ srv.pc = "announce" /\ fds[srv.s].peer = Foreign

\* One of the first k streams is a stranger's.
StrangerAmong(t, f, k) ==
  conf.proto = "udp" /\ \E j \in 1..k : f[t.streams[j].fd].peer = Foreign

\* A test runs on all its streams, the k-th of the server connected to the k-th
\* of the client, with opposite directions, whatever datagrams came twice and
\* whoever else connected.  The exception is UDP, where a stranger's datagram
\* makes a stream: those from there on are shifted, but the client's keep their
\* order, and none of them is taken twice.
StreamsArePaired ==
  srv.state = "TEST_RUNNING" =>
    LET peer(k) == fds[srv.streams[k].fd].peer
    IN  /\ Len(srv.streams) = Streams
        /\ \A k \in 1..Streams : /\ peer(k) = k \/ StrangerAmong(srv, fds, k)
                                 /\ srv.streams[k].sender # ClientSends(k)
        /\ \A j, k \in 1..Streams :
             j < k /\ Foreign \notin {peer(j), peer(k)} => peer(j) < peer(k)

\* A server between tests holds its listening socket and what failures made it
\* forget, at most two descriptors each: tests that do not fail leave nothing.
LeaksAreFailures ==
  srv.state = "IPERF_START" =>
    Cardinality(OpenFds(fds)) <= 1 + 2 * ghost.failures

\* The sockets are as the user asked: unless the user set a size, every UDP
\* socket holds a block, the first as well as those that use the size the first
\* one led to; and every SCTP stream, not only the first, is bound to all the
\* addresses given with -X.
SocketsAreAsAsked ==
  /\ (conf.proto = "udp" /\ conf.bufsize = 0) =>
       /\ \A k \in DOMAIN cli.made : cli.made[k].buf >= conf.blksize
       /\ \A k \in DOMAIN srv.streams : fds[srv.streams[k].fd].buf >= conf.blksize
  /\ \A k \in DOMAIN cli.made : cli.made[k].bound = ToSet(conf.xbind)

\* Setting up streams ends, with a test or with an error, also if a hello or a
\* reply is lost: the server itself does not notice that in a reverse test.
SetupEnds == srv.state = "CREATE_STREAMS" ~> srv.state \in {"TEST_RUNNING", "IPERF_START"}

=============================================================================
