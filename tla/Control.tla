------------------------------ MODULE Control ------------------------------
(***************************************************************************)
(* The control protocol: one iperf3 server (main.c's loop around           *)
(* iperf_run_server) and several client processes (iperf_run_client), the  *)
(* TCP connections between them and the server's listening socket.         *)
(*                                                                         *)
(* <<c, 0>> is the control connection of client c and <<c, i>> its i-th    *)
(* data connection.  A connection carries one queue of messages each way:  *)
(* state bytes under their names in iperf_api.h, and COOKIE, PARAMS,       *)
(* RESULTS and ERR for the longer messages.  Test data is not modelled,    *)
(* only whether an end of a data connection is open.                       *)
(*                                                                         *)
(* A read that blocks is a place of its own in the program (the pc fields),*)
(* so everybody else can move while a process waits in it.  An operator    *)
(* whose name ends in _wrong is a mistake the definition after it could    *)
(* have had.                                                               *)
(***************************************************************************)
EXTENDS Integers, SequencesExt

CONSTANTS
  Client,         \* the client processes, each makes one run
  NoConn,         \* the descriptor -1
  NumStreams,     \* -P
  Modes,          \* the modes the clients' tests may have
  Unauthorized,   \* clients whose credentials the server rejects
  Multipath,      \* clients that ask for MPTCP
  SocketOptions,  \* clients that ask for no_delay, an MSS or a buffer size
  BitrateLimit,   \* the server has a --server-bitrate-limit
  IdleTimeout,    \* the server has an --idle-timeout
  OneOff,         \* the server has --one-off
  Killed,         \* clients that may be killed, or fail for lack of memory
  Silent,         \* clients that may stop for good without closing anything
  Stray,          \* clients that may die between connect() and the cookie
  Interrupted     \* the sides, "c" and "s", that may get SIGTERM

ASSUME ControlAssumption ==
  /\ NumStreams \in Nat \ {0}
  /\ Modes \subseteq {"SENDER", "RECEIVER", "BIDIRECTIONAL"}
  /\ {BitrateLimit, IdleTimeout, OneOff} \subseteq BOOLEAN
  /\ NoConn \notin Client \cup (Client \X (0..2 * NumStreams))

VARIABLES
  net,       \* the connections and the listening socket
  srv,       \* the server process
  cli,       \* the client processes
  reported   \* clients whose results the server has taken (no code reads it)

vars == <<net, srv, cli, reported>>

Side == {"c", "s"}
Peer(side) == IF side = "c" THEN "s" ELSE "c"
Conn == Client \X (0..2 * NumStreams)
ConnsOf(c) == {c} \X (0..2 * NumStreams)

Msg == {"TEST_START", "TEST_RUNNING", "TEST_END", "PARAM_EXCHANGE",
        "CREATE_STREAMS", "SERVER_TERMINATE", "CLIENT_TERMINATE",
        "EXCHANGE_RESULTS", "DISPLAY_RESULTS", "IPERF_DONE", "ACCESS_DENIED",
        "SERVER_ERROR", "COOKIE", "PARAMS", "RESULTS", "ERR"}

\* The data connections a test of mode m has.
Streams(m) == IF m = "BIDIRECTIONAL" THEN 2 * NumStreams ELSE NumStreams

\* The client connects the streams it sends on first.
ClientSends(m, i) == m = "SENDER" \/ (m = "BIDIRECTIONAL" /\ i <= NumStreams)

\* The server's mode is the client's turned round.
ServerMode(m) ==
  CASE m = "SENDER" -> "RECEIVER"
    [] m = "RECEIVER" -> "SENDER"
    [] OTHER -> "BIDIRECTIONAL"

-----------------------------------------------------------------------------
(* TCP.  net.in[side][k] is what `side' can read from connection k, and    *)
(* net.end[side][k] the state of its own end.  An end closed with unread   *)
(* input is "reset".                                                       *)

WriteAll(n, side, k, ms) ==
  IF n.end[side][k] = "open" /\ n.end[Peer(side)][k] = "open"
  THEN [n EXCEPT !.in[Peer(side)][k] = @ \o ms]
  ELSE n

Write(n, side, k, m) == WriteAll(n, side, k, <<m>>)

\* A write to an end that is gone may still seem to succeed.
WriteResult(n, side, k) ==
  IF n.end[Peer(side)][k] = "open" THEN {TRUE} ELSE BOOLEAN

Drop(n, side, k) == [n EXCEPT !.in[side][k] = IF @ = <<>> THEN @ ELSE Tail(@)]

Starts(n, side, k, m) == n.in[side][k] # <<>> /\ Head(n.in[side][k]) = m

\* The results of a read() of one byte; none while it blocks.
ReadResult(n, side, k) ==
  (IF n.in[side][k] # <<>> THEN {Head(n.in[side][k])}
   ELSE IF n.end[Peer(side)][k] = "closed" THEN {"EOF"} ELSE {})
  \cup (IF n.end[Peer(side)][k] = "reset" THEN {"ERROR"} ELSE {})

\* The results of a read that goes on until it has all of message m: other
\* bytes are not enough, so it waits for the end of the connection.
NreadResult(n, side, k, m) ==
  (IF Starts(n, side, k, m) THEN {m}
   ELSE IF n.end[Peer(side)][k] = "closed" THEN {"EOF"} ELSE {})
  \cup (IF n.end[Peer(side)][k] = "reset" THEN {"ERROR"} ELSE {})

Close(n, side, ks) ==
  [n EXCEPT
    !.end[side] = [k \in Conn |->
      IF k \in ks /\ @[k] = "open"
      THEN IF n.in[side][k] = <<>> THEN "closed" ELSE "reset"
      ELSE @[k]],
    !.in[side] = [k \in Conn |-> IF k \in ks THEN <<>> ELSE @[k]]]

\* connect(): the connection waits in the listening socket's backlog.
Connect(n, k) ==
  [n EXCEPT !.end = [side \in Side |-> [@[side] EXCEPT ![k] = "open"]],
            !.backlog = Append(@, k)]

\* Closing the listening socket resets the connections that wait in it.
CloseListener(n) ==
  [n EXCEPT
    !.listening = FALSE,
    !.backlog = <<>>,
    !.end["s"] = [k \in Conn |-> IF Contains(n.backlog, k) THEN "reset" ELSE @[k]],
    !.in["s"] = [k \in Conn |-> IF Contains(n.backlog, k) THEN <<>> ELSE @[k]]]

Relisten(n) == [CloseListener(n) EXCEPT !.listening = TRUE]

-----------------------------------------------------------------------------
(* The server *)

\* What iperf_reset_test leaves for the next test.
ResetTest ==
  [pc |-> "down", state |-> "0", ctrl |-> NoConn, cookie |-> NoConn,
   mode |-> "RECEIVER", streams |-> <<>>, pending |-> NoConn,
   done |-> FALSE, timer |-> FALSE, badfd |-> FALSE]

StreamConns == {srv.streams[i].conn : i \in DOMAIN srv.streams}

Leaves_wrong(rc, err) == OneOff /\ rc = 2

Leaves_wrong2(rc, err) == OneOff /\ rc = 0

\* main.c: does the server's loop end after iperf_run_server returned rc?
Leaves(rc, err) == OneOff /\ rc # 2 /\ ~(rc < 0 /\ err = "IEAUTHTEST")

cleanup_server_wrong(n, rc, err) ==
  /\ net' = CloseListener(Close(n, "s", StreamConns))
  /\ srv' = [ResetTest EXCEPT !.pc = IF Leaves(rc, err) THEN "exit" ELSE "down"]

\* cleanup_server, the return of rc, and main's iperf_reset_test.  The end
\* of the process closes everything.
cleanup_server(n, rc, err) ==
  /\ net' = CloseListener(Close(n, "s",
              IF Leaves(rc, err) THEN Conn ELSE StreamConns \cup {srv.ctrl}))
  /\ srv' = [ResetTest EXCEPT !.pc = IF Leaves(rc, err) THEN "exit" ELSE "down"]

\* iperf_set_send_state: send m to the client and go on as `next'.
iperf_set_send_state(n, m, next) ==
  \E ok \in WriteResult(n, "s", srv.ctrl) :
    IF ok
    THEN net' = Write(n, "s", srv.ctrl, m) /\ srv' = [next EXCEPT !.state = m]
    ELSE cleanup_server(n, -1, "IESENDMESSAGE")

Selecting == srv.pc = "select" /\ ~srv.badfd

iperf_server_listen ==
  /\ srv.pc = "down"
  /\ \/ /\ srv' = [srv EXCEPT !.pc = "select", !.state = "IPERF_START"]
        /\ net' = [net EXCEPT !.listening = TRUE]
     \/ /\ srv' = [srv EXCEPT !.pc = "exit"]
        /\ UNCHANGED net
  /\ UNCHANGED <<cli, reported>>

\* iperf_accept on a free server, up to the read of the cookie, or accept()
\* fails.
iperf_accept ==
  /\ Selecting /\ srv.state # "CREATE_STREAMS"
  /\ net.backlog # <<>>
  /\ srv.ctrl = NoConn
  /\ \/ /\ srv' = [srv EXCEPT !.ctrl = Head(net.backlog), !.pc = "cookie"]
        /\ net' = [net EXCEPT !.backlog = Tail(@)]
     \/ cleanup_server(net, -1, "IEACCEPT")
  /\ UNCHANGED <<cli, reported>>

iperf_accept_busy_wrong ==
  /\ Selecting /\ srv.state # "CREATE_STREAMS"
  /\ net.backlog # <<>>
  /\ srv.ctrl # NoConn
  /\ srv' = [srv EXCEPT !.ctrl = Head(net.backlog), !.pc = "cookie"]
  /\ net' = [net EXCEPT !.backlog = Tail(@)]
  /\ UNCHANGED <<cli, reported>>

\* iperf_accept during a test: ACCESS_DENIED, without reading anything; that
\* it cannot be written is no error, that accept() fails is one.
iperf_accept_busy ==
  /\ Selecting /\ srv.state # "CREATE_STREAMS"
  /\ net.backlog # <<>>
  /\ srv.ctrl # NoConn
  /\ \/ /\ \E k \in {Head(net.backlog)} :
             net' = Close(Write([net EXCEPT !.backlog = Tail(@)], "s", k, "ACCESS_DENIED"),
                          "s", {k})
        /\ UNCHANGED srv
     \/ cleanup_server(net, -1, "IEACCEPT")
  /\ UNCHANGED <<cli, reported>>

\* iperf_accept goes on when the cookie is read.  At the end of the
\* connection Nread returns 0, which is no error, and the cookie stays 0.
AcceptCookie ==
  /\ srv.pc = "cookie"
  /\ \E r \in NreadResult(net, "s", srv.ctrl, "COOKIE") :
       IF r = "ERROR" THEN cleanup_server(net, -1, "IERECVCOOKIE")
       ELSE \E n \in {IF r = "COOKIE" THEN Drop(net, "s", srv.ctrl) ELSE net} :
         iperf_set_send_state(n, "PARAM_EXCHANGE",
           [srv EXCEPT !.pc = "params",
                       !.cookie = IF r = "COOKIE" THEN srv.ctrl[1] ELSE NoConn])
  /\ UNCHANGED <<cli, reported>>

HasParameters == srv.pc = "params" /\ Starts(net, "s", srv.ctrl, "PARAMS")

\* get_parameters finds no parameters.
NoParameters ==
  /\ srv.pc = "params"
  /\ NreadResult(net, "s", srv.ctrl, "PARAMS") \cap {"EOF", "ERROR"} # {}
  /\ cleanup_server(net, -1, "IERECVPARAMS")
  /\ UNCHANGED <<cli, reported>>

\* SERVER_ERROR followed by `codes' integers, of which any may fail to be
\* written, and the return that ends the test with error err.
ServerError(n, codes, err) ==
  \E sent \in IF WriteResult(n, "s", srv.ctrl) = {TRUE} THEN {codes + 1}
              ELSE 0..codes + 1 :
    cleanup_server(
      WriteAll(n, "s", srv.ctrl, SubSeq(<<"SERVER_ERROR", "ERR", "ERR">>, 1, sent)), -1,
      CASE sent = 0 -> "IESENDMESSAGE"
        [] sent = codes + 1 -> err
        [] OTHER -> "IECTRLWRITE")

\* iperf_exchange_parameters when test_is_authorized fails.
NotAuthorized ==
  /\ HasParameters
  /\ srv.ctrl[1] \in Unauthorized
  /\ ServerError(Drop(net, "s", srv.ctrl), 1, "IEAUTHTEST")
  /\ UNCHANGED <<cli, reported>>

\* iperf_exchange_parameters when the protocol's listen fails.
StreamListenFails ==
  /\ HasParameters
  /\ srv.ctrl[1] \notin Unauthorized
  /\ ServerError(Drop(net, "s", srv.ctrl), 2, "IESTREAMLISTEN")
  /\ UNCHANGED <<cli, reported>>

\* iperf_exchange_parameters: the test's mode, iperf_tcp_listen, which
\* replaces the listening socket of some tests, and CREATE_STREAMS; then
\* iperf_accept ends with iperf_setaffinity, which may fail.
iperf_exchange_parameters ==
  /\ HasParameters
  /\ srv.ctrl[1] \notin Unauthorized
  /\ \E read \in {Drop(net, "s", srv.ctrl)} :
     \E n \in {IF srv.ctrl[1] \in Multipath \cup SocketOptions
               THEN Relisten(read) ELSE read} :
       \/ iperf_set_send_state(n, "CREATE_STREAMS",
            [srv EXCEPT !.pc = "select", !.mode = ServerMode(cli[srv.ctrl[1]].mode)])
       \/ cleanup_server(Write(n, "s", srv.ctrl, "CREATE_STREAMS"), -1, "IEAFFINITY")
  /\ UNCHANGED <<cli, reported>>

\* iperf_tcp_accept up to the read of the cookie, or accept() fails.
iperf_tcp_accept ==
  /\ Selecting /\ srv.state = "CREATE_STREAMS"
  /\ net.backlog # <<>>
  /\ \/ /\ srv' = [srv EXCEPT !.pending = Head(net.backlog), !.pc = "streamcookie"]
        /\ net' = [net EXCEPT !.backlog = Tail(@)]
     \/ cleanup_server(net, -1, "IESTREAMCONNECT")
  /\ UNCHANGED <<cli, reported>>

StreamFlag_wrong(accepted) == accepted < (IF srv.mode = "RECEIVER" THEN 0 ELSE NumStreams)

\* Is the next stream one the server sends on?  It fills its receiving
\* streams first.
StreamFlag(accepted) == accepted >= (IF srv.mode = "SENDER" THEN 0 ELSE NumStreams)

AllAccepted_wrong(accepted) == accepted = NumStreams

AllAccepted(accepted) == accepted = Streams(srv.mode)

\* A connection with the cookie of the test becomes a stream.
NewStream(n) ==
  \/ /\ srv' = [srv EXCEPT
         !.streams = Append(@, [conn |-> srv.pending,
                                sender |-> StreamFlag(Len(srv.streams))]),
         !.pending = NoConn,
         !.pc = IF AllAccepted(Len(srv.streams) + 1) THEN "start" ELSE "select"]
     /\ net' = n
  \/ cleanup_server(n, -1, "IECREATESTREAM")

\* A connection with another cookie is refused.
RefuseStream(n) ==
  /\ net' = Close(Write(n, "s", srv.pending, "ACCESS_DENIED"), "s", {srv.pending})
  /\ srv' = [srv EXCEPT !.pending = NoConn, !.pc = "select"]

\* iperf_tcp_accept when the cookie is read.  If nothing was sent, the
\* comparison is of an uninitialized buffer, which can hold the cookie that
\* the call before left on the stack.
StreamCookie ==
  /\ srv.pc = "streamcookie"
  /\ \E r \in NreadResult(net, "s", srv.pending, "COOKIE") :
       CASE r = "ERROR" -> cleanup_server(net, -1, "IERECVCOOKIE")
         [] r = "COOKIE" ->
              \E n \in {Drop(net, "s", srv.pending)} :
                IF srv.pending[1] = srv.cookie THEN NewStream(n) ELSE RefuseStream(n)
         [] r = "EOF" ->
              \/ RefuseStream(net)
              \/ /\ srv.streams # <<>> /\ net.in["s"][srv.pending] = <<>>
                 /\ NewStream(net)
  /\ UNCHANGED <<cli, reported>>

\* All streams are there: restore the listening socket, which may fail, check
\* the rate the client asks for, which may be over the limit, send TEST_START.
StartTest ==
  /\ srv.pc = "start"
  /\ \E n \in {IF srv.ctrl[1] \in SocketOptions THEN Relisten(net) ELSE net} :
       \/ srv.ctrl[1] \in SocketOptions /\ cleanup_server(n, -1, "IELISTEN")
       \/ BitrateLimit /\ cleanup_server(n, -1, "IETOTALRATE")
       \/ iperf_set_send_state(n, "TEST_START", [srv EXCEPT !.pc = "timers"])
  /\ UNCHANGED <<cli, reported>>

\* iperf_init_test and the timers, which may fail, then TEST_RUNNING.
RunTest ==
  /\ srv.pc = "timers"
  /\ \/ iperf_set_send_state(net, "TEST_RUNNING",
                             [srv EXCEPT !.pc = "select", !.timer = TRUE])
     \/ cleanup_server(net, -1, "IEINITTEST")
  /\ UNCHANGED <<cli, reported>>

\* iperf_handle_message_server, when it has a byte to read.
HasMessage(m) ==
  /\ Selecting /\ srv.ctrl # NoConn
  /\ m \in ReadResult(net, "s", srv.ctrl)

TestEnd_wrong ==
  /\ HasMessage("TEST_END")
  /\ \E n \in {Drop(net, "s", srv.ctrl)} :
       iperf_set_send_state(n, "EXCHANGE_RESULTS",
                            [srv EXCEPT !.pc = "results", !.done = TRUE])
  /\ UNCHANGED <<cli, reported>>

\* TEST_END: the streams are closed before the results are asked for.
TestEnd ==
  /\ HasMessage("TEST_END")
  /\ \E n \in {Close(Drop(net, "s", srv.ctrl), "s", StreamConns)} :
       iperf_set_send_state(n, "EXCHANGE_RESULTS",
                            [srv EXCEPT !.pc = "results", !.done = TRUE])
  /\ UNCHANGED <<cli, reported>>

\* iperf_exchange_results on the server, then DISPLAY_RESULTS.
ExchangeResults ==
  /\ srv.pc = "results"
  /\ Starts(net, "s", srv.ctrl, "RESULTS")
  /\ \E n \in {Drop(net, "s", srv.ctrl)} :
     \E ok \in WriteResult(n, "s", srv.ctrl) :
       IF ok
       THEN iperf_set_send_state(Write(n, "s", srv.ctrl, "RESULTS"), "DISPLAY_RESULTS",
                                 [srv EXCEPT !.pc = "select"])
       ELSE cleanup_server(n, -1, "IESENDRESULTS")
  /\ reported' = reported \cup {srv.ctrl[1]}
  /\ UNCHANGED cli

NoResults ==
  /\ srv.pc = "results"
  /\ NreadResult(net, "s", srv.ctrl, "RESULTS") \cap {"EOF", "ERROR"} # {}
  /\ cleanup_server(net, -1, "IERECVRESULTS")
  /\ UNCHANGED <<cli, reported>>

ClientGone_wrong ==
  /\ \E m \in {"IPERF_DONE", "CLIENT_TERMINATE"} : HasMessage(m)
  /\ cleanup_server(Drop(net, "s", srv.ctrl), 0, "IECTRLCLOSE")
  /\ UNCHANGED <<cli, reported>>

\* The client is done, was interrupted or closed the connection: the state
\* becomes IPERF_DONE and the loop ends.
ClientGone ==
  /\ \E m \in {"IPERF_DONE", "CLIENT_TERMINATE", "EOF"} : HasMessage(m)
  /\ cleanup_server(Drop(net, "s", srv.ctrl), 0, "IECTRLCLOSE")
  /\ UNCHANGED <<cli, reported>>

\* A read error, or a byte that is no message to the server.  (TEST_START
\* would be accepted, but no client sends it.)
BadMessage ==
  /\ \E m \in (Msg \cup {"ERROR"}) \ {"TEST_START", "TEST_END", "IPERF_DONE",
                                     "CLIENT_TERMINATE"} :
       HasMessage(m)
  /\ cleanup_server(Drop(net, "s", srv.ctrl), -1, "IERECVMESSAGE")
  /\ UNCHANGED <<cli, reported>>

\* server_timer_proc: the test is over its time.  The closed descriptors
\* stay in the sets of the next select().
server_timer_proc ==
  /\ Selecting /\ srv.timer
  /\ IF srv.done
     THEN srv' = [srv EXCEPT !.timer = FALSE] /\ UNCHANGED net
     ELSE /\ srv' = [srv EXCEPT !.timer = FALSE, !.done = TRUE, !.streams = <<>>,
                                !.badfd = TRUE]
          /\ net' = Close(net, "s", StreamConns \cup {srv.ctrl})
  /\ UNCHANGED <<cli, reported>>

SelectFails ==
  /\ srv.pc = "select" /\ srv.badfd
  /\ cleanup_server(net, -1, "IESELECT")
  /\ UNCHANGED <<cli, reported>>

\* select() has nothing to report.
Quiet ==
  /\ net.backlog = <<>>
  /\ srv.ctrl # NoConn => ReadResult(net, "s", srv.ctrl) = {}
  /\ ~srv.done => \A k \in StreamConns : net.end["c"][k] = "open"

\* The server receives, and nothing came for the --rcv-timeout.
ReceiveTimeout ==
  /\ Selecting /\ Quiet
  /\ srv.state # "IPERF_START" /\ srv.mode # "SENDER"
  /\ cleanup_server(net, -1, "IENOMSG")
  /\ UNCHANGED <<cli, reported>>

IdleRestart ==
  /\ Selecting /\ Quiet
  /\ srv.state = "IPERF_START" /\ IdleTimeout
  /\ cleanup_server(net, 2, "")
  /\ UNCHANGED <<cli, reported>>

\* iperf_check_total_rate has set bitrate_limit_exceeded.
RateExceeded ==
  /\ Selecting /\ srv.state = "TEST_RUNNING" /\ BitrateLimit
  /\ cleanup_server(net, -1, "IETOTALRATE")
  /\ UNCHANGED <<cli, reported>>

\* iperf_send or iperf_recv on a stream that the client has closed.
ServerStreamError ==
  /\ Selecting /\ srv.state = "TEST_RUNNING" /\ srv.mode # "RECEIVER"
  /\ \E k \in StreamConns : net.end["c"][k] # "open"
  /\ cleanup_server(net, -1, "IESTREAMWRITE")
  /\ UNCHANGED <<cli, reported>>

\* iperf_got_sigend on the server: tell the client, exit.
ServerInterrupted ==
  /\ "s" \in Interrupted /\ srv.pc # "exit"
  /\ \E n \in {IF srv.ctrl = NoConn THEN net
               ELSE Write(net, "s", srv.ctrl, "SERVER_TERMINATE")} :
       net' = CloseListener(Close(n, "s", Conn))
  /\ srv' = [ResetTest EXCEPT !.pc = "exit"]
  /\ UNCHANGED <<cli, reported>>

ServerStep ==
  \/ iperf_server_listen \/ iperf_accept \/ iperf_accept_busy \/ AcceptCookie
  \/ NoParameters \/ NotAuthorized \/ StreamListenFails
  \/ iperf_exchange_parameters \/ iperf_tcp_accept \/ StreamCookie
  \/ StartTest \/ RunTest \/ TestEnd \/ ExchangeResults \/ NoResults
  \/ ClientGone \/ BadMessage \/ SelectFails

ServerEvent ==
  \/ server_timer_proc \/ ReceiveTimeout \/ IdleRestart \/ RateExceeded
  \/ ServerStreamError \/ ServerInterrupted

-----------------------------------------------------------------------------
(* The clients *)

Ctrl(c) == <<c, 0>>

\* The client's process ends, which closes its connections.
Exit(n, c, how) ==
  /\ net' = Close(n, "c", ConnsOf(c))
  /\ cli' = [cli EXCEPT ![c].pc = how]

\* Write m on connection k and go on as `next'; fail if it cannot be written.
ClientSendsOn(n, c, k, m, next) ==
  \E ok \in WriteResult(n, "c", k) :
    IF ok THEN net' = Write(n, "c", k, m) /\ cli' = [cli EXCEPT ![c] = next]
    ELSE Exit(n, c, "failed")

Running(c) == cli[c].pc \notin {"done", "failed", "gone"}

\* iperf_connect: netdial, then the cookie.
iperf_connect(c) ==
  /\ cli[c].pc = "connect"
  /\ IF net.listening
     THEN net' = Connect(net, Ctrl(c)) /\ cli' = [cli EXCEPT ![c].pc = "cookie"]
     ELSE Exit(net, c, "failed")
  /\ UNCHANGED <<srv, reported>>

SendCookie(c) ==
  /\ cli[c].pc = "cookie"
  /\ ClientSendsOn(net, c, Ctrl(c), "COOKIE", [cli[c] EXCEPT !.pc = "select"])
  /\ UNCHANGED <<srv, reported>>

\* iperf_handle_message_client has read m.
ClientHas(c, m) ==
  cli[c].pc = "select" /\ m \in ReadResult(net, "c", Ctrl(c))

ParamExchange(c) ==
  /\ ClientHas(c, "PARAM_EXCHANGE")
  /\ \E n \in {Drop(net, "c", Ctrl(c))} :
       ClientSendsOn(n, c, Ctrl(c), "PARAMS", [cli[c] EXCEPT !.state = "PARAM_EXCHANGE"])
  /\ UNCHANGED <<srv, reported>>

CreateStreams(c) ==
  /\ ClientHas(c, "CREATE_STREAMS")
  /\ cli' = [cli EXCEPT ![c].state = "CREATE_STREAMS", ![c].pc = "streams"]
  /\ net' = Drop(net, "c", Ctrl(c))
  /\ UNCHANGED <<srv, reported>>

\* iperf_create_streams, one turn of its loop: iperf_tcp_connect ...
iperf_tcp_connect(c) ==
  /\ cli[c].pc = "streams"
  /\ IF net.listening
     THEN /\ net' = Connect(net, <<c, cli[c].made + 1>>)
          /\ cli' = [cli EXCEPT ![c].pc = "streamcookie"]
     ELSE Exit(net, c, "failed")
  /\ UNCHANGED <<srv, reported>>

StreamsMade_wrong(made, m) == made > Streams(m)

StreamsMade(made, m) == made = Streams(m)

\* ... and the cookie on the new connection.
SendStreamCookie(c) ==
  /\ cli[c].pc = "streamcookie"
  /\ \E i \in {cli[c].made + 1} :
       ClientSendsOn(net, c, <<c, i>>, "COOKIE",
         [cli[c] EXCEPT !.made = i,
                        !.pc = IF StreamsMade(i, cli[c].mode) THEN "select" ELSE "streams"])
  /\ UNCHANGED <<srv, reported>>

\* TEST_START: iperf_init_test and the timers; TEST_RUNNING.
TestStarts(c) ==
  /\ \E m \in {"TEST_START", "TEST_RUNNING"} :
       ClientHas(c, m) /\ cli' = [cli EXCEPT ![c].state = m]
  /\ net' = Drop(net, "c", Ctrl(c))
  /\ UNCHANGED <<srv, reported>>

\* The time is over, or enough bytes or blocks are through: TEST_END.
TestDone(c) ==
  /\ cli[c].pc = "select" /\ cli[c].state = "TEST_RUNNING"
  /\ ClientSendsOn(net, c, Ctrl(c), "TEST_END", [cli[c] EXCEPT !.state = "TEST_END"])
  /\ UNCHANGED <<srv, reported>>

\* After TEST_END a receiving client goes on reading its streams, which
\* block again: it can be waiting for the rest of a block.
Drain(c) ==
  /\ cli[c].pc = "select" /\ cli[c].state = "TEST_END" /\ cli[c].mode = "RECEIVER"
  /\ \E i \in 1..cli[c].made : net.end["s"][<<c, i>>] = "open"
  /\ cli' = [cli EXCEPT ![c].pc = "drain"]
  /\ UNCHANGED <<net, srv, reported>>

\* The server sends the rest, or has closed the streams.
Drained(c) ==
  /\ cli[c].pc = "drain"
  /\ \/ srv.state = "TEST_RUNNING" /\ srv.cookie = c
     \/ \A i \in 1..cli[c].made : net.end["s"][<<c, i>>] # "open"
  /\ cli' = [cli EXCEPT ![c].pc = "select"]
  /\ UNCHANGED <<net, srv, reported>>

\* iperf_exchange_results on the client: send, then wait.
SendResults(c) ==
  /\ ClientHas(c, "EXCHANGE_RESULTS")
  /\ \E n \in {Drop(net, "c", Ctrl(c))} :
       ClientSendsOn(n, c, Ctrl(c), "RESULTS",
         [cli[c] EXCEPT !.state = "EXCHANGE_RESULTS", !.pc = "results"])
  /\ UNCHANGED <<srv, reported>>

GetResults(c) ==
  /\ cli[c].pc = "results"
  /\ \E r \in NreadResult(net, "c", Ctrl(c), "RESULTS") :
       IF r = "RESULTS"
       THEN net' = Drop(net, "c", Ctrl(c)) /\ cli' = [cli EXCEPT ![c].pc = "select"]
       ELSE Exit(net, c, "failed")
  /\ UNCHANGED <<srv, reported>>

\* DISPLAY_RESULTS: iperf_client_end says IPERF_DONE, whether or not it can
\* be written, and the program ends well.
iperf_client_end(c) ==
  /\ ClientHas(c, "DISPLAY_RESULTS")
  /\ Exit(Write(Drop(net, "c", Ctrl(c)), "c", Ctrl(c), "IPERF_DONE"), c, "done")
  /\ UNCHANGED <<srv, reported>>

\* The server refuses, reports an error or has gone.
ServerGone(c) ==
  /\ \E m \in {"SERVER_TERMINATE", "ACCESS_DENIED", "SERVER_ERROR", "EOF", "ERROR"} :
       ClientHas(c, m)
  /\ Exit(Drop(net, "c", Ctrl(c)), c, "failed")
  /\ UNCHANGED <<srv, reported>>

\* iperf_send or iperf_recv on a stream that the server has closed.
ClientStreamError(c) ==
  /\ cli[c].pc = "select" /\ cli[c].state = "TEST_RUNNING" /\ cli[c].mode # "RECEIVER"
  /\ \E i \in 1..cli[c].made : net.end["s"][<<c, i>>] # "open"
  /\ Exit(net, c, "failed")
  /\ UNCHANGED <<srv, reported>>

\* The client receives, and nothing came for the --rcv-timeout.
ClientReceiveTimeout(c) ==
  /\ cli[c].pc = "select" /\ cli[c].state = "TEST_RUNNING" /\ cli[c].mode # "SENDER"
  /\ ReadResult(net, "c", Ctrl(c)) = {}
  /\ \A i \in 1..cli[c].made : net.end["s"][<<c, i>>] = "open"
  /\ Exit(net, c, "failed")
  /\ UNCHANGED <<srv, reported>>

\* May client c die where it is?
MayDie(c) == Running(c) /\ (cli[c].pc \in {"cookie", "streamcookie"} => c \in Stray)

\* iperf_got_sigend on the client: tell the server, exit.
ClientInterrupted(c) ==
  /\ "c" \in Interrupted /\ MayDie(c)
  /\ Exit(Write(net, "c", Ctrl(c), "CLIENT_TERMINATE"), c, "failed")
  /\ UNCHANGED <<srv, reported>>

ClientKilled(c) ==
  /\ c \in Killed /\ MayDie(c)
  /\ Exit(net, c, "failed")
  /\ UNCHANGED <<srv, reported>>

\* The client is stopped or hangs; its connections stay open for the server.
ClientSilent(c) ==
  /\ c \in Silent /\ Running(c)
  /\ cli' = [cli EXCEPT ![c].pc = "gone"]
  /\ UNCHANGED <<net, srv, reported>>

ClientStep(c) ==
  \/ iperf_connect(c) \/ SendCookie(c) \/ ParamExchange(c) \/ CreateStreams(c)
  \/ iperf_tcp_connect(c) \/ SendStreamCookie(c) \/ TestStarts(c) \/ TestDone(c)
  \/ Drained(c) \/ SendResults(c) \/ GetResults(c) \/ iperf_client_end(c)
  \/ ServerGone(c)

ClientEvent(c) ==
  \/ Drain(c) \/ ClientStreamError(c) \/ ClientReceiveTimeout(c)
  \/ ClientInterrupted(c) \/ ClientKilled(c) \/ ClientSilent(c)

-----------------------------------------------------------------------------
Init ==
  /\ net = [in |-> [side \in Side |-> [k \in Conn |-> <<>>]],
            end |-> [side \in Side |-> [k \in Conn |-> "none"]],
            backlog |-> <<>>, listening |-> FALSE]
  /\ srv = ResetTest
  /\ cli \in [Client -> [pc : {"connect"}, state : {"0"}, mode : Modes, made : {0}]]
  /\ reported = {}

Next ==
  \/ ServerStep \/ ServerEvent
  \/ \E c \in Client : ClientStep(c) \/ ClientEvent(c)

Spec == Init /\ [][Next]_vars

\* Every process goes on when it can; a timeout and the server's test timer
\* fire in the end if nothing else happens.
FairSpec ==
  /\ Spec
  /\ WF_vars(ServerStep)
  /\ WF_vars(server_timer_proc)
  /\ WF_vars(ReceiveTimeout)
  /\ \A c \in Client : WF_vars(ClientStep(c))
  /\ \A c \in Client : WF_vars(ClientReceiveTimeout(c))

-----------------------------------------------------------------------------
(* Properties *)

\* The type invariant.
TypeOK ==
  /\ net \in [in : [Side -> [Conn -> Seq(Msg)]],
              end : [Side -> [Conn -> {"none", "open", "closed", "reset"}]],
              backlog : Seq(Conn), listening : BOOLEAN]
  /\ srv.pc \in {"down", "select", "cookie", "params", "streamcookie", "start",
                 "timers", "results", "exit"}
  /\ srv.state \in Msg \cup {"0", "IPERF_START"}
  /\ {srv.ctrl, srv.pending} \subseteq Conn \cup {NoConn}
  /\ srv.cookie \in Client \cup {NoConn}
  /\ srv.mode \in {"SENDER", "RECEIVER", "BIDIRECTIONAL"}
  /\ srv.streams \in Seq([conn : Conn, sender : BOOLEAN])
  /\ {srv.done, srv.timer, srv.badfd} \subseteq BOOLEAN
  /\ cli \in [Client ->
       [pc : {"connect", "cookie", "select", "streams", "streamcookie", "results",
              "drain", "done", "failed", "gone"},
        state : Msg \cup {"0"}, mode : Modes, made : 0..2 * NumStreams]]
  /\ reported \subseteq Client

\* When the server has started a test, its streams are exactly the
\* connections its client made for it, in the order in which the client made
\* them, and of each stream one side sends and the other receives: nothing in
\* iperf_tcp_accept or iperf_create_streams says which is which but the order.
StreamsArePaired ==
  srv.state \in {"TEST_START", "TEST_RUNNING"} /\ ~srv.done =>
    \E c \in Client :
      /\ srv.ctrl = <<c, 0>>
      /\ Len(srv.streams) = Streams(cli[c].mode)
      /\ \A i \in DOMAIN srv.streams :
           srv.streams[i] = [conn |-> <<c, i>>, sender |-> ~ClientSends(cli[c].mode, i)]

\* A client runs a test only when the server has taken every connection it
\* made for it out of the backlog: none of them is left to be refused, or
\* reset with a listening socket that is replaced.
TestRunsOnAllStreams ==
  \A c \in Client :
    cli[c].state \in {"TEST_START", "TEST_RUNNING"} =>
      /\ cli[c].made = Streams(cli[c].mode)
      /\ \A i \in 1..cli[c].made : ~Contains(net.backlog, <<c, i>>)

\* A server that waits for its next client has closed the control connection
\* of every client before: none of them waits in select(), which has no
\* timeout there, for a server that has forgotten it.  (Data connections can
\* stay open: when iperf_new_stream fails, nobody closes the new socket.)
IdleServerHoldsNobody ==
  srv.pc = "select" /\ srv.state = "IPERF_START" =>
    \A c \in Client :
      net.end["s"][Ctrl(c)] = "open" /\ net.end["c"][Ctrl(c)] = "open" =>
        Contains(net.backlog, Ctrl(c)) \/ srv.ctrl = Ctrl(c)

\* The server keeps the promises of module Sessions.
ServedConn == IF srv.ctrl = NoConn THEN NoConn ELSE srv.ctrl[1]

S == INSTANCE Sessions WITH
       Nobody <- NoConn,
       serving <- ServedConn,
       outcome <- [c \in Client |->
                     IF cli[c].pc \in {"done", "failed"} THEN cli[c].pc ELSE "pending"]

ServesOneAtATime == S!Spec

\* Every client's program ends, however its run and the server's tests mix.
ClientsFinish == \A c \in Client : <>(cli[c].pc \in {"done", "failed"})

\* No client occupies the server for ever, be it killed, refused or confused.
ServerBecomesFree == \A c \in Client : ServedConn = c ~> ServedConn # c

\* iperf_run_server's comment on its timeouts: a running test in which
\* nothing arrives any more, wherever it got stuck, is forced to end.
RunningTest == srv.state \in {"TEST_RUNNING", "EXCHANGE_RESULTS", "DISPLAY_RESULTS"}
StuckTestEnds == RunningTest ~> ~RunningTest

\* A --one-off server works for one client only, whatever errors and idle
\* restarts its runs end with and whoever waits in the backlog.
OneOffServesOneTest == OneOff => \A c, d \in reported : c = d

\* A --one-off server that has taken a client's results ends, also when the
\* rest of that test fails.
OneOffServerEnds == OneOff /\ reported # {} ~> srv.pc = "exit"

=============================================================================
