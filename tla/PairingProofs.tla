--------------------------- MODULE PairingProofs ---------------------------
(***************************************************************************)
(* That the streams of a test are paired: a proof about module Control, on *)
(* top of the invariant of ControlProofs, for clients that do not die      *)
(* between connect() and the cookie.  (One that does leaves the server with*)
(* the uninitialized buffer of iperf_tcp_accept.)                          *)
(***************************************************************************)
EXTENDS ControlProofs

-----------------------------------------------------------------------------
(* The invariant *)

Has(q, m) == \E i \in DOMAIN q : q[i] = m

\* The server has yet to read the cookie of connection k.
InPlace(k) == Waits(net, k) \/ srv.pending = k \/ (srv.ctrl = k /\ srv.pc = "cookie")

\* The client of connection k has made it and not sent the cookie.
Sending(k) ==
  \/ k[2] = 0 /\ cli[k[1]].pc = "cookie"
  \/ cli[k[1]].pc = "streamcookie" /\ k[2] = cli[k[1]].made + 1

\* The cookie is there or on its way: the server never reads an end of file
\* in its place.
Cookie(k) ==
  /\ net.end["s"][k] = "open"
  /\ \/ Starts(net, "s", k, "COOKIE")
     \/ /\ net.end["c"][k] = "open"
        /\ (Sending(k) /\ net.in["s"][k] = <<>>) \/ cli[k[1]].pc = "gone"

CookieInv == \A k \in Conn : InPlace(k) => Cookie(k)

EmptyInv == \A k \in Conn : net.end["c"][k] = "none" => net.in["s"][k] = <<>>

\* A client makes its data connections one after the other, after it was
\* asked to.
Made(k) ==
  LET c == k[1]
  IN  /\ k[2] <= cli[c].made \/ Sending(k) => net.end["c"][k] # "none"
      /\ net.end["c"][k] # "none" => k[2] <= cli[c].made + 1 /\ k[2] <= Streams(cli[c].mode)
      /\ Fresh(c) \/ Has(net.in["c"][Ctrl(c)], "CREATE_STREAMS") => net.end["c"][k] = "none"
      /\ net.in["s"][k] # <<>> => k[2] <= cli[c].made

MadeInv == \A k \in Conn : k[2] # 0 => Made(k)

\* The server's test is the one client c asked for.
TestIs(c) == srv.cookie = c /\ srv.mode = ServerMode(cli[c].mode)

\* The streams are the connections of client c in the order it made them.
Paired(c) ==
  \A i \in 1..Len(srv.streams) :
    /\ srv.streams[i].conn = <<c, i>> /\ srv.streams[i].sender = StreamFlag(i - 1)
    /\ i <= cli[c].made

\* The i-th connection of client c waits for the server to take it.
Here(c, i) == Waits(net, <<c, i>>) \/ srv.pending = <<c, i>>

Beyond(c) == \A i \in 1..2 * NumStreams : Here(c, i) => i > Len(srv.streams)

Complete(c) ==
  srv.pc \in {"start", "timers"} \/ (srv.state = "TEST_RUNNING" /\ ~srv.done) =>
    Len(srv.streams) = Streams(cli[c].mode)

\* The data connections of client c wait in the order it made them.
Ordered(c) ==
  \A a, b \in DOMAIN net.backlog :
    (/\ net.backlog[a][1] = c /\ net.backlog[b][1] = c
     /\ 0 < net.backlog[a][2] /\ net.backlog[a][2] < net.backlog[b][2]) => a < b

\* While the server collects streams it loses none.
Arriving(c) ==
  srv.state = "CREATE_STREAMS" =>
    /\ Ordered(c)
    /\ \A i \in 1..2 * NumStreams :
         /\ srv.pending = <<c, i>> => i = Len(srv.streams) + 1
         /\ net.end["c"][<<c, i>>] # "none" /\ i > Len(srv.streams) => Here(c, i)

Served(c) == TestIs(c) /\ Paired(c) /\ Beyond(c) /\ Complete(c) /\ Arriving(c)

ServedInv == Serving => Served(srv.ctrl[1])

StateInv ==
  /\ srv.state \in {"TEST_START", "TEST_RUNNING"} => Serving
  /\ srv.state = "TEST_START" => srv.pc = "timers"
  /\ srv.pc = "start" => srv.state = "CREATE_STREAMS"
  /\ srv.timer => Serving /\ srv.state \in {"TEST_RUNNING", "EXCHANGE_RESULTS", "DISPLAY_RESULTS"}
  /\ srv.pc = "params" => srv.cookie = srv.ctrl[1]

\* Client c has made all its connections and the server has taken them.
AllMade(c) ==
  /\ cli[c].made = Streams(cli[c].mode)
  /\ \A i \in 1..2 * NumStreams : ~Waits(net, <<c, i>>)

\* Client c runs its test, or has been told to.
Runs(c) ==
  \/ cli[c].state \in {"TEST_START", "TEST_RUNNING"}
  \/ Has(net.in["c"][Ctrl(c)], "TEST_START") \/ Has(net.in["c"][Ctrl(c)], "TEST_RUNNING")

RunsInv == \A c \in Client : Runs(c) => AllMade(c)

PairInv == CookieInv /\ EmptyInv /\ MadeInv /\ ServedInv /\ StateInv /\ RunsInv

-----------------------------------------------------------------------------
(* What every step of the server keeps *)

LEMMA PairLookup ==
  ASSUME Inv
  PROVE  /\ \A c \in Client : /\ cli[c] \in CliRec /\ cli[c].made \in Int /\ cli[c].made >= 0
                              /\ cli[c].made <= 2 * NumStreams
                              /\ Streams(cli[c].mode) \in Int
                              /\ Streams(cli[c].mode) <= 2 * NumStreams /\ Streams(cli[c].mode) > 0
         /\ srv.streams \in Seq([conn : Conn, sender : BOOLEAN]) /\ Len(srv.streams) \in Nat
         /\ \A c \in Client, i \in 1..2 * NumStreams :
              <<c, i>> \in Conn /\ i \in Int /\ i # 0 /\ <<c, i>>[1] = c /\ <<c, i>>[2] = i
         /\ NumStreams \in Nat \ {0} /\ net.backlog \in Seq(Conn)
         /\ \A k \in Conn : net.in["s"][k] \in Seq(Msg) /\ net.in["c"][k] \in Seq(Msg)
<1>1. /\ net \in NetRec /\ srv \in SrvRec /\ cli \in [Client -> CliRec] /\ NumStreams \in Nat \ {0}
  BY ConnLemma DEF Inv, TypeInv
<1>2. \A c \in Client : cli[c] \in CliRec /\ cli[c].made \in 0..2 * NumStreams
  BY <1>1, CliFields
<1>3. \A c \in Client : /\ Streams(cli[c].mode) \in Int /\ Streams(cli[c].mode) <= 2 * NumStreams
                        /\ Streams(cli[c].mode) > 0
  BY <1>1 DEF Streams
<1>4. srv.streams \in Seq([conn : Conn, sender : BOOLEAN]) /\ Len(srv.streams) \in Nat
  <2>1. srv.streams \in Seq([conn : Conn, sender : BOOLEAN])
    BY <1>1, SrvFields
  <2> QED BY <2>1
<1>5. \A c \in Client, i \in 1..2 * NumStreams :
        <<c, i>> \in Conn /\ i \in Int /\ i # 0 /\ <<c, i>>[1] = c /\ <<c, i>>[2] = i
  BY <1>1 DEF Conn
<1>6. /\ net.backlog \in Seq(Conn)
      /\ \A k \in Conn : net.in["s"][k] \in Seq(Msg) /\ net.in["c"][k] \in Seq(Msg)
  BY <1>1, NetFields, SideLemma
<1> QED BY <1>1, <1>2, <1>3, <1>4, <1>5, <1>6

\* What the server says to a client.
LEMMA ServerHas ==
  ASSUME Inv, NEW ms, NEW to, SrvStep(ms, to), NEW c \in Client, NEW m,
         Has(net'.in["c"][Ctrl(c)], m)
  PROVE  Has(net.in["c"][Ctrl(c)], m) \/ (to = Ctrl(c) /\ Has(ms, m))
<1> DEFINE q == net.in["c"][Ctrl(c)]
           r == net'.in["c"][Ctrl(c)]
<1>1. q \in Seq(Msg) /\ ms \in Seq(Msg) /\ Ctrl(c) \in Conn
  BY PairLookup, ConnLemma DEF SrvStep, SrvSays
<1>2. r = q \/ (r = q \o ms /\ to = Ctrl(c))
  BY <1>1 DEF SrvStep, SrvNet
<1> HIDE DEF q, r
<1>3. \A i \in DOMAIN (q \o ms) : \/ i \in DOMAIN q /\ (q \o ms)[i] = q[i]
                                  \/ i - Len(q) \in DOMAIN ms /\ (q \o ms)[i] = ms[i - Len(q)]
  BY <1>1, ConcatFacts
<1>4. Has(r, m)
  BY DEF r
<1>5. Has(q, m) \/ (to = Ctrl(c) /\ Has(ms, m))
  BY <1>2, <1>3, <1>4 DEF Has
<1> QED BY <1>5 DEF q

LEMMA ServerMade ==
  ASSUME Inv, PairInv, NEW ms, NEW to, SrvStep(ms, to)
  PROVE  MadeInv' /\ EmptyInv'
<1>1. cli' = cli /\ net'.end["c"] = net.end["c"]
  BY DEF SrvStep, SrvNet
<1>2. \A k \in Conn : net.in["s"][k] = <<>> => net'.in["s"][k] = <<>>
  BY DEF SrvStep, SrvNet, Shorter
<1>3. EmptyInv'
  BY <1>1, <1>2 DEF PairInv, EmptyInv
<1>4. ASSUME NEW k \in Conn, k[2] # 0 PROVE Made(k)'
  <2> DEFINE c == k[1]
  <2>1. c \in Client
    BY ConnLemma
  <2>2. Made(k)
    BY <1>4 DEF PairInv, MadeInv
  <2>3. Sending(k)' <=> Sending(k)
    BY <1>1 DEF Sending
  <2>4. Fresh(c)' => Fresh(c)
    BY <2>1, ServerFresh
  <2>5. Has(net'.in["c"][Ctrl(c)], "CREATE_STREAMS") =>
          Has(net.in["c"][Ctrl(c)], "CREATE_STREAMS") \/ Fresh(c)
    <3> SUFFICES ASSUME Has(net'.in["c"][Ctrl(c)], "CREATE_STREAMS")
                 PROVE  Has(net.in["c"][Ctrl(c)], "CREATE_STREAMS") \/ Fresh(c)
      OBVIOUS
    <3>1. Has(net.in["c"][Ctrl(c)], "CREATE_STREAMS") \/ (to = Ctrl(c) /\ Has(ms, "CREATE_STREAMS"))
      BY <2>1, ServerHas
    <3>2. to = Ctrl(c) /\ Has(ms, "CREATE_STREAMS") => Fresh(c)
      BY DEF Has, SrvStep, SrvSays, Fresh
    <3> QED BY <3>1, <3>2
  <2>6. Ctrl(c)' = Ctrl(c)
    BY DEF Ctrl
  <2> HIDE DEF c
  <2>7. /\ k[2] <= cli[c].made \/ Sending(k) => net.end["c"][k] # "none"
        /\ net.end["c"][k] # "none" => k[2] <= cli[c].made + 1 /\ k[2] <= Streams(cli[c].mode)
        /\ Fresh(c) \/ Has(net.in["c"][Ctrl(c)], "CREATE_STREAMS") => net.end["c"][k] = "none"
        /\ net.in["s"][k] # <<>> => k[2] <= cli[c].made
    BY <2>2 DEF Made, c
  <2>8. /\ k[2] <= cli'[c].made \/ Sending(k)' => net'.end["c"][k] # "none"
        /\ net'.end["c"][k] # "none" => k[2] <= cli'[c].made + 1 /\ k[2] <= Streams(cli'[c].mode)
        /\ Fresh(c)' \/ Has(net'.in["c"][Ctrl(c)], "CREATE_STREAMS") => net'.end["c"][k] = "none"
        /\ net'.in["s"][k] # <<>> => k[2] <= cli'[c].made
    BY <1>1, <1>2, <2>3, <2>4, <2>5, <2>7
  <2> QED BY <2>8 DEF Made, c, Ctrl
<1> QED BY <1>3, <1>4 DEF MadeInv

\* A test runs when the server has as many streams as the client makes.
LEMMA StartedLemma ==
  ASSUME Inv, PairInv, NEW c \in Client, srv.ctrl = Ctrl(c), srv.pc \in {"start", "timers"}
  PROVE  AllMade(c)
<1> DEFINE n == Len(srv.streams)
           s == Streams(cli[c].mode)
           m == cli[c].made
<1>1. n = s /\ Paired(c) /\ Beyond(c)
  <2>1. Serving /\ srv.ctrl[1] = c
    BY ConnLemma DEF Serving
  <2> QED BY <2>1 DEF PairInv, ServedInv, Served, Complete
<1>2. n \in Nat /\ s \in Int /\ s > 0 /\ s <= 2 * NumStreams /\ m \in Int /\ m >= 0 /\ m <= 2 * NumStreams
      /\ NumStreams \in Nat
  BY PairLookup
<1>3. s <= m
  <2>1. n \in 1..n
    BY <1>1, <1>2
  <2> QED BY <1>1, <2>1 DEF Paired
<1>4. m <= s
  <2>1. m \in 1..2 * NumStreams
    BY <1>2, <1>3
  <2>2. Made(<<c, m>>)
    BY <2>1, PairLookup DEF PairInv, MadeInv
  <2> QED BY <1>2, <2>1, <2>2, PairLookup DEF Made
<1>5. ASSUME NEW i \in 1..2 * NumStreams, Waits(net, <<c, i>>) PROVE FALSE
  <2>1. <<c, i>> \in Conn /\ i \in Int /\ i # 0 /\ <<c, i>>[1] = c /\ <<c, i>>[2] = i
    BY PairLookup
  <2>2. i > n
    BY <1>1, <1>5 DEF Beyond, Here
  <2>3. net.end["c"][<<c, i>>] # "none"
    BY <1>5, <2>1 DEF Inv, PlaceInv
  <2>4. Made(<<c, i>>)
    BY <2>1 DEF PairInv, MadeInv
  <2>5. i <= s
    BY <2>1, <2>3, <2>4 DEF Made
  <2> QED BY <1>1, <1>2, <2>1, <2>2, <2>5
<1>6. m = s
  BY <1>2, <1>3, <1>4
<1> QED BY <1>5, <1>6 DEF AllMade

LEMMA ServerRuns ==
  ASSUME Inv, PairInv, NEW ms, NEW to, SrvStep(ms, to)
  PROVE  RunsInv'
<1> SUFFICES ASSUME NEW c \in Client, Runs(c)' PROVE AllMade(c)'
  BY DEF RunsInv
<1>1. cli' = cli
  BY DEF SrvStep
<1>2. \A i \in 1..2 * NumStreams : Waits(net', <<c, i>>) => Waits(net, <<c, i>>)
  BY WaitsAfter, PairLookup DEF SrvStep
<1>3. AllMade(c)
  <2>1. CASE Runs(c)
    BY <2>1 DEF PairInv, RunsInv
  <2>2. CASE ~Runs(c)
    <3>1. PICK m \in {"TEST_START", "TEST_RUNNING"} : Has(net'.in["c"][Ctrl(c)], m)
      BY <1>1, <2>2 DEF Runs, Ctrl
    <3>2. to = Ctrl(c) /\ Has(ms, m)
      BY <2>2, <3>1, ServerHas DEF Runs
    <3>3. srv.ctrl = Ctrl(c) /\ srv.pc \in {"start", "timers"}
      BY <3>1, <3>2 DEF Has, SrvStep, SrvSays
    <3> QED BY <3>3, StartedLemma
  <2> QED BY <2>1, <2>2
<1> QED BY <1>1, <1>2, <1>3 DEF AllMade

-----------------------------------------------------------------------------
(* The steps of the server *)

\* What waits to be read has waited before and is left alone.
KeepsPlaces ==
  \A k \in Conn : InPlace(k)' =>
    InPlace(k) /\ net'.end["s"][k] = net.end["s"][k] /\ net'.in["s"][k] = net.in["s"][k]

PairStep == KeepsPlaces /\ ServedInv' /\ StateInv'

LEMMA ServerPairs ==
  ASSUME Inv, PairInv, NEW ms, NEW to, SrvStep(ms, to), PairStep
  PROVE  PairInv'
<1>1. MadeInv' /\ EmptyInv' /\ RunsInv'
  BY ServerMade, ServerRuns
<1>2. cli' = cli /\ net'.end["c"] = net.end["c"]
  BY DEF SrvStep, SrvNet
<1>3. ASSUME NEW k \in Conn, InPlace(k)' PROVE Cookie(k)'
  <2>1. Cookie(k) /\ net'.end["s"][k] = net.end["s"][k] /\ net'.in["s"][k] = net.in["s"][k]
    BY <1>3 DEF PairInv, CookieInv, PairStep, KeepsPlaces
  <2> QED BY <1>2, <2>1 DEF Cookie, Starts, Sending
<1> QED BY <1>1, <1>3 DEF PairInv, CookieInv, PairStep

\* The server's test has ended.
Ended ==
  /\ net'.backlog = <<>> /\ srv'.pc \in {"down", "exit"} /\ srv'.state = "0"
  /\ srv'.ctrl = NoConn /\ srv'.pending = NoConn /\ srv'.timer = FALSE

LEMMA EndedPairs ==
  ASSUME Ended
  PROVE  PairStep
<1>1. ~Serving'
  BY DEF Ended, Serving
<1>2. \A k \in Conn : ~InPlace(k)'
  BY ConnLemma DEF Ended, InPlace, Waits
<1> QED BY <1>1, <1>2 DEF Ended, PairStep, KeepsPlaces, ServedInv, StateInv

LEMMA ListenerClosed ==
  ASSUME NEW n \in NetRec, NEW ks, net' = CloseListener(Close(n, "s", ks)),
         NEW pc \in {"down", "exit"}, srv' = ResetPc(pc)
  PROVE  Ended
<1> DEFINE m == Close(n, "s", ks)
<1>1. m \in NetRec
  BY CloseLemma, SideLemma DEF IsClosed
<1>2. net' = CloseListener(m)
  OBVIOUS
<1> HIDE DEF m
<1>3. net'.backlog = <<>>
  BY <1>1, <1>2, CloseListenerLemma DEF IsUnbound
<1> QED BY <1>3, ResetFields DEF Ended

LEMMA CleanupEnds ==
  ASSUME NEW n \in NetRec, NEW rc, NEW err, cleanup_server(n, rc, err)
  PROVE  Ended
<1> DEFINE ks == IF Leaves(rc, err) THEN Conn ELSE StreamConns \cup {srv.ctrl}
           pc == IF Leaves(rc, err) THEN "exit" ELSE "down"
<1>1. net' = CloseListener(Close(n, "s", ks)) /\ srv' = ResetPc(pc) /\ pc \in {"down", "exit"}
  BY DEF cleanup_server, ResetPc
<1> HIDE DEF ks, pc
<1> QED BY <1>1, ListenerClosed

\* n is net after some of: a read, writes to clients, closing and making a
\* listening socket again, closing connections; of what still waits, and of
\* what did not wait before, only the connections X are touched.
Calm(n, X) ==
  /\ n \in NetRec
  /\ n.backlog = net.backlog \/ n.backlog = <<>>
  /\ \A k \in Conn : k \notin X /\ (Waits(net, k) => Waits(n, k)) =>
       n.end["s"][k] = net.end["s"][k] /\ n.in["s"][k] = net.in["s"][k]

LEMMA CalmSame ==
  ASSUME net \in NetRec, NEW X
  PROVE  Calm(net, X)
BY DEF Calm

LEMMA CalmRead ==
  ASSUME net \in NetRec, NEW X, NEW k \in Conn, k \in X
  PROVE  Calm(Drop(net, "s", k), X)
<1>1. IsRead(Drop(net, "s", k), net, "s", k)
  BY ReadLemma, SideLemma
<1> QED BY <1>1 DEF IsRead, Calm

LEMMA CalmWrite ==
  ASSUME NEW n, NEW X, Calm(n, X), NEW k \in Conn, NEW ms \in Seq(Msg)
  PROVE  Calm(WriteAll(n, "s", k, ms), X)
<1> DEFINE m == WriteAll(n, "s", k, ms)
<1>1. IsWritten(m, n, "s", k, ms)
  BY WriteLemma, SideLemma DEF Calm
<1> HIDE DEF m
<1>2. m \in NetRec /\ m.end = n.end /\ m.backlog = n.backlog /\ m.in["s"] = n.in["s"]
  BY <1>1 DEF IsWritten
<1>3. \A j \in Conn : Waits(m, j) <=> Waits(n, j)
  BY <1>2 DEF Waits
<1>4. Calm(m, X)
  BY <1>2, <1>3 DEF Calm
<1> QED BY <1>4 DEF m

LEMMA CalmRelisten ==
  ASSUME NEW n, NEW X, Calm(n, X)
  PROVE  Calm(Relisten(n), X)
<1> DEFINE m == Relisten(n)
<1>1. IsUnbound(m, n)
  BY CloseListenerLemma DEF Calm
<1> HIDE DEF m
<1>2. /\ m \in NetRec /\ m.backlog = <<>>
      /\ \A j \in Conn : /\ m.in["s"][j] = IF Waits(n, j) THEN <<>> ELSE n.in["s"][j]
                         /\ m.end["s"][j] = IF Waits(n, j) THEN "reset" ELSE n.end["s"][j]
  BY <1>1 DEF IsUnbound
<1>3. \A j \in Conn : ~Waits(m, j) /\ (Waits(n, j) => Waits(net, j))
  BY <1>2 DEF Waits, Calm
<1>4. Calm(m, X)
  BY <1>2, <1>3 DEF Calm
<1> QED BY <1>4 DEF m

LEMMA CalmClose ==
  ASSUME NEW n, NEW X, Calm(n, X), NEW ks, ks \subseteq X
  PROVE  Calm(Close(n, "s", ks), X)
<1> DEFINE m == Close(n, "s", ks)
<1>1. IsClosed(m, n, "s", ks)
  BY CloseLemma, SideLemma DEF Calm
<1> HIDE DEF m
<1>2. /\ m \in NetRec /\ m.backlog = n.backlog
      /\ \A j \in Conn : j \notin ks => m.in["s"][j] = n.in["s"][j] /\ m.end["s"][j] = n.end["s"][j]
  BY <1>1 DEF IsClosed
<1>3. \A j \in Conn : Waits(m, j) <=> Waits(n, j)
  BY <1>2 DEF Waits
<1>4. Calm(m, X)
  BY <1>2, <1>3 DEF Calm
<1> QED BY <1>4 DEF m

LEMMA CalmSend ==
  ASSUME NEW n, NEW X, Calm(n, X), NEW m \in Msg, NEW next, iperf_set_send_state(n, m, next),
         srv.ctrl \in Conn
  PROVE  Ended \/ (Calm(net', X) /\ srv' = [next EXCEPT !.state = m])
<1>1. CASE net' = Write(n, "s", srv.ctrl, m) /\ srv' = [next EXCEPT !.state = m]
  <2>1. <<m>> \in Seq(Msg)
    OBVIOUS
  <2> QED BY <1>1, <2>1, CalmWrite DEF Write
<1>2. CASE cleanup_server(n, -1, "IESENDMESSAGE")
  BY <1>2, CleanupEnds DEF Calm
<1> QED BY <1>1, <1>2 DEF iperf_set_send_state

LEMMA CalmPlaces ==
  ASSUME Inv, NEW X, Calm(net', X), srv'.pc # "cookie", srv'.pending \in {srv.pending, NoConn},
         \A k \in X : ~Waits(net, k) /\ k # srv'.pending
  PROVE  KeepsPlaces
<1> SUFFICES ASSUME NEW k \in Conn, InPlace(k)'
             PROVE  InPlace(k) /\ net'.end["s"][k] = net.end["s"][k] /\ net'.in["s"][k] = net.in["s"][k]
  BY DEF KeepsPlaces
<1>1. Waits(net', k) => Waits(net, k)
  BY DEF Calm, Waits
<1>2. Waits(net', k) \/ (srv'.pending = k /\ srv.pending = k)
  BY ConnLemma DEF InPlace
<1>3. k \notin X /\ InPlace(k)
  BY <1>1, <1>2 DEF InPlace
<1>4. Waits(net, k) => Waits(net', k)
  BY <1>2 DEF Inv, PlaceInv
<1> QED BY <1>3, <1>4 DEF Calm

\* Two states of the server with the same test.
SameTest(y, x) ==
  /\ y \in SrvRec /\ y.ctrl = x.ctrl /\ y.cookie = x.cookie /\ y.mode = x.mode
  /\ y.streams = x.streams /\ y.pending = x.pending

LEMMA ServingClient ==
  ASSUME Inv, Serving
  PROVE  \E c \in Client : srv.ctrl = Ctrl(c)
<1>1. srv.ctrl \in Conn /\ srv.ctrl[2] = 0
  BY ServerLookup DEF Inv, PcInv, Serving
<1> QED BY <1>1, ConnLemma

LEMMA ServedGoesOn ==
  ASSUME Inv, ServedInv, Serving, SameTest(srv', srv), cli' = cli,
         \A k \in Conn : Waits(net', k) => Waits(net, k), srv'.state # "CREATE_STREAMS",
         srv'.pc \in {"start", "timers"} \/ (srv'.state = "TEST_RUNNING" /\ ~srv'.done) =>
           srv.pc \in {"start", "timers"} \/ (srv.state = "TEST_RUNNING" /\ ~srv.done)
  PROVE  ServedInv'
<1>0. PICK c \in Client : srv.ctrl = Ctrl(c)
  BY ServingClient
<1>1. Served(c) /\ srv'.ctrl[1] = c
  BY <1>0, ConnLemma DEF ServedInv, SameTest
<1>2. TestIs(c)'
  BY <1>1 DEF Served, TestIs, SameTest
<1>3. Paired(c)'
  BY <1>1 DEF Served, Paired, SameTest, StreamFlag
<1>4. \A i \in 1..2 * NumStreams : Here(c, i)' => Here(c, i)
  BY PairLookup DEF Here, SameTest
<1>5. Beyond(c)'
  BY <1>1, <1>4 DEF Served, Beyond, SameTest
<1>6. Complete(c)' /\ Arriving(c)'
  BY <1>1 DEF Served, Complete, Arriving, SameTest
<1> QED BY <1>1, <1>2, <1>3, <1>5, <1>6 DEF ServedInv, Served

\* The steps that only end the test.
LEMMA EndsPair ==
  ASSUME Inv, \/ NoParameters \/ NoResults \/ ClientGone \/ BadMessage \/ SelectFails
              \/ ReceiveTimeout \/ RateExceeded \/ ServerStreamError \/ IdleRestart
              \/ NotAuthorized \/ StreamListenFails \/ ServerInterrupted
  PROVE  PairStep
<1>1. net \in NetRec
  BY ServerLookup
<1>2. \A k \in Conn : Drop(net, "s", k) \in NetRec
  BY <1>1, ReadLemma, SideLemma DEF IsRead
<1>3. CASE ClientGone \/ BadMessage
  <2>1. srv.ctrl \in Conn
    BY <1>3, ServerLookup DEF ClientGone, BadMessage, HasMessage
  <2>2. \/ cleanup_server(Drop(net, "s", srv.ctrl), 0, "IECTRLCLOSE")
        \/ cleanup_server(Drop(net, "s", srv.ctrl), -1, "IERECVMESSAGE")
    BY <1>3 DEF ClientGone, BadMessage
  <2> QED BY <1>2, <2>1, <2>2, CleanupEnds, EndedPairs
<1>4. CASE \/ NoParameters \/ NoResults \/ SelectFails \/ ReceiveTimeout \/ RateExceeded
           \/ ServerStreamError
  <2>1. \E err \in {"IERECVPARAMS", "IERECVRESULTS", "IESELECT", "IENOMSG", "IETOTALRATE",
                    "IESTREAMWRITE"} : cleanup_server(net, -1, err)
    BY <1>4 DEF NoParameters, NoResults, SelectFails, ReceiveTimeout, RateExceeded,
       ServerStreamError
  <2> QED BY <1>1, <2>1, CleanupEnds, EndedPairs
<1>5. CASE IdleRestart
  <2>1. \E err : cleanup_server(net, 2, err)
    BY <1>5, Zenon DEF IdleRestart
  <2> QED BY <1>1, <2>1, CleanupEnds, EndedPairs
<1>6. CASE NotAuthorized \/ StreamListenFails
  <2> DEFINE n == Drop(net, "s", srv.ctrl)
             say(sent) == SubSeq(<<"SERVER_ERROR", "ERR", "ERR">>, 1, sent)
  <2>1. n \in NetRec /\ srv.ctrl \in Conn
    BY <1>2, <1>6, ServerLookup DEF NotAuthorized, StreamListenFails, HasParameters
  <2>2. PICK sent, err : /\ sent \in 0..3
                         /\ cleanup_server(WriteAll(n, "s", srv.ctrl, say(sent)), -1, err)
    <3>1. PICK codes, e : codes \in {1, 2} /\ ServerError(n, codes, e)
      BY <1>6 DEF NotAuthorized, StreamListenFails
    <3>2. {codes + 1} \subseteq 0..3 /\ 0..codes + 1 \subseteq 0..3
      BY <3>1
    <3> QED BY <3>1, <3>2 DEF ServerError
  <2> DEFINE ms == say(sent)
  <2>3. ms \in Seq(Msg)
    <3> DEFINE all == <<"SERVER_ERROR", "ERR", "ERR">>
    <3>1. all \in Seq(Msg) /\ Len(all) = 3
      BY MsgLemma
    <3> HIDE DEF all
    <3> QED BY <2>2, <3>1 DEF all
  <2>4. cleanup_server(WriteAll(n, "s", srv.ctrl, ms), -1, err)
    BY <2>2
  <2> HIDE DEF n, ms
  <2>5. WriteAll(n, "s", srv.ctrl, ms) \in NetRec
    BY <2>1, <2>3, WriteLemma, SideLemma DEF IsWritten
  <2> QED BY <2>4, <2>5, CleanupEnds, EndedPairs
<1>7. CASE ServerInterrupted
  <2> DEFINE ms == <<"SERVER_TERMINATE">>
             n == IF srv.ctrl = NoConn THEN net ELSE WriteAll(net, "s", srv.ctrl, ms)
  <2>1. net' = CloseListener(Close(n, "s", Conn)) /\ srv' = ResetPc("exit")
    BY <1>7 DEF ServerInterrupted, Write, ResetPc
  <2>2. ms \in Seq(Msg)
    BY MsgLemma
  <2>3. n \in NetRec
    BY <1>1, <2>2, ServerLookup, WriteLemma, SideLemma DEF IsWritten
  <2> HIDE DEF n
  <2> QED BY <2>1, <2>3, ListenerClosed, EndedPairs
<1> QED BY <1>3, <1>4, <1>5, <1>6, <1>7

LEMMA ListenPairs ==
  ASSUME Inv, PairInv, iperf_server_listen
  PROVE  PairStep
<1>1. /\ srv.pc = "down" /\ srv.ctrl = NoConn /\ srv.pending = NoConn /\ net \in NetRec
      /\ srv \in SrvRec
  BY ServerLookup DEF iperf_server_listen, Inv, PcInv
<1>2. /\ srv'.ctrl = srv.ctrl /\ srv'.pending = srv.pending /\ srv'.timer = srv.timer
      /\ \/ srv'.pc = "select" /\ srv'.state = "IPERF_START"
         \/ srv'.pc = "exit" /\ srv'.state = srv.state
  BY <1>1 DEF iperf_server_listen, SrvRec
<1>3. net'.in = net.in /\ net'.end = net.end /\ net'.backlog = net.backlog
  BY <1>1 DEF iperf_server_listen, NetRec
<1>4. KeepsPlaces
  BY <1>1, <1>2, <1>3, ConnLemma DEF KeepsPlaces, InPlace, Waits
<1>5. ~Serving /\ ~Serving'
  BY <1>1, <1>2 DEF Serving
<1>6. StateInv'
  BY <1>1, <1>2, <1>5 DEF StateInv, PairInv
<1> QED BY <1>4, <1>5, <1>6 DEF PairStep, ServedInv

LEMMA AcceptPairs ==
  ASSUME Inv, PairInv, iperf_accept
  PROVE  PairStep
<1>1. /\ srv.pc = "select" /\ net.backlog # <<>> /\ srv.ctrl = NoConn /\ net \in NetRec
      /\ srv \in SrvRec /\ srv.pending = NoConn /\ ~Serving
  BY ServerLookup DEF iperf_accept, Selecting, Serving
<1>2. CASE cleanup_server(net, -1, "IEACCEPT")
  BY <1>1, <1>2, CleanupEnds, EndedPairs
<1>3. CASE /\ srv' = [srv EXCEPT !.ctrl = Head(net.backlog), !.pc = "cookie"]
           /\ net' = [net EXCEPT !.backlog = Tail(@)]
  <2> DEFINE h == Head(net.backlog)
  <2>1. /\ net'.in = net.in /\ net'.end = net.end /\ net'.backlog = Tail(net.backlog)
        /\ h \in Conn /\ Waits(net, h)
    BY <1>1, <1>3, TakeNet
  <2>2. srv' = [srv EXCEPT !.ctrl = h, !.pc = "cookie"]
    BY <1>3
  <2> HIDE DEF h
  <2>3. /\ srv'.ctrl = h /\ srv'.pc = "cookie" /\ srv'.pending = NoConn /\ srv'.state = srv.state
        /\ srv'.timer = srv.timer
    BY <1>1, <2>2 DEF SrvRec
  <2>4. \A k \in Conn : Waits(net', k) => Waits(net, k)
    <3>1. net.backlog \in Seq(Conn)
      BY <1>1, NetFields
    <3>2. \A i \in DOMAIN Tail(net.backlog) :
            i + 1 \in DOMAIN net.backlog /\ Tail(net.backlog)[i] = net.backlog[i + 1]
      BY <1>1, <3>1, TailFacts
    <3> QED BY <2>1, <3>2 DEF Waits
  <2>5. KeepsPlaces
    BY <2>1, <2>3, <2>4, ConnLemma DEF KeepsPlaces, InPlace
  <2>6. ~Serving'
    BY <2>3 DEF Serving
  <2>7. StateInv'
    BY <1>1, <2>3 DEF StateInv, PairInv
  <2> QED BY <2>5, <2>6, <2>7 DEF PairStep, ServedInv
<1> QED BY <1>2, <1>3 DEF iperf_accept

\* The server reads the cookie of its new client, not the end of its
\* connection.
LEMMA CookieRead ==
  ASSUME Inv, PairInv, NEW k \in Conn, InPlace(k), NEW r \in NreadResult(net, "s", k, "COOKIE")
  PROVE  /\ r \in {"COOKIE", "ERROR"}
         /\ r = "COOKIE" => Starts(net, "s", k, "COOKIE")
<1>1. Cookie(k)
  BY DEF PairInv, CookieInv
<1> QED BY <1>1, SideLemma DEF NreadResult, Cookie

LEMMA AcceptCookiePairs ==
  ASSUME Inv, PairInv, AcceptCookie
  PROVE  PairStep
<1>1. /\ srv.pc = "cookie" /\ srv.ctrl \in Conn /\ net \in NetRec /\ srv \in SrvRec
      /\ srv.pending = NoConn /\ ~Serving
  BY ServerLookup DEF AcceptCookie, Serving
<1>2. PICK r \in NreadResult(net, "s", srv.ctrl, "COOKIE") :
        IF r = "ERROR" THEN cleanup_server(net, -1, "IERECVCOOKIE")
        ELSE \E n \in {IF r = "COOKIE" THEN Drop(net, "s", srv.ctrl) ELSE net} :
          iperf_set_send_state(n, "PARAM_EXCHANGE",
            [srv EXCEPT !.pc = "params",
                        !.cookie = IF r = "COOKIE" THEN srv.ctrl[1] ELSE NoConn])
  BY DEF AcceptCookie
<1>3. r \in {"COOKIE", "ERROR"}
  BY <1>1, <1>2, CookieRead DEF InPlace
<1>4. CASE r = "ERROR"
  BY <1>1, <1>2, <1>4, CleanupEnds, EndedPairs
<1>5. CASE r = "COOKIE"
  <2> DEFINE n == Drop(net, "s", srv.ctrl)
             c == srv.ctrl[1]
             next == [srv EXCEPT !.pc = "params", !.cookie = c]
             X == {srv.ctrl}
  <2>1. iperf_set_send_state(n, "PARAM_EXCHANGE", next)
    BY <1>2, <1>5
  <2>2. Calm(n, X) /\ c \in Client
    BY <1>1, CalmRead, ConnLemma
  <2>3. next \in SrvRec /\ next.pc = "params" /\ next.cookie = c /\ next.ctrl = srv.ctrl
        /\ next.pending = srv.pending /\ next.timer = srv.timer
    BY <1>1, <2>2 DEF SrvRec
  <2> HIDE DEF n, next, X
  <2>4. Ended \/ (Calm(net', X) /\ srv' = [next EXCEPT !.state = "PARAM_EXCHANGE"])
    BY <1>1, <2>1, <2>2, CalmSend, MsgLemma
  <2>5. CASE Calm(net', X) /\ srv' = [next EXCEPT !.state = "PARAM_EXCHANGE"]
    <3>1. /\ srv'.pc = "params" /\ srv'.cookie = c /\ srv'.ctrl = srv.ctrl
          /\ srv'.pending = srv.pending /\ srv'.timer = srv.timer /\ srv'.state = "PARAM_EXCHANGE"
      BY <2>3, <2>5, MsgLemma DEF SrvRec
    <3>2. \A k \in X : ~Waits(net, k) /\ k # srv'.pending
      BY <1>1, <3>1, ConnLemma DEF X, Inv, PlaceInv
    <3>3. KeepsPlaces
      BY <2>5, <3>1, <3>2, CalmPlaces
    <3>4. ~Serving'
      BY <3>1 DEF Serving
    <3>5. StateInv'
      BY <1>1, <3>1 DEF StateInv, PairInv
    <3> QED BY <3>3, <3>4, <3>5 DEF PairStep, ServedInv
  <2> QED BY <2>4, <2>5, EndedPairs
<1> QED BY <1>3, <1>4, <1>5

\* A state of the server in which only pc, state, mode, done or timer have
\* changed.
LEMMA StateFields ==
  ASSUME NEW x \in SrvRec, NEW m \in Msg
  PROVE  LET y == [x EXCEPT !.state = m]
         IN  /\ SameTest(y, x) /\ y.pc = x.pc /\ y.state = m /\ y.done = x.done /\ y.timer = x.timer
<1> DEFINE y == [x EXCEPT !.state = m]
<1>1. y \in SrvRec /\ y.pc = x.pc /\ y.state = m /\ y.done = x.done /\ y.timer = x.timer
      /\ y.ctrl = x.ctrl /\ y.cookie = x.cookie /\ y.mode = x.mode
      /\ y.streams = x.streams /\ y.pending = x.pending
  BY DEF SrvRec
<1> QED BY <1>1 DEF SameTest

\* No data connection waits, or is made, before the client is asked for it.
LEMMA FreshLemma ==
  ASSUME Inv, PairInv, NEW c \in Client, Fresh(c), NEW i \in 1..2 * NumStreams
  PROVE  net.end["c"][<<c, i>>] = "none" /\ ~Waits(net, <<c, i>>)
<1>1. <<c, i>> \in Conn /\ <<c, i>>[2] # 0 /\ <<c, i>>[1] = c
  BY PairLookup
<1>2. Made(<<c, i>>)
  BY <1>1 DEF PairInv, MadeInv
<1>3. net.end["c"][<<c, i>>] = "none"
  BY <1>1, <1>2 DEF Made
<1> QED BY <1>1, <1>3 DEF Inv, PlaceInv

LEMMA ExchangeParametersPairs ==
  ASSUME Inv, PairInv, iperf_exchange_parameters, NEW ms, NEW to, SrvStep(ms, to)
  PROVE  PairStep
<1>1. /\ srv.pc = "params" /\ srv.ctrl \in Conn /\ cli' = cli /\ ~Serving
      /\ net \in NetRec /\ srv \in SrvRec /\ Starts(net, "s", srv.ctrl, "PARAMS")
      /\ srv.pending = NoConn
  BY ServerLookup DEF iperf_exchange_parameters, HasParameters, Serving
<1>2. srv.ctrl[2] = 0
  BY <1>1, HeadLemma
<1>3. PICK c \in Client : srv.ctrl = Ctrl(c)
  BY <1>1, <1>2, ConnLemma
<1>4. srv.ctrl[1] = c /\ srv.cookie = c /\ Fresh(c) /\ srv.streams = <<>> /\ ~srv.timer
  BY <1>1, <1>3, ConnLemma DEF Fresh, PairInv, StateInv, Inv, PcInv
<1> DEFINE read == Drop(net, "s", srv.ctrl)
           n == IF srv.ctrl[1] \in Multipath \cup SocketOptions THEN Relisten(read) ELSE read
           mode == ServerMode(cli[c].mode)
           next == [srv EXCEPT !.pc = "select", !.mode = mode]
           X == {srv.ctrl}
<1>5. Calm(n, X)
  BY <1>1, CalmRead, CalmRelisten
<1>6. \/ iperf_set_send_state(n, "CREATE_STREAMS", next)
      \/ cleanup_server(Write(n, "s", srv.ctrl, "CREATE_STREAMS"), -1, "IEAFFINITY")
  BY <1>4 DEF iperf_exchange_parameters
<1>7. mode \in Mode
  BY ModeLemma
<1> HIDE DEF n, mode, X
<1>8. next \in SrvRec /\ next.pc = "select"
      /\ next.ctrl = srv.ctrl /\ next.cookie = srv.cookie /\ next.mode = mode
      /\ next.streams = srv.streams /\ next.pending = srv.pending /\ next.timer = srv.timer
  BY <1>1, <1>7 DEF SrvRec
<1> HIDE DEF next
<1>9. CASE cleanup_server(Write(n, "s", srv.ctrl, "CREATE_STREAMS"), -1, "IEAFFINITY")
  <2> DEFINE q == <<"CREATE_STREAMS">>
  <2>1. q \in Seq(Msg)
    BY MsgLemma
  <2>2. WriteAll(n, "s", srv.ctrl, q) \in NetRec
    BY <1>1, <1>5, <2>1, CalmWrite DEF Calm
  <2> QED BY <1>9, <2>2, CleanupEnds, EndedPairs DEF Write
<1>10. CASE iperf_set_send_state(n, "CREATE_STREAMS", next)
  <2>1. Ended \/ (Calm(net', X) /\ srv' = [next EXCEPT !.state = "CREATE_STREAMS"])
    BY <1>1, <1>5, <1>10, CalmSend, MsgLemma
  <2>2. CASE Calm(net', X) /\ srv' = [next EXCEPT !.state = "CREATE_STREAMS"]
    <3>1. SameTest(srv', next) /\ srv'.pc = "select" /\ srv'.state = "CREATE_STREAMS"
          /\ srv'.timer = srv.timer
      BY <1>8, <2>2, StateFields, MsgLemma
    <3>2. /\ srv'.ctrl = Ctrl(c) /\ srv'.ctrl[1] = c /\ srv'.cookie = c /\ srv'.mode = mode
          /\ srv'.streams = <<>> /\ srv'.pending = NoConn /\ Len(srv'.streams) = 0
      BY <1>1, <1>3, <1>4, <1>8, <3>1 DEF SameTest
    <3>3. KeepsPlaces
      <4>1. \A k \in X : ~Waits(net, k) /\ k # srv'.pending
        BY <1>1, <3>2, ConnLemma DEF X, Inv, PlaceInv
      <4> QED BY <1>1, <2>2, <3>1, <3>2, <4>1, CalmPlaces
    <3>4. \A i \in 1..2 * NumStreams : /\ net'.end["c"][<<c, i>>] = "none" /\ ~Waits(net', <<c, i>>)
                                       /\ <<c, i>> # NoConn
      <4>1. \A k : Waits(net', k) => Waits(net, k)
        BY <2>2 DEF Calm, Waits
      <4>2. net'.end["c"] = net.end["c"]
        BY DEF SrvStep, SrvNet
      <4> QED BY <1>4, <4>1, <4>2, FreshLemma, PairLookup, ConnLemma
    <3>5. TestIs(c)' /\ Paired(c)' /\ Beyond(c)' /\ Complete(c)'
      BY <1>1, <3>1, <3>2, <3>4 DEF TestIs, mode, Paired, Beyond, Here, Complete
    <3>6. Ordered(c)'
      <4> SUFFICES ASSUME NEW a \in DOMAIN net'.backlog, net'.backlog[a][1] = c,
                          0 < net'.backlog[a][2]
                   PROVE  FALSE
        BY DEF Ordered
      <4> DEFINE k == net'.backlog[a]
      <4>1. k \in Conn
        BY NetFields DEF SrvStep, SrvNet
      <4>2. k = <<c, k[2]>> /\ k[2] \in 1..2 * NumStreams
        BY <4>1, ConnLemma
      <4>3. Waits(net', k)
        BY DEF Waits
      <4> HIDE DEF k
      <4> QED BY <3>4, <4>2, <4>3
    <3>7. Arriving(c)'
      BY <3>2, <3>4, <3>6 DEF Arriving
    <3>8. StateInv'
      BY <1>4, <3>1 DEF StateInv
    <3> QED BY <3>2, <3>3, <3>5, <3>7, <3>8 DEF PairStep, ServedInv, Served
  <2> QED BY <2>1, <2>2, EndedPairs
<1> QED BY <1>6, <1>9, <1>10

LEMMA StartTestPairs ==
  ASSUME Inv, PairInv, StartTest \/ RunTest
  PROVE  PairStep
<1>1. /\ srv.pc \in {"start", "timers"} /\ srv.ctrl \in Conn /\ cli' = cli /\ Serving
      /\ net \in NetRec /\ srv \in SrvRec /\ srv.pending = NoConn
  BY ServerLookup DEF StartTest, RunTest, Serving
<1>2. ASSUME NEW n, Calm(n, {}), NEW m \in {"TEST_START", "TEST_RUNNING"}, NEW next,
             iperf_set_send_state(n, m, next), SameTest(next, srv),
             \/ m = "TEST_START" /\ next.pc = "timers" /\ next.timer = srv.timer /\ srv.pc = "start"
             \/ m = "TEST_RUNNING" /\ next.pc = "select"
      PROVE  PairStep
  <2>1. m \in Msg /\ next \in SrvRec
    BY <1>2, MsgLemma DEF SameTest
  <2>2. Ended \/ (Calm(net', {}) /\ srv' = [next EXCEPT !.state = m])
    BY <1>1, <1>2, <2>1, CalmSend
  <2>3. CASE Calm(net', {}) /\ srv' = [next EXCEPT !.state = m]
    <3>1. SameTest(srv', srv) /\ srv'.pc = next.pc /\ srv'.state = m /\ srv'.timer = next.timer
      BY <1>2, <2>1, <2>3, StateFields DEF SameTest
    <3>2. KeepsPlaces
      BY <1>1, <1>2, <2>3, <3>1, CalmPlaces DEF SameTest
    <3>3. \A k \in Conn : Waits(net', k) => Waits(net, k)
      BY <2>3 DEF Calm, Waits
    <3>4. ServedInv'
      BY <1>1, <1>2, <3>1, <3>3, ServedGoesOn DEF PairInv
    <3>5. Serving'
      BY <1>1, <1>2, <3>1, ConnLemma DEF Serving, SameTest
    <3>6. StateInv'
      BY <1>2, <3>1, <3>5 DEF StateInv, PairInv
    <3> QED BY <3>2, <3>4, <3>6 DEF PairStep
  <2> QED BY <2>2, <2>3, EndedPairs
<1>3. CASE StartTest
  <2> DEFINE n == IF srv.ctrl[1] \in SocketOptions THEN Relisten(net) ELSE net
             next == [srv EXCEPT !.pc = "timers"]
  <2>1. Calm(n, {})
    BY <1>1, CalmSame, CalmRelisten
  <2>2. \/ cleanup_server(n, -1, "IELISTEN") \/ cleanup_server(n, -1, "IETOTALRATE")
        \/ iperf_set_send_state(n, "TEST_START", next)
    BY <1>3 DEF StartTest
  <2> HIDE DEF n
  <2>3. SameTest(next, srv) /\ next.pc = "timers" /\ next.timer = srv.timer
    BY <1>1 DEF SrvRec, SameTest
  <2> HIDE DEF next
  <2>4. CASE iperf_set_send_state(n, "TEST_START", next)
    BY <1>2, <1>3, <2>1, <2>3, <2>4 DEF StartTest
  <2>5. CASE cleanup_server(n, -1, "IELISTEN") \/ cleanup_server(n, -1, "IETOTALRATE")
    BY <2>1, <2>5, CleanupEnds, EndedPairs DEF Calm
  <2> QED BY <2>2, <2>4, <2>5
<1>4. CASE RunTest
  <2> DEFINE next == [srv EXCEPT !.pc = "select", !.timer = TRUE]
  <2>1. Calm(net, {})
    BY <1>1, CalmSame
  <2>2. iperf_set_send_state(net, "TEST_RUNNING", next) \/ cleanup_server(net, -1, "IEINITTEST")
    BY <1>4 DEF RunTest
  <2>3. SameTest(next, srv) /\ next.pc = "select"
    BY <1>1 DEF SrvRec, SameTest
  <2> HIDE DEF next
  <2>4. CASE iperf_set_send_state(net, "TEST_RUNNING", next)
    BY <1>2, <2>1, <2>3, <2>4
  <2>5. CASE cleanup_server(net, -1, "IEINITTEST")
    BY <1>1, <2>5, CleanupEnds, EndedPairs
  <2> QED BY <2>2, <2>4, <2>5
<1> QED BY <1>3, <1>4

\* The connections of the streams do not wait.
LEMMA StreamPlaces ==
  ASSUME Inv, PairInv, Serving, NEW k \in StreamConns
  PROVE  k \in Conn /\ ~Waits(net, k) /\ k # srv.pending
<1>1. PICK c \in Client : srv.ctrl = Ctrl(c)
  BY ServingClient
<1>2. Paired(c) /\ Beyond(c)
  BY <1>1, ConnLemma DEF PairInv, ServedInv, Served
<1>3. PICK i \in DOMAIN srv.streams : k = srv.streams[i].conn
  BY DEF StreamConns
<1>4. i \in 1..Len(srv.streams)
  BY <1>3, PairLookup
<1>5. k = <<c, i>> /\ i <= cli[c].made
  BY <1>2, <1>3, <1>4 DEF Paired
<1>6. i \in 1..2 * NumStreams
  BY <1>4, <1>5, PairLookup
<1>7. ~(i > Len(srv.streams))
  BY <1>4, PairLookup
<1> QED BY <1>2, <1>5, <1>6, <1>7, PairLookup DEF Beyond, Here

LEMMA TestEndPairs ==
  ASSUME Inv, PairInv, TestEnd
  PROVE  PairStep
<1>1. /\ srv.pc = "select" /\ srv.ctrl \in Conn /\ cli' = cli /\ Serving
      /\ net \in NetRec /\ srv \in SrvRec /\ srv.ctrl # NoConn /\ srv.pending = NoConn
  BY ServerLookup DEF TestEnd, HasMessage, Selecting, Serving
<1> DEFINE X == StreamConns \cup {srv.ctrl}
           n == Close(Drop(net, "s", srv.ctrl), "s", StreamConns)
           next == [srv EXCEPT !.pc = "results", !.done = TRUE]
<1>2. \A k \in X : ~Waits(net, k) /\ k # NoConn
  BY <1>1, StreamPlaces, ConnLemma DEF Inv, PlaceInv
<1>3. Calm(n, X)
  BY <1>1, CalmRead, CalmClose
<1>4. iperf_set_send_state(n, "EXCHANGE_RESULTS", next)
  BY DEF TestEnd
<1>5. SameTest(next, srv) /\ next.pc = "results" /\ next.timer = srv.timer
  BY <1>1 DEF SrvRec, SameTest
<1> HIDE DEF n, next, X
<1>6. Ended \/ (Calm(net', X) /\ srv' = [next EXCEPT !.state = "EXCHANGE_RESULTS"])
  BY <1>1, <1>3, <1>4, CalmSend, MsgLemma
<1>7. CASE Calm(net', X) /\ srv' = [next EXCEPT !.state = "EXCHANGE_RESULTS"]
  <2>1. SameTest(srv', srv) /\ srv'.pc = "results" /\ srv'.state = "EXCHANGE_RESULTS"
        /\ srv'.timer = srv.timer
    BY <1>5, <1>7, StateFields, MsgLemma DEF SameTest
  <2>2. KeepsPlaces
    BY <1>1, <1>2, <1>7, <2>1, CalmPlaces DEF SameTest
  <2>3. \A k \in Conn : Waits(net', k) => Waits(net, k)
    BY <1>7 DEF Calm, Waits
  <2>4. ServedInv'
    BY <1>1, <2>1, <2>3, ServedGoesOn DEF PairInv
  <2>5. Serving'
    BY <2>1 DEF Serving
  <2>6. StateInv'
    BY <2>1, <2>5 DEF StateInv
  <2> QED BY <2>2, <2>4, <2>6 DEF PairStep
<1> QED BY <1>6, <1>7, EndedPairs

LEMMA ExchangeResultsPairs ==
  ASSUME Inv, PairInv, ExchangeResults
  PROVE  PairStep
<1>1. /\ srv.pc = "results" /\ srv.ctrl \in Conn /\ cli' = cli /\ Serving
      /\ net \in NetRec /\ srv \in SrvRec /\ srv.ctrl # NoConn /\ srv.pending = NoConn
  BY ServerLookup, ConnLemma DEF ExchangeResults, Serving
<1> DEFINE X == {srv.ctrl}
           one == <<"RESULTS">>
           n == Drop(net, "s", srv.ctrl)
           w == WriteAll(n, "s", srv.ctrl, one)
           next == [srv EXCEPT !.pc = "select"]
<1>2. \A k \in X : ~Waits(net, k) /\ k # NoConn
  BY <1>1, ConnLemma DEF Inv, PlaceInv
<1>3. Calm(n, X) /\ one \in Seq(Msg)
  BY <1>1, CalmRead, MsgLemma
<1>4. \/ cleanup_server(n, -1, "IESENDRESULTS")
      \/ iperf_set_send_state(w, "DISPLAY_RESULTS", next)
  BY DEF ExchangeResults, Write
<1>5. SameTest(next, srv) /\ next.pc = "select" /\ next.timer = srv.timer
  BY <1>1 DEF SrvRec, SameTest
<1> HIDE DEF n, next, X, one
<1>6. Calm(w, X)
  BY <1>1, <1>3, CalmWrite
<1> HIDE DEF w
<1>7. Ended \/ (Calm(net', X) /\ srv' = [next EXCEPT !.state = "DISPLAY_RESULTS"])
  <2>1. CASE cleanup_server(n, -1, "IESENDRESULTS")
    BY <1>3, <2>1, CleanupEnds DEF Calm
  <2>2. CASE iperf_set_send_state(w, "DISPLAY_RESULTS", next)
    BY <1>1, <1>6, <2>2, CalmSend, MsgLemma
  <2> QED BY <1>4, <2>1, <2>2
<1>8. CASE Calm(net', X) /\ srv' = [next EXCEPT !.state = "DISPLAY_RESULTS"]
  <2>1. SameTest(srv', srv) /\ srv'.pc = "select" /\ srv'.state = "DISPLAY_RESULTS"
        /\ srv'.timer = srv.timer
    BY <1>5, <1>8, StateFields, MsgLemma DEF SameTest
  <2>2. KeepsPlaces
    BY <1>1, <1>2, <1>8, <2>1, CalmPlaces DEF SameTest
  <2>3. \A k \in Conn : Waits(net', k) => Waits(net, k)
    BY <1>8 DEF Calm, Waits
  <2>4. ServedInv'
    BY <1>1, <2>1, <2>3, ServedGoesOn DEF PairInv
  <2>5. Serving'
    BY <1>1, <2>1 DEF Serving, SameTest
  <2>6. StateInv'
    BY <2>1, <2>5 DEF StateInv
  <2> QED BY <2>2, <2>4, <2>6 DEF PairStep
<1> QED BY <1>7, <1>8, EndedPairs

LEMMA ServerTimerPairs ==
  ASSUME Inv, PairInv, server_timer_proc
  PROVE  PairStep
<1>1. /\ srv.pc = "select" /\ cli' = cli /\ net \in NetRec /\ srv \in SrvRec
      /\ srv.pending = NoConn /\ srv.timer
  BY ServerLookup DEF server_timer_proc, Selecting
<1>2. /\ Serving /\ srv.ctrl # NoConn /\ srv.ctrl \in Conn
      /\ srv.state \in {"TEST_RUNNING", "EXCHANGE_RESULTS", "DISPLAY_RESULTS"}
  BY <1>1, ServerLookup DEF PairInv, StateInv, Serving
<1>3. CASE srv.done
  <2>1. srv' = [srv EXCEPT !.timer = FALSE] /\ net' = net
    BY <1>3 DEF server_timer_proc
  <2>2. SameTest(srv', srv) /\ srv'.pc = srv.pc /\ srv'.state = srv.state /\ srv'.timer = FALSE
        /\ srv'.done = srv.done
    BY <1>1, <2>1 DEF SrvRec, SameTest
  <2>3. KeepsPlaces
    BY <2>1, <2>2 DEF KeepsPlaces, InPlace, SameTest
  <2>4. ServedInv'
    BY <1>2, <1>1, <2>1, <2>2, ServedGoesOn DEF PairInv
  <2>5. Serving'
    BY <1>1, <1>2, <2>2 DEF Serving, SameTest
  <2>6. StateInv'
    BY <1>1, <1>2, <2>2, <2>5 DEF StateInv
  <2> QED BY <2>3, <2>4, <2>6 DEF PairStep
<1>4. CASE ~srv.done
  <2> DEFINE q == <<>>
             X == StreamConns \cup {srv.ctrl}
  <2>1. /\ srv' = [srv EXCEPT !.timer = FALSE, !.done = TRUE, !.streams = q, !.badfd = TRUE]
        /\ net' = Close(net, "s", X)
    BY <1>4 DEF server_timer_proc
  <2>2. q = <<>> /\ q \in Seq([conn : Conn, sender : BOOLEAN]) /\ Len(q) = 0
    OBVIOUS
  <2> HIDE DEF q
  <2>3. /\ srv'.ctrl = srv.ctrl /\ srv'.cookie = srv.cookie /\ srv'.mode = srv.mode
        /\ srv'.pending = srv.pending /\ srv'.streams = q /\ srv'.pc = srv.pc
        /\ srv'.state = srv.state /\ srv'.done = TRUE /\ srv'.timer = FALSE
    BY <1>1, <2>1 DEF SrvRec
  <2>4. \A k \in X : ~Waits(net, k) /\ k # NoConn
    BY <1>1, <1>2, StreamPlaces, ConnLemma DEF Inv, PlaceInv
  <2>5. Calm(net', X)
    <3> HIDE DEF X
    <3> QED BY <1>1, <2>1, CalmSame, CalmClose
  <2> HIDE DEF X
  <2>6. KeepsPlaces
    BY <1>1, <2>3, <2>4, <2>5, CalmPlaces
  <2>7. PICK c \in Client : srv.ctrl = Ctrl(c)
    BY <1>2, ServingClient
  <2>8. Served(c) /\ srv'.ctrl[1] = c
    BY <1>2, <2>3, <2>7, ConnLemma DEF PairInv, ServedInv
  <2>9. TestIs(c)'
    BY <1>1, <2>3, <2>8 DEF Served, TestIs
  <2>10. Len(srv'.streams) = 0
    BY <2>2, <2>3
  <2>11. Paired(c)'
    BY <2>10 DEF Paired
  <2>12. Beyond(c)'
    BY <2>10, PairLookup DEF Beyond
  <2>13. Complete(c)' /\ Arriving(c)'
    BY <1>1, <1>2, <2>3 DEF Complete, Arriving
  <2>14. Serving'
    BY <1>1, <1>2, <2>3 DEF Serving
  <2>15. StateInv'
    BY <1>1, <1>2, <2>3, <2>14 DEF StateInv
  <2> QED BY <2>6, <2>8, <2>9, <2>11, <2>12, <2>13, <2>15 DEF PairStep, ServedInv, Served
<1> QED BY <1>3, <1>4

LEMMA AcceptBusyPairs ==
  ASSUME Inv, PairInv, iperf_accept_busy, NEW said, NEW to, SrvStep(said, to)
  PROVE  PairStep
<1>1. /\ srv.pc = "select" /\ net.backlog # <<>> /\ srv.ctrl # NoConn /\ Serving
      /\ srv.state # "CREATE_STREAMS" /\ net \in NetRec /\ srv \in SrvRec /\ srv.pending = NoConn
  BY ServerLookup DEF iperf_accept_busy, Selecting, Serving
<1>2. CASE cleanup_server(net, -1, "IEACCEPT")
  BY <1>1, <1>2, CleanupEnds, EndedPairs
<1>3. CASE ~cleanup_server(net, -1, "IEACCEPT")
  <2> DEFINE h == Head(net.backlog)
             n == [net EXCEPT !.backlog = Tail(@)]
             ms == <<"ACCESS_DENIED">>
  <2>1. net' = Close(WriteAll(n, "s", h, ms), "s", {h}) /\ srv' = srv /\ cli' = cli
    BY <1>3 DEF iperf_accept_busy, Write
  <2>2. /\ n \in NetRec /\ n.in = net.in /\ n.end = net.end /\ n.backlog = Tail(net.backlog)
        /\ h \in Conn
    BY <1>1, TakeNet
  <2>3. ms \in Seq(Msg)
    BY MsgLemma
  <2> HIDE DEF n, ms
  <2>4. IsRefused(net', n, h, ms)
    <3> HIDE DEF h
    <3> QED BY <2>1, <2>2, <2>3, RefuseLemma
  <2>5. net'.backlog = Tail(net.backlog)
    BY <2>2, <2>4 DEF IsRefused
  <2>6. ~Waits(net', h) /\ \A k \in Conn : Waits(net', k) => Waits(net, k)
    BY <1>1, <2>5, WaitsAfter DEF SrvStep
  <2> HIDE DEF h
  <2>7. KeepsPlaces
    <3> SUFFICES ASSUME NEW k \in Conn, InPlace(k)'
                 PROVE  InPlace(k) /\ net'.end["s"][k] = net.end["s"][k] /\ net'.in["s"][k] = net.in["s"][k]
      BY DEF KeepsPlaces
    <3>1. Waits(net', k)
      BY <1>1, <2>1, ConnLemma DEF InPlace
    <3> QED BY <2>2, <2>4, <2>6, <3>1 DEF InPlace, IsRefused
  <2>8. SameTest(srv', srv)
    BY <1>1, <2>1 DEF SameTest
  <2>9. ServedInv'
    BY <1>1, <2>1, <2>6, <2>8, ServedGoesOn DEF PairInv
  <2>10. StateInv'
    BY <2>1 DEF PairInv, StateInv, Serving
  <2> QED BY <2>7, <2>9, <2>10 DEF PairStep
<1> QED BY <1>2, <1>3

\* The connections that wait are taken in their order.
LEMMA OrderedTail ==
  ASSUME Inv, net.backlog # <<>>, net'.backlog = Tail(net.backlog), NEW c, Ordered(c)
  PROVE  Ordered(c)'
<1> DEFINE q == net.backlog
           r == net'.backlog
<1>1. \A i \in DOMAIN r : i + 1 \in DOMAIN q /\ r[i] = q[i + 1] /\ i \in Nat
  BY PairLookup, TailFacts
<1> SUFFICES ASSUME NEW a \in DOMAIN r, NEW b \in DOMAIN r, r[a][1] = c, r[b][1] = c,
                    0 < r[a][2], r[a][2] < r[b][2]
             PROVE  a < b
  BY DEF Ordered
<1>2. a + 1 \in DOMAIN q /\ b + 1 \in DOMAIN q /\ r[a] = q[a + 1] /\ r[b] = q[b + 1]
      /\ a \in Nat /\ b \in Nat
  BY <1>1
<1>3. a + 1 < b + 1
  BY <1>2 DEF Ordered
<1> QED BY <1>2, <1>3

\* The next data connection of the client that is served is its next stream.
LEMMA NextInOrder ==
  ASSUME Inv, PairInv, NEW c \in Client, srv.ctrl = Ctrl(c), Serving,
         srv.state = "CREATE_STREAMS", srv.pending = NoConn, net.backlog # <<>>,
         NEW i \in 1..2 * NumStreams, Head(net.backlog) = <<c, i>>
  PROVE  i = Len(srv.streams) + 1
<1> DEFINE n == Len(srv.streams)
           q == net.backlog
           j == n + 1
<1>1. Beyond(c) /\ Arriving(c)
  BY ConnLemma DEF PairInv, ServedInv, Served
<1>2. n \in Nat /\ i \in Int /\ cli[c].made \in Int /\ q \in Seq(Conn) /\ NumStreams \in Nat
      /\ <<c, i>> \in Conn /\ <<c, i>>[1] = c /\ <<c, i>>[2] = i /\ i # 0
  BY PairLookup
<1>3. 1 \in DOMAIN q /\ q[1] = <<c, i>> /\ Waits(net, <<c, i>>)
  BY <1>2, TailFacts DEF Waits
<1>4. i > n
  BY <1>1, <1>3 DEF Beyond, Here
<1>5. CASE i > j
  <2>1. j \in 1..2 * NumStreams /\ j < i
    BY <1>2, <1>5
  <2>2. <<c, j>> \in Conn /\ <<c, j>>[1] = c /\ <<c, j>>[2] = j /\ j # 0
    BY <2>1, PairLookup
  <2>3. net.end["c"][<<c, i>>] # "none"
    BY <1>2, <1>3 DEF Inv, PlaceInv
  <2>4. i <= cli[c].made + 1
    BY <1>2, <2>3 DEF PairInv, MadeInv, Made
  <2>5. j <= cli[c].made
    BY <1>2, <2>1, <2>4
  <2> HIDE DEF j
  <2>6. net.end["c"][<<c, j>>] # "none"
    BY <2>2, <2>5 DEF PairInv, MadeInv, Made
  <2>7. j > n
    BY <1>2 DEF j
  <2>8. Here(c, j)
    BY <1>1, <2>1, <2>6, <2>7 DEF Arriving
  <2>9. PICK b \in DOMAIN q : q[b] = <<c, j>>
    BY <2>2, <2>8, ConnLemma DEF Here, Waits
  <2>10. b \in Nat \ {0} /\ 0 < j
    BY <1>2, <2>9 DEF j
  <2>11. Ordered(c)
    BY <1>1 DEF Arriving
  <2>12. b < 1
    BY <1>2, <1>3, <2>1, <2>2, <2>9, <2>10, <2>11 DEF Ordered
  <2> QED BY <2>10, <2>12
<1> QED BY <1>2, <1>4, <1>5

LEMMA TcpAcceptPairs ==
  ASSUME Inv, PairInv, iperf_tcp_accept, NEW said, NEW to, SrvStep(said, to)
  PROVE  PairStep
<1>1. /\ srv.pc = "select" /\ srv.state = "CREATE_STREAMS" /\ net.backlog # <<>> /\ cli' = cli
      /\ net \in NetRec /\ srv \in SrvRec /\ srv.pending = NoConn /\ Serving
  BY ServerLookup DEF iperf_tcp_accept, Selecting, Inv, PcInv, Serving
<1>2. CASE cleanup_server(net, -1, "IESTREAMCONNECT")
  BY <1>1, <1>2, CleanupEnds, EndedPairs
<1>3. CASE /\ srv' = [srv EXCEPT !.pending = Head(net.backlog), !.pc = "streamcookie"]
           /\ net' = [net EXCEPT !.backlog = Tail(@)]
  <2> DEFINE h == Head(net.backlog)
  <2>1. /\ net'.in = net.in /\ net'.end = net.end /\ net'.backlog = Tail(net.backlog)
        /\ h \in Conn /\ Waits(net, h) /\ \A k \in Conn : Waits(net, k) /\ k # h => Waits(net', k)
    BY <1>1, <1>3, TakeNet
  <2>2. srv' = [srv EXCEPT !.pending = h, !.pc = "streamcookie"]
    BY <1>3
  <2>3. \A k \in Conn : Waits(net', k) => Waits(net, k)
    BY WaitsAfter DEF SrvStep
  <2>4. PICK c \in Client : srv.ctrl = Ctrl(c)
    BY <1>1, ServingClient
  <2>5. Served(c)
    BY <1>1, <2>4, ConnLemma DEF PairInv, ServedInv
  <2>6. \A i \in 1..2 * NumStreams : h = <<c, i>> => i = Len(srv.streams) + 1
    BY <1>1, <2>4, NextInOrder
  <2>7. Ordered(c)'
    BY <1>1, <2>1, <2>5, OrderedTail DEF Served, Arriving
  <2> HIDE DEF h
  <2>8. /\ srv'.pending = h /\ srv'.pc = "streamcookie" /\ srv'.ctrl = srv.ctrl
        /\ srv'.cookie = srv.cookie /\ srv'.state = srv.state /\ srv'.mode = srv.mode
        /\ srv'.streams = srv.streams /\ srv'.timer = srv.timer
    BY <1>1, <2>2 DEF SrvRec
  <2>9. KeepsPlaces
    BY <2>1, <2>3, <2>8 DEF KeepsPlaces, InPlace
  <2>10. \A i \in 1..2 * NumStreams : Here(c, i)' <=> Here(c, i)
    <3>1. \A i \in 1..2 * NumStreams : <<c, i>> \in Conn /\ <<c, i>> # NoConn
      BY PairLookup, ConnLemma
    <3> QED BY <1>1, <2>1, <2>3, <2>8, <3>1 DEF Here
  <2>11. TestIs(c)' /\ Paired(c)'
    BY <1>1, <2>5, <2>8 DEF Served, TestIs, Paired, StreamFlag
  <2>12. Beyond(c)' /\ Complete(c)'
    BY <1>1, <2>5, <2>8, <2>10 DEF Served, Beyond, Complete
  <2>13. Arriving(c)'
    BY <1>1, <2>1, <2>5, <2>6, <2>7, <2>8, <2>10 DEF Served, Arriving
  <2>14. srv'.ctrl[1] = c
    BY <2>4, <2>8, ConnLemma
  <2>15. StateInv'
    BY <1>1, <2>8 DEF StateInv, PairInv
  <2> QED BY <2>9, <2>11, <2>12, <2>13, <2>14, <2>15 DEF PairStep, ServedInv, Served
<1> QED BY <1>2, <1>3 DEF iperf_tcp_accept

\* The connection whose cookie is read is the client's next one.
LEMMA NewStreamPairs ==
  ASSUME Inv, PairInv, srv.pc = "streamcookie", NewStream(Drop(net, "s", srv.pending)),
         Starts(net, "s", srv.pending, "COOKIE"), srv.pending[1] = srv.cookie, cli' = cli,
         NEW said, NEW to, SrvStep(said, to)
  PROVE  PairStep
<1>1. /\ srv.ctrl \in Conn /\ srv.pending \in Conn /\ net \in NetRec /\ srv \in SrvRec /\ Serving
      /\ srv.state = "CREATE_STREAMS"
  BY ServerLookup DEF Serving, Inv, PcInv
<1>2. PICK c \in Client : srv.ctrl = Ctrl(c)
  BY <1>1, ServingClient
<1>3. Served(c) /\ srv.pending[1] = c
  BY <1>1, <1>2, ConnLemma DEF PairInv, ServedInv, Served, TestIs
<1> DEFINE n == Len(srv.streams)
           j == n + 1
           p == srv.pending
           m == Drop(net, "s", p)
<1>4. /\ n \in Nat /\ cli[c].made \in Int /\ NumStreams \in Nat
      /\ srv.streams \in Seq([conn : Conn, sender : BOOLEAN])
  BY PairLookup
<1>5. p = <<c, j>> /\ j \in 1..2 * NumStreams /\ p[2] # 0 /\ p[2] = j
  <2>1. p = <<c, p[2]>> /\ p[2] # 0
    BY <1>1, <1>2, <1>3, ConnLemma DEF Inv, PlaceInv
  <2>2. p[2] \in 0..2 * NumStreams
    BY <1>1, ConnLemma
  <2>3. p[2] \in 1..2 * NumStreams
    BY <1>4, <2>1, <2>2
  <2>4. p[2] = j
    BY <1>1, <1>3, <2>1, <2>3 DEF Served, Arriving
  <2> QED BY <2>1, <2>3, <2>4
<1>6. j <= cli[c].made
  <2>1. Made(p)
    BY <1>1, <1>5 DEF PairInv, MadeInv
  <2>2. p[2] <= cli[p[1]].made
    BY <2>1 DEF Made, Starts
  <2> QED BY <1>3, <1>5, <2>2
<1> DEFINE X == {p}
<1>7. Calm(m, X) /\ m \in NetRec /\ m.backlog = net.backlog /\ m.end = net.end
  <2>1. IsRead(m, net, "s", p)
    BY <1>1, ReadLemma, SideLemma
  <2> QED BY <1>1, <2>1, CalmRead DEF IsRead
<1>8. NewStream(m)
  OBVIOUS
<1> HIDE DEF m, X
<1>9. CASE cleanup_server(m, -1, "IECREATESTREAM")
  BY <1>7, <1>9, CleanupEnds, EndedPairs
<1>10. CASE ~cleanup_server(m, -1, "IECREATESTREAM")
  <2> DEFINE flag == StreamFlag(n)
             st == [conn |-> p, sender |-> flag]
             sts == Append(srv.streams, st)
             pc == IF AllAccepted(j) THEN "start" ELSE "select"
  <2>1. net' = m /\ srv' = [srv EXCEPT !.streams = sts, !.pending = NoConn, !.pc = pc]
    BY <1>8, <1>10 DEF NewStream
  <2>2. flag \in BOOLEAN
    BY <1>4 DEF StreamFlag
  <2>3. pc \in {"start", "select"} /\ (pc = "start" => AllAccepted(j))
    OBVIOUS
  <2> HIDE DEF pc, flag
  <2>4. st \in [conn : Conn, sender : BOOLEAN] /\ st.conn = p /\ st.sender = flag
    BY <1>1, <2>2
  <2> HIDE DEF st
  <2>5. /\ sts \in Seq([conn : Conn, sender : BOOLEAN]) /\ Len(sts) = j /\ sts[j] = st
        /\ \A i \in 1..n : sts[i] = srv.streams[i]
    BY <1>4, <2>4
  <2> HIDE DEF sts
  <2>6. /\ srv' \in SrvRec /\ srv'.pending = NoConn /\ srv'.pc = pc /\ srv'.ctrl = srv.ctrl
        /\ srv'.cookie = srv.cookie /\ srv'.mode = srv.mode /\ srv'.state = srv.state
        /\ srv'.streams = sts /\ srv'.timer = srv.timer
    BY <1>1, <2>1, <2>3, <2>5 DEF SrvRec
  <2>7. KeepsPlaces
    <3>1. \A k \in X : ~Waits(net, k) /\ k # srv'.pending
      BY <1>1, <2>6, ConnLemma DEF X, Inv, PlaceInv
    <3> QED BY <1>7, <2>1, <2>3, <2>6, <3>1, CalmPlaces
  <2>8. \A i \in 1..2 * NumStreams : Here(c, i)' <=> Here(c, i) /\ i # j
    <3>1. \A i \in 1..2 * NumStreams : /\ <<c, i>> \in Conn /\ <<c, i>> # NoConn
                                       /\ <<c, i>> = p <=> i = j
      BY <1>5, PairLookup, ConnLemma
    <3>2. \A k \in Conn : Waits(net', k) <=> Waits(net, k)
      BY <1>7, <2>1 DEF Waits
    <3>3. ~Waits(net, p)
      BY DEF Inv, PlaceInv
    <3> QED BY <2>6, <3>1, <3>2, <3>3 DEF Here
  <2>9. TestIs(c)'
    BY <1>3, <2>6 DEF Served, TestIs
  <2>10. Paired(c)'
    <3> SUFFICES ASSUME NEW i \in 1..j
                 PROVE  /\ sts[i].conn = <<c, i>> /\ sts[i].sender = StreamFlag(i - 1)'
                        /\ i <= cli[c].made
      BY <2>5, <2>6 DEF Paired
    <3>1. StreamFlag(i - 1)' = StreamFlag(i - 1)
      BY <2>6 DEF StreamFlag
    <3>2. CASE i = j
      <4>1. i - 1 = n
        BY <1>4, <3>2
      <4> QED BY <1>5, <1>6, <2>4, <2>5, <3>1, <3>2, <4>1 DEF flag
    <3>3. CASE i # j
      <4>1. i \in 1..n
        BY <1>4, <3>3
      <4> QED BY <1>3, <2>5, <3>1, <4>1 DEF Served, Paired
    <3> QED BY <3>2, <3>3
  <2>11. Beyond(c)'
    <3> SUFFICES ASSUME NEW i \in 1..2 * NumStreams, Here(c, i)' PROVE i > j
      BY <2>5, <2>6 DEF Beyond
    <3>1. i > n /\ i # j
      BY <1>3, <2>8 DEF Served, Beyond
    <3> QED BY <1>4, <3>1
  <2>12. Complete(c)'
    <3>1. pc = "start" => j = Streams(cli[c].mode)
      <4>1. cli[c].mode \in {"SENDER", "RECEIVER", "BIDIRECTIONAL"}
        BY PairLookup, CliFields, ControlAssumption
      <4>2. Streams(ServerMode(cli[c].mode)) = Streams(cli[c].mode)
        BY <4>1 DEF Streams, ServerMode
      <4> QED BY <1>3, <2>3, <4>2 DEF AllAccepted, Served, TestIs
    <3> QED BY <1>1, <2>3, <2>5, <2>6, <3>1 DEF Complete
  <2>13. Arriving(c)'
    <3>1. Ordered(c)'
      BY <1>1, <1>3, <1>7, <2>1 DEF Served, Arriving, Ordered
    <3>2. \A i \in 1..2 * NumStreams : srv'.pending # <<c, i>>
      BY <2>6, PairLookup, ConnLemma
    <3>3. ASSUME NEW i \in 1..2 * NumStreams, net'.end["c"][<<c, i>>] # "none", i > j
          PROVE  Here(c, i)'
      <4>1. i > n /\ i # j
        BY <1>4, <3>3
      <4>2. Here(c, i)
        BY <1>1, <1>3, <1>7, <2>1, <3>3, <4>1 DEF Served, Arriving
      <4> QED BY <2>8, <4>1, <4>2
    <3> QED BY <2>5, <2>6, <3>1, <3>2, <3>3 DEF Arriving
  <2>14. srv'.ctrl[1] = c
    BY <1>2, <2>6, ConnLemma
  <2>15. StateInv'
    BY <1>1, <2>3, <2>6 DEF StateInv, PairInv
  <2> QED BY <2>7, <2>9, <2>10, <2>11, <2>12, <2>13, <2>14, <2>15 DEF PairStep, ServedInv, Served
<1> QED BY <1>9, <1>10

LEMMA RefuseStreamPairs ==
  ASSUME Inv, PairInv, srv.pc = "streamcookie", RefuseStream(Drop(net, "s", srv.pending)),
         srv.pending[1] # srv.cookie, cli' = cli
  PROVE  PairStep
<1>1. /\ srv.ctrl \in Conn /\ srv.pending \in Conn /\ net \in NetRec /\ srv \in SrvRec /\ Serving
      /\ srv.state = "CREATE_STREAMS"
  BY ServerLookup DEF Serving, Inv, PcInv
<1> DEFINE ms == <<"ACCESS_DENIED">>
           p == srv.pending
           n == Drop(net, "s", p)
<1>2. /\ net' = Close(WriteAll(n, "s", p, ms), "s", {p})
      /\ srv' = [srv EXCEPT !.pending = NoConn, !.pc = "select"]
  BY DEF RefuseStream, Write
<1>3. ms \in Seq(Msg) /\ IsRead(n, net, "s", p)
  BY <1>1, MsgLemma, ReadLemma, SideLemma
<1> HIDE DEF ms, n
<1>4. /\ n \in NetRec /\ n.end = net.end /\ n.backlog = net.backlog
      /\ \A j \in Conn : j # p => n.in["s"][j] = net.in["s"][j]
  BY <1>3, SideLemma DEF IsRead
<1>5. IsRefused(net', n, p, ms)
  BY <1>1, <1>2, <1>3, <1>4, RefuseLemma
<1>6. /\ net'.backlog = net.backlog /\ net'.end["c"] = net.end["c"]
      /\ \A j \in Conn : j # p => net'.in["s"][j] = net.in["s"][j] /\ net'.end["s"][j] = net.end["s"][j]
      /\ \A j \in Conn : Waits(net', j) <=> Waits(net, j)
  <2>1. /\ net'.backlog = net.backlog /\ net'.end["c"] = net.end["c"]
        /\ \A j \in Conn : j # p => net'.in["s"][j] = net.in["s"][j] /\ net'.end["s"][j] = net.end["s"][j]
    BY <1>4, <1>5 DEF IsRefused
  <2> QED BY <2>1 DEF Waits
<1>7. /\ srv'.pending = NoConn /\ srv'.pc = "select" /\ srv'.ctrl = srv.ctrl
      /\ srv'.cookie = srv.cookie /\ srv'.mode = srv.mode /\ srv'.state = srv.state
      /\ srv'.streams = srv.streams /\ srv'.timer = srv.timer
  BY <1>1, <1>2 DEF SrvRec
<1>8. KeepsPlaces
  BY <1>6, <1>7, ConnLemma DEF KeepsPlaces, InPlace, Inv, PlaceInv
<1>9. PICK c \in Client : srv.ctrl = Ctrl(c)
  BY <1>1, ServingClient
<1>10. Served(c)
  BY <1>1, <1>9, ConnLemma DEF PairInv, ServedInv
<1>11. \A i \in 1..2 * NumStreams : /\ <<c, i>> \in Conn /\ <<c, i>> # NoConn /\ <<c, i>> # p
  BY <1>10, PairLookup, ConnLemma DEF Served, TestIs
<1>12. \A i \in 1..2 * NumStreams : Here(c, i)' <=> Here(c, i)
  BY <1>6, <1>7, <1>11 DEF Here
<1>13. TestIs(c)' /\ Paired(c)'
  BY <1>7, <1>10 DEF Served, TestIs, Paired, StreamFlag
<1>14. Beyond(c)' /\ Complete(c)'
  BY <1>1, <1>7, <1>10, <1>12 DEF Served, Beyond, Complete
<1>15. Arriving(c)'
  BY <1>1, <1>6, <1>7, <1>10, <1>11, <1>12 DEF Served, Arriving, Ordered
<1>16. srv'.ctrl[1] = c
  BY <1>7, <1>9, ConnLemma
<1>17. StateInv'
  BY <1>1, <1>7 DEF StateInv, PairInv
<1> QED BY <1>8, <1>13, <1>14, <1>15, <1>16, <1>17 DEF PairStep, ServedInv, Served

LEMMA StreamCookiePairs ==
  ASSUME Inv, PairInv, StreamCookie, NEW said, NEW to, SrvStep(said, to)
  PROVE  PairStep
<1>1. srv.pc = "streamcookie" /\ cli' = cli /\ srv.pending \in Conn /\ net \in NetRec
  BY ServerLookup DEF StreamCookie
<1>2. PICK r \in NreadResult(net, "s", srv.pending, "COOKIE") :
        \/ r = "ERROR" /\ cleanup_server(net, -1, "IERECVCOOKIE")
        \/ /\ r = "COOKIE"
           /\ IF srv.pending[1] = srv.cookie THEN NewStream(Drop(net, "s", srv.pending))
              ELSE RefuseStream(Drop(net, "s", srv.pending))
  <2>1. \A r \in NreadResult(net, "s", srv.pending, "COOKIE") : r \in {"COOKIE", "ERROR"}
    BY <1>1, CookieRead DEF InPlace
  <2> QED BY <2>1 DEF StreamCookie
<1>3. CASE r = "ERROR"
  BY <1>1, <1>2, <1>3, CleanupEnds, EndedPairs
<1>4. CASE r = "COOKIE"
  <2>1. Starts(net, "s", srv.pending, "COOKIE")
    BY <1>1, <1>2, <1>4, CookieRead DEF InPlace
  <2> QED BY <1>1, <1>2, <1>4, <2>1, NewStreamPairs, RefuseStreamPairs
<1> QED BY <1>2, <1>3, <1>4

\* Every step of the server keeps the invariant.
LEMMA ServerStepPairs ==
  ASSUME Inv, PairInv, ServerStep \/ ServerEvent
  PROVE  PairInv'
<1>1. PICK ms, to : SrvStep(ms, to)
  BY ServerLemma DEF SrvKind
<1>2. PairStep
  BY <1>1, EndsPair, ListenPairs, AcceptPairs, AcceptBusyPairs, AcceptCookiePairs,
     ExchangeParametersPairs, TcpAcceptPairs, StreamCookiePairs, StartTestPairs, TestEndPairs,
     ExchangeResultsPairs, ServerTimerPairs
     DEF ServerStep, ServerEvent
<1> QED BY <1>1, <1>2, ServerPairs

-----------------------------------------------------------------------------
(* What every step of a client does, more closely *)

\* Nothing that the server can read changes in n, but client connection k may
\* have got something after what it had.
WritesOn(n, k) ==
  /\ n \in NetRec /\ n.end = net.end /\ n.backlog = net.backlog
  /\ \A j \in Conn :
       \/ n.in["s"][j] = net.in["s"][j]
       \/ /\ j = k /\ net.end["s"][j] = "open" /\ net.end["c"][j] = "open"
          /\ Starts(net, "s", j, "COOKIE") => Starts(n, "s", j, "COOKIE")

\* Client c sends its cookie on a new connection before anything else.
SendsCookie(c) ==
  \A j \in Conn :
    (/\ j[1] = c /\ Sending(j) /\ net.end["s"][j] = "open" /\ net.end["c"][j] = "open"
     /\ net.in["s"][j] = <<>>) =>
      \/ Starts(net', "s", j, "COOKIE")
      \/ cli'[c].pc = "gone" /\ net'.end["c"][j] = "open"

\* What client c writes.
CliSays(c) ==
  \A j \in Conn :
    /\ j[1] # c => net'.in["s"][j] = net.in["s"][j] /\ net'.end["c"][j] = net.end["c"][j]
    /\ \/ net'.in["s"][j] = net.in["s"][j]
       \/ /\ net.end["s"][j] = "open" /\ net.end["c"][j] = "open"
          /\ j[2] # 0 => j = <<c, cli[c].made + 1>> /\ cli'[c].made = cli[c].made + 1
          /\ Starts(net, "s", j, "COOKIE") => Starts(net', "s", j, "COOKIE")

\* How many connections it has made, and when it makes connection k.
CliMakes(c, k) ==
  /\ \/ cli'[c].made = cli[c].made
     \/ /\ cli'[c].made = cli[c].made + 1 /\ cli[c].pc = "streamcookie"
        /\ cli'[c].pc \in {"select", "streams"}
  /\ k = NoConn => net'.backlog = net.backlog /\ cli'[c].pc \notin {"cookie", "streamcookie"}
  /\ k # NoConn =>
       /\ net'.backlog = Append(net.backlog, k)
       /\ cli'[c].made = cli[c].made /\ net'.in["s"] = net.in["s"]
       /\ net'.end["s"][k] = "open" /\ net'.end["c"][k] = "open"
       /\ \/ k = Ctrl(c) /\ cli[c].pc = "connect" /\ cli'[c].pc = "cookie"
          \/ k = <<c, cli[c].made + 1>> /\ cli[c].pc = "streams" /\ cli'[c].pc = "streamcookie"

CliMore(c, k) ==
  /\ Running(c) /\ cli'[c].mode = cli[c].mode /\ CliMakes(c, k) /\ CliSays(c) /\ SendsCookie(c)
  /\ cli'[c].state \in {"TEST_START", "TEST_RUNNING"} => Runs(c)

LEMMA WritesNothing ==
  ASSUME net \in NetRec, NEW c \in Client, NEW k
  PROVE  /\ WritesOn(net, k) /\ WritesOn(Drop(net, "c", Ctrl(c)), k)
         /\ \A n \in {net, Drop(net, "c", Ctrl(c))} :
              /\ n \in NetRec /\ n.end = net.end /\ n.in["s"] = net.in["s"]
              /\ n.backlog = net.backlog
<1> DEFINE n == Drop(net, "c", Ctrl(c))
<1>1. Ctrl(c) \in Conn /\ IsRead(n, net, "c", Ctrl(c))
  BY ReadLemma, SideLemma, ConnLemma
<1> HIDE DEF n
<1>2. n \in NetRec /\ n.end = net.end /\ n.in["s"] = net.in["s"] /\ n.backlog = net.backlog
  BY <1>1, SideLemma DEF IsRead
<1> QED BY <1>2 DEF WritesOn, n

LEMMA HeadConcat ==
  ASSUME NEW q \in Seq(Msg), NEW r \in Seq(Msg)
  PROVE  (q = <<>> => q \o r = r) /\ (q # <<>> => q \o r # <<>> /\ Head(q \o r) = Head(q))
<1>1. Len(q) \in Nat /\ Len(r) \in Nat /\ q \o r \in Seq(Msg) /\ Len(q \o r) = Len(q) + Len(r)
  OBVIOUS
<1>2. CASE q = <<>>
  BY <1>2
<1>3. CASE q # <<>>
  <2>1. Len(q) > 0 /\ Len(q \o r) > 0
    BY <1>1, <1>3
  <2>2. (q \o r)[1] = q[1]
    BY <1>1, <2>1
  <2> QED BY <1>1, <2>1, <2>2
<1> QED BY <1>2, <1>3

LEMMA WritesOne ==
  ASSUME net \in NetRec, NEW n \in NetRec, n.end = net.end, n.in["s"] = net.in["s"],
         n.backlog = net.backlog, NEW k \in Conn, NEW m \in Msg
  PROVE  /\ WritesOn(Write(n, "c", k, m), k)
         /\ net.end["s"][k] = "open" /\ net.end["c"][k] = "open" /\ net.in["s"][k] = <<>> =>
              Starts(Write(n, "c", k, m), "s", k, m)
<1> DEFINE w == Write(n, "c", k, m)
           ms == <<m>>
           q == net.in["s"][k]
           r == w.in["s"][k]
<1>1. ms \in Seq(Msg) /\ q \in Seq(Msg) /\ ms # <<>> /\ Head(ms) = m
  BY NetFields, SideLemma
<1>2. IsWritten(w, n, "c", k, ms)
  BY <1>1, WriteLemma, SideLemma DEF Write
<1>3. /\ w \in NetRec /\ w.end = net.end /\ w.backlog = net.backlog
      /\ \A j \in Conn : j # k => w.in["s"][j] = net.in["s"][j]
      /\ r = IF net.end["s"][k] = "open" /\ net.end["c"][k] = "open" THEN q \o ms ELSE q
  <2> HIDE DEF w
  <2> QED BY <1>2, SideLemma DEF IsWritten
<1>4. (q = <<>> => q \o ms = ms) /\ (q # <<>> => q \o ms # <<>> /\ Head(q \o ms) = Head(q))
  BY <1>1, HeadConcat
<1> HIDE DEF w, ms, q
<1>5. WritesOn(w, k)
  BY <1>1, <1>3, <1>4 DEF WritesOn, Starts, q
<1>6. net.end["s"][k] = "open" /\ net.end["c"][k] = "open" /\ q = <<>> => Starts(w, "s", k, m)
  BY <1>1, <1>3, <1>4 DEF Starts
<1> QED BY <1>5, <1>6 DEF w, q

\* The process of client c ends, and leaves no connection without its cookie.
LEMMA MoreExit ==
  ASSUME Inv, NEW c \in Client, NEW n, WritesOn(n, Ctrl(c)), NEW how \in {"done", "failed"},
         Exit(n, c, how), Running(c),
         \A j \in Conn : j[1] = c /\ Sending(j) => net.end["s"][j] # "open"
  PROVE  CliMore(c, NoConn)
<1>1. n \in NetRec /\ net' = Close(n, "c", ConnsOf(c)) /\ cli' = [cli EXCEPT ![c].pc = how]
      /\ cli \in [Client -> CliRec]
  BY DEF Exit, WritesOn, Inv, TypeInv
<1>2. IsClosed(net', n, "c", ConnsOf(c))
  BY <1>1, CloseLemma, SideLemma
<1>3. /\ net'.in["s"] = n.in["s"] /\ net'.backlog = n.backlog
      /\ \A j \in Conn : j[1] # c => net'.end["c"][j] = n.end["c"][j]
  <2>1. \A j \in Conn : j[1] # c => j \notin ConnsOf(c)
    BY DEF ConnsOf
  <2> QED BY <1>2, <2>1, SideLemma DEF IsClosed
<1> DEFINE x == [cli[c] EXCEPT !.pc = how]
<1>4. x.pc = how /\ x.made = cli[c].made /\ x.mode = cli[c].mode /\ x.state = cli[c].state
  BY <1>1 DEF CliRec
<1>5. cli'[c] = x
  BY <1>1
<1> HIDE DEF x
<1>6. Ctrl(c)[1] = c /\ Ctrl(c)[2] = 0
  BY ConnLemma
<1>7. CliSays(c)
  BY <1>3, <1>6 DEF CliSays, WritesOn, Starts
<1>8. CliMakes(c, NoConn)
  BY <1>3, <1>4, <1>5 DEF CliMakes, WritesOn
<1>9. SendsCookie(c)
  BY DEF SendsCookie
<1>10. cli'[c].state \in {"TEST_START", "TEST_RUNNING"} => Runs(c)
  BY <1>4, <1>5 DEF Runs
<1> QED BY <1>4, <1>5, <1>7, <1>8, <1>9, <1>10 DEF CliMore

\* Client c goes on as x and has written on connection k, if anything.
MoreNext(c, x, k) ==
  /\ x \in CliRec /\ x.mode = cli[c].mode /\ x.pc \notin {"cookie", "streamcookie"}
  /\ x.state \in {"TEST_START", "TEST_RUNNING"} => Runs(c)
  /\ \/ k = Ctrl(c) /\ x.made = cli[c].made
     \/ /\ k = <<c, cli[c].made + 1>> /\ x.made = cli[c].made + 1 /\ cli[c].pc = "streamcookie"
        /\ x.pc \in {"select", "streams"}

LEMMA MoreGoes ==
  ASSUME Inv, NEW c \in Client, NEW x, NEW k \in Conn, MoreNext(c, x, k), WritesOn(net', k),
         cli' = [cli EXCEPT ![c] = x], Running(c), SendsCookie(c)
  PROVE  CliMore(c, NoConn)
<1>1. cli'[c] = x
  BY DEF Inv, TypeInv
<1>2. k[1] = c /\ (k[2] = 0 \/ (k = <<c, cli[c].made + 1>> /\ x.made = cli[c].made + 1))
  BY ConnLemma DEF MoreNext
<1>3. CliSays(c)
  BY <1>1, <1>2 DEF CliSays, WritesOn
<1>4. CliMakes(c, NoConn)
  BY <1>1 DEF CliMakes, MoreNext, WritesOn
<1> QED BY <1>1, <1>3, <1>4 DEF CliMore, MoreNext

LEMMA MoreDial ==
  ASSUME Inv, NEW c \in Client, NEW k \in Conn, NEW pc \in {"cookie", "streamcookie"},
         net' = Connect(net, k), cli' = [cli EXCEPT ![c].pc = pc],
         \/ pc = "cookie" /\ cli[c].pc = "connect" /\ k = Ctrl(c)
         \/ pc = "streamcookie" /\ cli[c].pc = "streams" /\ k = <<c, cli[c].made + 1>>
  PROVE  CliMore(c, k)
<1>1. net \in NetRec /\ cli \in [Client -> CliRec] /\ cli[c] \in CliRec
  BY DEF Inv, TypeInv
<1>2. IsConnected(net', net, k)
  BY <1>1, ConnectLemma
<1>3. /\ net'.in = net.in /\ net'.backlog = Append(net.backlog, k)
      /\ net'.end["s"][k] = "open" /\ net'.end["c"][k] = "open"
      /\ \A j \in Conn : j # k => net'.end["c"][j] = net.end["c"][j]
  BY <1>2, SideLemma DEF IsConnected
<1> DEFINE x == [cli[c] EXCEPT !.pc = pc]
<1>4. x.pc = pc /\ x.made = cli[c].made /\ x.mode = cli[c].mode /\ x.state = cli[c].state
  BY <1>1 DEF CliRec
<1>5. cli'[c] = x
  BY <1>1
<1> HIDE DEF x
<1>6. k[1] = c /\ k # NoConn
  BY ConnLemma
<1>7. CliSays(c)
  BY <1>3, <1>6 DEF CliSays
<1>8. CliMakes(c, k)
  BY <1>3, <1>4, <1>5, <1>6 DEF CliMakes
<1>9. SendsCookie(c)
  BY DEF SendsCookie, Sending
<1>10. (cli'[c].state \in {"TEST_START", "TEST_RUNNING"} => Runs(c)) /\ Running(c)
  BY <1>4, <1>5 DEF Runs, Running
<1> QED BY <1>4, <1>5, <1>7, <1>8, <1>9, <1>10 DEF CliMore

\* A client that is not sending a cookie.
LEMMA NotSending ==
  ASSUME NEW c \in Client, cli[c].pc \notin {"cookie", "streamcookie"}
  PROVE  /\ \A j \in Conn : j[1] = c => ~Sending(j)
         /\ SendsCookie(c)
BY DEF Sending, SendsCookie

-----------------------------------------------------------------------------
(* The steps of a client *)

LEMMA MoreSends ==
  ASSUME Inv, NEW c \in Client, NEW n \in {net, Drop(net, "c", Ctrl(c))}, NEW k \in Conn,
         NEW m \in Msg, NEW x, ClientSendsOn(n, c, k, m, x), MoreNext(c, x, k), Running(c),
         \A j \in Conn : j[1] = c /\ Sending(j) => j = k /\ m = "COOKIE"
  PROVE  CliMore(c, NoConn)
<1>1. /\ net \in NetRec /\ n \in NetRec /\ n.end = net.end /\ n.in["s"] = net.in["s"]
      /\ n.backlog = net.backlog /\ WritesOn(n, Ctrl(c))
  BY WritesNothing DEF Inv, TypeInv
<1>2. CASE net' = Write(n, "c", k, m) /\ cli' = [cli EXCEPT ![c] = x]
  <2>1. /\ WritesOn(net', k)
        /\ net.end["s"][k] = "open" /\ net.end["c"][k] = "open" /\ net.in["s"][k] = <<>> =>
             Starts(net', "s", k, m)
    BY <1>1, <1>2, WritesOne
  <2>2. SendsCookie(c)
    BY <2>1 DEF SendsCookie
  <2> QED BY <1>2, <2>1, <2>2, MoreGoes
<1>3. CASE n.end["s"][k] # "open" /\ Exit(n, c, "failed")
  <2>1. \A j \in Conn : j[1] = c /\ Sending(j) => net.end["s"][j] # "open"
    BY <1>1, <1>3
  <2> QED BY <1>1, <1>3, <2>1, MoreExit
<1> QED BY <1>2, <1>3, SideLemma DEF ClientSendsOn, WriteResult

LEMMA MoreWrites ==
  ASSUME Inv, NEW c \in Client,
         SendCookie(c) \/ ParamExchange(c) \/ TestDone(c) \/ SendResults(c)
  PROVE  CliMore(c, NoConn)
<1>1. cli[c] \in CliRec /\ Ctrl(c) \in Conn
  BY ClientLookup
<1>2. /\ {"COOKIE", "PARAM_EXCHANGE", "PARAMS", "TEST_END", "EXCHANGE_RESULTS", "RESULTS"} \subseteq Msg
  BY DEF Msg
<1> DEFINE d == Drop(net, "c", Ctrl(c))
<1>3. CASE SendCookie(c)
  <2> DEFINE x == [cli[c] EXCEPT !.pc = "select"]
  <2>1. /\ x \in CliRec /\ x.pc = "select" /\ x.made = cli[c].made /\ x.mode = cli[c].mode
        /\ x.state = cli[c].state
    BY <1>1 DEF CliRec
  <2>2. ClientSendsOn(net, c, Ctrl(c), "COOKIE", x) /\ cli[c].pc = "cookie"
    BY <1>3 DEF SendCookie
  <2> HIDE DEF x
  <2>3. MoreNext(c, x, Ctrl(c)) /\ Running(c)
    BY <2>1, <2>2 DEF MoreNext, Running, Runs
  <2>4. \A j \in Conn : j[1] = c /\ Sending(j) => j = Ctrl(c)
    BY <2>2, ConnLemma DEF Sending
  <2> QED BY <1>1, <1>2, <2>2, <2>3, <2>4, MoreSends
<1>4. ASSUME NEW n \in {net, d}, NEW m \in Msg, NEW x, ClientSendsOn(n, c, Ctrl(c), m, x),
             x \in CliRec, x.made = cli[c].made, x.mode = cli[c].mode, x.pc \in {"select", "results"},
             x.state \notin {"TEST_START", "TEST_RUNNING"}, cli[c].pc = "select"
      PROVE  CliMore(c, NoConn)
  <2>1. MoreNext(c, x, Ctrl(c)) /\ Running(c)
    BY <1>4 DEF MoreNext, Running
  <2>2. \A j \in Conn : j[1] = c => ~Sending(j)
    BY <1>4, NotSending
  <2> QED BY <1>1, <1>4, <2>1, <2>2, MoreSends
<1>5. CASE ParamExchange(c)
  <2> DEFINE x == [cli[c] EXCEPT !.state = "PARAM_EXCHANGE"]
  <2>1. ClientSendsOn(d, c, Ctrl(c), "PARAMS", x) /\ cli[c].pc = "select"
    BY <1>5 DEF ParamExchange, ClientHas
  <2>2. /\ x \in CliRec /\ x.pc = "select" /\ x.made = cli[c].made /\ x.mode = cli[c].mode
        /\ x.state = "PARAM_EXCHANGE"
    BY <1>1, <1>2, <2>1 DEF CliRec
  <2> HIDE DEF x, d
  <2> QED BY <1>2, <1>4, <2>1, <2>2
<1>6. CASE TestDone(c)
  <2> DEFINE x == [cli[c] EXCEPT !.state = "TEST_END"]
  <2>1. ClientSendsOn(net, c, Ctrl(c), "TEST_END", x) /\ cli[c].pc = "select"
    BY <1>6 DEF TestDone
  <2>2. /\ x \in CliRec /\ x.pc = "select" /\ x.made = cli[c].made /\ x.mode = cli[c].mode
        /\ x.state = "TEST_END"
    BY <1>1, <1>2, <2>1 DEF CliRec
  <2> HIDE DEF x, d
  <2> QED BY <1>2, <1>4, <2>1, <2>2
<1>7. CASE SendResults(c)
  <2> DEFINE x == [cli[c] EXCEPT !.state = "EXCHANGE_RESULTS", !.pc = "results"]
  <2>1. ClientSendsOn(d, c, Ctrl(c), "RESULTS", x) /\ cli[c].pc = "select"
    BY <1>7 DEF SendResults, ClientHas
  <2>2. /\ x \in CliRec /\ x.pc = "results" /\ x.made = cli[c].made /\ x.mode = cli[c].mode
        /\ x.state = "EXCHANGE_RESULTS"
    BY <1>1, <1>2 DEF CliRec
  <2> HIDE DEF x, d
  <2> QED BY <1>2, <1>4, <2>1, <2>2
<1> QED BY <1>3, <1>5, <1>6, <1>7

LEMMA MoreStreamCookie ==
  ASSUME Inv, NEW c \in Client, SendStreamCookie(c)
  PROVE  CliMore(c, NoConn)
<1> DEFINE i == cli[c].made + 1
           k == <<c, i>>
           pc == IF StreamsMade(i, cli[c].mode) THEN "select" ELSE "streams"
           x == [cli[c] EXCEPT !.made = i, !.pc = pc]
<1>1. cli[c] \in CliRec /\ cli[c].made \in Int /\ cli[c].made >= 0
  BY ClientLookup
<1>2. cli[c].pc = "streamcookie" /\ ClientSendsOn(net, c, k, "COOKIE", x)
  BY DEF SendStreamCookie
<1>3. cli[c].made < Streams(cli[c].mode)
  BY <1>2 DEF Inv, OnceInv
<1>4. i \in 0..2 * NumStreams
  BY <1>1, <1>3, ConnLemma DEF Streams
<1>5. pc \in {"select", "streams"}
  OBVIOUS
<1>6. k \in Conn
  BY <1>4, ConnLemma
<1>7. x \in CliRec /\ x.pc = pc /\ x.made = i /\ x.mode = cli[c].mode /\ x.state = cli[c].state
  <2> HIDE DEF i, pc
  <2> QED BY <1>1, <1>4, <1>5 DEF CliRec
<1>8. MoreNext(c, x, k) /\ Running(c)
  <2> HIDE DEF x, pc
  <2> QED BY <1>2, <1>5, <1>7 DEF MoreNext, Running, Runs
<1>9. \A j \in Conn : j[1] = c /\ Sending(j) => j = k
  BY <1>2, ConnLemma DEF Sending
<1>10. "COOKIE" \in Msg
  BY DEF Msg
<1> HIDE DEF x, pc, k
<1> QED BY <1>2, <1>6, <1>8, <1>9, <1>10, MoreSends

LEMMA MoreReads ==
  ASSUME Inv, NEW c \in Client,
         \/ CreateStreams(c) \/ TestStarts(c) \/ GetResults(c) \/ Drain(c) \/ Drained(c)
         \/ ClientSilent(c)
  PROVE  CliMore(c, NoConn)
<1>1. /\ cli[c] \in CliRec /\ Ctrl(c) \in Conn /\ net \in NetRec
      /\ WritesOn(net, Ctrl(c)) /\ WritesOn(Drop(net, "c", Ctrl(c)), Ctrl(c))
  BY ClientLookup, WritesNothing
<1>2. {"CREATE_STREAMS", "TEST_START", "TEST_RUNNING"} \subseteq Msg
  BY DEF Msg
<1>3. ASSUME WritesOn(net', Ctrl(c)), NEW x, cli' = [cli EXCEPT ![c] = x],
             x \in CliRec, x.made = cli[c].made, x.mode = cli[c].mode,
             x.pc \in {"select", "drain", "streams"},
             x.state \in {"TEST_START", "TEST_RUNNING"} => Runs(c),
             cli[c].pc \in {"select", "results", "drain"}
      PROVE  CliMore(c, NoConn)
  <2>1. MoreNext(c, x, Ctrl(c)) /\ Running(c) /\ SendsCookie(c)
    BY <1>3, NotSending DEF MoreNext, Running
  <2> QED BY <1>1, <1>3, <2>1, MoreGoes
<1>4. CASE CreateStreams(c)
  <2> DEFINE x == [cli[c] EXCEPT !.state = "CREATE_STREAMS", !.pc = "streams"]
  <2>1. /\ x \in CliRec /\ x.pc = "streams" /\ x.made = cli[c].made /\ x.mode = cli[c].mode
        /\ x.state = "CREATE_STREAMS"
    BY <1>1, <1>2 DEF CliRec
  <2>2. cli' = [cli EXCEPT ![c] = x] /\ WritesOn(net', Ctrl(c)) /\ cli[c].pc = "select"
    BY <1>1, <1>4 DEF CreateStreams, ClientHas
  <2> HIDE DEF x
  <2> QED BY <1>3, <2>1, <2>2
<1>5. CASE TestStarts(c)
  <2>1. PICK m \in {"TEST_START", "TEST_RUNNING"} : ClientHas(c, m) /\ cli' = [cli EXCEPT ![c].state = m]
    BY <1>5 DEF TestStarts
  <2> DEFINE x == [cli[c] EXCEPT !.state = m]
  <2>2. m \in Msg /\ cli[c].pc = "select" /\ Starts(net, "c", Ctrl(c), m)
    BY <1>2, <2>1, ClientLookup
  <2>3. Runs(c)
    <3>1. net.in["c"][Ctrl(c)] \in Seq(Msg)
      BY <1>1, PairLookup
    <3>2. Has(net.in["c"][Ctrl(c)], m)
      BY <2>2, <3>1, TailFacts DEF Starts, Has
    <3> QED BY <3>2 DEF Runs
  <2>4. x \in CliRec /\ x.pc = "select" /\ x.made = cli[c].made /\ x.mode = cli[c].mode
    BY <1>1, <2>2 DEF CliRec
  <2>5. cli' = [cli EXCEPT ![c] = x] /\ WritesOn(net', Ctrl(c))
    BY <1>1, <1>5, <2>1 DEF TestStarts
  <2> HIDE DEF x
  <2> QED BY <1>3, <2>2, <2>3, <2>4, <2>5
<1>6. CASE GetResults(c)
  <2>1. cli[c].pc = "results" /\ Running(c)
    BY <1>6 DEF GetResults, Running
  <2>2. CASE Exit(net, c, "failed")
    BY <1>1, <2>1, <2>2, NotSending, MoreExit
  <2>3. CASE net' = Drop(net, "c", Ctrl(c)) /\ cli' = [cli EXCEPT ![c].pc = "select"]
    <3> DEFINE x == [cli[c] EXCEPT !.pc = "select"]
    <3>1. /\ x \in CliRec /\ x.pc = "select" /\ x.made = cli[c].made /\ x.mode = cli[c].mode
          /\ x.state = cli[c].state
      BY <1>1 DEF CliRec
    <3>2. cli' = [cli EXCEPT ![c] = x] /\ WritesOn(net', Ctrl(c))
      BY <1>1, <2>3
    <3> HIDE DEF x
    <3> QED BY <1>3, <2>1, <3>1, <3>2 DEF Runs
  <2> QED BY <1>6, <2>2, <2>3 DEF GetResults
<1>7. CASE Drain(c) \/ Drained(c)
  <2>1. PICK pc \in {"drain", "select"} : cli' = [cli EXCEPT ![c].pc = pc]
    BY <1>7 DEF Drain, Drained
  <2>2. net' = net /\ cli[c].pc \in {"select", "drain"}
    BY <1>7 DEF Drain, Drained
  <2> DEFINE x == [cli[c] EXCEPT !.pc = pc]
  <2>3. /\ x \in CliRec /\ x.pc = pc /\ x.made = cli[c].made /\ x.mode = cli[c].mode
        /\ x.state = cli[c].state
    BY <1>1 DEF CliRec
  <2>4. cli' = [cli EXCEPT ![c] = x] /\ WritesOn(net', Ctrl(c))
    BY <1>1, <2>1, <2>2
  <2> HIDE DEF x
  <2> QED BY <1>3, <2>1, <2>2, <2>3, <2>4 DEF Runs
<1>8. CASE ClientSilent(c)
  <2> DEFINE x == [cli[c] EXCEPT !.pc = "gone"]
  <2>1. /\ x \in CliRec /\ x.pc = "gone" /\ x.made = cli[c].made /\ x.mode = cli[c].mode
        /\ x.state = cli[c].state
    BY <1>1 DEF CliRec
  <2>2. cli' = [cli EXCEPT ![c] = x] /\ net' = net /\ Running(c)
    BY <1>8 DEF ClientSilent
  <2> HIDE DEF x
  <2>3. cli'[c] = x
    BY <2>2 DEF Inv, TypeInv
  <2>4. SendsCookie(c)
    BY <2>1, <2>2, <2>3 DEF SendsCookie
  <2>5. MoreNext(c, x, Ctrl(c))
    BY <2>1 DEF MoreNext, Runs
  <2> QED BY <1>1, <2>2, <2>4, <2>5, MoreGoes
<1> QED BY <1>4, <1>5, <1>6, <1>7, <1>8

LEMMA MoreExits ==
  ASSUME Stray = {}, Inv, NEW c \in Client,
         \/ iperf_client_end(c) \/ ServerGone(c) \/ ClientStreamError(c) \/ ClientReceiveTimeout(c)
         \/ ClientInterrupted(c) \/ ClientKilled(c)
  PROVE  CliMore(c, NoConn)
<1>1. Ctrl(c) \in Conn /\ net \in NetRec
  BY ClientLookup
<1>2. {"IPERF_DONE", "CLIENT_TERMINATE"} \subseteq Msg
  BY DEF Msg
<1> DEFINE d == Drop(net, "c", Ctrl(c))
<1>3. /\ WritesOn(net, Ctrl(c)) /\ WritesOn(d, Ctrl(c))
      /\ \A n \in {net, d} :
           n \in NetRec /\ n.end = net.end /\ n.in["s"] = net.in["s"] /\ n.backlog = net.backlog
  BY <1>1, WritesNothing
<1> HIDE DEF d
<1>4. ASSUME NEW n, WritesOn(n, Ctrl(c)), NEW how \in {"done", "failed"}, Exit(n, c, how)
      PROVE  CliMore(c, NoConn)
  <2>1. Running(c) /\ cli[c].pc \notin {"cookie", "streamcookie"}
    BY DEF iperf_client_end, ServerGone, ClientStreamError, ClientReceiveTimeout,
           ClientInterrupted, ClientKilled, MayDie, ClientHas, Running
  <2>2. \A j \in Conn : j[1] = c => ~Sending(j)
    BY <2>1, NotSending
  <2> QED BY <1>4, <2>1, <2>2, MoreExit
<1>5. CASE iperf_client_end(c)
  <2> DEFINE w == Write(d, "c", Ctrl(c), "IPERF_DONE")
  <2>1. WritesOn(w, Ctrl(c))
    BY <1>1, <1>2, <1>3, WritesOne
  <2>2. Exit(w, c, "done")
    BY <1>5 DEF iperf_client_end, d
  <2> HIDE DEF w
  <2> QED BY <1>4, <2>1, <2>2
<1>6. CASE ServerGone(c)
  BY <1>3, <1>4, <1>6 DEF ServerGone, d
<1>7. CASE ClientStreamError(c) \/ ClientReceiveTimeout(c) \/ ClientKilled(c)
  BY <1>3, <1>4, <1>7 DEF ClientStreamError, ClientReceiveTimeout, ClientKilled
<1>8. CASE ClientInterrupted(c)
  <2> DEFINE w == Write(net, "c", Ctrl(c), "CLIENT_TERMINATE")
  <2>1. WritesOn(w, Ctrl(c))
    BY <1>1, <1>2, <1>3, WritesOne
  <2> QED BY <1>4, <1>8, <2>1 DEF ClientInterrupted
<1> QED BY <1>5, <1>6, <1>7, <1>8

LEMMA MoreConnects ==
  ASSUME Inv, NEW c \in Client, iperf_connect(c) \/ iperf_tcp_connect(c)
  PROVE  \E k \in Conn \cup {NoConn} : CliMore(c, k)
<1>1. Ctrl(c) \in Conn /\ net \in NetRec /\ cli[c].made \in Int /\ cli[c].made >= 0
  BY ClientLookup
<1>2. CASE Exit(net, c, "failed")
  <2>1. cli[c].pc \in {"connect", "streams"}
    BY DEF iperf_connect, iperf_tcp_connect
  <2>2. WritesOn(net, Ctrl(c)) /\ Running(c) /\ \A j \in Conn : j[1] = c => ~Sending(j)
    BY <1>1, <2>1, WritesNothing, NotSending DEF Running
  <2>3. CliMore(c, NoConn)
    BY <1>2, <2>2, MoreExit
  <2> QED BY <2>3
<1>3. CASE iperf_connect(c) /\ ~Exit(net, c, "failed")
  <2>1. /\ net' = Connect(net, Ctrl(c)) /\ cli' = [cli EXCEPT ![c].pc = "cookie"]
        /\ cli[c].pc = "connect"
    BY <1>3 DEF iperf_connect
  <2>2. CliMore(c, Ctrl(c))
    BY <1>1, <2>1, MoreDial
  <2> QED BY <1>1, <2>2
<1>4. CASE iperf_tcp_connect(c) /\ ~Exit(net, c, "failed")
  <2> DEFINE k == <<c, cli[c].made + 1>>
  <2>1. net' = Connect(net, k) /\ cli' = [cli EXCEPT ![c].pc = "streamcookie"] /\ cli[c].pc = "streams"
    BY <1>4 DEF iperf_tcp_connect
  <2>2. cli[c].made < Streams(cli[c].mode)
    BY <2>1 DEF Inv, OnceInv
  <2>3. k \in Conn
    BY <1>1, <2>2, ConnLemma DEF Streams
  <2>4. CliMore(c, k)
    BY <2>1, <2>3, MoreDial
  <2> QED BY <2>3, <2>4
<1> QED BY <1>2, <1>3, <1>4

\* Every step of a client is of this kind.
LEMMA ClientMore ==
  ASSUME Stray = {}, Inv, NEW c \in Client, ClientStep(c) \/ ClientEvent(c)
  PROVE  \E k : CliStep(c, k) /\ CliMore(c, k)
<1>1. PICK k \in Conn \cup {NoConn} : CliStep(c, k)
  BY ClientLemma DEF CliKind
<1>2. PICK l \in Conn \cup {NoConn} : CliMore(c, l)
  BY MoreConnects, MoreWrites, MoreStreamCookie, MoreReads, MoreExits DEF ClientStep, ClientEvent
<1>3. k = l
  <2> DEFINE q == net.backlog
  <2>1. q \in Seq(Conn) /\ NoConn \notin Conn
    BY PairLookup, ConnLemma
  <2>2. (k = NoConn /\ net'.backlog = q) \/ (k \in Conn /\ net'.backlog = Append(q, k))
    BY <1>1 DEF CliStep, CliNet
  <2>3. (l = NoConn /\ net'.backlog = q) \/ (l \in Conn /\ net'.backlog = Append(q, l))
    BY <1>2 DEF CliMore, CliMakes
  <2> HIDE DEF q
  <2>4. \A a \in Conn : Len(Append(q, a)) # Len(q) /\ Append(q, a)[Len(q) + 1] = a
    BY <2>1
  <2> QED BY <2>1, <2>2, <2>3, <2>4
<1> QED BY <1>1, <1>2, <1>3

-----------------------------------------------------------------------------
(* What such a step keeps *)

LEMMA ClientCookies ==
  ASSUME Inv, PairInv, NEW c \in Client, NEW k, CliStep(c, k), CliMore(c, k)
  PROVE  CookieInv' /\ EmptyInv'
<1>1. \A j \in Conn : j # k => (net'.end["c"][j] = "none" <=> net.end["c"][j] = "none")
  BY DEF CliStep, CliNet
<1>2. k \in Conn => net'.end["c"][k] # "none" /\ net.end["c"][k] = "none"
  BY ConnLemma DEF CliStep, CliNet
<1>3. EmptyInv'
  <2> SUFFICES ASSUME NEW j \in Conn, net'.end["c"][j] = "none" PROVE net'.in["s"][j] = <<>>
    BY DEF EmptyInv
  <2>1. net.end["c"][j] = "none" /\ net.in["s"][j] = <<>>
    BY <1>1, <1>2 DEF PairInv, EmptyInv
  <2> QED BY <2>1 DEF CliMore, CliSays
<1>4. ASSUME NEW j \in Conn, InPlace(j)' PROVE Cookie(j)'
  <2>1. srv' = srv
    BY DEF CliStep
  <2>2. Waits(net', j) <=> Waits(net, j) \/ j = k
    BY ClientPlaces
  <2>3. CASE j = k
    <3>1. k # NoConn /\ net.in["s"][k] = <<>>
      BY <1>2, <2>3, ConnLemma DEF PairInv, EmptyInv
    <3>2. /\ net'.in["s"][k] = <<>> /\ net'.end["s"][k] = "open" /\ net'.end["c"][k] = "open"
          /\ cli'[c].made = cli[c].made
          /\ \/ k = Ctrl(c) /\ cli'[c].pc = "cookie"
             \/ k = <<c, cli[c].made + 1>> /\ cli'[c].pc = "streamcookie"
      BY <3>1 DEF CliMore, CliMakes
    <3>3. Sending(k)'
      BY <3>2, ConnLemma DEF Sending
    <3> QED BY <2>3, <3>2, <3>3 DEF Cookie
  <2>4. CASE j # k
    <3>1. Cookie(j)
      BY <1>4, <2>1, <2>2, <2>4 DEF InPlace, PairInv, CookieInv
    <3>2. net'.end["s"][j] = "open" /\ net.end["s"][j] = "open"
      BY <2>4, <3>1 DEF Cookie, CliStep, CliNet
    <3>3. CASE Starts(net, "s", j, "COOKIE")
      <4>1. Starts(net', "s", j, "COOKIE")
        BY <3>3 DEF CliMore, CliSays, Starts
      <4> QED BY <3>2, <4>1 DEF Cookie
    <3>4. CASE /\ net.end["c"][j] = "open"
               /\ (Sending(j) /\ net.in["s"][j] = <<>>) \/ cli[j[1]].pc = "gone"
      <4>1. CASE j[1] # c
        <5>1. cli'[j[1]] = cli[j[1]]
          BY <4>1, ConnLemma DEF CliStep, CliSelf
        <5>2. net'.in["s"][j] = net.in["s"][j] /\ net'.end["c"][j] = net.end["c"][j]
          BY <4>1 DEF CliMore, CliSays
        <5>3. Sending(j)' <=> Sending(j)
          BY <5>1 DEF Sending
        <5> QED BY <3>2, <3>4, <5>1, <5>2, <5>3 DEF Cookie
      <4>2. CASE j[1] = c
        <5>1. Sending(j) /\ net.in["s"][j] = <<>>
          BY <3>4, <4>2 DEF CliMore, Running
        <5>2. \/ Starts(net', "s", j, "COOKIE")
              \/ cli'[c].pc = "gone" /\ net'.end["c"][j] = "open"
          BY <3>2, <3>4, <4>2, <5>1 DEF CliMore, SendsCookie
        <5> QED BY <3>2, <4>2, <5>2 DEF Cookie
      <4> QED BY <4>1, <4>2
    <3> QED BY <3>1, <3>3, <3>4 DEF Cookie
  <2> QED BY <2>3, <2>4
<1> QED BY <1>3, <1>4 DEF CookieInv

\* What becomes of the data connections and of the numbers of them.
LEMMA ClientNumbers ==
  ASSUME Inv, NEW c \in Client, NEW k, CliStep(c, k), CliMore(c, k), NEW d \in Client
  PROVE  /\ cli[d].made \in Int /\ cli'[d].made \in Int /\ cli'[d].mode = cli[d].mode
         /\ \/ cli'[d].made = cli[d].made
            \/ /\ d = c /\ cli'[d].made = cli[d].made + 1 /\ cli[d].pc = "streamcookie"
               /\ cli[d].made < Streams(cli[d].mode)
         /\ \A i \in 1..2 * NumStreams : <<d, i>> = k =>
              /\ d = c /\ i = cli[d].made + 1 /\ cli'[d].made = cli[d].made
              /\ cli[d].pc = "streams" /\ cli[d].made < Streams(cli[d].mode)
<1>1. cli[d].made \in Int /\ cli'[d].made \in Int
  <2>1. cli[d] \in CliRec /\ cli'[d] \in CliRec
    BY DEF Inv, TypeInv, CliStep, CliSelf
  <2> QED BY <2>1, CliFields
<1>2. cli[d].pc \in {"streams", "streamcookie"} => cli[d].made < Streams(cli[d].mode)
  BY DEF Inv, OnceInv
<1>3. d # c => cli'[d] = cli[d]
  BY DEF CliStep, CliSelf
<1>4. d = c => /\ cli'[d].mode = cli[d].mode
               /\ \/ cli'[d].made = cli[d].made
                  \/ cli'[d].made = cli[d].made + 1 /\ cli[d].pc = "streamcookie"
  BY DEF CliMore, CliMakes
<1>5. ASSUME NEW i \in 1..2 * NumStreams, <<d, i>> = k
      PROVE  /\ d = c /\ i = cli[d].made + 1 /\ cli'[d].made = cli[d].made
             /\ cli[d].pc = "streams" /\ cli[d].made < Streams(cli[d].mode)
  <2>1. k \in Conn /\ k # NoConn /\ k[1] = d /\ k[2] = i /\ i # 0
    BY <1>5, PairLookup, ConnLemma
  <2>2. /\ cli'[c].made = cli[c].made /\ cli[c].pc = "streams" /\ k = <<c, cli[c].made + 1>>
    BY <2>1, ConnLemma DEF CliMore, CliMakes
  <2> QED BY <1>2, <1>5, <2>2
<1> QED BY <1>1, <1>2, <1>3, <1>4, <1>5

LEMMA ClientMade ==
  ASSUME Inv, PairInv, NEW c \in Client, NEW k, CliStep(c, k), CliMore(c, k)
  PROVE  MadeInv'
<1> SUFFICES ASSUME NEW j \in Conn, j[2] # 0 PROVE Made(j)'
  BY DEF MadeInv
<1>1. PICK d \in Client, i \in 1..2 * NumStreams : j = <<d, i>>
  <2>1. j[1] \in Client /\ j[2] \in 0..2 * NumStreams /\ j = <<j[1], j[2]>> /\ NumStreams \in Nat
    BY ConnLemma
  <2>2. j[2] \in 1..2 * NumStreams
    BY <2>1
  <2> QED BY <2>1, <2>2
<1>2. j[1] = d /\ j[2] = i /\ i \in Int /\ i # 0
  BY <1>1, PairLookup
<1> DEFINE m == cli[d].made
           mm == cli'[d].made
           q == net.in["c"][Ctrl(d)]
           r == net'.in["c"][Ctrl(d)]
<1>3. /\ m \in Int /\ mm \in Int /\ cli'[d].mode = cli[d].mode /\ Streams(cli[d].mode) \in Int
      /\ \/ mm = m
         \/ mm = m + 1 /\ cli[d].pc = "streamcookie"
      /\ j = k => i = m + 1 /\ mm = m /\ cli[d].pc = "streams" /\ m < Streams(cli[d].mode)
  BY <1>1, ClientNumbers, PairLookup
<1>4. /\ i <= m \/ Sending(j) => net.end["c"][j] # "none"
      /\ net.end["c"][j] # "none" => i <= m + 1 /\ i <= Streams(cli[d].mode)
      /\ Fresh(d) \/ Has(q, "CREATE_STREAMS") => net.end["c"][j] = "none"
      /\ net.in["s"][j] # <<>> => i <= m
  BY <1>2 DEF PairInv, MadeInv, Made
<1>5. /\ j # k => (net'.end["c"][j] = "none" <=> net.end["c"][j] = "none")
      /\ j = k => net'.end["c"][j] # "none"
  BY ConnLemma DEF CliStep, CliNet
<1>6. i <= mm \/ Sending(j)' => net'.end["c"][j] # "none"
  <2>1. CASE i <= mm
    <3>1. i <= m \/ (i = m + 1 /\ cli[d].pc = "streamcookie")
      BY <1>2, <1>3, <2>1
    <3>2. i <= m \/ Sending(j)
      BY <1>2, <3>1 DEF Sending
    <3> QED BY <1>4, <1>5, <3>2
  <2>2. CASE Sending(j)' /\ j # k
    <3>1. cli'[d].pc = "streamcookie" /\ i = mm + 1
      BY <1>2, <2>2 DEF Sending
    <3>2. d # c
      <4> SUFFICES ASSUME d = c PROVE FALSE
        OBVIOUS
      <4>1. k = <<c, m + 1>> /\ mm = m
        BY <3>1 DEF CliMore, CliMakes
      <4> QED BY <1>1, <2>2, <3>1, <4>1
    <3>3. cli'[d] = cli[d]
      BY <3>2 DEF CliStep, CliSelf
    <3>4. Sending(j)
      BY <1>2, <3>1, <3>3 DEF Sending
    <3> QED BY <1>4, <1>5, <3>4
  <2> QED BY <1>5, <2>1, <2>2
<1>7. net'.end["c"][j] # "none" => i <= mm + 1 /\ i <= Streams(cli[d].mode)
  <2> DEFINE all == Streams(cli[d].mode)
  <2>1. m \in Int /\ mm \in Int /\ all \in Int /\ i \in Int /\ (mm = m \/ mm = m + 1)
    BY <1>2, <1>3
  <2>2. CASE j # k
    <3>1. net'.end["c"][j] # "none" => i <= m + 1 /\ i <= all
      BY <1>4, <1>5, <2>2
    <3> HIDE DEF m, mm, all
    <3>2. i <= m + 1 => i <= mm + 1
      BY <2>1
    <3> QED BY <3>1, <3>2 DEF all
  <2>3. CASE j = k
    <3>1. i = m + 1 /\ mm = m /\ m < all
      BY <1>3, <2>3
    <3> HIDE DEF m, mm, all
    <3> QED BY <2>1, <3>1 DEF all
  <2> QED BY <2>2, <2>3
<1>8. Fresh(d)' \/ Has(r, "CREATE_STREAMS") => net'.end["c"][j] = "none"
  <2> SUFFICES ASSUME Fresh(d)' \/ Has(r, "CREATE_STREAMS") PROVE net'.end["c"][j] = "none"
    OBVIOUS
  <2>1. Fresh(d)' => Fresh(d)
    BY ClientFresh
  <2>2. Has(r, "CREATE_STREAMS") => Has(q, "CREATE_STREAMS")
    <3>1. q \in Seq(Msg) /\ Shorter(r, q)
      BY ConnLemma, PairLookup DEF CliStep, CliNet
    <3> HIDE DEF q, r
    <3> QED BY <3>1, ShorterLemma DEF Has
  <2>3. Fresh(d) \/ Has(q, "CREATE_STREAMS")
    BY <2>1, <2>2
  <2>4. j # k
    <3>1. ~Creates(d)
      BY <2>3 DEF Inv, OnceInv, Has
    <3> QED BY <1>3, <3>1 DEF Creates
  <2> QED BY <1>4, <1>5, <2>3, <2>4
<1>9. net'.in["s"][j] # <<>> => i <= mm
  <2>1. \/ net'.in["s"][j] = net.in["s"][j]
        \/ j = <<c, cli[c].made + 1>> /\ cli'[c].made = cli[c].made + 1
    BY DEF CliMore, CliSays
  <2>2. CASE net'.in["s"][j] = net.in["s"][j]
    BY <1>2, <1>3, <1>4, <2>2
  <2>3. CASE j = <<c, cli[c].made + 1>> /\ cli'[c].made = cli[c].made + 1
    BY <1>1, <1>3, <2>3
  <2> QED BY <2>1, <2>2, <2>3
<1> HIDE DEF m, mm, q, r
<1> QED BY <1>2, <1>3, <1>6, <1>7, <1>8, <1>9 DEF Made, m, mm, q, r, Ctrl

\* The connections of a client keep their order when it makes another.
LEMMA OrderedAppend ==
  ASSUME Inv, PairInv, NEW c \in Client, NEW k, CliStep(c, k), CliMore(c, k), NEW d \in Client,
         Ordered(d)
  PROVE  Ordered(d)'
<1> DEFINE q == net.backlog
           r == net'.backlog
<1>1. q \in Seq(Conn)
  BY PairLookup
<1>2. CASE r = q
  BY <1>2 DEF Ordered
<1>3. CASE k \in Conn /\ r = Append(q, k)
  <2>1. /\ Len(q) \in Nat /\ DOMAIN q = 1..Len(q) /\ DOMAIN r = 1..Len(q) + 1
        /\ r[Len(q) + 1] = k /\ \A a \in 1..Len(q) : r[a] = q[a]
    BY <1>1, <1>3
  <2> SUFFICES ASSUME NEW a \in DOMAIN r, NEW b \in DOMAIN r, r[a][1] = d, r[b][1] = d,
                      0 < r[a][2], r[a][2] < r[b][2]
               PROVE  a < b
    BY DEF Ordered
  <2>2. r[a] \in Conn /\ r[b] \in Conn
    BY <1>1, <1>3, <2>1
  <2>3. /\ r[a][2] \in 1..2 * NumStreams /\ r[b][2] \in 1..2 * NumStreams
        /\ r[a] = <<d, r[a][2]>> /\ r[b] = <<d, r[b][2]>> /\ r[a][2] \in Int /\ r[b][2] \in Int
    <3>1. /\ r[a][2] \in 0..2 * NumStreams /\ r[b][2] \in 0..2 * NumStreams /\ NumStreams \in Nat
          /\ r[a] = <<r[a][1], r[a][2]>> /\ r[b] = <<r[b][1], r[b][2]>>
      BY <2>2, ConnLemma
    <3> QED BY <3>1
  <2>4. CASE a \in 1..Len(q) /\ b \in 1..Len(q)
    BY <2>1, <2>4 DEF Ordered
  <2>5. CASE a \in 1..Len(q) /\ b = Len(q) + 1
    BY <2>1, <2>5
  <2>6. CASE a = Len(q) + 1 /\ b \in 1..Len(q)
    <3>1. r[a][2] = cli[d].made + 1 /\ cli[d].made \in Int
      <4> DEFINE i == r[a][2]
      <4>1. i \in 1..2 * NumStreams /\ <<d, i>> = k
        BY <2>1, <2>3, <2>6
      <4> HIDE DEF i
      <4>2. i = cli[d].made + 1 /\ cli[d].made \in Int
        BY <4>1, ClientNumbers
      <4> QED BY <4>2 DEF i
    <3>2. Waits(net, r[b])
      BY <2>1, <2>6 DEF Waits
    <3>3. net.end["c"][r[b]] # "none"
      BY <2>2, <3>2 DEF Inv, PlaceInv
    <3>4. r[b][2] <= cli[d].made + 1
      <4>1. Made(r[b])
        BY <2>2, <2>3 DEF PairInv, MadeInv
      <4> QED BY <3>3, <4>1 DEF Made
    <3> QED BY <2>3, <3>1, <3>4
  <2>7. CASE a = Len(q) + 1 /\ b = Len(q) + 1
    BY <2>3, <2>7
  <2> QED BY <2>1, <2>4, <2>5, <2>6, <2>7
<1> QED BY <1>2, <1>3 DEF CliStep, CliNet

LEMMA ClientServed ==
  ASSUME Inv, PairInv, NEW c \in Client, NEW k, CliStep(c, k), CliMore(c, k)
  PROVE  ServedInv' /\ StateInv'
<1>1. srv' = srv
  BY DEF CliStep
<1>2. StateInv'
  BY <1>1 DEF PairInv, StateInv, Serving
<1>3. CASE ~Serving
  BY <1>1, <1>2, <1>3 DEF ServedInv, Serving
<1>4. CASE Serving
  <2>1. PICK d \in Client : srv.ctrl = Ctrl(d)
    BY <1>4, ServingClient
  <2>2. Served(d) /\ srv'.ctrl[1] = d
    BY <1>1, <1>4, <2>1, ConnLemma DEF PairInv, ServedInv
  <2> DEFINE n == Len(srv.streams)
  <2>3. n \in Nat /\ cli[d].made >= 0
    BY PairLookup
  <2>4. /\ cli[d].made \in Int /\ cli'[d].made \in Int /\ cli'[d].mode = cli[d].mode
        /\ cli'[d].made = cli[d].made \/ cli'[d].made = cli[d].made + 1
        /\ \A i \in 1..2 * NumStreams : <<d, i>> = k => i = cli[d].made + 1
    BY ClientNumbers
  <2>5. n <= cli[d].made
    <3>1. n = 0 \/ n \in 1..n
      BY <2>3
    <3> QED BY <2>2, <2>3, <3>1 DEF Served, Paired
  <2>6. \A i \in 1..2 * NumStreams : Here(d, i)' <=> Here(d, i) \/ <<d, i>> = k
    BY <1>1, ClientPlaces, PairLookup DEF Here
  <2>7. TestIs(d)' /\ Complete(d)'
    BY <1>1, <2>2, <2>4 DEF Served, TestIs, Complete
  <2>8. Paired(d)'
    <3> SUFFICES ASSUME NEW i \in 1..n
                 PROVE  /\ srv.streams[i].conn = <<d, i>>
                        /\ srv.streams[i].sender = StreamFlag(i - 1)'
                        /\ i <= cli'[d].made
      BY <1>1 DEF Paired
    <3>1. /\ srv.streams[i].conn = <<d, i>> /\ srv.streams[i].sender = StreamFlag(i - 1)
          /\ i <= cli[d].made
      BY <2>2 DEF Served, Paired
    <3> QED BY <1>1, <2>3, <2>4, <3>1 DEF StreamFlag
  <2>9. Beyond(d)'
    <3> SUFFICES ASSUME NEW i \in 1..2 * NumStreams, Here(d, i)' PROVE i > n
      BY <1>1 DEF Beyond
    <3>1. CASE Here(d, i)
      BY <2>2, <3>1 DEF Served, Beyond
    <3>2. CASE <<d, i>> = k
      BY <2>3, <2>4, <2>5, <3>2
    <3> QED BY <2>6, <3>1, <3>2
  <2>10. Arriving(d)'
    <3> SUFFICES ASSUME srv.state = "CREATE_STREAMS"
                 PROVE  /\ Ordered(d)'
                        /\ \A i \in 1..2 * NumStreams :
                             /\ srv.pending = <<d, i>> => i = n + 1
                             /\ net'.end["c"][<<d, i>>] # "none" /\ i > n => Here(d, i)'
      BY <1>1 DEF Arriving
    <3>1. Arriving(d)
      BY <2>2 DEF Served
    <3>2. Ordered(d)'
      BY <3>1, OrderedAppend DEF Arriving
    <3>3. ASSUME NEW i \in 1..2 * NumStreams, net'.end["c"][<<d, i>>] # "none", i > n
          PROVE  Here(d, i)'
      <4>1. <<d, i>> # k => net.end["c"][<<d, i>>] # "none"
        BY <3>3, PairLookup DEF CliStep, CliNet
      <4> QED BY <2>6, <3>1, <3>3, <4>1 DEF Arriving
    <3> QED BY <3>1, <3>2, <3>3 DEF Arriving
  <2> QED BY <1>2, <2>2, <2>7, <2>8, <2>9, <2>10 DEF ServedInv, Served
<1> QED BY <1>3, <1>4

LEMMA ClientRuns ==
  ASSUME Inv, PairInv, NEW c \in Client, NEW k, CliStep(c, k), CliMore(c, k)
  PROVE  RunsInv'
<1> SUFFICES ASSUME NEW d \in Client, Runs(d)' PROVE AllMade(d)'
  BY DEF RunsInv
<1>1. Runs(d)
  <2> DEFINE q == net.in["c"][Ctrl(d)]
             r == net'.in["c"][Ctrl(d)]
  <2>1. q \in Seq(Msg) /\ Shorter(r, q)
    BY ConnLemma, PairLookup DEF CliStep, CliNet
  <2>2. \A m : Has(r, m) => Has(q, m)
    <3> HIDE DEF q, r
    <3> QED BY <2>1, ShorterLemma DEF Has
  <2>3. cli'[d].state \in {"TEST_START", "TEST_RUNNING"} => Runs(d)
    BY DEF CliMore, CliStep, CliSelf, Runs
  <2> QED BY <2>2, <2>3 DEF Runs, Ctrl
<1>2. AllMade(d)
  BY <1>1 DEF PairInv, RunsInv
<1>3. /\ cli[d].made = Streams(cli[d].mode) /\ Streams(cli[d].mode) \in Int
      /\ \A i \in 1..2 * NumStreams : ~Waits(net, <<d, i>>)
  BY <1>2, PairLookup DEF AllMade
<1>4. /\ cli'[d].made = cli[d].made /\ cli'[d].mode = cli[d].mode
      /\ \A i \in 1..2 * NumStreams : <<d, i>> # k
  BY <1>3, ClientNumbers
<1>5. \A i \in 1..2 * NumStreams : ~Waits(net', <<d, i>>)
  BY <1>3, <1>4, ClientPlaces, PairLookup
<1> QED BY <1>3, <1>4, <1>5 DEF AllMade

-----------------------------------------------------------------------------
(* The theorems *)

LEMMA InitPairs ==
  ASSUME Init
  PROVE  PairInv
<1>1. Inv
  BY InitLemma
<1> DEFINE q == <<>>
           i == [side \in Side |-> [k \in Conn |-> q]]
           e == [side \in Side |-> [k \in Conn |-> "none"]]
<1>2. net = [in |-> i, end |-> e, backlog |-> q, listening |-> FALSE]
  BY DEF Init
<1>3. q = <<>> /\ DOMAIN q = {}
  OBVIOUS
<1> HIDE DEF q
<1>4. \A k \in Conn : i["c"][k] = q /\ i["s"][k] = q /\ e["c"][k] = "none"
  BY SideLemma
<1> HIDE DEF i, e
<1>5. net.in = i /\ net.end = e /\ net.backlog = q
  BY <1>2
<1>6. /\ srv.pc = "down" /\ srv.state = "0" /\ srv.ctrl = NoConn /\ srv.pending = NoConn
      /\ srv.timer = FALSE
  BY Zenon DEF Init, ResetTest
<1>7. \A c \in Client : /\ cli[c].pc = "connect" /\ cli[c].made = 0 /\ cli[c].state = "0"
                        /\ Ctrl(c) \in Conn
  BY ConnLemma DEF Init
<1>8. \A k \in Conn : ~Waits(net, k) /\ ~InPlace(k) /\ ~Sending(k)
  <2>1. \A k \in Conn : k[1] \in Client /\ k # NoConn
    BY ConnLemma
  <2> QED BY <1>3, <1>5, <1>6, <1>7, <2>1 DEF Waits, InPlace, Sending
<1>9. CookieInv /\ EmptyInv
  BY <1>3, <1>4, <1>5, <1>8 DEF CookieInv, EmptyInv
<1>10. MadeInv
  <2> SUFFICES ASSUME NEW k \in Conn, k[2] # 0 PROVE Made(k)
    BY DEF MadeInv
  <2>1. k[1] \in Client /\ k[2] \in 0..2 * NumStreams /\ NumStreams \in Nat
    BY ConnLemma
  <2>2. ~(k[2] <= cli[k[1]].made)
    BY <1>7, <2>1
  <2>3. net.end["c"][k] = "none" /\ net.in["s"][k] = <<>>
    BY <1>3, <1>4, <1>5
  <2> QED BY <1>8, <2>2, <2>3 DEF Made
<1>11. ~Serving /\ ServedInv /\ StateInv
  BY <1>6 DEF Serving, ServedInv, StateInv
<1>12. RunsInv
  BY <1>3, <1>4, <1>5, <1>7 DEF RunsInv, Runs, Has
<1> QED BY <1>9, <1>10, <1>11, <1>12 DEF PairInv

LEMMA NextPairs ==
  ASSUME Stray = {}, Inv, PairInv, [Next]_vars
  PROVE  PairInv'
<1>1. CASE ServerStep \/ ServerEvent
  BY <1>1, ServerStepPairs
<1>2. ASSUME NEW c \in Client, ClientStep(c) \/ ClientEvent(c)
      PROVE  PairInv'
  <2>1. PICK k : CliStep(c, k) /\ CliMore(c, k)
    BY <1>2, ClientMore
  <2> QED BY <2>1, ClientCookies, ClientMade, ClientServed, ClientRuns DEF PairInv
<1>3. CASE UNCHANGED vars
  <2>1. net' = net /\ srv' = srv /\ cli' = cli
    BY <1>3 DEF vars
  <2>2. CookieInv'
    BY <2>1 DEF PairInv, CookieInv, InPlace, Waits, Cookie, Sending, Starts
  <2>3. EmptyInv' /\ StateInv'
    BY <2>1 DEF PairInv, EmptyInv, StateInv, Serving
  <2>4. MadeInv'
    BY <2>1 DEF PairInv, MadeInv, Made, Sending, Fresh, Waits, Ctrl
  <2>5. ServedInv'
    BY <2>1 DEF PairInv, ServedInv, Serving, Served, TestIs, Paired, StreamFlag, Beyond, Here,
                Waits, Complete, Arriving, Ordered
  <2>6. RunsInv'
    BY <2>1 DEF PairInv, RunsInv, Runs, AllMade, Waits, Ctrl
  <2> QED BY <2>2, <2>3, <2>4, <2>5, <2>6 DEF PairInv
<1> QED BY <1>1, <1>2, <1>3 DEF Next

LEMMA PairInvariant ==
  ASSUME Stray = {}
  PROVE  Spec => [](Inv /\ PairInv)
<1>1. Init => PairInv
  BY InitPairs
<1>2. Inv /\ PairInv /\ [Next]_vars => PairInv'
  BY NextPairs
<1> QED BY <1>1, <1>2, InvariantTheorem, PTL DEF Spec

LEMMA PairedLemma ==
  ASSUME Inv, PairInv
  PROVE  StreamsArePaired
<1> SUFFICES ASSUME srv.state \in {"TEST_START", "TEST_RUNNING"}, ~srv.done
             PROVE  \E c \in Client :
                      /\ srv.ctrl = <<c, 0>>
                      /\ Len(srv.streams) = Streams(cli[c].mode)
                      /\ \A i \in DOMAIN srv.streams :
                           srv.streams[i] = [conn |-> <<c, i>>, sender |-> ~ClientSends(cli[c].mode, i)]
  BY DEF StreamsArePaired
<1>1. Serving /\ (srv.state = "TEST_START" => srv.pc = "timers")
  BY DEF PairInv, StateInv
<1>2. PICK c \in Client : srv.ctrl = Ctrl(c)
  BY <1>1, ServingClient
<1>3. Served(c)
  BY <1>1, <1>2, ConnLemma DEF PairInv, ServedInv
<1>4. Len(srv.streams) = Streams(cli[c].mode)
  BY <1>1, <1>3 DEF Served, Complete
<1>5. ASSUME NEW i \in DOMAIN srv.streams
      PROVE  srv.streams[i] = [conn |-> <<c, i>>, sender |-> ~ClientSends(cli[c].mode, i)]
  <2> DEFINE s == srv.streams[i]
             m == cli[c].mode
  <2>1. srv.streams \in Seq([conn : Conn, sender : BOOLEAN]) /\ NumStreams \in Nat \ {0}
    BY PairLookup
  <2>2. s \in [conn : Conn, sender : BOOLEAN] /\ i \in 1..Len(srv.streams) /\ i \in Int
    <3> DEFINE T == [conn : Conn, sender : BOOLEAN]
               q == srv.streams
    <3>1. q \in Seq(T) /\ i \in DOMAIN q
      BY <1>5, <2>1
    <3> HIDE DEF T, q
    <3>2. q[i] \in T /\ i \in 1..Len(q) /\ i \in Int
      BY <3>1
    <3> QED BY <3>2 DEF T, q
  <2>3. s.conn = <<c, i>> /\ s.sender = StreamFlag(i - 1)
    BY <1>3, <2>2 DEF Served, Paired
  <2>4. m \in {"SENDER", "RECEIVER", "BIDIRECTIONAL"} /\ srv.mode = ServerMode(m)
    BY <1>3, PairLookup, CliFields, ControlAssumption DEF Served, TestIs
  <2>5. i <= Streams(m) /\ i >= 1
    BY <1>4, <2>2
  <2> HIDE DEF m
  <2>6. StreamFlag(i - 1) = ~ClientSends(m, i)
    <3>1. CASE m = "SENDER"
      BY <2>1, <2>2, <2>4, <2>5, <3>1 DEF StreamFlag, ClientSends, ServerMode, Streams
    <3>2. CASE m = "RECEIVER"
      BY <2>1, <2>2, <2>4, <2>5, <3>2 DEF StreamFlag, ClientSends, ServerMode, Streams
    <3>3. CASE m = "BIDIRECTIONAL"
      BY <2>1, <2>2, <2>4, <2>5, <3>3 DEF StreamFlag, ClientSends, ServerMode, Streams
    <3> QED BY <2>4, <3>1, <3>2, <3>3
  <2> HIDE DEF s
  <2>7. s = [conn |-> <<c, i>>, sender |-> ~ClientSends(m, i)]
    BY <2>2, <2>3, <2>6
  <2> QED BY <2>7 DEF s, m
<1> QED BY <1>2, <1>4, <1>5 DEF Ctrl

\* The server's streams are the connections its client made for the test, in
\* order, each with a sender and a receiver, whatever the other clients do:
\* iperf_tcp_accept takes them off the backlog in the order in which
\* iperf_create_streams makes them, knows them by the cookie, and loses none
\* while it collects them, also when the listening socket is replaced.
THEOREM PairedTheorem ==
  ASSUME Stray = {}
  PROVE  Spec => []StreamsArePaired
<1>1. Inv /\ PairInv => StreamsArePaired
  BY PairedLemma
<1>2. Spec => [](Inv /\ PairInv)
  BY PairInvariant
<1> QED BY <1>1, <1>2, PTL

LEMMA RunsLemma ==
  ASSUME Inv, PairInv
  PROVE  TestRunsOnAllStreams
<1> SUFFICES ASSUME NEW c \in Client, cli[c].state \in {"TEST_START", "TEST_RUNNING"}
             PROVE  /\ cli[c].made = Streams(cli[c].mode)
                    /\ \A i \in 1..cli[c].made : ~Contains(net.backlog, <<c, i>>)
  BY DEF TestRunsOnAllStreams
<1>1. AllMade(c)
  BY DEF PairInv, RunsInv, Runs
<1>2. net \in NetRec /\ cli[c].made \in Int /\ cli[c].made <= 2 * NumStreams /\ NumStreams \in Nat
  BY PairLookup DEF Inv, TypeInv
<1>3. \A i \in 1..cli[c].made : i \in 1..2 * NumStreams
  BY <1>2
<1> QED BY <1>1, <1>2, <1>3, WaitsLemma DEF AllMade

\* A client that TEST_START or TEST_RUNNING has reached has made all its
\* connections and the server has taken all of them out of the backlog, so
\* none is reset or refused with the test under way.
THEOREM RunsTheorem ==
  ASSUME Stray = {}
  PROVE  Spec => []TestRunsOnAllStreams
<1>1. Inv /\ PairInv => TestRunsOnAllStreams
  BY RunsLemma
<1>2. Spec => [](Inv /\ PairInv)
  BY PairInvariant
<1> QED BY <1>1, <1>2, PTL
=============================================================================
