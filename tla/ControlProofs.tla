--------------------------- MODULE ControlProofs ---------------------------
(***************************************************************************)
(* Proofs about module Control.  First what the operations on connections  *)
(* do, then what each step does, as a few kinds of steps, then the         *)
(* invariants over these kinds.                                            *)
(***************************************************************************)
EXTENDS Control, SequenceTheorems, TLAPS

End == {"none", "open", "closed", "reset"}

NetRec == [in : [Side -> [Conn -> Seq(Msg)]], end : [Side -> [Conn -> End]],
           backlog : Seq(Conn), listening : BOOLEAN]

LEMMA NetFields ==
  ASSUME NEW n \in NetRec
  PROVE  /\ n.in \in [Side -> [Conn -> Seq(Msg)]] /\ n.end \in [Side -> [Conn -> End]]
         /\ n.backlog \in Seq(Conn) /\ n.listening \in BOOLEAN
         /\ \A side \in Side : /\ n.in[side] \in [Conn -> Seq(Msg)] /\ n.end[side] \in [Conn -> End]
                               /\ \A k \in Conn : n.in[side][k] \in Seq(Msg) /\ n.end[side][k] \in End
BY DEF NetRec

LEMMA SideLemma ==
  /\ "c" \in Side /\ "s" \in Side /\ Peer("c") = "s" /\ Peer("s") = "c"
  /\ \A side \in Side : Peer(side) \in Side /\ Peer(side) # side /\ Side = {side, Peer(side)}
BY DEF Side, Peer

-----------------------------------------------------------------------------
(* The operations on connections *)

\* m is n after a write of ms on connection k, which does nothing at an end
\* that is not open.
IsWritten(m, n, side, k, ms) ==
  /\ m \in NetRec /\ m.end = n.end /\ m.backlog = n.backlog /\ m.listening = n.listening
  /\ m.in[side] = n.in[side]
  /\ \A j \in Conn : j # k => m.in[Peer(side)][j] = n.in[Peer(side)][j]
  /\ m.in[Peer(side)][k] = IF n.end[side][k] = "open" /\ n.end[Peer(side)][k] = "open"
                           THEN n.in[Peer(side)][k] \o ms ELSE n.in[Peer(side)][k]

LEMMA WriteLemma ==
  ASSUME NEW n \in NetRec, NEW side \in Side, NEW k \in Conn, NEW ms \in Seq(Msg)
  PROVE  IsWritten(WriteAll(n, side, k, ms), n, side, k, ms)
<1> DEFINE p == Peer(side)
           q == n.in[p][k] \o ms
           i == [n.in EXCEPT ![p] = [n.in[p] EXCEPT ![k] = q]]
           m == [n EXCEPT !.in = i]
<1>1. p \in Side /\ p # side /\ n.in \in [Side -> [Conn -> Seq(Msg)]]
      /\ n.in[p] \in [Conn -> Seq(Msg)]
  BY SideLemma, NetFields
<1>2. CASE n.end[side][k] = "open" /\ n.end[p][k] = "open"
  <2>1. WriteAll(n, side, k, ms) = m
    BY <1>2 DEF WriteAll
  <2>2. q \in Seq(Msg)
    BY <1>1
  <2> HIDE DEF q, p
  <2>3. i \in [Side -> [Conn -> Seq(Msg)]] /\ i[side] = n.in[side] /\ i[p][k] = q
        /\ \A j \in Conn : j # k => i[p][j] = n.in[p][j]
    BY <1>1, <2>2
  <2> HIDE DEF i
  <2>4. m \in NetRec /\ m.in = i /\ m.end = n.end /\ m.backlog = n.backlog
        /\ m.listening = n.listening
    BY <2>3 DEF NetRec
  <2> QED BY <1>2, <2>1, <2>3, <2>4 DEF IsWritten, p, q
<1>3. CASE ~(n.end[side][k] = "open" /\ n.end[p][k] = "open")
  BY <1>3 DEF WriteAll, IsWritten
<1> QED BY <1>2, <1>3

\* m is n after a read of one message from connection k.
IsRead(m, n, side, k) ==
  /\ m \in NetRec /\ m.end = n.end /\ m.backlog = n.backlog /\ m.listening = n.listening
  /\ m.in[Peer(side)] = n.in[Peer(side)]
  /\ \A j \in Conn : j # k => m.in[side][j] = n.in[side][j]
  /\ m.in[side][k] = IF n.in[side][k] = <<>> THEN <<>> ELSE Tail(n.in[side][k])

LEMMA ReadLemma ==
  ASSUME NEW n \in NetRec, NEW side \in Side, NEW k \in Conn
  PROVE  IsRead(Drop(n, side, k), n, side, k)
<1> DEFINE q == IF n.in[side][k] = <<>> THEN n.in[side][k] ELSE Tail(n.in[side][k])
           i == [n.in EXCEPT ![side] = [n.in[side] EXCEPT ![k] = q]]
           m == [n EXCEPT !.in = i]
<1>1. Peer(side) \in Side /\ Peer(side) # side /\ n.in \in [Side -> [Conn -> Seq(Msg)]]
      /\ n.in[side] \in [Conn -> Seq(Msg)] /\ n.in[side][k] \in Seq(Msg)
  BY SideLemma, NetFields
<1>2. Drop(n, side, k) = m
  BY DEF Drop
<1>3. q \in Seq(Msg) /\ q = IF n.in[side][k] = <<>> THEN <<>> ELSE Tail(n.in[side][k])
  BY <1>1
<1> HIDE DEF q
<1>4. i \in [Side -> [Conn -> Seq(Msg)]] /\ i[Peer(side)] = n.in[Peer(side)] /\ i[side][k] = q
      /\ \A j \in Conn : j # k => i[side][j] = n.in[side][j]
  BY <1>1, <1>3
<1> HIDE DEF i
<1>5. m \in NetRec /\ m.in = i /\ m.end = n.end /\ m.backlog = n.backlog
      /\ m.listening = n.listening
  BY <1>4 DEF NetRec
<1> QED BY <1>2, <1>3, <1>4, <1>5 DEF IsRead

\* m is n after a side has closed its ends of the connections ks.
IsClosed(m, n, side, ks) ==
  /\ m \in NetRec /\ m.backlog = n.backlog /\ m.listening = n.listening
  /\ m.in[Peer(side)] = n.in[Peer(side)] /\ m.end[Peer(side)] = n.end[Peer(side)]
  /\ \A j \in Conn : m.in[side][j] = IF j \in ks THEN <<>> ELSE n.in[side][j]
  /\ \A j \in Conn : m.end[side][j] = IF j \in ks /\ n.end[side][j] = "open"
                                      THEN IF n.in[side][j] = <<>> THEN "closed" ELSE "reset"
                                      ELSE n.end[side][j]

LEMMA CloseLemma ==
  ASSUME NEW n \in NetRec, NEW side \in Side, NEW ks
  PROVE  IsClosed(Close(n, side, ks), n, side, ks)
<1> DEFINE e == [j \in Conn |-> IF j \in ks /\ n.end[side][j] = "open"
                                THEN IF n.in[side][j] = <<>> THEN "closed" ELSE "reset"
                                ELSE n.end[side][j]]
           q == [j \in Conn |-> IF j \in ks THEN <<>> ELSE n.in[side][j]]
           i == [n.in EXCEPT ![side] = q]
           d == [n.end EXCEPT ![side] = e]
           m == [n EXCEPT !.end = d, !.in = i]
<1>1. /\ Peer(side) \in Side /\ Peer(side) # side /\ n.in \in [Side -> [Conn -> Seq(Msg)]]
      /\ n.end \in [Side -> [Conn -> End]]
      /\ \A j \in Conn : n.in[side][j] \in Seq(Msg) /\ n.end[side][j] \in End
  BY SideLemma, NetFields
<1>2. Close(n, side, ks) = m
  BY DEF Close
<1>3. q \in [Conn -> Seq(Msg)] /\ e \in [Conn -> End]
  BY <1>1 DEF End
<1>4. /\ \A j \in Conn : q[j] = IF j \in ks THEN <<>> ELSE n.in[side][j]
      /\ \A j \in Conn : e[j] = IF j \in ks /\ n.end[side][j] = "open"
                                THEN IF n.in[side][j] = <<>> THEN "closed" ELSE "reset"
                                ELSE n.end[side][j]
  OBVIOUS
<1> HIDE DEF q, e
<1>5. /\ i \in [Side -> [Conn -> Seq(Msg)]] /\ i[Peer(side)] = n.in[Peer(side)] /\ i[side] = q
      /\ d \in [Side -> [Conn -> End]] /\ d[Peer(side)] = n.end[Peer(side)] /\ d[side] = e
  BY <1>1, <1>3
<1> HIDE DEF i, d
<1>6. m \in NetRec /\ m.in = i /\ m.end = d /\ m.backlog = n.backlog
      /\ m.listening = n.listening
  BY <1>5 DEF NetRec
<1> QED BY <1>2, <1>4, <1>5, <1>6 DEF IsClosed

\* m is n after connect().
IsConnected(m, n, k) ==
  /\ m \in NetRec /\ m.in = n.in /\ m.backlog = Append(n.backlog, k) /\ m.listening = n.listening
  /\ \A side \in Side : /\ m.end[side][k] = "open"
                        /\ \A j \in Conn : j # k => m.end[side][j] = n.end[side][j]

LEMMA ConnectLemma ==
  ASSUME NEW n \in NetRec, NEW k \in Conn
  PROVE  IsConnected(Connect(n, k), n, k)
<1> DEFINE e == [side \in Side |-> [n.end[side] EXCEPT ![k] = "open"]]
           b == Append(n.backlog, k)
           m == [n EXCEPT !.end = e, !.backlog = b]
<1>1. Connect(n, k) = m
  BY DEF Connect
<1>2. \A side \in Side : n.end[side] \in [Conn -> End]
  BY NetFields
<1>3. e \in [Side -> [Conn -> End]]
  BY <1>2 DEF End
<1>4. \A side \in Side : e[side][k] = "open" /\ \A j \in Conn : j # k => e[side][j] = n.end[side][j]
  BY <1>2
<1>5. b \in Seq(Conn)
  BY NetFields
<1> HIDE DEF e, b
<1>6. m \in NetRec /\ m.in = n.in /\ m.end = e /\ m.backlog = b /\ m.listening = n.listening
  BY <1>3, <1>5 DEF NetRec
<1> QED BY <1>1, <1>4, <1>6 DEF IsConnected, b

\* Connection k waits in the listening socket.
Waits(n, k) == \E i \in DOMAIN n.backlog : n.backlog[i] = k

LEMMA WaitsLemma ==
  ASSUME NEW n \in NetRec, NEW k
  PROVE  Contains(n.backlog, k) <=> Waits(n, k)
<1>1. n.backlog \in Seq(Conn)
  BY NetFields
<1> QED BY <1>1 DEF Contains, Waits

\* m is n after the listening socket is closed.
IsUnbound(m, n) ==
  /\ m \in NetRec /\ m.backlog = <<>> /\ m.listening \in BOOLEAN
  /\ m.in["c"] = n.in["c"] /\ m.end["c"] = n.end["c"]
  /\ \A j \in Conn : /\ m.in["s"][j] = IF Waits(n, j) THEN <<>> ELSE n.in["s"][j]
                     /\ m.end["s"][j] = IF Waits(n, j) THEN "reset" ELSE n.end["s"][j]

LEMMA CloseListenerLemma ==
  ASSUME NEW n \in NetRec
  PROVE  /\ IsUnbound(CloseListener(n), n) /\ CloseListener(n).listening = FALSE
         /\ IsUnbound(Relisten(n), n)
<1> DEFINE e == [j \in Conn |-> IF Contains(n.backlog, j) THEN "reset" ELSE n.end["s"][j]]
           q == [j \in Conn |-> IF Contains(n.backlog, j) THEN <<>> ELSE n.in["s"][j]]
           i == [n.in EXCEPT !["s"] = q]
           d == [n.end EXCEPT !["s"] = e]
           b == <<>>
           m == [n EXCEPT !.listening = FALSE, !.backlog = b, !.end = d, !.in = i]
           r == [m EXCEPT !.listening = TRUE]
<1>1. /\ "c" \in Side /\ "s" \in Side /\ "c" # "s" /\ n.in \in [Side -> [Conn -> Seq(Msg)]]
      /\ n.end \in [Side -> [Conn -> End]]
      /\ \A j \in Conn : n.in["s"][j] \in Seq(Msg) /\ n.end["s"][j] \in End
  BY SideLemma, NetFields
<1>2. CloseListener(n) = m /\ Relisten(n) = r
  BY DEF CloseListener, Relisten
<1>3. q \in [Conn -> Seq(Msg)] /\ e \in [Conn -> End]
  BY <1>1 DEF End
<1>4. /\ \A j \in Conn : q[j] = IF Waits(n, j) THEN <<>> ELSE n.in["s"][j]
      /\ \A j \in Conn : e[j] = IF Waits(n, j) THEN "reset" ELSE n.end["s"][j]
  BY WaitsLemma
<1> HIDE DEF q, e
<1>5. /\ i \in [Side -> [Conn -> Seq(Msg)]] /\ i["c"] = n.in["c"] /\ i["s"] = q
      /\ d \in [Side -> [Conn -> End]] /\ d["c"] = n.end["c"] /\ d["s"] = e
  BY <1>1, <1>3
<1>6. b \in Seq(Conn) /\ b = <<>>
  OBVIOUS
<1> HIDE DEF i, d, b
<1>7. m \in NetRec /\ m.in = i /\ m.end = d /\ m.backlog = b /\ m.listening = FALSE
  BY <1>5, <1>6 DEF NetRec
<1> HIDE DEF m
<1>8. r \in NetRec /\ r.in = i /\ r.end = d /\ r.backlog = b /\ r.listening = TRUE
  BY <1>7 DEF NetRec
<1> HIDE DEF r
<1> QED BY <1>2, <1>4, <1>5, <1>6, <1>7, <1>8 DEF IsUnbound

-----------------------------------------------------------------------------
(* The invariant *)

Mode == {"SENDER", "RECEIVER", "BIDIRECTIONAL"}

SrvRec ==
  [pc : {"down", "select", "cookie", "params", "streamcookie", "start", "timers", "results",
         "exit"},
   state : Msg \cup {"0", "IPERF_START"}, ctrl : Conn \cup {NoConn},
   cookie : Client \cup {NoConn}, mode : Mode,
   streams : Seq([conn : Conn, sender : BOOLEAN]), pending : Conn \cup {NoConn},
   done : BOOLEAN, timer : BOOLEAN, badfd : BOOLEAN]

CliRec ==
  [pc : {"connect", "cookie", "select", "streams", "streamcookie", "results", "drain", "done",
         "failed", "gone"},
   state : Msg \cup {"0"}, mode : Modes, made : 0..2 * NumStreams]

TypeInv ==
  /\ net \in NetRec /\ srv \in SrvRec /\ cli \in [Client -> CliRec] /\ reported \in SUBSET Client

\* The server has accepted the parameters of the client it serves.
Serving ==
  srv.pc \in {"streamcookie", "start", "timers", "results"} \/ (srv.pc = "select" /\ srv.ctrl # NoConn)

\* Where the server is and what it holds there.
PcInv ==
  /\ srv.ctrl = NoConn <=> \/ srv.pc \in {"down", "exit"}
                           \/ srv.pc = "select" /\ srv.state = "IPERF_START"
  /\ srv.pending # NoConn <=> srv.pc = "streamcookie"
  /\ srv.ctrl # NoConn => srv.cookie \in {srv.ctrl[1], NoConn}
  /\ srv.ctrl = NoConn => srv.cookie = NoConn
  /\ Serving => srv.ctrl[2] = 0
  /\ Serving /\ srv.pc = "select" =>
       srv.state \in {"CREATE_STREAMS", "TEST_RUNNING", "DISPLAY_RESULTS"}
  /\ ~Serving => srv.streams = <<>>
  /\ srv.pc = "streamcookie" => srv.state = "CREATE_STREAMS"

\* A connection is in one place, and in none before it is made.
PlaceInv ==
  /\ \A i, j \in DOMAIN net.backlog : net.backlog[i] = net.backlog[j] => i = j
  /\ ~Waits(net, srv.ctrl) /\ ~Waits(net, srv.pending)
  /\ srv.ctrl # NoConn => srv.pending # srv.ctrl
  /\ \A k \in Conn : net.end["c"][k] = "none" =>
       ~Waits(net, k) /\ k # srv.ctrl /\ k # srv.pending /\ net.end["s"][k] = "none"

\* The connections a client has not made yet.
ToMake(c, i) ==
  IF i = 0 THEN cli[c].pc = "connect"
  ELSE \/ Running(c) /\ cli[c].pc # "streamcookie" /\ i > cli[c].made
       \/ cli[c].pc = "streamcookie" /\ i > cli[c].made + 1

FutureInv == \A k \in Conn : ToMake(k[1], k[2]) => net.end["c"][k] = "none"

\* Only cookies are sent to the server on data connections.
DataInv ==
  \A k \in Conn : k[2] # 0 => \A i \in DOMAIN net.in["s"][k] : net.in["s"][k][i] = "COOKIE"

\* The server has not accepted the parameters of client c.
Fresh(c) ==
  \/ cli[c].pc = "connect" \/ Waits(net, Ctrl(c)) \/ srv.pending = Ctrl(c)
  \/ srv.ctrl = Ctrl(c) /\ srv.pc \in {"cookie", "params"}

Creates(c) == cli[c].made # 0 \/ cli[c].pc \in {"streams", "streamcookie"}

\* A client is asked for streams once.
OnceInv ==
  \A c \in Client :
    LET q == net.in["c"][Ctrl(c)]
        asked == \E i \in DOMAIN q : q[i] = "CREATE_STREAMS"
    IN  /\ Fresh(c) \/ Creates(c) => ~asked
        /\ Fresh(c) => ~Creates(c)
        /\ \A i, j \in DOMAIN q : q[i] = "CREATE_STREAMS" /\ q[j] = "CREATE_STREAMS" => i = j
        /\ cli[c].pc \in {"streams", "streamcookie"} => cli[c].made < Streams(cli[c].mode)

\* Whose control connection is open at both ends waits or is served.
HeldInv ==
  \A c \in Client :
    net.end["s"][Ctrl(c)] = "open" /\ net.end["c"][Ctrl(c)] = "open" =>
      Waits(net, Ctrl(c)) \/ srv.ctrl = Ctrl(c) \/ srv.pending = Ctrl(c)

\* Who is told to show its results has reported them.
ReportInv ==
  \A k \in Conn : \A i \in DOMAIN net.in["c"][k] :
    net.in["c"][k][i] = "DISPLAY_RESULTS" => k[1] \in reported

OneOffInv ==
  OneOff /\ reported # {} =>
    \/ srv.pc = "exit"
    \/ /\ srv.pc \in {"select", "results"} /\ srv.ctrl # NoConn /\ reported = {srv.ctrl[1]}
       /\ srv.state # "IPERF_START" /\ srv.state # "CREATE_STREAMS"

LEMMA SrvFields ==
  ASSUME NEW x \in SrvRec
  PROVE  /\ x.state \in Msg \cup {"0", "IPERF_START"} /\ x.ctrl \in Conn \cup {NoConn}
         /\ x.cookie \in Client \cup {NoConn} /\ x.mode \in Mode
         /\ x.streams \in Seq([conn : Conn, sender : BOOLEAN]) /\ x.pending \in Conn \cup {NoConn}
         /\ x.done \in BOOLEAN /\ x.timer \in BOOLEAN /\ x.badfd \in BOOLEAN
         /\ x.pc \in {"down", "select", "cookie", "params", "streamcookie", "start", "timers",
                      "results", "exit"}
BY DEF SrvRec

LEMMA ConnLemma ==
  /\ NoConn \notin Conn /\ NoConn \notin Client
  /\ \A c \in Client : /\ Ctrl(c) \in Conn /\ Ctrl(c)[1] = c /\ Ctrl(c)[2] = 0
                       /\ \A i \in 0..2 * NumStreams : <<c, i>> \in Conn
  /\ \A k \in Conn : /\ k[1] \in Client /\ k[2] \in 0..2 * NumStreams /\ k = <<k[1], k[2]>>
                     /\ k[2] = 0 => k = Ctrl(k[1])
  /\ NumStreams \in Nat \ {0}
BY ControlAssumption DEF Conn, Ctrl

-----------------------------------------------------------------------------
(* What a step of the server does to the connections *)

\* q is what is left of r.
Shorter(q, r) == q = r \/ q = <<>> \/ (r # <<>> /\ q = Tail(r))

\* n is net after some of: a read, the write of ms to the client, closing and
\* making a listening socket again, closing connections.
Prep(n, ms) ==
  /\ n \in NetRec /\ n.end["c"] = net.end["c"]
  /\ n.backlog = net.backlog \/ n.backlog = <<>>
  /\ \A k \in Conn :
       /\ n.end["s"][k] = "open" => net.end["s"][k] = "open" /\ (Waits(net, k) => Waits(n, k))
       /\ net.end["s"][k] = "none" /\ ~Waits(net, k) => n.end["s"][k] = "none"
       /\ Shorter(n.in["s"][k], net.in["s"][k])
       /\ k # srv.ctrl => n.in["c"][k] = net.in["c"][k]
       /\ n.in["c"][k] = net.in["c"][k] \/ n.in["c"][k] = net.in["c"][k] \o ms

LEMMA PrepSame ==
  ASSUME net \in NetRec, NEW ms PROVE Prep(net, ms)
BY DEF Prep, Shorter

LEMMA PrepRead ==
  ASSUME net \in NetRec, NEW k \in Conn, NEW ms PROVE Prep(Drop(net, "s", k), ms)
<1>1. IsRead(Drop(net, "s", k), net, "s", k)
  BY ReadLemma, SideLemma
<1> QED BY <1>1, SideLemma DEF IsRead, Prep, Shorter, Waits

LEMMA PrepWrite ==
  ASSUME net \in NetRec, NEW n, NEW ms \in Seq(Msg), Prep(n, <<>>), srv.ctrl \in Conn
  PROVE  Prep(WriteAll(n, "s", srv.ctrl, ms), ms)
<1> DEFINE m == WriteAll(n, "s", srv.ctrl, ms)
<1>1. n \in NetRec /\ IsWritten(m, n, "s", srv.ctrl, ms)
  BY WriteLemma, SideLemma DEF Prep
<1> HIDE DEF m
<1>2. /\ m \in NetRec /\ m.end = n.end /\ m.backlog = n.backlog /\ m.in["s"] = n.in["s"]
      /\ \A j \in Conn : j # srv.ctrl => m.in["c"][j] = n.in["c"][j]
      /\ m.in["c"][srv.ctrl] = n.in["c"][srv.ctrl] \/ m.in["c"][srv.ctrl] = n.in["c"][srv.ctrl] \o ms
  BY <1>1, SideLemma DEF IsWritten
<1>3. \A k \in Conn : n.in["c"][k] = net.in["c"][k]
  <2>1. \A k \in Conn : net.in["c"][k] \in Seq(Msg)
    BY NetFields, SideLemma
  <2>2. \A k \in Conn : net.in["c"][k] \o <<>> = net.in["c"][k]
    BY <2>1
  <2> QED BY <2>2 DEF Prep
<1>4. \A k \in Conn : Waits(m, k) <=> Waits(n, k)
  BY <1>2 DEF Waits
<1>5. Prep(m, ms)
  BY <1>2, <1>3, <1>4 DEF Prep
<1> QED BY <1>5 DEF m

LEMMA PrepRelisten ==
  ASSUME net \in NetRec, NEW n, NEW ms, Prep(n, ms)
  PROVE  /\ Prep(Relisten(n), ms) /\ Relisten(n).backlog = <<>>
         /\ Prep(CloseListener(n), ms) /\ CloseListener(n).backlog = <<>>
         /\ \A k \in Conn : CloseListener(n).end["s"][k] = "open" =>
                              n.end["s"][k] = "open" /\ ~Waits(net, k)
<1>1. ASSUME NEW m, IsUnbound(m, n)
      PROVE  /\ Prep(m, ms) /\ m.backlog = <<>>
             /\ \A k \in Conn : m.end["s"][k] = "open" => n.end["s"][k] = "open" /\ ~Waits(net, k)
  <2>1. /\ m \in NetRec /\ m.backlog = <<>> /\ m.in["c"] = n.in["c"] /\ m.end["c"] = n.end["c"]
        /\ \A j \in Conn : /\ m.in["s"][j] = IF Waits(n, j) THEN <<>> ELSE n.in["s"][j]
                           /\ m.end["s"][j] = IF Waits(n, j) THEN "reset" ELSE n.end["s"][j]
    BY <1>1 DEF IsUnbound
  <2>2. \A k \in Conn : ~Waits(m, k)
    BY <2>1 DEF Waits
  <2>3. \A k \in Conn : Waits(n, k) => Waits(net, k)
    BY DEF Prep, Waits
  <2>4. \A k \in Conn : m.end["s"][k] = "open" => n.end["s"][k] = "open" /\ ~Waits(net, k)
    BY <2>1 DEF Prep
  <2>5. \A k \in Conn : Shorter(m.in["s"][k], net.in["s"][k])
    BY <2>1 DEF Prep, Shorter
  <2>6. \A k \in Conn : net.end["s"][k] = "none" /\ ~Waits(net, k) => m.end["s"][k] = "none"
    BY <2>1, <2>3 DEF Prep
  <2> QED BY <2>1, <2>4, <2>5, <2>6 DEF Prep
<1>2. n \in NetRec
  BY DEF Prep
<1> QED BY <1>1, <1>2, CloseListenerLemma

LEMMA PrepClose ==
  ASSUME net \in NetRec, NEW n, NEW ms, NEW ks, Prep(n, ms)
  PROVE  /\ Prep(Close(n, "s", ks), ms) /\ Close(n, "s", ks).backlog = n.backlog
         /\ \A k \in Conn : Close(n, "s", ks).end["s"][k] = "open" =>
                              n.end["s"][k] = "open" /\ k \notin ks
<1> DEFINE m == Close(n, "s", ks)
<1>1. IsClosed(m, n, "s", ks)
  BY CloseLemma, SideLemma DEF Prep
<1> HIDE DEF m
<1>2. /\ m \in NetRec /\ m.backlog = n.backlog /\ m.in["c"] = n.in["c"] /\ m.end["c"] = n.end["c"]
      /\ \A j \in Conn : m.in["s"][j] = n.in["s"][j] \/ m.in["s"][j] = <<>>
      /\ \A j \in Conn : /\ m.end["s"][j] = "open" => n.end["s"][j] = "open" /\ j \notin ks
                         /\ n.end["s"][j] = "none" => m.end["s"][j] = "none"
  BY <1>1, SideLemma DEF IsClosed
<1>3. \A k \in Conn : Waits(m, k) <=> Waits(n, k)
  BY <1>2 DEF Waits
<1>4. \A k \in Conn : Shorter(m.in["s"][k], net.in["s"][k])
  BY <1>2 DEF Prep, Shorter
<1>5. Prep(m, ms)
  BY <1>2, <1>3, <1>4 DEF Prep
<1> QED BY <1>2, <1>5 DEF m

-----------------------------------------------------------------------------
(* What every step of the server has in common *)

Inv ==
  /\ TypeInv /\ PcInv /\ PlaceInv /\ FutureInv /\ DataInv /\ OnceInv
  /\ HeldInv /\ ReportInv /\ OneOffInv

\* The connections: the server takes at most the first that waits, and writes
\* at most ms, on connection `to'.
SrvNet(ms, to) ==
  /\ net' \in NetRec /\ net'.end["c"] = net.end["c"]
  /\ \/ net'.backlog = net.backlog
     \/ net'.backlog = <<>>
     \/ net.backlog # <<>> /\ net'.backlog = Tail(net.backlog)
  /\ \A k \in Conn :
       /\ net.end["s"][k] = "none" /\ ~Waits(net, k) => net'.end["s"][k] = "none"
       /\ Shorter(net'.in["s"][k], net.in["s"][k])
       /\ k # to => net'.in["c"][k] = net.in["c"][k]
       /\ net'.in["c"][k] = net.in["c"][k] \/ net'.in["c"][k] = net.in["c"][k] \o ms

\* What it takes becomes its control connection or its pending one.
SrvPlaces ==
  \/ srv'.ctrl \in {srv.ctrl, NoConn} /\ srv'.pending \in {srv.pending, NoConn}
  \/ /\ net.backlog # <<>> /\ net'.backlog = Tail(net.backlog) /\ srv.pending = NoConn
     /\ \/ srv.ctrl = NoConn /\ srv'.ctrl = Head(net.backlog) /\ srv'.pending = NoConn
        \/ srv'.ctrl = srv.ctrl /\ srv'.pending = Head(net.backlog)

\* When it asks for streams and for the display of results, and when it says
\* that the test runs.
SrvSays(ms, to) ==
  /\ ms \in Seq(Msg)
  /\ \A i \in DOMAIN ms : ms[i] = "DISPLAY_RESULTS" => to[1] \in reported'
  /\ \A i \in DOMAIN ms : ms[i] = "CREATE_STREAMS" =>
       /\ ms = <<"CREATE_STREAMS">> /\ to = srv.ctrl /\ srv.pc = "params"
       /\ srv'.pc \notin {"cookie", "params"}
  /\ \A i \in DOMAIN ms : ms[i] \in {"TEST_START", "TEST_RUNNING"} =>
       to = srv.ctrl /\ srv.pc \in {"start", "timers"}
  /\ srv'.pc \in {"cookie", "params"} =>
       \/ srv.pc \in {"cookie", "params"} /\ srv'.ctrl = srv.ctrl
       \/ Waits(net, srv'.ctrl)

\* Whose results it takes.
SrvReports ==
  \/ reported' = reported
  \/ /\ srv.ctrl \in Conn /\ srv'.ctrl \in {srv.ctrl, NoConn}
     /\ reported' = reported \cup {srv.ctrl[1]}

\* A step of the server that has these properties and keeps the parts of the
\* invariant that say where it is.
SrvStep(ms, to) ==
  /\ SrvNet(ms, to) /\ SrvPlaces /\ SrvSays(ms, to)
  /\ srv' \in SrvRec /\ cli' = cli
  /\ SrvReports /\ PcInv' /\ HeldInv' /\ OneOffInv'

LEMMA TailFacts ==
  ASSUME NEW T, NEW q \in Seq(T), q # <<>>
  PROVE  /\ Head(q) = q[1] /\ 1 \in DOMAIN q /\ Tail(q) \in Seq(T) /\ Head(q) \in T
         /\ \A i \in DOMAIN Tail(q) : i + 1 \in DOMAIN q /\ Tail(q)[i] = q[i + 1] /\ i \in Nat \ {0}
         /\ \A i \in DOMAIN q : i # 1 => i - 1 \in DOMAIN Tail(q) /\ Tail(q)[i - 1] = q[i]
OBVIOUS

LEMMA ConcatFacts ==
  ASSUME NEW T, NEW q \in Seq(T), NEW r \in Seq(T)
  PROVE  /\ q \o r \in Seq(T)
         /\ \A i \in DOMAIN (q \o r) :
              \/ i \in DOMAIN q /\ (q \o r)[i] = q[i]
              \/ i - Len(q) \in DOMAIN r /\ (q \o r)[i] = r[i - Len(q)]
         /\ \A i \in DOMAIN (q \o r), j \in DOMAIN (q \o r) :
              i - Len(q) \in DOMAIN r /\ j - Len(q) \in DOMAIN r /\ i - Len(q) = j - Len(q) => i = j
<1>1. q \o r \in Seq(T) /\ Len(q \o r) = Len(q) + Len(r) /\ Len(q) \in Nat /\ Len(r) \in Nat
  OBVIOUS
<1>2. \A i \in 1..Len(q) + Len(r) : (q \o r)[i] = IF i <= Len(q) THEN q[i] ELSE r[i - Len(q)]
  OBVIOUS
<1>3. DOMAIN q = 1..Len(q) /\ DOMAIN r = 1..Len(r) /\ DOMAIN (q \o r) = 1..Len(q) + Len(r)
  BY <1>1
<1>4. \A i \in 1..Len(q) + Len(r) : i \in 1..Len(q) \/ i - Len(q) \in 1..Len(r)
  BY <1>1
<1>5. \A i \in 1..Len(q) + Len(r) : /\ i \in 1..Len(q) => i <= Len(q)
                                    /\ i \notin 1..Len(q) => ~(i <= Len(q))
  BY <1>1
<1>6. \A i, j \in 1..Len(q) + Len(r) : i - Len(q) = j - Len(q) => i = j
  BY <1>1
<1> QED BY <1>1, <1>2, <1>3, <1>4, <1>5, <1>6

\* Who waits after a step of the server waited before, and the first is taken.
LEMMA WaitsAfter ==
  ASSUME Inv, NEW ms, NEW to, SrvNet(ms, to)
  PROVE  /\ \A k \in Conn : Waits(net', k) => Waits(net, k)
         /\ net.backlog # <<>> => Waits(net, Head(net.backlog)) /\ Head(net.backlog) \in Conn
         /\ net.backlog # <<>> /\ net'.backlog = Tail(net.backlog) => ~Waits(net', Head(net.backlog))
         /\ \A i, j \in DOMAIN net'.backlog : net'.backlog[i] = net'.backlog[j] => i = j
<1>1. net.backlog \in Seq(Conn)
  BY NetFields DEF Inv, TypeInv
<1>2. \A i, j \in DOMAIN net.backlog : net.backlog[i] = net.backlog[j] => i = j
  BY DEF Inv, PlaceInv
<1>3. CASE net.backlog # <<>> /\ net'.backlog = Tail(net.backlog)
  <2> DEFINE q == net.backlog
             r == net'.backlog
  <2>1. /\ Head(q) = q[1] /\ 1 \in DOMAIN q /\ Head(q) \in Conn
        /\ \A i \in DOMAIN r : i + 1 \in DOMAIN q /\ r[i] = q[i + 1] /\ i \in Nat \ {0}
    BY <1>1, <1>3, TailFacts
  <2>2. \A k \in Conn : Waits(net', k) => Waits(net, k)
    BY <2>1 DEF Waits
  <2>3. Waits(net, Head(q))
    BY <2>1 DEF Waits
  <2>4. ~Waits(net', Head(q))
    <3> SUFFICES ASSUME NEW i \in DOMAIN r, r[i] = Head(q) PROVE FALSE
      BY DEF Waits
    <3>1. i + 1 \in DOMAIN q /\ q[i + 1] = q[1] /\ i \in Nat \ {0}
      BY <2>1
    <3>2. i + 1 = 1
      BY <1>2, <2>1, <3>1
    <3> QED BY <3>1, <3>2
  <2>5. ASSUME NEW i \in DOMAIN r, NEW j \in DOMAIN r, r[i] = r[j] PROVE i = j
    <3>1. i + 1 \in DOMAIN q /\ j + 1 \in DOMAIN q /\ q[i + 1] = q[j + 1] /\ i \in Nat /\ j \in Nat
      BY <2>1, <2>5
    <3>2. i + 1 = j + 1
      BY <1>2, <3>1
    <3> QED BY <3>1, <3>2
  <2> QED BY <2>1, <2>2, <2>3, <2>4, <2>5
<1>4. CASE net'.backlog = net.backlog
  BY <1>1, <1>2, <1>4, <1>3, TailFacts DEF Waits
<1>5. CASE net'.backlog = <<>> /\ ~(net.backlog # <<>> /\ net'.backlog = Tail(net.backlog))
  <2>1. net.backlog # <<>> => Waits(net, Head(net.backlog)) /\ Head(net.backlog) \in Conn
    BY <1>1, TailFacts DEF Waits
  <2> QED BY <1>5, <2>1 DEF Waits
<1> QED BY <1>3, <1>4, <1>5 DEF SrvNet

LEMMA ServerPlaces ==
  ASSUME Inv, NEW ms, NEW to, SrvStep(ms, to)
  PROVE  PlaceInv'
<1>1. /\ \A k \in Conn : Waits(net', k) => Waits(net, k)
      /\ net.backlog # <<>> => Waits(net, Head(net.backlog)) /\ Head(net.backlog) \in Conn
      /\ net.backlog # <<>> /\ net'.backlog = Tail(net.backlog) => ~Waits(net', Head(net.backlog))
      /\ \A i, j \in DOMAIN net'.backlog : net'.backlog[i] = net'.backlog[j] => i = j
  BY WaitsAfter DEF SrvStep
<1>2. ~Waits(net', NoConn)
  <2>1. net'.backlog \in Seq(Conn)
    BY NetFields DEF SrvStep, SrvNet
  <2> QED BY <2>1, ConnLemma DEF Waits
<1>3. /\ srv.ctrl \in Conn \cup {NoConn} /\ srv.pending \in Conn \cup {NoConn}
  BY SrvFields DEF Inv, TypeInv
<1>4. ~Waits(net', srv'.ctrl) /\ ~Waits(net', srv'.pending)
  BY <1>1, <1>2, <1>3 DEF SrvStep, SrvPlaces, Inv, PlaceInv
<1>5. srv'.ctrl # NoConn => srv'.pending # srv'.ctrl
  BY <1>1, <1>3 DEF SrvStep, SrvPlaces, Inv, PlaceInv
<1>6. ASSUME NEW k \in Conn, net'.end["c"][k] = "none"
      PROVE  ~Waits(net', k) /\ k # srv'.ctrl /\ k # srv'.pending /\ net'.end["s"][k] = "none"
  <2>1. ~Waits(net, k) /\ k # srv.ctrl /\ k # srv.pending /\ net.end["s"][k] = "none" /\ k # NoConn
    BY <1>6, ConnLemma DEF SrvStep, SrvNet, Inv, PlaceInv
  <2> QED BY <1>1, <2>1 DEF SrvStep, SrvNet, SrvPlaces
<1> QED BY <1>1, <1>4, <1>5, <1>6 DEF PlaceInv

LEMMA ServerQueues ==
  ASSUME Inv, NEW ms, NEW to, SrvStep(ms, to)
  PROVE  FutureInv' /\ DataInv' /\ ReportInv'
<1>1. FutureInv'
  BY DEF SrvStep, SrvNet, Inv, FutureInv, ToMake, Running
<1>2. DataInv'
  <2> SUFFICES ASSUME NEW k \in Conn, k[2] # 0, NEW i \in DOMAIN net'.in["s"][k]
               PROVE  net'.in["s"][k][i] = "COOKIE"
    BY DEF DataInv
  <2> DEFINE q == net.in["s"][k]
             r == net'.in["s"][k]
  <2>1. q \in Seq(Msg) /\ \A j \in DOMAIN q : q[j] = "COOKIE"
    BY NetFields, SideLemma DEF Inv, TypeInv, DataInv
  <2>2. Shorter(r, q)
    BY DEF SrvStep, SrvNet
  <2>3. CASE q # <<>> /\ r = Tail(q)
    BY <2>1, <2>3, TailFacts
  <2> QED BY <2>1, <2>2, <2>3 DEF Shorter
<1>3. ReportInv'
  <2> SUFFICES ASSUME NEW k \in Conn, NEW i \in DOMAIN net'.in["c"][k],
                      net'.in["c"][k][i] = "DISPLAY_RESULTS"
               PROVE  k[1] \in reported'
    BY DEF ReportInv
  <2> DEFINE q == net.in["c"][k]
  <2>1. q \in Seq(Msg) /\ \A j \in DOMAIN q : q[j] = "DISPLAY_RESULTS" => k[1] \in reported'
    BY NetFields, SideLemma DEF Inv, TypeInv, ReportInv, SrvStep, SrvReports
  <2>2. CASE net'.in["c"][k] = q
    BY <2>1, <2>2
  <2>3. CASE net'.in["c"][k] = q \o ms /\ net'.in["c"][k] # q
    <3>1. k = to /\ ms \in Seq(Msg)
      BY <2>3 DEF SrvStep, SrvNet, SrvSays
    <3>2. \A j \in DOMAIN (q \o ms) : \/ j \in DOMAIN q /\ (q \o ms)[j] = q[j]
                                      \/ j - Len(q) \in DOMAIN ms /\ (q \o ms)[j] = ms[j - Len(q)]
      BY <2>1, <3>1, ConcatFacts
    <3> QED BY <2>1, <2>3, <3>1, <3>2 DEF SrvStep, SrvSays
  <2> QED BY <2>2, <2>3 DEF SrvStep, SrvNet
<1> QED BY <1>1, <1>2, <1>3

LEMMA ServerFresh ==
  ASSUME Inv, NEW ms, NEW to, SrvStep(ms, to), NEW c \in Client
  PROVE  Fresh(c)' => Fresh(c)
<1>1. Ctrl(c) \in Conn /\ cli' = cli
  BY ConnLemma DEF SrvStep
<1>2. /\ \A k \in Conn : Waits(net', k) => Waits(net, k)
      /\ net.backlog # <<>> => Waits(net, Head(net.backlog))
  BY WaitsAfter DEF SrvStep
<1>3. Waits(net', Ctrl(c)) => Waits(net, Ctrl(c))
  BY <1>1, <1>2
<1>4. srv'.pending = Ctrl(c) => srv.pending = Ctrl(c) \/ Waits(net, Ctrl(c))
  BY <1>1, <1>2, ConnLemma DEF SrvStep, SrvPlaces
<1>5. srv'.ctrl = Ctrl(c) /\ srv'.pc \in {"cookie", "params"} =>
        \/ srv.ctrl = Ctrl(c) /\ srv.pc \in {"cookie", "params"}
        \/ Waits(net, Ctrl(c))
  BY DEF SrvStep, SrvSays
<1> QED BY <1>1, <1>3, <1>4, <1>5 DEF Fresh, Ctrl

LEMMA ServerOnce ==
  ASSUME Inv, NEW ms, NEW to, SrvStep(ms, to), PlaceInv'
  PROVE  OnceInv'
<1> SUFFICES ASSUME NEW c \in Client
             PROVE  LET q == net'.in["c"][Ctrl(c)]
                        asked == \E i \in DOMAIN q : q[i] = "CREATE_STREAMS"
                    IN  /\ Fresh(c)' \/ Creates(c)' => ~asked
                        /\ Fresh(c)' => ~Creates(c)'
                        /\ \A i, j \in DOMAIN q : q[i] = "CREATE_STREAMS" /\ q[j] = "CREATE_STREAMS" => i = j
                        /\ cli'[c].pc \in {"streams", "streamcookie"} => cli'[c].made < Streams(cli'[c].mode)
  BY DEF OnceInv, Ctrl
<1> DEFINE q == net.in["c"][Ctrl(c)]
           r == net'.in["c"][Ctrl(c)]
<1>0. Ctrl(c) \in Conn /\ q \in Seq(Msg) /\ Ctrl(c)[1] = c /\ Ctrl(c)[2] = 0
  BY NetFields, SideLemma, ConnLemma DEF Inv, TypeInv
<1>1. /\ Fresh(c) \/ Creates(c) => ~\E i \in DOMAIN q : q[i] = "CREATE_STREAMS"
      /\ Fresh(c) => ~Creates(c)
      /\ \A i, j \in DOMAIN q : q[i] = "CREATE_STREAMS" /\ q[j] = "CREATE_STREAMS" => i = j
      /\ cli[c].pc \in {"streams", "streamcookie"} => cli[c].made < Streams(cli[c].mode)
  BY DEF Inv, OnceInv
<1>2. /\ cli' = cli /\ (Creates(c)' <=> Creates(c))
  BY DEF SrvStep, Creates
<1>3. Fresh(c)' => Fresh(c)
  BY ServerFresh
<1>4. CASE r = q
  BY <1>1, <1>2, <1>3, <1>4
<1>5. CASE r # q
  <2>1. Ctrl(c) = to /\ r = q \o ms /\ ms \in Seq(Msg)
    BY <1>0, <1>5 DEF SrvStep, SrvNet, SrvSays
  <2>2. \A i \in DOMAIN r : \/ i \in DOMAIN q /\ r[i] = q[i]
                            \/ i - Len(q) \in DOMAIN ms /\ r[i] = ms[i - Len(q)]
    BY <1>0, <2>1, ConcatFacts
  <2>3. CASE \A i \in DOMAIN ms : ms[i] # "CREATE_STREAMS"
    <3>1. \A i \in DOMAIN r : r[i] = "CREATE_STREAMS" => i \in DOMAIN q /\ q[i] = "CREATE_STREAMS"
      BY <2>2, <2>3
    <3> QED BY <1>1, <1>2, <1>3, <3>1
  <2>4. CASE \E i \in DOMAIN ms : ms[i] = "CREATE_STREAMS"
    <3>1. /\ ms = <<"CREATE_STREAMS">> /\ srv.ctrl = Ctrl(c) /\ srv.pc = "params"
          /\ srv'.pc \notin {"cookie", "params"}
      BY <2>1, <2>4 DEF SrvStep, SrvSays
    <3>2. Fresh(c)
      BY <3>1 DEF Fresh
    <3>3. \A i \in DOMAIN q : q[i] # "CREATE_STREAMS"
      BY <1>1, <3>2
    <3>4. ~Fresh(c)'
      <4>1. cli[c].pc # "connect"
        BY <1>0, <3>1, ConnLemma DEF Inv, PlaceInv, FutureInv, ToMake
      <4>2. ~Waits(net, Ctrl(c)) /\ srv.pending # Ctrl(c)
        BY <1>0, <3>1, ConnLemma DEF Inv, PlaceInv
      <4>3. ~Waits(net', Ctrl(c))
        BY <1>0, <4>2, WaitsAfter DEF SrvStep
      <4>4. srv'.pending # Ctrl(c)
        <5>1. Head(net.backlog) = Ctrl(c) /\ net.backlog # <<>> => Waits(net, Ctrl(c))
          BY WaitsAfter DEF SrvStep
        <5> QED BY <1>0, <4>2, <5>1, ConnLemma DEF SrvStep, SrvPlaces
      <4> QED BY <1>2, <3>1, <4>1, <4>3, <4>4 DEF Fresh, Ctrl
    <3>5. \A i, j \in DOMAIN r : r[i] = "CREATE_STREAMS" /\ r[j] = "CREATE_STREAMS" => i = j
      <4> SUFFICES ASSUME NEW i \in DOMAIN r, NEW j \in DOMAIN r,
                          r[i] = "CREATE_STREAMS", r[j] = "CREATE_STREAMS"
                   PROVE  i = j
        OBVIOUS
      <4>1. i - Len(q) \in DOMAIN ms /\ j - Len(q) \in DOMAIN ms
        BY <2>2, <3>3
      <4>2. i - Len(q) = j - Len(q)
        BY <3>1, <4>1
      <4> QED BY <1>0, <2>1, <4>1, <4>2, ConcatFacts
    <3> QED BY <1>1, <1>2, <3>2, <3>4, <3>5
  <2> QED BY <2>3, <2>4
<1> QED BY <1>4, <1>5

\* What such a step does keeps the invariant.
LEMMA ServerKeeps ==
  ASSUME Inv, NEW ms, NEW to, SrvStep(ms, to)
  PROVE  Inv'
<1>1. TypeInv'
  BY ConnLemma DEF SrvStep, SrvNet, SrvReports, Inv, TypeInv
<1>2. PlaceInv' /\ FutureInv' /\ DataInv' /\ ReportInv'
  BY ServerPlaces, ServerQueues
<1>3. OnceInv'
  BY <1>2, ServerOnce
<1> QED BY <1>1, <1>2, <1>3 DEF SrvStep, Inv

-----------------------------------------------------------------------------
(* The server's test ends *)

ResetPc(pc) == [ResetTest EXCEPT !.pc = pc]

LEMMA ResetFields ==
  ASSUME NEW pc \in {"down", "exit"}
  PROVE  /\ ResetPc(pc) \in SrvRec /\ ResetPc(pc).pc = pc /\ ResetPc(pc).state = "0"
         /\ ResetPc(pc).ctrl = NoConn /\ ResetPc(pc).pending = NoConn
         /\ ResetPc(pc).streams = <<>> /\ ResetPc(pc).cookie = NoConn
         /\ ResetPc(pc).timer = FALSE
<1> DEFINE q == <<>>
<1>1. q \in Seq([conn : Conn, sender : BOOLEAN]) /\ q = <<>>
  OBVIOUS
<1> HIDE DEF q
<1>2. /\ ResetTest \in SrvRec /\ ResetTest.state = "0" /\ ResetTest.ctrl = NoConn
      /\ ResetTest.pending = NoConn /\ ResetTest.streams = <<>> /\ ResetTest.cookie = NoConn
      /\ ResetTest.mode = "RECEIVER" /\ ResetTest.timer = FALSE
  <2>1. ResetTest = [pc |-> "down", state |-> "0", ctrl |-> NoConn, cookie |-> NoConn,
                     mode |-> "RECEIVER", streams |-> q, pending |-> NoConn,
                     done |-> FALSE, timer |-> FALSE, badfd |-> FALSE]
    BY <1>1, Zenon DEF ResetTest
  <2> QED BY <1>1, <2>1 DEF SrvRec, Mode
<1> QED BY <1>2 DEF ResetPc, SrvRec

\* When cleanup_server may end the test with ms written to the client.
MayEnd(ms, rc, err) ==
  /\ ms \in Seq(Msg) /\ rc \in Int
  /\ \A i \in DOMAIN ms : ms[i] \notin {"DISPLAY_RESULTS", "TEST_START", "TEST_RUNNING"}
  /\ \A i \in DOMAIN ms : ms[i] = "CREATE_STREAMS" =>
       ms = <<"CREATE_STREAMS">> /\ srv.pc = "params"
  /\ rc = 2 => srv.pc = "select" /\ srv.state = "IPERF_START"
  /\ err = "IEAUTHTEST" => srv.pc = "params"
  /\ srv.pc = "streamcookie" => srv.pending[2] # 0 \/ net.end["c"][srv.pending] # "open"
  /\ \/ reported' = reported
     \/ srv.pc = "results" /\ reported' = reported \cup {srv.ctrl[1]}

LEMMA CleanupNet ==
  ASSUME Inv, NEW n, NEW ms, NEW ks, Prep(n, ms), net' = CloseListener(Close(n, "s", ks))
  PROVE  /\ SrvNet(ms, srv.ctrl)
         /\ \A k \in Conn : net'.end["s"][k] = "open" =>
                              net.end["s"][k] = "open" /\ ~Waits(net, k) /\ k \notin ks
<1> DEFINE m == Close(n, "s", ks)
<1>1. net \in NetRec
  BY DEF Inv, TypeInv
<1>2. Prep(m, ms) /\ \A k \in Conn : m.end["s"][k] = "open" => n.end["s"][k] = "open" /\ k \notin ks
  BY <1>1, PrepClose
<1>3. net' = CloseListener(m)
  OBVIOUS
<1> HIDE DEF m
<1>4. /\ Prep(net', ms)
      /\ \A k \in Conn : net'.end["s"][k] = "open" => m.end["s"][k] = "open" /\ ~Waits(net, k)
  BY <1>1, <1>2, <1>3, PrepRelisten
<1>5. SrvNet(ms, srv.ctrl)
  BY <1>4 DEF Prep, SrvNet
<1> QED BY <1>2, <1>4, <1>5 DEF Prep

LEMMA EndLemma ==
  ASSUME Inv, NEW n, NEW ms, NEW rc, NEW err, Prep(n, ms), MayEnd(ms, rc, err),
         cleanup_server(n, rc, err), cli' = cli
  PROVE  SrvStep(ms, srv.ctrl)
<1> DEFINE ks == IF Leaves(rc, err) THEN Conn ELSE StreamConns \cup {srv.ctrl}
           pc == IF Leaves(rc, err) THEN "exit" ELSE "down"
<1>1. /\ SrvNet(ms, srv.ctrl)
      /\ \A k \in Conn : net'.end["s"][k] = "open" =>
                           net.end["s"][k] = "open" /\ ~Waits(net, k) /\ k \notin ks
  <2>1. net' = CloseListener(Close(n, "s", ks))
    BY DEF cleanup_server
  <2> HIDE DEF ks
  <2> QED BY <2>1, CleanupNet
<1>2. /\ srv' \in SrvRec /\ srv'.pc = pc /\ srv'.state = "0" /\ srv'.ctrl = NoConn
      /\ srv'.pending = NoConn /\ srv'.streams = <<>> /\ srv'.cookie = NoConn
      /\ pc \in {"down", "exit"}
  <2>1. srv' = ResetPc(pc) /\ pc \in {"down", "exit"}
    BY DEF cleanup_server, ResetPc
  <2> HIDE DEF pc
  <2> QED BY <2>1, ResetFields
<1>3. SrvPlaces
  BY <1>2 DEF SrvPlaces
<1>4. SrvSays(ms, srv.ctrl)
  BY <1>2 DEF SrvSays, MayEnd
<1>5. SrvReports
  <2>1. srv.pc = "results" => srv.ctrl \in Conn
    BY SrvFields DEF Inv, TypeInv, PcInv
  <2> QED BY <1>2, <2>1 DEF SrvReports, MayEnd
<1>6. PcInv'
  BY <1>2 DEF PcInv, Serving
<1>7. HeldInv'
  <2> SUFFICES ASSUME NEW c \in Client,
                      net'.end["s"][Ctrl(c)] = "open", net'.end["c"][Ctrl(c)] = "open"
               PROVE  FALSE
    BY DEF HeldInv, Ctrl
  <2>1. /\ net.end["s"][Ctrl(c)] = "open" /\ ~Waits(net, Ctrl(c)) /\ Ctrl(c) \notin ks
        /\ net.end["c"][Ctrl(c)] = "open" /\ Ctrl(c) \in Conn /\ Ctrl(c)[2] = 0 /\ Ctrl(c) # NoConn
    BY <1>1, ConnLemma DEF SrvNet
  <2>2. Ctrl(c) # srv.ctrl
    BY <2>1
  <2>3. srv.pending = Ctrl(c)
    BY <2>1, <2>2 DEF Inv, HeldInv
  <2>4. srv.pc = "streamcookie"
    BY <2>1, <2>3 DEF Inv, PcInv
  <2> QED BY <2>1, <2>3, <2>4 DEF MayEnd
<1>8. OneOffInv'
  <2> SUFFICES ASSUME OneOff, reported' # {}, srv'.pc # "exit" PROVE FALSE
    BY DEF OneOffInv
  <2>1. ~Leaves(rc, err)
    BY <1>2
  <2>2. rc = 2 \/ err = "IEAUTHTEST"
    BY <2>1 DEF Leaves
  <2>3. reported' = reported
    BY <2>2 DEF MayEnd
  <2> QED BY <2>2, <2>3 DEF MayEnd, Inv, OneOffInv
<1> QED BY <1>1, <1>2, <1>3, <1>4, <1>5, <1>6, <1>7, <1>8 DEF SrvStep

\* A step of the server of the kind SrvStep.
SrvKind == \E ms, to : SrvStep(ms, to)

LEMMA EndPlain ==
  ASSUME Inv, NEW n, NEW rc \in {-1, 0}, NEW err, Prep(n, <<>>), cleanup_server(n, rc, err),
         err # "IEAUTHTEST", srv.pc # "streamcookie", cli' = cli, reported' = reported
  PROVE  SrvKind
<1>1. MayEnd(<<>>, rc, err)
  BY DEF MayEnd
<1>2. SrvStep(<<>>, srv.ctrl)
  BY <1>1, EndLemma
<1> QED BY <1>2 DEF SrvKind

\* The server goes on with its client.
LEMMA GoOnLemma ==
  ASSUME Inv, NEW ms, Prep(net', ms), SrvSays(ms, srv.ctrl), SrvReports, PcInv', OneOffInv',
         srv' \in SrvRec, srv'.ctrl = srv.ctrl, srv'.pending = srv.pending, cli' = cli
  PROVE  SrvKind
<1>1. SrvNet(ms, srv.ctrl)
  BY DEF Prep, SrvNet
<1>2. SrvPlaces
  BY DEF SrvPlaces
<1>3. HeldInv'
  <2> SUFFICES ASSUME NEW c \in Client,
                      net'.end["s"][Ctrl(c)] = "open", net'.end["c"][Ctrl(c)] = "open"
               PROVE  Waits(net', Ctrl(c)) \/ srv'.ctrl = Ctrl(c) \/ srv'.pending = Ctrl(c)
    BY DEF HeldInv, Ctrl
  <2>1. /\ net.end["s"][Ctrl(c)] = "open" /\ (Waits(net, Ctrl(c)) => Waits(net', Ctrl(c)))
        /\ net.end["c"][Ctrl(c)] = "open"
    BY ConnLemma DEF Prep
  <2> QED BY <2>1 DEF Inv, HeldInv
<1>4. SrvStep(ms, srv.ctrl)
  BY <1>1, <1>2, <1>3 DEF SrvStep
<1> QED BY <1>4 DEF SrvKind

\* iperf_set_send_state sends the state, or the test ends.
LEMMA SendLemma ==
  ASSUME Inv, NEW n, NEW m \in Msg, NEW next, Prep(n, <<>>), iperf_set_send_state(n, m, next),
         srv.ctrl \in Conn, srv.pc # "streamcookie", cli' = cli, reported' = reported
  PROVE  SrvKind \/ (Prep(net', <<m>>) /\ srv' = [next EXCEPT !.state = m])
<1>1. CASE net' = Write(n, "s", srv.ctrl, m) /\ srv' = [next EXCEPT !.state = m]
  <2>1. net \in NetRec /\ <<m>> \in Seq(Msg)
    BY DEF Inv, TypeInv
  <2>2. Prep(WriteAll(n, "s", srv.ctrl, <<m>>), <<m>>)
    BY <2>1, PrepWrite
  <2> QED BY <1>1, <2>2 DEF Write
<1>2. CASE cleanup_server(n, -1, "IESENDMESSAGE")
  BY <1>2, EndPlain
<1> QED BY <1>1, <1>2 DEF iperf_set_send_state

LEMMA MsgLemma ==
  /\ {"TEST_START", "TEST_RUNNING", "TEST_END", "PARAM_EXCHANGE",
      "CREATE_STREAMS", "SERVER_TERMINATE", "CLIENT_TERMINATE",
      "EXCHANGE_RESULTS", "DISPLAY_RESULTS", "IPERF_DONE", "ACCESS_DENIED",
      "SERVER_ERROR", "COOKIE", "PARAMS", "RESULTS", "ERR"} \subseteq Msg
BY DEF Msg

\* Only a client's control connection carries parameters and results.
LEMMA HeadLemma ==
  ASSUME Inv, NEW k \in Conn, NEW m, Starts(net, "s", k, m), m # "COOKIE"
  PROVE  k[2] = 0
<1>1. net.in["s"][k] \in Seq(Msg)
  BY NetFields, SideLemma DEF Inv, TypeInv
<1>2. Head(net.in["s"][k]) = net.in["s"][k][1] /\ 1 \in DOMAIN net.in["s"][k]
  BY <1>1, TailFacts DEF Starts
<1> QED BY <1>2 DEF Starts, Inv, DataInv

-----------------------------------------------------------------------------
(* The steps of the server *)

LEMMA ServerLookup ==
  ASSUME Inv
  PROVE  /\ net \in NetRec /\ srv \in SrvRec /\ cli \in [Client -> CliRec]
         /\ srv.pc \in {"cookie", "params", "streamcookie", "start", "timers", "results"} =>
              srv.ctrl \in Conn
         /\ srv.ctrl # NoConn => srv.ctrl \in Conn
         /\ srv.pc # "streamcookie" => srv.pending = NoConn
         /\ srv.pc = "streamcookie" => srv.pending \in Conn
BY SrvFields DEF Inv, TypeInv, PcInv

LEMMA AcceptCookieStep ==
  ASSUME Inv, AcceptCookie
  PROVE  SrvKind
<1>1. /\ srv.pc = "cookie" /\ srv.ctrl \in Conn /\ cli' = cli /\ reported' = reported
      /\ net \in NetRec /\ srv \in SrvRec
  BY ServerLookup DEF AcceptCookie
<1>2. PICK r \in NreadResult(net, "s", srv.ctrl, "COOKIE") :
        IF r = "ERROR" THEN cleanup_server(net, -1, "IERECVCOOKIE")
        ELSE \E n \in {IF r = "COOKIE" THEN Drop(net, "s", srv.ctrl) ELSE net} :
          iperf_set_send_state(n, "PARAM_EXCHANGE",
            [srv EXCEPT !.pc = "params",
                        !.cookie = IF r = "COOKIE" THEN srv.ctrl[1] ELSE NoConn])
  BY DEF AcceptCookie
<1>3. CASE r = "ERROR"
  BY <1>1, <1>2, <1>3, PrepSame, EndPlain
<1>4. CASE r # "ERROR"
  <2> DEFINE n == IF r = "COOKIE" THEN Drop(net, "s", srv.ctrl) ELSE net
             c == IF r = "COOKIE" THEN srv.ctrl[1] ELSE NoConn
             next == [srv EXCEPT !.pc = "params", !.cookie = c]
  <2>1. iperf_set_send_state(n, "PARAM_EXCHANGE", next)
    BY <1>2, <1>4
  <2>2. Prep(n, <<>>)
    BY <1>1, PrepSame, PrepRead
  <2>3. c \in {srv.ctrl[1], NoConn} /\ c \in Client \cup {NoConn}
    BY <1>1, ConnLemma
  <2> HIDE DEF n, c
  <2>4. /\ next \in SrvRec /\ next.pc = "params" /\ next.cookie = c /\ next.ctrl = srv.ctrl
        /\ next.pending = srv.pending /\ next.streams = srv.streams
    BY <1>1, <2>3 DEF SrvRec
  <2> HIDE DEF next
  <2>5. SrvKind \/ (Prep(net', <<"PARAM_EXCHANGE">>) /\ srv' = [next EXCEPT !.state = "PARAM_EXCHANGE"])
    BY <1>1, <2>1, <2>2, SendLemma, MsgLemma
  <2>6. CASE Prep(net', <<"PARAM_EXCHANGE">>) /\ srv' = [next EXCEPT !.state = "PARAM_EXCHANGE"]
    <3>1. /\ srv' \in SrvRec /\ srv'.pc = "params" /\ srv'.cookie = c /\ srv'.ctrl = srv.ctrl
          /\ srv'.pending = srv.pending /\ srv'.streams = srv.streams
          /\ srv'.state = "PARAM_EXCHANGE"
      BY <2>4, <2>6, MsgLemma DEF SrvRec
    <3>2. PcInv'
      BY <1>1, <2>3, <3>1, ConnLemma DEF Inv, PcInv, Serving
    <3>3. OneOffInv'
      BY <1>1, <3>1 DEF Inv, OneOffInv
    <3>4. SrvSays(<<"PARAM_EXCHANGE">>, srv.ctrl)
      BY <1>1, <3>1, MsgLemma DEF SrvSays
    <3> QED BY <1>1, <2>6, <3>1, <3>2, <3>3, <3>4, GoOnLemma DEF SrvReports
  <2> QED BY <2>5, <2>6
<1> QED BY <1>3, <1>4

\* A test goes on from one place to the next with state m.
LEMMA NextPlace ==
  ASSUME Inv, NEW n, NEW m \in {"CREATE_STREAMS", "TEST_START", "TEST_RUNNING", "EXCHANGE_RESULTS"},
         NEW next \in SrvRec, Prep(n, <<>>), iperf_set_send_state(n, m, next),
         next.ctrl = srv.ctrl, next.pending = srv.pending, next.cookie = srv.cookie,
         srv.ctrl \in Conn, srv.ctrl[2] = 0, srv.pc # "streamcookie",
         next.pc \in {"select", "timers", "results"},
         next.pc = "select" => m \in {"CREATE_STREAMS", "TEST_RUNNING"},
         m = "CREATE_STREAMS" => srv.pc = "params",
         m \in {"TEST_START", "TEST_RUNNING"} => srv.pc \in {"start", "timers"},
         srv.pc \in {"params", "start", "timers"} \/ (next.pc = "results" /\ srv.pc = "select"),
         cli' = cli, reported' = reported
  PROVE  SrvKind
<1>1. SrvKind \/ (Prep(net', <<m>>) /\ srv' = [next EXCEPT !.state = m])
  BY SendLemma, MsgLemma
<1>2. CASE Prep(net', <<m>>) /\ srv' = [next EXCEPT !.state = m]
  <2>1. m \in Msg
    BY MsgLemma
  <2>2. /\ srv' \in SrvRec /\ srv'.pc = next.pc /\ srv'.cookie = srv.cookie /\ srv'.ctrl = srv.ctrl
        /\ srv'.pending = srv.pending /\ srv'.state = m
    BY <1>2, <2>1 DEF SrvRec
  <2>3. srv'.pending = NoConn /\ srv.ctrl # NoConn
    BY <2>2, ServerLookup, ConnLemma
  <2>4. Serving'
    BY <2>2, <2>3 DEF Serving
  <2>5. PcInv'
    BY <2>2, <2>3, <2>4 DEF Inv, PcInv
  <2>6. OneOffInv'
    <3>1. CASE srv.pc \in {"params", "start", "timers"}
      BY <3>1 DEF Inv, OneOffInv
    <3>2. CASE next.pc = "results" /\ srv.pc = "select"
      BY <2>2, <2>3, <3>2 DEF Inv, OneOffInv
    <3> QED BY <3>1, <3>2
  <2>7. SrvSays(<<m>>, srv.ctrl)
    BY <2>1, <2>2 DEF SrvSays
  <2> QED BY <1>2, <2>2, <2>5, <2>6, <2>7, GoOnLemma DEF SrvReports
<1> QED BY <1>1, <1>2

LEMMA ModeLemma ==
  ASSUME NEW m PROVE ServerMode(m) \in Mode
BY DEF ServerMode, Mode

LEMMA ExchangeParametersStep ==
  ASSUME Inv, iperf_exchange_parameters
  PROVE  SrvKind
<1>1. /\ srv.pc = "params" /\ srv.ctrl \in Conn /\ cli' = cli /\ reported' = reported
      /\ net \in NetRec /\ srv \in SrvRec /\ Starts(net, "s", srv.ctrl, "PARAMS")
  BY ServerLookup DEF iperf_exchange_parameters, HasParameters
<1>2. srv.ctrl[2] = 0
  BY <1>1, HeadLemma
<1> DEFINE read == Drop(net, "s", srv.ctrl)
           n == IF srv.ctrl[1] \in Multipath \cup SocketOptions THEN Relisten(read) ELSE read
           mode == ServerMode(cli[srv.ctrl[1]].mode)
           next == [srv EXCEPT !.pc = "select", !.mode = mode]
<1>3. Prep(n, <<>>)
  BY <1>1, PrepRead, PrepRelisten
<1>4. \/ iperf_set_send_state(n, "CREATE_STREAMS", next)
      \/ cleanup_server(Write(n, "s", srv.ctrl, "CREATE_STREAMS"), -1, "IEAFFINITY")
  BY DEF iperf_exchange_parameters
<1>5. mode \in Mode
  BY ModeLemma
<1> HIDE DEF n, mode
<1>6. CASE iperf_set_send_state(n, "CREATE_STREAMS", next)
  <2>1. /\ next \in SrvRec /\ next.ctrl = srv.ctrl /\ next.pending = srv.pending
        /\ next.cookie = srv.cookie /\ next.pc = "select"
    BY <1>1, <1>5 DEF SrvRec
  <2> HIDE DEF next
  <2> QED BY <1>1, <1>2, <1>3, <1>6, <2>1, NextPlace
<1>7. CASE cleanup_server(Write(n, "s", srv.ctrl, "CREATE_STREAMS"), -1, "IEAFFINITY")
  <2> DEFINE ms == <<"CREATE_STREAMS">>
             w == WriteAll(n, "s", srv.ctrl, ms)
  <2>1. ms \in Seq(Msg)
    BY MsgLemma
  <2>2. Prep(w, ms)
    BY <1>1, <1>3, <2>1, PrepWrite
  <2>3. MayEnd(ms, -1, "IEAFFINITY")
    BY <1>1, <2>1 DEF MayEnd
  <2>4. cleanup_server(w, -1, "IEAFFINITY")
    BY <1>7 DEF Write
  <2> HIDE DEF w, ms
  <2>5. SrvStep(ms, srv.ctrl)
    BY <1>1, <2>2, <2>3, <2>4, EndLemma
  <2> QED BY <2>5 DEF SrvKind
<1> QED BY <1>4, <1>6, <1>7

LEMMA StartTestStep ==
  ASSUME Inv, StartTest \/ RunTest
  PROVE  SrvKind
<1>1. /\ srv.pc \in {"start", "timers"} /\ srv.ctrl \in Conn /\ cli' = cli /\ reported' = reported
      /\ net \in NetRec /\ srv \in SrvRec
  BY ServerLookup DEF StartTest, RunTest
<1>2. srv.ctrl[2] = 0
  BY <1>1 DEF Inv, PcInv, Serving
<1>3. CASE StartTest
  <2> DEFINE n == IF srv.ctrl[1] \in SocketOptions THEN Relisten(net) ELSE net
             next == [srv EXCEPT !.pc = "timers"]
  <2>1. Prep(n, <<>>)
    BY <1>1, PrepSame, PrepRelisten
  <2>2. \/ cleanup_server(n, -1, "IELISTEN") \/ cleanup_server(n, -1, "IETOTALRATE")
        \/ iperf_set_send_state(n, "TEST_START", next)
    BY <1>3 DEF StartTest
  <2> HIDE DEF n
  <2>3. /\ next \in SrvRec /\ next.ctrl = srv.ctrl /\ next.pending = srv.pending
        /\ next.cookie = srv.cookie /\ next.pc = "timers"
    BY <1>1 DEF SrvRec
  <2> HIDE DEF next
  <2>4. CASE iperf_set_send_state(n, "TEST_START", next)
    <3>1. srv.pc # "streamcookie" /\ srv.pc \in {"params", "start", "timers"}
      BY <1>1
    <3> QED BY <1>1, <1>2, <2>1, <2>3, <2>4, <3>1, NextPlace
  <2>5. CASE cleanup_server(n, -1, "IELISTEN") \/ cleanup_server(n, -1, "IETOTALRATE")
    BY <1>1, <2>1, <2>5, EndPlain
  <2> QED BY <2>2, <2>4, <2>5
<1>4. CASE RunTest
  <2> DEFINE next == [srv EXCEPT !.pc = "select", !.timer = TRUE]
  <2>1. Prep(net, <<>>)
    BY <1>1, PrepSame
  <2>2. iperf_set_send_state(net, "TEST_RUNNING", next) \/ cleanup_server(net, -1, "IEINITTEST")
    BY <1>4 DEF RunTest
  <2>3. /\ next \in SrvRec /\ next.ctrl = srv.ctrl /\ next.pending = srv.pending
        /\ next.cookie = srv.cookie /\ next.pc = "select"
    BY <1>1 DEF SrvRec
  <2> HIDE DEF next
  <2>4. CASE iperf_set_send_state(net, "TEST_RUNNING", next)
    <3>1. srv.pc # "streamcookie" /\ srv.pc \in {"params", "start", "timers"}
      BY <1>1
    <3> QED BY <1>1, <1>2, <2>1, <2>3, <2>4, <3>1, NextPlace
  <2>5. CASE cleanup_server(net, -1, "IEINITTEST")
    BY <1>1, <2>1, <2>5, EndPlain
  <2> QED BY <2>2, <2>4, <2>5
<1> QED BY <1>3, <1>4

LEMMA TestEndStep ==
  ASSUME Inv, TestEnd
  PROVE  SrvKind
<1>1. /\ srv.pc = "select" /\ srv.ctrl \in Conn /\ cli' = cli /\ reported' = reported
      /\ net \in NetRec /\ srv \in SrvRec /\ srv.ctrl # NoConn
  BY ServerLookup DEF TestEnd, HasMessage, Selecting
<1>2. srv.ctrl[2] = 0
  BY <1>1 DEF Inv, PcInv, Serving
<1> DEFINE n == Close(Drop(net, "s", srv.ctrl), "s", StreamConns)
           next == [srv EXCEPT !.pc = "results", !.done = TRUE]
<1>3. Prep(n, <<>>)
  BY <1>1, PrepRead, PrepClose
<1>4. iperf_set_send_state(n, "EXCHANGE_RESULTS", next)
  BY DEF TestEnd
<1> HIDE DEF n
<1>5. /\ next \in SrvRec /\ next.ctrl = srv.ctrl /\ next.pending = srv.pending
      /\ next.cookie = srv.cookie /\ next.pc = "results"
  BY <1>1 DEF SrvRec
<1> HIDE DEF next
<1> QED BY <1>1, <1>2, <1>3, <1>4, <1>5, NextPlace

\* The results go first, then DISPLAY_RESULTS.
LEMMA ExchangeResultsStep ==
  ASSUME Inv, ExchangeResults
  PROVE  SrvKind
<1>1. /\ srv.pc = "results" /\ srv.ctrl \in Conn /\ cli' = cli
      /\ reported' = reported \cup {srv.ctrl[1]} /\ net \in NetRec /\ srv \in SrvRec
  BY ServerLookup DEF ExchangeResults
<1>2. srv.ctrl[2] = 0
  BY <1>1 DEF Inv, PcInv, Serving
<1> DEFINE n == Drop(net, "s", srv.ctrl)
           w == Write(n, "s", srv.ctrl, "RESULTS")
           next == [srv EXCEPT !.pc = "select"]
           v == Write(w, "s", srv.ctrl, "DISPLAY_RESULTS")
           ms == <<"RESULTS", "DISPLAY_RESULTS">>
           one == <<"RESULTS">>
           two == <<"DISPLAY_RESULTS">>
<1>3. /\ one \in Seq(Msg) /\ ms \in Seq(Msg) /\ two \in Seq(Msg) /\ ms = one \o two
      /\ \A q \in Seq(Msg) : (q \o one) \o two = q \o (one \o two)
  BY MsgLemma
<1>4. Prep(n, <<>>)
  BY <1>1, PrepRead
<1>5. w = WriteAll(n, "s", srv.ctrl, one) /\ v = WriteAll(w, "s", srv.ctrl, two)
  BY DEF Write
<1>6. \/ cleanup_server(n, -1, "IESENDRESULTS") \/ cleanup_server(w, -1, "IESENDMESSAGE")
      \/ net' = v /\ srv' = [next EXCEPT !.state = "DISPLAY_RESULTS"]
  BY DEF ExchangeResults, iperf_set_send_state
<1>7. MayEnd(<<>>, -1, "IESENDRESULTS") /\ MayEnd(one, -1, "IESENDMESSAGE")
  BY <1>1, <1>3 DEF MayEnd
<1> HIDE DEF n, w, v, one, two, ms
<1>8. Prep(w, one)
  BY <1>1, <1>3, <1>4, <1>5, PrepWrite
<1>9. CASE cleanup_server(n, -1, "IESENDRESULTS")
  <2>1. SrvStep(<<>>, srv.ctrl)
    BY <1>1, <1>4, <1>7, <1>9, EndLemma
  <2> QED BY <2>1 DEF SrvKind
<1>10. CASE cleanup_server(w, -1, "IESENDMESSAGE")
  <2>1. SrvStep(one, srv.ctrl)
    BY <1>1, <1>7, <1>8, <1>10, EndLemma
  <2> QED BY <2>1 DEF SrvKind
<1>11. CASE net' = v /\ srv' = [next EXCEPT !.state = "DISPLAY_RESULTS"]
  <2>1. Prep(net', ms)
    <3>1. n \in NetRec /\ w \in NetRec
      BY <1>4, <1>8 DEF Prep
    <3>2. IsWritten(w, n, "s", srv.ctrl, one) /\ IsWritten(v, w, "s", srv.ctrl, two)
      BY <1>1, <1>3, <1>5, <3>1, WriteLemma, SideLemma
    <3>3. \A k \in Conn : /\ n.in["c"][k] = net.in["c"][k] /\ net.in["c"][k] \in Seq(Msg)
                          /\ n.in["s"][k] = w.in["s"][k]
      <4>1. IsRead(n, net, "s", srv.ctrl)
        BY <1>1, ReadLemma, SideLemma DEF n
      <4> QED BY <1>1, <3>2, <4>1, NetFields, SideLemma DEF IsRead, IsWritten
    <3>4. \A k \in Conn : \/ v.in["c"][k] = net.in["c"][k]
                          \/ v.in["c"][k] = net.in["c"][k] \o ms /\ k = srv.ctrl
      <4>1. ASSUME NEW k \in Conn, k # srv.ctrl PROVE v.in["c"][k] = net.in["c"][k]
        BY <3>2, <3>3, <4>1, SideLemma DEF IsWritten
      <4>2. \/ v.in["c"][srv.ctrl] = net.in["c"][srv.ctrl]
            \/ v.in["c"][srv.ctrl] = (net.in["c"][srv.ctrl] \o one) \o two
        <5> DEFINE open(x) == x.end["s"][srv.ctrl] = "open" /\ x.end["c"][srv.ctrl] = "open"
        <5>1. /\ w.end = n.end
              /\ w.in["c"][srv.ctrl] = IF open(n) THEN n.in["c"][srv.ctrl] \o one ELSE n.in["c"][srv.ctrl]
              /\ v.in["c"][srv.ctrl] = IF open(w) THEN w.in["c"][srv.ctrl] \o two ELSE w.in["c"][srv.ctrl]
          BY <3>2, SideLemma DEF IsWritten
        <5>2. open(w) <=> open(n)
          BY <5>1
        <5> HIDE DEF open
        <5> QED BY <1>1, <3>3, <5>1, <5>2
      <4> QED BY <1>1, <1>3, <3>3, <4>1, <4>2
    <3>5. /\ v \in NetRec /\ v.end = w.end /\ v.backlog = w.backlog /\ v.in["s"] = w.in["s"]
      BY <3>2, SideLemma DEF IsWritten
    <3>6. \A k \in Conn : Waits(v, k) <=> Waits(w, k)
      BY <3>5 DEF Waits
    <3> QED BY <1>8, <1>11, <3>4, <3>5, <3>6 DEF Prep
  <2>2. next \in SrvRec /\ next.ctrl = srv.ctrl /\ next.pending = srv.pending
        /\ next.cookie = srv.cookie /\ next.pc = "select"
    BY <1>1 DEF SrvRec
  <2> HIDE DEF next
  <2>3. /\ srv' \in SrvRec /\ srv'.pc = "select" /\ srv'.cookie = srv.cookie
        /\ srv'.ctrl = srv.ctrl /\ srv'.pending = srv.pending /\ srv'.state = "DISPLAY_RESULTS"
    BY <1>11, <2>2, MsgLemma DEF SrvRec
  <2>4. srv'.pending = NoConn /\ srv.ctrl # NoConn
    BY <1>1, <2>3, ServerLookup, ConnLemma
  <2>5. Serving'
    BY <2>3, <2>4 DEF Serving
  <2>6. PcInv'
    BY <1>2, <2>3, <2>4, <2>5 DEF Inv, PcInv
  <2>7. OneOffInv'
    BY <1>1, <2>3, <2>4 DEF Inv, OneOffInv
  <2>8. SrvSays(ms, srv.ctrl)
    BY <1>1, <1>3, <2>3 DEF SrvSays, ms
  <2>9. SrvReports
    BY <1>1, <2>3 DEF SrvReports
  <2> QED BY <1>1, <2>1, <2>3, <2>6, <2>7, <2>8, <2>9, GoOnLemma
<1> QED BY <1>6, <1>9, <1>10, <1>11

\* The steps that only end the test.
LEMMA PlainEnds ==
  ASSUME Inv, \/ NoParameters \/ NoResults \/ ClientGone \/ BadMessage \/ SelectFails
              \/ ReceiveTimeout \/ RateExceeded \/ ServerStreamError
  PROVE  SrvKind
<1>1. net \in NetRec /\ cli' = cli /\ reported' = reported /\ srv.pc # "streamcookie"
  BY ServerLookup DEF NoParameters, NoResults, ClientGone, BadMessage, SelectFails,
     ReceiveTimeout, RateExceeded, ServerStreamError, HasMessage, Selecting
<1>2. CASE ClientGone \/ BadMessage
  <2>1. srv.ctrl \in Conn
    BY <1>2, ServerLookup DEF ClientGone, BadMessage, HasMessage
  <2>2. \/ cleanup_server(Drop(net, "s", srv.ctrl), 0, "IECTRLCLOSE")
        \/ cleanup_server(Drop(net, "s", srv.ctrl), -1, "IERECVMESSAGE")
    BY <1>2 DEF ClientGone, BadMessage
  <2>3. Prep(Drop(net, "s", srv.ctrl), <<>>)
    BY <1>1, <2>1, PrepRead
  <2> QED BY <1>1, <2>2, <2>3, EndPlain
<1>3. CASE ~(ClientGone \/ BadMessage)
  <2>1. \E err \in {"IERECVPARAMS", "IERECVRESULTS", "IESELECT", "IENOMSG", "IETOTALRATE",
                    "IESTREAMWRITE"} : cleanup_server(net, -1, err)
    BY <1>3 DEF NoParameters, NoResults, SelectFails, ReceiveTimeout, RateExceeded,
       ServerStreamError
  <2>2. Prep(net, <<>>)
    BY <1>1, PrepSame
  <2> QED BY <1>1, <2>1, <2>2, EndPlain
<1> QED BY <1>2, <1>3

LEMMA IdleRestartStep ==
  ASSUME Inv, IdleRestart
  PROVE  SrvKind
<1>1. /\ net \in NetRec /\ cli' = cli /\ reported' = reported /\ srv.pc = "select"
      /\ srv.state = "IPERF_START" /\ \E err : err # "IEAUTHTEST" /\ cleanup_server(net, 2, err)
  <2>1. cleanup_server(net, 2, "")
    BY DEF IdleRestart
  <2>2. "" # "IEAUTHTEST"
    BY Zenon
  <2> QED BY <2>1, <2>2, ServerLookup DEF IdleRestart, Selecting
<1>2. PICK err : err # "IEAUTHTEST" /\ cleanup_server(net, 2, err)
  BY <1>1
<1>3. MayEnd(<<>>, 2, err)
  BY <1>1, <1>2 DEF MayEnd
<1>4. SrvStep(<<>>, srv.ctrl)
  BY <1>1, <1>2, <1>3, PrepSame, EndLemma
<1> QED BY <1>4 DEF SrvKind

\* SERVER_ERROR and some of its codes, then the end.
LEMMA ServerErrorLemma ==
  ASSUME Inv, NEW codes \in {1, 2}, NEW err, srv.pc = "params", cli' = cli, reported' = reported,
         ServerError(Drop(net, "s", srv.ctrl), codes, err)
  PROVE  SrvKind
<1>1. srv.ctrl \in Conn /\ net \in NetRec
  BY ServerLookup
<1> DEFINE n == Drop(net, "s", srv.ctrl)
           all == <<"SERVER_ERROR", "ERR", "ERR">>
           say(sent) == SubSeq(all, 1, sent)
           error(sent) == CASE sent = 0 -> "IESENDMESSAGE"
                            [] sent = codes + 1 -> err
                            [] OTHER -> "IECTRLWRITE"
<1>2. PICK sent \in 0..3 :
        cleanup_server(WriteAll(n, "s", srv.ctrl, say(sent)), -1, error(sent))
  <2>1. {codes + 1} \subseteq 0..3 /\ 0..codes + 1 \subseteq 0..3
    OBVIOUS
  <2> QED BY <2>1 DEF ServerError
<1>3. say(sent) \in Seq(Msg) /\ \A i \in DOMAIN say(sent) : say(sent)[i] \in {"SERVER_ERROR", "ERR"}
  <2>1. /\ all \in Seq({"SERVER_ERROR", "ERR"}) /\ Len(all) = 3
        /\ \A i \in 1..3 : all[i] \in {"SERVER_ERROR", "ERR"}
    OBVIOUS
  <2> HIDE DEF all
  <2>2. /\ Len(say(sent)) = sent /\ say(sent) \in Seq({"SERVER_ERROR", "ERR"})
        /\ DOMAIN say(sent) = 1..sent
        /\ \A i \in 1..sent : say(sent)[i] = all[i]
    BY <2>1
  <2>3. {"SERVER_ERROR", "ERR"} \subseteq Msg
    BY MsgLemma
  <2>4. say(sent) \in Seq(Msg)
    BY <2>2, <2>3
  <2> QED BY <2>1, <2>2, <2>4
<1>4. Prep(n, <<>>)
  BY <1>1, PrepRead
<1> DEFINE ms == say(sent)
           e == error(sent)
           w == WriteAll(n, "s", srv.ctrl, ms)
<1>5. MayEnd(ms, -1, e)
  <2>1. /\ ms \in Seq(Msg)
        /\ \A i \in DOMAIN ms :
             ms[i] \notin {"DISPLAY_RESULTS", "CREATE_STREAMS", "TEST_START", "TEST_RUNNING"}
    BY <1>3
  <2> HIDE DEF ms, e
  <2> QED BY <2>1 DEF MayEnd
<1>6. cleanup_server(w, -1, e)
  BY <1>2
<1>7. ms \in Seq(Msg)
  BY <1>3
<1> HIDE DEF ms, e, n
<1>8. Prep(w, ms)
  BY <1>1, <1>4, <1>7, PrepWrite
<1> HIDE DEF w
<1>9. SrvStep(ms, srv.ctrl)
  BY <1>5, <1>6, <1>8, EndLemma
<1> QED BY <1>9 DEF SrvKind

LEMMA ServerErrorStep ==
  ASSUME Inv, NotAuthorized \/ StreamListenFails
  PROVE  SrvKind
<1>1. /\ srv.pc = "params" /\ cli' = cli /\ reported' = reported
      /\ \/ ServerError(Drop(net, "s", srv.ctrl), 1, "IEAUTHTEST")
         \/ ServerError(Drop(net, "s", srv.ctrl), 2, "IESTREAMLISTEN")
  BY DEF NotAuthorized, StreamListenFails, HasParameters
<1> QED BY <1>1, ServerErrorLemma

LEMMA ServerInterruptedStep ==
  ASSUME Inv, ServerInterrupted
  PROVE  SrvKind
<1> DEFINE ms == <<"SERVER_TERMINATE">>
           n == IF srv.ctrl = NoConn THEN net ELSE WriteAll(net, "s", srv.ctrl, ms)
<1>1. /\ net' = CloseListener(Close(n, "s", Conn)) /\ srv' = ResetPc("exit")
      /\ cli' = cli /\ reported' = reported
  BY DEF ServerInterrupted, Write, ResetPc
<1>2. ms \in Seq(Msg)
  BY MsgLemma
<1>3. Prep(n, ms)
  BY <1>2, ServerLookup, PrepSame, PrepWrite
<1>4. SrvSays(ms, srv.ctrl)
  BY <1>1, <1>2, ResetFields DEF SrvSays
<1> HIDE DEF n, ms
<1>5. /\ SrvNet(ms, srv.ctrl)
      /\ \A k \in Conn : net'.end["s"][k] # "open"
  BY <1>1, <1>3, CleanupNet
<1>6. /\ srv' \in SrvRec /\ srv'.pc = "exit" /\ srv'.state = "0" /\ srv'.ctrl = NoConn
      /\ srv'.pending = NoConn /\ srv'.streams = <<>> /\ srv'.cookie = NoConn
  BY <1>1, ResetFields
<1>7. PcInv' /\ OneOffInv' /\ SrvPlaces /\ SrvReports
  BY <1>1, <1>6 DEF PcInv, Serving, OneOffInv, SrvPlaces, SrvReports
<1>8. HeldInv'
  BY <1>5, ConnLemma DEF HeldInv, Ctrl
<1>9. SrvStep(ms, srv.ctrl)
  BY <1>1, <1>4, <1>5, <1>6, <1>7, <1>8 DEF SrvStep
<1> QED BY <1>9 DEF SrvKind

LEMMA ServerListenStep ==
  ASSUME Inv, iperf_server_listen
  PROVE  SrvKind
<1>1. srv.pc = "down" /\ net \in NetRec /\ srv \in SrvRec /\ cli' = cli /\ reported' = reported
  BY ServerLookup DEF iperf_server_listen
<1>2. Prep(net', <<>>)
  <2>1. CASE net' = net
    BY <1>1, <2>1, PrepSame
  <2>2. CASE net' = [net EXCEPT !.listening = TRUE]
    <3>1. /\ net' \in NetRec /\ net'.in = net.in /\ net'.end = net.end /\ net'.backlog = net.backlog
      BY <1>1, <2>2 DEF NetRec
    <3> QED BY <3>1 DEF Prep, Shorter, Waits
  <2> QED BY <2>1, <2>2 DEF iperf_server_listen
<1>3. /\ srv' \in SrvRec /\ srv'.ctrl = srv.ctrl /\ srv'.pending = srv.pending
      /\ srv'.cookie = srv.cookie /\ srv'.streams = srv.streams
      /\ (srv'.pc = "select" /\ srv'.state = "IPERF_START") \/ srv'.pc = "exit"
  BY <1>1 DEF iperf_server_listen, SrvRec
<1>4. srv.ctrl = NoConn /\ srv.pending = NoConn
  BY <1>1 DEF Inv, PcInv
<1>5. PcInv'
  BY <1>1, <1>3, <1>4 DEF Inv, PcInv, Serving
<1>6. OneOffInv'
  BY <1>1, <1>3 DEF Inv, OneOffInv
<1>7. SrvSays(<<>>, srv.ctrl) /\ SrvReports
  BY <1>1, <1>3 DEF SrvSays, SrvReports
<1> QED BY <1>1, <1>2, <1>3, <1>5, <1>6, <1>7, GoOnLemma

LEMMA ServerTimerStep ==
  ASSUME Inv, server_timer_proc
  PROVE  SrvKind
<1>1. srv.pc = "select" /\ net \in NetRec /\ srv \in SrvRec /\ cli' = cli /\ reported' = reported
  BY ServerLookup DEF server_timer_proc, Selecting
<1>2. Prep(net', <<>>)
  BY <1>1, PrepSame, PrepClose DEF server_timer_proc
<1>3. /\ srv' \in SrvRec /\ srv'.ctrl = srv.ctrl /\ srv'.pending = srv.pending
      /\ srv'.cookie = srv.cookie /\ srv'.streams \in {srv.streams, <<>>}
      /\ srv'.pc = srv.pc /\ srv'.state = srv.state
  <2> DEFINE q == <<>>
             b == [srv EXCEPT !.timer = FALSE, !.done = TRUE, !.streams = q, !.badfd = TRUE]
  <2>1. q \in Seq([conn : Conn, sender : BOOLEAN]) /\ q = <<>>
    OBVIOUS
  <2>2. srv' = [srv EXCEPT !.timer = FALSE] \/ srv' = b
    BY DEF server_timer_proc
  <2> HIDE DEF q
  <2>3. CASE srv' = b
    BY <1>1, <2>1, <2>3 DEF SrvRec
  <2>4. CASE srv' = [srv EXCEPT !.timer = FALSE]
    BY <1>1, <2>4 DEF SrvRec
  <2> QED BY <2>2, <2>3, <2>4
<1>4. PcInv'
  BY <1>1, <1>3 DEF Inv, PcInv, Serving
<1>5. OneOffInv'
  BY <1>1, <1>3 DEF Inv, OneOffInv
<1>6. SrvSays(<<>>, srv.ctrl) /\ SrvReports
  BY <1>1, <1>3 DEF SrvSays, SrvReports
<1> QED BY <1>1, <1>2, <1>3, <1>4, <1>5, <1>6, GoOnLemma

\* m is n after the connection k was refused: ms is written to it, it is closed.
IsRefused(m, n, k, ms) ==
  /\ m \in NetRec /\ m.end["c"] = n.end["c"] /\ m.backlog = n.backlog
  /\ m.end["s"][k] # "open" /\ (n.end["s"][k] = "none" => m.end["s"][k] = "none")
  /\ m.in["s"][k] = <<>>
  /\ m.in["c"][k] = n.in["c"][k] \/ m.in["c"][k] = n.in["c"][k] \o ms
  /\ \A j \in Conn : j # k => /\ m.end["s"][j] = n.end["s"][j]
                              /\ m.in["s"][j] = n.in["s"][j]
                              /\ m.in["c"][j] = n.in["c"][j]

LEMMA RefuseLemma ==
  ASSUME NEW n \in NetRec, NEW k \in Conn, NEW ms \in Seq(Msg)
  PROVE  IsRefused(Close(WriteAll(n, "s", k, ms), "s", {k}), n, k, ms)
<1> DEFINE w == WriteAll(n, "s", k, ms)
           m == Close(w, "s", {k})
<1>1. IsWritten(w, n, "s", k, ms)
  BY WriteLemma, SideLemma
<1>2. /\ w \in NetRec /\ w.end = n.end /\ w.backlog = n.backlog /\ w.in["s"] = n.in["s"]
      /\ \A j \in Conn : j # k => w.in["c"][j] = n.in["c"][j]
      /\ w.in["c"][k] = n.in["c"][k] \/ w.in["c"][k] = n.in["c"][k] \o ms
  BY <1>1, SideLemma DEF IsWritten
<1> HIDE DEF w
<1>3. IsClosed(m, w, "s", {k})
  BY <1>2, CloseLemma, SideLemma
<1> HIDE DEF m
<1>4. /\ m \in NetRec /\ m.backlog = w.backlog /\ m.in["c"] = w.in["c"] /\ m.end["c"] = w.end["c"]
      /\ m.in["s"][k] = <<>> /\ m.end["s"][k] # "open"
      /\ (w.end["s"][k] = "none" => m.end["s"][k] = "none")
      /\ \A j \in Conn : j # k => m.in["s"][j] = w.in["s"][j] /\ m.end["s"][j] = w.end["s"][j]
  BY <1>3, SideLemma DEF IsClosed
<1>5. IsRefused(m, n, k, ms)
  BY <1>2, <1>4 DEF IsRefused
<1> QED BY <1>5 DEF m, w

LEMMA TakeNet ==
  ASSUME Inv, net.backlog # <<>>
  PROVE  LET m == [net EXCEPT !.backlog = Tail(@)]
         IN  /\ m \in NetRec /\ m.in = net.in /\ m.end = net.end /\ m.backlog = Tail(net.backlog)
             /\ Head(net.backlog) \in Conn /\ Waits(net, Head(net.backlog))
             /\ \A k \in Conn : Waits(net, k) /\ k # Head(net.backlog) => Waits(m, k)
<1> DEFINE q == Tail(net.backlog)
           m == [net EXCEPT !.backlog = q]
<1>1. net \in NetRec /\ net.backlog \in Seq(Conn)
  BY NetFields DEF Inv, TypeInv
<1>2. /\ q \in Seq(Conn) /\ Head(net.backlog) \in Conn /\ Waits(net, Head(net.backlog))
      /\ \A i \in DOMAIN net.backlog : i # 1 => i - 1 \in DOMAIN q /\ q[i - 1] = net.backlog[i]
      /\ Head(net.backlog) = net.backlog[1]
  BY <1>1, TailFacts DEF Waits
<1> HIDE DEF q
<1>3. m \in NetRec /\ m.in = net.in /\ m.end = net.end /\ m.backlog = q
  BY <1>1, <1>2 DEF NetRec
<1>4. \A k \in Conn : Waits(net, k) /\ k # Head(net.backlog) => Waits(m, k)
  BY <1>2, <1>3 DEF Waits
<1> QED BY <1>2, <1>3, <1>4 DEF q

LEMMA AcceptStep ==
  ASSUME Inv, iperf_accept
  PROVE  SrvKind
<1>1. /\ srv.pc = "select" /\ net.backlog # <<>> /\ srv.ctrl = NoConn /\ cli' = cli
      /\ reported' = reported /\ net \in NetRec /\ srv \in SrvRec
  BY ServerLookup DEF iperf_accept, Selecting
<1>2. CASE cleanup_server(net, -1, "IEACCEPT")
  BY <1>1, <1>2, PrepSame, EndPlain
<1>3. CASE /\ srv' = [srv EXCEPT !.ctrl = Head(net.backlog), !.pc = "cookie"]
           /\ net' = [net EXCEPT !.backlog = Tail(@)]
  <2> DEFINE h == Head(net.backlog)
  <2>1. /\ net' \in NetRec /\ net'.in = net.in /\ net'.end = net.end /\ net'.backlog = Tail(net.backlog)
        /\ h \in Conn /\ Waits(net, h) /\ \A k \in Conn : Waits(net, k) /\ k # h => Waits(net', k)
    BY <1>1, <1>3, TakeNet
  <2>2. srv' = [srv EXCEPT !.ctrl = h, !.pc = "cookie"]
    BY <1>3
  <2> HIDE DEF h
  <2>3. /\ srv' \in SrvRec /\ srv'.ctrl = h /\ srv'.pc = "cookie" /\ srv'.pending = srv.pending
        /\ srv'.cookie = srv.cookie /\ srv'.streams = srv.streams
    BY <1>1, <2>1, <2>2 DEF SrvRec
  <2>4. /\ srv.pending = NoConn /\ srv.cookie = NoConn /\ srv.streams = <<>> /\ h # NoConn
    BY <1>1, <2>1, ConnLemma DEF Inv, PcInv, Serving
  <2>5. SrvNet(<<>>, srv.ctrl)
    BY <1>1, <2>1 DEF SrvNet, Shorter
  <2>6. SrvPlaces
    BY <1>1, <2>1, <2>3, <2>4 DEF SrvPlaces, h
  <2>7. SrvSays(<<>>, srv.ctrl) /\ SrvReports
    BY <1>1, <2>1, <2>3 DEF SrvSays, SrvReports
  <2>8. PcInv'
    BY <2>3, <2>4 DEF PcInv, Serving
  <2>9. HeldInv'
    <3> SUFFICES ASSUME NEW c \in Client,
                        net'.end["s"][Ctrl(c)] = "open", net'.end["c"][Ctrl(c)] = "open"
                 PROVE  Waits(net', Ctrl(c)) \/ srv'.ctrl = Ctrl(c)
      BY DEF HeldInv, Ctrl
    <3>1. Waits(net, Ctrl(c)) /\ Ctrl(c) \in Conn
      BY <1>1, <2>1, <2>4, ConnLemma DEF Inv, HeldInv
    <3> QED BY <2>1, <2>3, <3>1
  <2>10. OneOffInv'
    BY <1>1 DEF Inv, OneOffInv
  <2>11. SrvStep(<<>>, srv.ctrl)
    BY <1>1, <2>3, <2>5, <2>6, <2>7, <2>8, <2>9, <2>10 DEF SrvStep
  <2> QED BY <2>11 DEF SrvKind
<1> QED BY <1>2, <1>3 DEF iperf_accept

LEMMA TcpAcceptStep ==
  ASSUME Inv, iperf_tcp_accept
  PROVE  SrvKind
<1>1. /\ srv.pc = "select" /\ srv.state = "CREATE_STREAMS" /\ net.backlog # <<>> /\ cli' = cli
      /\ reported' = reported /\ net \in NetRec /\ srv \in SrvRec
  BY ServerLookup DEF iperf_tcp_accept, Selecting
<1>2. CASE cleanup_server(net, -1, "IESTREAMCONNECT")
  BY <1>1, <1>2, PrepSame, EndPlain
<1>3. CASE /\ srv' = [srv EXCEPT !.pending = Head(net.backlog), !.pc = "streamcookie"]
           /\ net' = [net EXCEPT !.backlog = Tail(@)]
  <2> DEFINE h == Head(net.backlog)
  <2>1. /\ net' \in NetRec /\ net'.in = net.in /\ net'.end = net.end /\ net'.backlog = Tail(net.backlog)
        /\ h \in Conn /\ Waits(net, h) /\ \A k \in Conn : Waits(net, k) /\ k # h => Waits(net', k)
    BY <1>1, <1>3, TakeNet
  <2>2. srv' = [srv EXCEPT !.pending = h, !.pc = "streamcookie"]
    BY <1>3
  <2> HIDE DEF h
  <2>3. /\ srv' \in SrvRec /\ srv'.pending = h /\ srv'.pc = "streamcookie" /\ srv'.ctrl = srv.ctrl
        /\ srv'.cookie = srv.cookie /\ srv'.state = srv.state
    BY <1>1, <2>1, <2>2 DEF SrvRec
  <2>4. /\ srv.pending = NoConn /\ srv.ctrl # NoConn /\ h # NoConn /\ srv.ctrl[2] = 0
    BY <1>1, <2>1, ConnLemma DEF Inv, PcInv, Serving
  <2>5. SrvNet(<<>>, srv.ctrl)
    BY <1>1, <2>1 DEF SrvNet, Shorter
  <2>6. SrvPlaces
    BY <1>1, <2>1, <2>3, <2>4 DEF SrvPlaces, h
  <2>7. SrvSays(<<>>, srv.ctrl) /\ SrvReports
    BY <1>1, <2>1, <2>3 DEF SrvSays, SrvReports
  <2>8. PcInv'
    BY <1>1, <2>3, <2>4 DEF Inv, PcInv, Serving
  <2>9. HeldInv'
    <3> SUFFICES ASSUME NEW c \in Client,
                        net'.end["s"][Ctrl(c)] = "open", net'.end["c"][Ctrl(c)] = "open"
                 PROVE  Waits(net', Ctrl(c)) \/ srv'.ctrl = Ctrl(c) \/ srv'.pending = Ctrl(c)
      BY DEF HeldInv, Ctrl
    <3>1. (Waits(net, Ctrl(c)) \/ srv.ctrl = Ctrl(c)) /\ Ctrl(c) \in Conn
      BY <1>1, <2>1, <2>4, ConnLemma DEF Inv, HeldInv
    <3> QED BY <2>1, <2>3, <3>1
  <2>10. OneOffInv'
    BY <1>1 DEF Inv, OneOffInv
  <2>11. SrvStep(<<>>, srv.ctrl)
    BY <1>1, <2>3, <2>5, <2>6, <2>7, <2>8, <2>9, <2>10 DEF SrvStep
  <2> QED BY <2>11 DEF SrvKind
<1> QED BY <1>2, <1>3 DEF iperf_tcp_accept

LEMMA AcceptBusyStep ==
  ASSUME Inv, iperf_accept_busy
  PROVE  SrvKind
<1>1. /\ srv.pc = "select" /\ net.backlog # <<>> /\ cli' = cli
      /\ reported' = reported /\ net \in NetRec /\ srv \in SrvRec
  BY ServerLookup DEF iperf_accept_busy, Selecting
<1>2. CASE cleanup_server(net, -1, "IEACCEPT")
  BY <1>1, <1>2, PrepSame, EndPlain
<1>3. CASE ~cleanup_server(net, -1, "IEACCEPT")
  <2> DEFINE h == Head(net.backlog)
             n == [net EXCEPT !.backlog = Tail(@)]
             ms == <<"ACCESS_DENIED">>
  <2>1. net' = Close(WriteAll(n, "s", h, ms), "s", {h}) /\ srv' = srv
    BY <1>3 DEF iperf_accept_busy, Write
  <2>2. /\ n \in NetRec /\ n.in = net.in /\ n.end = net.end /\ n.backlog = Tail(net.backlog)
        /\ h \in Conn /\ Waits(net, h) /\ \A k \in Conn : Waits(net, k) /\ k # h => Waits(n, k)
    BY <1>1, TakeNet
  <2>3. ms \in Seq(Msg) /\ \A i \in DOMAIN ms : ms[i] = "ACCESS_DENIED"
    BY MsgLemma
  <2> HIDE DEF h, n, ms
  <2>4. IsRefused(net', n, h, ms)
    BY <2>1, <2>2, <2>3, RefuseLemma
  <2>5. SrvNet(ms, h)
    <3>1. net.end["c"] = n.end["c"] /\ net.in["s"] = n.in["s"] /\ net.in["c"] = n.in["c"]
          /\ net.end["s"] = n.end["s"]
      BY <2>2
    <3> QED BY <1>1, <2>2, <2>4, <3>1 DEF SrvNet, Shorter, IsRefused
  <2>6. SrvPlaces /\ SrvReports
    BY <1>1, <2>1 DEF SrvPlaces, SrvReports
  <2>7. SrvSays(ms, h)
    BY <1>1, <2>1, <2>3 DEF SrvSays
  <2>8. PcInv' /\ OneOffInv'
    BY <1>1, <2>1 DEF Inv, PcInv, OneOffInv, Serving
  <2>9. HeldInv'
    <3> SUFFICES ASSUME NEW c \in Client,
                        net'.end["s"][Ctrl(c)] = "open", net'.end["c"][Ctrl(c)] = "open"
                 PROVE  Waits(net', Ctrl(c)) \/ srv'.ctrl = Ctrl(c) \/ srv'.pending = Ctrl(c)
      BY DEF HeldInv, Ctrl
    <3>1. Ctrl(c) # h /\ Ctrl(c) \in Conn
      BY <2>4, ConnLemma DEF IsRefused
    <3>2. net.end["s"][Ctrl(c)] = "open" /\ net.end["c"][Ctrl(c)] = "open"
      BY <2>2, <2>4, <3>1 DEF IsRefused
    <3>3. Waits(net, Ctrl(c)) \/ srv.ctrl = Ctrl(c) \/ srv.pending = Ctrl(c)
      BY <3>2 DEF Inv, HeldInv
    <3>4. Waits(n, Ctrl(c)) => Waits(net', Ctrl(c))
      BY <2>4 DEF Waits, IsRefused
    <3> QED BY <2>1, <2>2, <3>1, <3>3, <3>4
  <2>10. SrvStep(ms, h)
    BY <1>1, <2>1, <2>5, <2>6, <2>7, <2>8, <2>9 DEF SrvStep
  <2> QED BY <2>10 DEF SrvKind
<1> QED BY <1>2, <1>3

\* A data connection, or one whose client has gone.
NotHeld == srv.pending[2] # 0 \/ net.end["c"][srv.pending] # "open"

LEMMA NewStreamLemma ==
  ASSUME Inv, srv.pc = "streamcookie", NEW n, Prep(n, <<>>), NewStream(n), NotHeld,
         cli' = cli, reported' = reported
  PROVE  SrvKind
<1>1. /\ srv.ctrl \in Conn /\ srv.pending \in Conn /\ net \in NetRec /\ srv \in SrvRec
  BY ServerLookup
<1>2. CASE cleanup_server(n, -1, "IECREATESTREAM")
  <2>1. MayEnd(<<>>, -1, "IECREATESTREAM")
    BY DEF MayEnd, NotHeld
  <2>2. SrvStep(<<>>, srv.ctrl)
    BY <1>2, <2>1, EndLemma
  <2> QED BY <2>2 DEF SrvKind
<1>3. CASE ~cleanup_server(n, -1, "IECREATESTREAM")
  <2> DEFINE flag == StreamFlag(Len(srv.streams))
             st == [conn |-> srv.pending, sender |-> flag]
             sts == Append(srv.streams, st)
             pc == IF AllAccepted(Len(srv.streams) + 1) THEN "start" ELSE "select"
  <2>1. net' = n /\ srv' = [srv EXCEPT !.streams = sts, !.pending = NoConn, !.pc = pc]
    BY <1>3 DEF NewStream
  <2>2. srv.streams \in Seq([conn : Conn, sender : BOOLEAN]) /\ flag \in BOOLEAN
    <3>1. srv.streams \in Seq([conn : Conn, sender : BOOLEAN])
      BY <1>1, SrvFields
    <3>2. Len(srv.streams) \in Nat /\ NumStreams \in Nat
      BY <3>1, ConnLemma
    <3> QED BY <3>1, <3>2 DEF StreamFlag
  <2>3. pc \in {"start", "select"}
    OBVIOUS
  <2> HIDE DEF flag, pc
  <2>4. st \in [conn : Conn, sender : BOOLEAN]
    BY <1>1, <2>2
  <2> HIDE DEF st
  <2>5. sts \in Seq([conn : Conn, sender : BOOLEAN])
    BY <2>2, <2>4
  <2> HIDE DEF sts
  <2>6. /\ srv' \in SrvRec /\ srv'.pending = NoConn /\ srv'.pc \in {"start", "select"}
        /\ srv'.ctrl = srv.ctrl /\ srv'.cookie = srv.cookie /\ srv'.state = srv.state
    <3>1. /\ srv' \in SrvRec /\ srv'.pending = NoConn /\ srv'.pc = pc
          /\ srv'.ctrl = srv.ctrl /\ srv'.cookie = srv.cookie /\ srv'.state = srv.state
      BY <1>1, <2>1, <2>3, <2>5 DEF SrvRec
    <3> QED BY <2>3, <3>1
  <2>7. srv.ctrl # NoConn /\ srv.ctrl[2] = 0 /\ srv.state = "CREATE_STREAMS"
    BY <1>1, ConnLemma DEF Inv, PcInv, Serving
  <2>8. SrvNet(<<>>, srv.ctrl)
    BY <2>1 DEF Prep, SrvNet
  <2>9. SrvPlaces /\ SrvReports /\ SrvSays(<<>>, srv.ctrl)
    BY <2>6 DEF SrvPlaces, SrvReports, SrvSays
  <2>10. PcInv'
    BY <2>6, <2>7 DEF Inv, PcInv, Serving
  <2>11. OneOffInv'
    BY DEF Inv, OneOffInv
  <2>12. HeldInv'
    <3> SUFFICES ASSUME NEW c \in Client,
                        net'.end["s"][Ctrl(c)] = "open", net'.end["c"][Ctrl(c)] = "open"
                 PROVE  Waits(net', Ctrl(c)) \/ srv'.ctrl = Ctrl(c)
      BY DEF HeldInv, Ctrl
    <3>1. /\ net.end["s"][Ctrl(c)] = "open" /\ (Waits(net, Ctrl(c)) => Waits(net', Ctrl(c)))
          /\ net.end["c"][Ctrl(c)] = "open" /\ Ctrl(c)[2] = 0
      BY <2>1, ConnLemma DEF Prep
    <3>2. srv.pending # Ctrl(c)
      BY <3>1 DEF NotHeld
    <3> QED BY <2>6, <3>1, <3>2 DEF Inv, HeldInv
  <2>13. SrvStep(<<>>, srv.ctrl)
    BY <2>6, <2>8, <2>9, <2>10, <2>11, <2>12 DEF SrvStep
  <2> QED BY <2>13 DEF SrvKind
<1> QED BY <1>2, <1>3

LEMMA RefuseStreamLemma ==
  ASSUME Inv, srv.pc = "streamcookie", NEW n \in {net, Drop(net, "s", srv.pending)},
         RefuseStream(n), cli' = cli, reported' = reported
  PROVE  SrvKind
<1>1. /\ srv.ctrl \in Conn /\ srv.pending \in Conn /\ net \in NetRec /\ srv \in SrvRec
  BY ServerLookup
<1>2. /\ n \in NetRec /\ n.end = net.end /\ n.backlog = net.backlog /\ n.in["c"] = net.in["c"]
      /\ \A j \in Conn : j # srv.pending => n.in["s"][j] = net.in["s"][j]
  <2>1. CASE n = Drop(net, "s", srv.pending)
    <3>1. IsRead(n, net, "s", srv.pending)
      BY <1>1, <2>1, ReadLemma, SideLemma
    <3> QED BY <3>1, SideLemma DEF IsRead
  <2> QED BY <1>1, <2>1
<1> DEFINE ms == <<"ACCESS_DENIED">>
           p == srv.pending
<1>3. /\ net' = Close(WriteAll(n, "s", p, ms), "s", {p})
      /\ srv' = [srv EXCEPT !.pending = NoConn, !.pc = "select"]
  BY DEF RefuseStream, Write
<1>4. ms \in Seq(Msg) /\ \A i \in DOMAIN ms : ms[i] = "ACCESS_DENIED"
  BY MsgLemma
<1> HIDE DEF ms
<1>5. IsRefused(net', n, p, ms)
  BY <1>1, <1>2, <1>3, <1>4, RefuseLemma
<1>6. /\ srv' \in SrvRec /\ srv'.pending = NoConn /\ srv'.pc = "select"
      /\ srv'.ctrl = srv.ctrl /\ srv'.cookie = srv.cookie /\ srv'.state = srv.state
  BY <1>1, <1>3 DEF SrvRec
<1>7. srv.ctrl # NoConn /\ srv.ctrl[2] = 0 /\ srv.state = "CREATE_STREAMS"
  BY <1>1, ConnLemma DEF Inv, PcInv, Serving
<1>8. SrvNet(ms, p)
  BY <1>1, <1>2, <1>5 DEF SrvNet, Shorter, IsRefused
<1>9. SrvPlaces /\ SrvReports /\ SrvSays(ms, p)
  BY <1>4, <1>6 DEF SrvPlaces, SrvReports, SrvSays
<1>10. PcInv'
  BY <1>6, <1>7 DEF Inv, PcInv, Serving
<1>11. OneOffInv'
  BY DEF Inv, OneOffInv
<1>12. HeldInv'
  <2> SUFFICES ASSUME NEW c \in Client,
                      net'.end["s"][Ctrl(c)] = "open", net'.end["c"][Ctrl(c)] = "open"
               PROVE  Waits(net', Ctrl(c)) \/ srv'.ctrl = Ctrl(c)
    BY DEF HeldInv, Ctrl
  <2>1. Ctrl(c) # p /\ Ctrl(c) \in Conn
    BY <1>5, ConnLemma DEF IsRefused
  <2>2. net.end["s"][Ctrl(c)] = "open" /\ net.end["c"][Ctrl(c)] = "open"
    BY <1>2, <1>5, <2>1 DEF IsRefused
  <2>3. Waits(net, Ctrl(c)) \/ srv.ctrl = Ctrl(c)
    BY <2>1, <2>2 DEF Inv, HeldInv
  <2>4. Waits(net, Ctrl(c)) => Waits(net', Ctrl(c))
    <3>1. net'.backlog = net.backlog
      BY <1>2, <1>5 DEF IsRefused
    <3> QED BY <3>1 DEF Waits
  <2> QED BY <1>6, <2>3, <2>4
<1>13. SrvStep(ms, p)
  BY <1>6, <1>8, <1>9, <1>10, <1>11, <1>12 DEF SrvStep
<1> QED BY <1>13 DEF SrvKind

LEMMA StreamCookieStep ==
  ASSUME Inv, StreamCookie
  PROVE  SrvKind
<1>1. /\ srv.pc = "streamcookie" /\ cli' = cli /\ reported' = reported
      /\ srv.ctrl \in Conn /\ srv.pending \in Conn /\ net \in NetRec
  BY ServerLookup DEF StreamCookie
<1>2. PICK r \in NreadResult(net, "s", srv.pending, "COOKIE") :
        \/ r = "ERROR" /\ cleanup_server(net, -1, "IERECVCOOKIE")
        \/ /\ r = "COOKIE"
           /\ IF srv.pending[1] = srv.cookie THEN NewStream(Drop(net, "s", srv.pending))
              ELSE RefuseStream(Drop(net, "s", srv.pending))
        \/ r = "EOF" /\ (RefuseStream(net) \/ NewStream(net))
  <2>1. \A r \in NreadResult(net, "s", srv.pending, "COOKIE") : r \in {"COOKIE", "EOF", "ERROR"}
    BY DEF NreadResult
  <2> QED BY <2>1 DEF StreamCookie
<1>3. (r = "EOF" => net.end["c"][srv.pending] = "closed")
      /\ (r = "ERROR" => net.end["c"][srv.pending] = "reset")
  BY <1>2, SideLemma DEF NreadResult
<1>4. Prep(net, <<>>) /\ Prep(Drop(net, "s", srv.pending), <<>>)
  BY <1>1, PrepSame, PrepRead
<1>5. CASE r = "ERROR"
  <2>1. MayEnd(<<>>, -1, "IERECVCOOKIE")
    BY <1>1, <1>3, <1>5 DEF MayEnd
  <2>2. SrvStep(<<>>, srv.ctrl)
    BY <1>1, <1>2, <1>4, <1>5, <2>1, EndLemma
  <2> QED BY <2>2 DEF SrvKind
<1>6. CASE r = "COOKIE"
  <2>1. CASE srv.pending[1] = srv.cookie
    <3>1. srv.pending[2] # 0
      <4>1. srv.cookie = srv.ctrl[1] /\ srv.ctrl[2] = 0 /\ srv.pending # srv.ctrl
        BY <1>1, <2>1, ConnLemma DEF Inv, PcInv, PlaceInv, Serving
      <4> QED BY <1>1, <2>1, <4>1, ConnLemma
    <3>2. NotHeld
      BY <3>1 DEF NotHeld
    <3> QED BY <1>1, <1>2, <1>4, <1>6, <2>1, <3>2, NewStreamLemma
  <2>2. CASE srv.pending[1] # srv.cookie
    BY <1>1, <1>2, <1>6, <2>2, RefuseStreamLemma
  <2> QED BY <2>1, <2>2
<1>7. CASE r = "EOF"
  <2>1. NotHeld
    BY <1>3, <1>7 DEF NotHeld
  <2>2. CASE RefuseStream(net)
    BY <1>1, <2>2, RefuseStreamLemma
  <2>3. CASE NewStream(net)
    BY <1>1, <1>4, <2>1, <2>3, NewStreamLemma
  <2> QED BY <1>2, <1>7, <2>2, <2>3
<1> QED BY <1>2, <1>5, <1>6, <1>7

\* Every step of the server is of this kind.
LEMMA ServerLemma ==
  ASSUME Inv, ServerStep \/ ServerEvent
  PROVE  SrvKind
BY ServerListenStep, AcceptStep, AcceptBusyStep, AcceptCookieStep, PlainEnds, ServerErrorStep,
   ExchangeParametersStep, TcpAcceptStep, StreamCookieStep, StartTestStep, TestEndStep,
   ExchangeResultsStep, ServerTimerStep, IdleRestartStep, ServerInterruptedStep
   DEF ServerStep, ServerEvent

-----------------------------------------------------------------------------
(* What every step of a client has in common *)

\* Client c reads from its control connection, writes nothing but cookies on
\* its data connections, closes connections, or makes the connection k.
CliNet(c, k) ==
  /\ net' \in NetRec
  /\ \/ k = NoConn /\ net'.backlog = net.backlog
     \/ /\ k \in Conn /\ k[1] = c /\ net.end["c"][k] = "none" /\ net'.end["c"][k] # "none"
        /\ net'.backlog = Append(net.backlog, k)
  /\ \A j \in Conn :
       /\ j # k => net'.end["s"][j] = net.end["s"][j]
       /\ j # k => (net'.end["c"][j] = "none" <=> net.end["c"][j] = "none")
       /\ j # k => (net'.end["c"][j] = "open" => net.end["c"][j] = "open")
       /\ Shorter(net'.in["c"][j], net.in["c"][j])
       /\ j[2] # 0 => \/ net'.in["s"][j] = net.in["s"][j]
                      \/ net'.in["s"][j] = net.in["s"][j] \o <<"COOKIE">>

\* What becomes of the client itself.
CliSelf(c, k) ==
  /\ cli' \in [Client -> CliRec] /\ \A d \in Client : d # c => cli'[d] = cli[d]
  /\ \A i \in 0..2 * NumStreams : ToMake(c, i)' => ToMake(c, i) /\ <<c, i>> # k
  /\ \A d \in Client : k = Ctrl(d) => cli[d].pc = "connect"
  /\ cli'[c].pc = "connect" => cli[c].pc = "connect"
  /\ Creates(c)' => \/ Creates(c)
                    \/ /\ Starts(net, "c", Ctrl(c), "CREATE_STREAMS")
                       /\ net'.in["c"][Ctrl(c)] = Tail(net.in["c"][Ctrl(c)])
  /\ cli'[c].pc \in {"streams", "streamcookie"} => cli'[c].made < Streams(cli'[c].mode)
  /\ cli[c].pc \notin {"done", "failed"} /\ (cli'[c].pc = "done" => c \in reported)

CliStep(c, k) == CliNet(c, k) /\ CliSelf(c, k) /\ srv' = srv /\ reported' = reported

LEMMA ClientPlaces ==
  ASSUME Inv, NEW c \in Client, NEW k, CliStep(c, k)
  PROVE  /\ PlaceInv' /\ HeldInv' /\ \A j \in Conn : Waits(net', j) <=> Waits(net, j) \/ j = k
<1>1. net.backlog \in Seq(Conn) /\ NoConn \notin Conn
  BY NetFields, ConnLemma DEF Inv, TypeInv
<1>2. \A i, j \in DOMAIN net.backlog : net.backlog[i] = net.backlog[j] => i = j
  BY DEF Inv, PlaceInv
<1>3. k \in Conn => ~Waits(net, k) /\ k # srv.ctrl /\ k # srv.pending
  BY <1>1 DEF CliStep, CliNet, Inv, PlaceInv
<1>4. /\ \A j : Waits(net', j) <=> Waits(net, j) \/ (j = k /\ k \in Conn)
      /\ \A i, j \in DOMAIN net'.backlog : net'.backlog[i] = net'.backlog[j] => i = j
  <2>1. CASE k = NoConn /\ net'.backlog = net.backlog
    BY <1>1, <1>2, <2>1 DEF Waits
  <2>2. CASE k \in Conn /\ net'.backlog = Append(net.backlog, k)
    <3> DEFINE q == net.backlog
               r == net'.backlog
               l == Len(q) + 1
    <3>1. /\ DOMAIN r = DOMAIN q \cup {l} /\ l \notin DOMAIN q /\ r[l] = k
          /\ \A i \in DOMAIN q : r[i] = q[i]
      BY <1>1, <2>2
    <3> HIDE DEF l
    <3>2. \A j : Waits(net', j) <=> Waits(net, j) \/ j = k
      BY <3>1 DEF Waits
    <3>3. \A i \in DOMAIN q : q[i] # k
      BY <1>3, <2>2 DEF Waits
    <3>4. \A i, j \in DOMAIN r : r[i] = r[j] => i = j
      BY <1>2, <3>1, <3>3
    <3> QED BY <2>2, <3>2, <3>4
  <2> QED BY <2>1, <2>2 DEF CliStep, CliNet
<1>5. PlaceInv'
  <2>1. ~Waits(net', srv'.ctrl) /\ ~Waits(net', srv'.pending)
    BY <1>3, <1>4 DEF CliStep, Inv, PlaceInv
  <2>2. srv'.ctrl # NoConn => srv'.pending # srv'.ctrl
    BY DEF CliStep, Inv, PlaceInv
  <2>3. ASSUME NEW j \in Conn, net'.end["c"][j] = "none"
        PROVE  ~Waits(net', j) /\ j # srv'.ctrl /\ j # srv'.pending /\ net'.end["s"][j] = "none"
    <3>1. j # k /\ net.end["c"][j] = "none" /\ net'.end["s"][j] = net.end["s"][j]
      BY <1>1, <2>3 DEF CliStep, CliNet
    <3> QED BY <1>4, <3>1 DEF CliStep, Inv, PlaceInv
  <2> QED BY <1>4, <2>1, <2>2, <2>3 DEF PlaceInv
<1>6. HeldInv'
  <2> SUFFICES ASSUME NEW d \in Client,
                      net'.end["s"][Ctrl(d)] = "open", net'.end["c"][Ctrl(d)] = "open"
               PROVE  Waits(net', Ctrl(d)) \/ srv'.ctrl = Ctrl(d) \/ srv'.pending = Ctrl(d)
    BY DEF HeldInv, Ctrl
  <2>1. Ctrl(d) \in Conn
    BY ConnLemma
  <2>2. CASE Ctrl(d) = k
    BY <1>4, <2>1, <2>2
  <2>3. CASE Ctrl(d) # k
    <3>1. net.end["s"][Ctrl(d)] = "open" /\ net.end["c"][Ctrl(d)] = "open"
      BY <2>1, <2>3 DEF CliStep, CliNet
    <3> QED BY <1>4, <3>1 DEF CliStep, Inv, HeldInv
  <2> QED BY <2>2, <2>3
<1> QED BY <1>4, <1>5, <1>6

\* What was in a queue that got shorter.
LEMMA ShorterLemma ==
  ASSUME NEW q \in Seq(Msg), NEW r, Shorter(r, q), NEW m
  PROVE  /\ (\E i \in DOMAIN r : r[i] = m) => \E i \in DOMAIN q : q[i] = m
         /\ (\A i, j \in DOMAIN q : q[i] = m /\ q[j] = m => i = j) =>
              \A i, j \in DOMAIN r : r[i] = m /\ r[j] = m => i = j
<1>1. CASE q # <<>> /\ r = Tail(q)
  <2>1. \A i \in DOMAIN r : i + 1 \in DOMAIN q /\ r[i] = q[i + 1] /\ i \in Nat \ {0}
    BY <1>1, TailFacts
  <2> QED BY <2>1
<1> QED BY <1>1 DEF Shorter

LEMMA ClientQueues ==
  ASSUME Inv, NEW c \in Client, NEW k, CliStep(c, k)
  PROVE  FutureInv' /\ DataInv' /\ ReportInv'
<1>1. FutureInv'
  <2> SUFFICES ASSUME NEW j \in Conn, ToMake(j[1], j[2])' PROVE net'.end["c"][j] = "none"
    BY DEF FutureInv
  <2>1. j[1] \in Client /\ j[2] \in 0..2 * NumStreams /\ j = <<j[1], j[2]>>
    BY ConnLemma
  <2>2. CASE j[1] = c
    <3>1. ToMake(c, j[2]) /\ j # k
      BY <2>1, <2>2 DEF CliStep, CliSelf
    <3> QED BY <2>2, <3>1 DEF CliStep, CliNet, Inv, FutureInv
  <2>3. CASE j[1] # c
    <3>1. cli'[j[1]] = cli[j[1]]
      BY <2>1, <2>3 DEF CliStep, CliSelf
    <3>2. ToMake(j[1], j[2])
      BY <3>1 DEF ToMake, Running
    <3>3. net.end["c"][j] = "none"
      BY <3>2 DEF Inv, FutureInv
    <3>4. j # k
      BY <2>3, ConnLemma DEF CliStep, CliNet
    <3> QED BY <3>3, <3>4 DEF CliStep, CliNet
  <2> QED BY <2>2, <2>3
<1>2. DataInv'
  <2> SUFFICES ASSUME NEW j \in Conn, j[2] # 0, NEW i \in DOMAIN net'.in["s"][j]
               PROVE  net'.in["s"][j][i] = "COOKIE"
    BY DEF DataInv
  <2> DEFINE q == net.in["s"][j]
             r == <<"COOKIE">>
  <2>1. q \in Seq(Msg) /\ \A x \in DOMAIN q : q[x] = "COOKIE"
    BY NetFields, SideLemma DEF Inv, TypeInv, DataInv
  <2>2. r \in Seq(Msg) /\ \A x \in DOMAIN r : r[x] = "COOKIE"
    BY MsgLemma
  <2>3. net'.in["s"][j] = q \/ net'.in["s"][j] = q \o r
    BY DEF CliStep, CliNet
  <2> HIDE DEF r
  <2>4. \A x \in DOMAIN (q \o r) : \/ x \in DOMAIN q /\ (q \o r)[x] = q[x]
                                   \/ x - Len(q) \in DOMAIN r /\ (q \o r)[x] = r[x - Len(q)]
    BY <2>1, <2>2, ConcatFacts
  <2> QED BY <2>1, <2>2, <2>3, <2>4
<1>3. ReportInv'
  <2> SUFFICES ASSUME NEW j \in Conn, NEW i \in DOMAIN net'.in["c"][j],
                      net'.in["c"][j][i] = "DISPLAY_RESULTS"
               PROVE  j[1] \in reported'
    BY DEF ReportInv
  <2>1. net.in["c"][j] \in Seq(Msg) /\ Shorter(net'.in["c"][j], net.in["c"][j])
    BY NetFields, SideLemma DEF Inv, TypeInv, CliStep, CliNet
  <2>2. \E x \in DOMAIN net.in["c"][j] : net.in["c"][j][x] = "DISPLAY_RESULTS"
    <3> DEFINE q == net.in["c"][j]
               r == net'.in["c"][j]
    <3>1. q \in Seq(Msg) /\ Shorter(r, q) /\ \E x \in DOMAIN r : r[x] = "DISPLAY_RESULTS"
      BY <2>1
    <3> HIDE DEF q, r
    <3>2. \E x \in DOMAIN q : q[x] = "DISPLAY_RESULTS"
      BY <3>1, ShorterLemma
    <3> QED BY <3>2 DEF q
  <2> QED BY <2>2 DEF Inv, ReportInv, CliStep
<1> QED BY <1>1, <1>2, <1>3

LEMMA ClientFresh ==
  ASSUME Inv, NEW c \in Client, NEW k, CliStep(c, k), NEW d \in Client
  PROVE  Fresh(d)' => Fresh(d)
<1>1. Waits(net', Ctrl(d)) => Waits(net, Ctrl(d)) \/ cli[d].pc = "connect"
  BY ConnLemma, ClientPlaces DEF CliStep, CliSelf
<1>2. cli'[d].pc = "connect" => cli[d].pc = "connect"
  BY DEF CliStep, CliSelf
<1>3. srv' = srv
  BY DEF CliStep
<1> QED BY <1>1, <1>2, <1>3 DEF Fresh, Ctrl

LEMMA ClientOnce ==
  ASSUME Inv, NEW c \in Client, NEW k, CliStep(c, k)
  PROVE  OnceInv'
<1> SUFFICES ASSUME NEW d \in Client
             PROVE  LET q == net'.in["c"][Ctrl(d)]
                        asked == \E i \in DOMAIN q : q[i] = "CREATE_STREAMS"
                    IN  /\ Fresh(d)' \/ Creates(d)' => ~asked
                        /\ Fresh(d)' => ~Creates(d)'
                        /\ \A i, j \in DOMAIN q : q[i] = "CREATE_STREAMS" /\ q[j] = "CREATE_STREAMS" => i = j
                        /\ cli'[d].pc \in {"streams", "streamcookie"} => cli'[d].made < Streams(cli'[d].mode)
  BY DEF OnceInv, Ctrl
<1> DEFINE q == net.in["c"][Ctrl(d)]
           r == net'.in["c"][Ctrl(d)]
           asked(s) == \E i \in DOMAIN s : s[i] = "CREATE_STREAMS"
           once(s) == \A i, j \in DOMAIN s : s[i] = "CREATE_STREAMS" /\ s[j] = "CREATE_STREAMS" => i = j
<1>1. Ctrl(d) \in Conn /\ q \in Seq(Msg) /\ Shorter(r, q)
  BY NetFields, SideLemma, ConnLemma DEF Inv, TypeInv, CliStep, CliNet
<1>2. /\ Fresh(d) \/ Creates(d) => ~asked(q)
      /\ Fresh(d) => ~Creates(d)
      /\ once(q)
      /\ cli[d].pc \in {"streams", "streamcookie"} => cli[d].made < Streams(cli[d].mode)
  BY DEF Inv, OnceInv
<1>3. (asked(r) => asked(q)) /\ (once(q) => once(r))
  <2> HIDE DEF q, r
  <2> QED BY <1>1, ShorterLemma
<1>4. Fresh(d)' => Fresh(d)
  BY ClientFresh
<1>5. CASE Creates(d)' => Creates(d)
  <2>1. cli'[d].pc \in {"streams", "streamcookie"} => cli'[d].made < Streams(cli'[d].mode)
    BY <1>2 DEF CliStep, CliSelf
  <2> HIDE DEF q, asked, once
  <2>2. (Fresh(d)' \/ Creates(d)' => ~asked(r)) /\ (Fresh(d)' => ~Creates(d)') /\ once(r)
    BY <1>2, <1>3, <1>4, <1>5
  <2> QED BY <2>1, <2>2 DEF asked, once
<1>6. CASE Creates(d)' /\ ~Creates(d)
  <2>1. d = c
    BY <1>6 DEF CliStep, CliSelf, Creates
  <2>2. q # <<>> /\ Head(q) = "CREATE_STREAMS" /\ r = Tail(q)
    BY <1>6, <2>1 DEF CliStep, CliSelf, Starts
  <2>3. asked(q)
    BY <1>1, <2>2, TailFacts
  <2>4. ~asked(r)
    <3> SUFFICES ASSUME NEW i \in DOMAIN r, r[i] = "CREATE_STREAMS" PROVE FALSE
      OBVIOUS
    <3> HIDE DEF q, r
    <3>1. /\ 1 \in DOMAIN q /\ q[1] = "CREATE_STREAMS"
          /\ i + 1 \in DOMAIN q /\ q[i + 1] = "CREATE_STREAMS" /\ i \in Nat \ {0}
      BY <1>1, <2>2, TailFacts
    <3>2. i + 1 = 1
      BY <1>2, <3>1
    <3> QED BY <3>1, <3>2
  <2>5. ~Fresh(d)'
    <3> HIDE DEF asked, q
    <3> QED BY <1>2, <1>4, <2>3
  <2>6. cli'[d].pc \in {"streams", "streamcookie"} => cli'[d].made < Streams(cli'[d].mode)
    BY <2>1 DEF CliStep, CliSelf
  <2>7. once(r)
    <3> HIDE DEF once, q, r
    <3> QED BY <1>2, <1>3
  <2> HIDE DEF asked, once
  <2>8. (Fresh(d)' \/ Creates(d)' => ~asked(r)) /\ (Fresh(d)' => ~Creates(d)') /\ once(r)
    BY <2>4, <2>5, <2>7
  <2> QED BY <2>6, <2>8 DEF asked, once
<1> QED BY <1>5, <1>6

\* What such a step does keeps the invariant.
LEMMA ClientKeeps ==
  ASSUME Inv, NEW c \in Client, NEW k, CliStep(c, k)
  PROVE  Inv'
<1>1. TypeInv'
  BY DEF CliStep, CliNet, CliSelf, Inv, TypeInv
<1>2. PlaceInv' /\ HeldInv' /\ FutureInv' /\ DataInv' /\ ReportInv' /\ OnceInv'
  BY ClientPlaces, ClientQueues, ClientOnce
<1>3. PcInv' /\ OneOffInv'
  BY DEF CliStep, Inv, PcInv, Serving, OneOffInv
<1> QED BY <1>1, <1>2, <1>3 DEF Inv

-----------------------------------------------------------------------------
(* The steps of a client *)

\* n is net after reads of client c, and writes of it to control connections
\* and of cookies to the others.
CliPrep(n) ==
  /\ n \in NetRec /\ n.end = net.end /\ n.backlog = net.backlog
  /\ \A j \in Conn :
       /\ Shorter(n.in["c"][j], net.in["c"][j])
       /\ j[2] # 0 => \/ n.in["s"][j] = net.in["s"][j]
                      \/ n.in["s"][j] = net.in["s"][j] \o <<"COOKIE">>

LEMMA CliPrepRead ==
  ASSUME net \in NetRec, NEW c \in Client
  PROVE  /\ CliPrep(net) /\ CliPrep(Drop(net, "c", Ctrl(c)))
         /\ Drop(net, "c", Ctrl(c)).in["s"] = net.in["s"]
         /\ net.in["c"][Ctrl(c)] # <<>> =>
              Drop(net, "c", Ctrl(c)).in["c"][Ctrl(c)] = Tail(net.in["c"][Ctrl(c)])
<1> DEFINE n == Drop(net, "c", Ctrl(c))
<1>1. Ctrl(c) \in Conn /\ IsRead(n, net, "c", Ctrl(c))
  BY ReadLemma, SideLemma, ConnLemma
<1> HIDE DEF n
<1>2. CliPrep(n) /\ n.in["s"] = net.in["s"]
      /\ (net.in["c"][Ctrl(c)] # <<>> => n.in["c"][Ctrl(c)] = Tail(net.in["c"][Ctrl(c)]))
  BY <1>1, SideLemma DEF IsRead, CliPrep, Shorter
<1>3. CliPrep(net)
  BY DEF CliPrep, Shorter
<1> QED BY <1>2, <1>3 DEF n

LEMMA CliPrepWrite ==
  ASSUME NEW n, CliPrep(n), NEW k \in Conn, NEW m \in Msg,
         k[2] # 0 => n = net /\ m = "COOKIE"
  PROVE  CliPrep(Write(n, "c", k, m)) /\ Write(n, "c", k, m).in["c"] = n.in["c"]
<1> DEFINE w == Write(n, "c", k, m)
           ms == <<m>>
<1>1. ms \in Seq(Msg) /\ n \in NetRec
  BY DEF CliPrep
<1>2. IsWritten(w, n, "c", k, ms)
  BY <1>1, WriteLemma, SideLemma DEF Write
<1> HIDE DEF w
<1>3. /\ w \in NetRec /\ w.end = n.end /\ w.backlog = n.backlog /\ w.in["c"] = n.in["c"]
      /\ \A j \in Conn : j # k => w.in["s"][j] = n.in["s"][j]
      /\ w.in["s"][k] = n.in["s"][k] \/ w.in["s"][k] = n.in["s"][k] \o ms
  BY <1>2, SideLemma DEF IsWritten
<1>4. CliPrep(w)
  BY <1>3 DEF CliPrep
<1> QED BY <1>3, <1>4 DEF w

LEMMA CliFields ==
  ASSUME NEW x \in CliRec
  PROVE  /\ x.state \in Msg \cup {"0"} /\ x.mode \in Modes /\ x.made \in 0..2 * NumStreams
         /\ x.pc \in {"connect", "cookie", "select", "streams", "streamcookie", "results", "drain",
                      "done", "failed", "gone"}
         /\ x.made \in Int
BY ControlAssumption DEF CliRec

\* The process of client c ends.
LEMMA ExitLemma ==
  ASSUME Inv, NEW c \in Client, NEW n, CliPrep(n), NEW how \in {"done", "failed"}, Exit(n, c, how),
         Running(c), how = "done" => c \in reported, srv' = srv, reported' = reported
  PROVE  CliStep(c, NoConn)
<1>1. IsClosed(net', n, "c", ConnsOf(c))
  BY CloseLemma, SideLemma DEF Exit, CliPrep
<1>2. /\ net' \in NetRec /\ net'.backlog = net.backlog
      /\ \A j \in Conn :
           /\ net'.end["s"][j] = net.end["s"][j]
           /\ (net'.end["c"][j] = "none" <=> net.end["c"][j] = "none")
           /\ (net'.end["c"][j] = "open" => net.end["c"][j] = "open")
           /\ net'.in["c"][j] = <<>> \/ net'.in["c"][j] = n.in["c"][j]
           /\ net'.in["s"][j] = n.in["s"][j]
  BY <1>1, SideLemma DEF IsClosed, CliPrep
<1>3. CliNet(c, NoConn)
  <2>1. \A j \in Conn : Shorter(net'.in["c"][j], net.in["c"][j])
    BY <1>2 DEF CliPrep, Shorter
  <2>2. \A j \in Conn : j[2] # 0 => \/ net'.in["s"][j] = net.in["s"][j]
                                    \/ net'.in["s"][j] = net.in["s"][j] \o <<"COOKIE">>
    BY <1>2 DEF CliPrep
  <2> QED BY <1>2, <2>1, <2>2 DEF CliNet
<1>4. cli \in [Client -> CliRec]
  BY DEF Inv, TypeInv
<1> DEFINE x == [cli[c] EXCEPT !.pc = how]
<1>5. x \in CliRec /\ x.pc = how /\ x.made = cli[c].made
  BY <1>4 DEF CliRec
<1>6. cli' = [cli EXCEPT ![c] = x]
  BY DEF Exit
<1> HIDE DEF x
<1>7. /\ cli' \in [Client -> CliRec] /\ cli'[c] = x /\ \A d \in Client : d # c => cli'[d] = cli[d]
  BY <1>4, <1>5, <1>6
<1>8. \A i \in 0..2 * NumStreams : ~ToMake(c, i)'
  BY <1>5, <1>7 DEF ToMake, Running
<1>9. Creates(c)' => Creates(c)
  BY <1>5, <1>7 DEF Creates
<1>10. \A d \in Client : NoConn # Ctrl(d)
  BY ConnLemma
<1>11. CliSelf(c, NoConn)
  BY <1>5, <1>7, <1>8, <1>9, <1>10 DEF CliSelf, Running
<1> QED BY <1>3, <1>11 DEF CliStep

\* How a client goes on that has made no new connection.
GoesOn(c, x) ==
  /\ x \in CliRec /\ x.pc \notin {"connect", "streamcookie", "done", "failed"}
  /\ \/ x.made = cli[c].made /\ (x.pc = "gone" \/ cli[c].pc # "streamcookie")
     \/ x.made = cli[c].made + 1 /\ cli[c].pc = "streamcookie"
  /\ x.pc = "streams" => /\ x.made < Streams(x.mode)
                         /\ \/ cli[c].pc = "streamcookie"
                            \/ /\ Starts(net, "c", Ctrl(c), "CREATE_STREAMS")
                               /\ net'.in["c"][Ctrl(c)] = Tail(net.in["c"][Ctrl(c)])

LEMMA GoesOnLemma ==
  ASSUME Inv, NEW c \in Client, CliPrep(net'), NEW x, GoesOn(c, x), cli' = [cli EXCEPT ![c] = x],
         Running(c), srv' = srv, reported' = reported
  PROVE  CliStep(c, NoConn)
<1>1. CliNet(c, NoConn)
  BY ConnLemma DEF CliNet, CliPrep
<1>2. cli \in [Client -> CliRec] /\ x \in CliRec
  BY DEF Inv, TypeInv, GoesOn
<1>3. /\ cli' \in [Client -> CliRec] /\ cli'[c] = x /\ \A d \in Client : d # c => cli'[d] = cli[d]
  BY <1>2
<1>4. cli[c].made \in Int /\ x.made \in Int
  BY <1>2, CliFields
<1>5. ASSUME NEW i \in 0..2 * NumStreams, ToMake(c, i)'
      PROVE  ToMake(c, i)
  <2>1. i # 0 /\ x.pc # "gone" /\ i > x.made
    BY <1>3, <1>5 DEF ToMake, Running, GoesOn
  <2>2. i \in Int
    BY ConnLemma
  <2> QED BY <1>4, <2>1, <2>2 DEF ToMake, GoesOn
<1>6. \A i \in 0..2 * NumStreams : <<c, i>> # NoConn
  BY ConnLemma
<1>7. Creates(c)' => \/ Creates(c)
                     \/ /\ Starts(net, "c", Ctrl(c), "CREATE_STREAMS")
                        /\ net'.in["c"][Ctrl(c)] = Tail(net.in["c"][Ctrl(c)])
  BY <1>3 DEF Creates, GoesOn
<1>8. \A d \in Client : NoConn # Ctrl(d)
  BY ConnLemma
<1>9. CliSelf(c, NoConn)
  BY <1>3, <1>5, <1>6, <1>7, <1>8 DEF CliSelf, Running, GoesOn
<1> QED BY <1>1, <1>9 DEF CliStep

\* A client makes connection k and goes on at pc.
LEMMA DialLemma ==
  ASSUME Inv, NEW c \in Client, NEW k \in Conn, NEW pc \in {"cookie", "streamcookie"},
         net' = Connect(net, k), cli' = [cli EXCEPT ![c].pc = pc], srv' = srv, reported' = reported,
         \/ pc = "cookie" /\ cli[c].pc = "connect" /\ k = Ctrl(c)
         \/ pc = "streamcookie" /\ cli[c].pc = "streams" /\ k = <<c, cli[c].made + 1>>
  PROVE  CliStep(c, k)
<1>1. net \in NetRec /\ cli \in [Client -> CliRec]
  BY DEF Inv, TypeInv
<1>2. IsConnected(net', net, k)
  BY <1>1, ConnectLemma
<1>3. cli[c] \in CliRec /\ cli[c].made \in Int /\ cli[c].made >= 0
  BY <1>1, CliFields, ConnLemma
<1>4. k[1] = c /\ ToMake(k[1], k[2])
  <2>1. CASE k = Ctrl(c) /\ cli[c].pc = "connect"
    BY <2>1, ConnLemma DEF ToMake
  <2>2. CASE k = <<c, cli[c].made + 1>> /\ cli[c].pc = "streams"
    BY <1>3, <2>2 DEF ToMake, Running
  <2> QED BY <2>1, <2>2
<1>5. net.end["c"][k] = "none"
  BY <1>4 DEF Inv, FutureInv
<1>6. CliNet(c, k)
  BY <1>2, <1>4, <1>5, SideLemma DEF CliNet, IsConnected, Shorter
<1> DEFINE x == [cli[c] EXCEPT !.pc = pc]
<1>7. x \in CliRec /\ x.pc = pc /\ x.made = cli[c].made /\ x.mode = cli[c].mode
  BY <1>3 DEF CliRec
<1>8. cli' = [cli EXCEPT ![c] = x]
  OBVIOUS
<1> HIDE DEF x
<1>9. /\ cli' \in [Client -> CliRec] /\ cli'[c] = x /\ \A d \in Client : d # c => cli'[d] = cli[d]
  BY <1>1, <1>7, <1>8
<1>10. ASSUME NEW i \in 0..2 * NumStreams, ToMake(c, i)'
       PROVE  ToMake(c, i) /\ <<c, i>> # k
  <2>1. i \in Int /\ i # 0
    BY <1>7, <1>9, <1>10, ConnLemma DEF ToMake
  <2>2. CASE k = Ctrl(c) /\ cli[c].pc = "connect" /\ pc = "cookie"
    <3>1. i > cli[c].made
      BY <1>7, <1>9, <1>10, <2>1, <2>2 DEF ToMake, Running
    <3> QED BY <2>1, <2>2, <3>1 DEF ToMake, Running, Ctrl
  <2>3. CASE k = <<c, cli[c].made + 1>> /\ cli[c].pc = "streams" /\ pc = "streamcookie"
    <3>1. i > cli[c].made + 1
      BY <1>7, <1>9, <1>10, <2>1, <2>3 DEF ToMake, Running
    <3> QED BY <1>3, <2>1, <2>3, <3>1 DEF ToMake, Running
  <2> QED BY <2>2, <2>3
<1>11. \A d \in Client : k = Ctrl(d) => cli[d].pc = "connect"
  <2> SUFFICES ASSUME NEW d \in Client, k = Ctrl(d) PROVE cli[d].pc = "connect"
    OBVIOUS
  <2>1. k[1] = d /\ k[2] = 0
    BY ConnLemma
  <2> QED BY <1>3, <1>4, <2>1 DEF ToMake
<1>12. Creates(c)' => Creates(c)
  BY <1>7, <1>9 DEF Creates
<1>13. cli'[c].pc \in {"streams", "streamcookie"} => cli'[c].made < Streams(cli'[c].mode)
  BY <1>7, <1>9 DEF Inv, OnceInv
<1>14. CliSelf(c, k)
  BY <1>7, <1>9, <1>10, <1>11, <1>12, <1>13 DEF CliSelf
<1> QED BY <1>6, <1>14 DEF CliStep

\* A client writes on a connection and goes on, or cannot and exits.
LEMMA SendsOnLemma ==
  ASSUME Inv, NEW c \in Client, NEW n, CliPrep(n), NEW k \in Conn, NEW m \in Msg, NEW x,
         k[2] # 0 => n = net /\ m = "COOKIE",
         ClientSendsOn(n, c, k, m, x), GoesOn(c, x), x.pc = "streams" => cli[c].pc = "streamcookie",
         Running(c), srv' = srv, reported' = reported
  PROVE  CliStep(c, NoConn)
<1>1. CASE Exit(n, c, "failed")
  BY <1>1, ExitLemma
<1>2. CASE net' = Write(n, "c", k, m) /\ cli' = [cli EXCEPT ![c] = x]
  <2>1. CliPrep(net')
    BY <1>2, CliPrepWrite
  <2> QED BY <1>2, <2>1, GoesOnLemma
<1> QED BY <1>1, <1>2 DEF ClientSendsOn

CliKind(c) == \E k \in Conn \cup {NoConn} : CliStep(c, k)

\* What a client has when it takes a step.
LEMMA ClientLookup ==
  ASSUME Inv, NEW c \in Client
  PROVE  /\ net \in NetRec /\ cli \in [Client -> CliRec] /\ cli[c] \in CliRec
         /\ cli[c].made \in Int /\ cli[c].made >= 0 /\ Ctrl(c) \in Conn /\ Ctrl(c)[2] = 0
         /\ CliPrep(net) /\ CliPrep(Drop(net, "c", Ctrl(c)))
         /\ \A m \in Msg : ClientHas(c, m) =>
              /\ cli[c].pc = "select" /\ Running(c) /\ Starts(net, "c", Ctrl(c), m)
<1>1. net \in NetRec /\ cli \in [Client -> CliRec] /\ cli[c] \in CliRec /\ Ctrl(c) \in Conn
      /\ Ctrl(c)[2] = 0
  BY ConnLemma DEF Inv, TypeInv
<1>2. cli[c].made \in Int /\ cli[c].made >= 0
  BY <1>1, CliFields, ConnLemma
<1>3. ASSUME NEW m \in Msg, ClientHas(c, m)
      PROVE  cli[c].pc = "select" /\ Running(c) /\ Starts(net, "c", Ctrl(c), m)
  <2>1. m \notin {"EOF", "ERROR"}
    BY DEF Msg
  <2> QED BY <1>3, <2>1 DEF ClientHas, ReadResult, Starts, Running
<1> QED BY <1>1, <1>2, <1>3, CliPrepRead

LEMMA ConnectStep ==
  ASSUME Inv, NEW c \in Client, iperf_connect(c) \/ iperf_tcp_connect(c)
  PROVE  CliKind(c)
<1>1. /\ cli[c] \in CliRec /\ cli[c].made \in Int /\ cli[c].made >= 0 /\ Ctrl(c) \in Conn
      /\ CliPrep(net)
  BY ClientLookup
<1>2. Running(c) /\ srv' = srv /\ reported' = reported
  BY DEF iperf_connect, iperf_tcp_connect, Running
<1>3. CASE Exit(net, c, "failed")
  <2>1. CliStep(c, NoConn)
    BY <1>1, <1>2, <1>3, ExitLemma
  <2> QED BY <2>1 DEF CliKind
<1>4. CASE iperf_connect(c) /\ net.listening
  <2>1. /\ cli[c].pc = "connect" /\ net' = Connect(net, Ctrl(c))
        /\ cli' = [cli EXCEPT ![c].pc = "cookie"]
    BY <1>4 DEF iperf_connect
  <2>2. CliStep(c, Ctrl(c))
    BY <1>1, <1>2, <2>1, DialLemma
  <2> QED BY <1>1, <2>2 DEF CliKind
<1>5. CASE iperf_tcp_connect(c) /\ net.listening
  <2> DEFINE k == <<c, cli[c].made + 1>>
  <2>1. /\ cli[c].pc = "streams" /\ net' = Connect(net, k)
        /\ cli' = [cli EXCEPT ![c].pc = "streamcookie"]
    BY <1>5 DEF iperf_tcp_connect
  <2>2. k \in Conn
    <3>1. cli[c].made < Streams(cli[c].mode)
      BY <2>1 DEF Inv, OnceInv
    <3>2. cli[c].made + 1 \in 0..2 * NumStreams
      BY <1>1, <3>1, ConnLemma DEF Streams
    <3> QED BY <3>2, ConnLemma
  <2>3. CliStep(c, k)
    <3> HIDE DEF k
    <3>1. k = <<c, cli[c].made + 1>>
      BY DEF k
    <3> QED BY <1>2, <2>1, <2>2, <3>1, DialLemma
  <2> QED BY <2>2, <2>3 DEF CliKind
<1> QED BY <1>3, <1>4, <1>5 DEF iperf_connect, iperf_tcp_connect

\* A client whose next state has these parts.
LEMMA NextClient ==
  ASSUME NEW x \in CliRec, NEW pc \in {"select", "streams", "results", "drain", "gone"}, NEW st \in Msg
  PROVE  /\ LET y == [x EXCEPT !.pc = pc] IN
              y \in CliRec /\ y.pc = pc /\ y.made = x.made /\ y.mode = x.mode
         /\ LET y == [x EXCEPT !.state = st] IN
              y \in CliRec /\ y.pc = x.pc /\ y.made = x.made /\ y.mode = x.mode
         /\ LET y == [x EXCEPT !.state = st, !.pc = pc] IN
              y \in CliRec /\ y.pc = pc /\ y.made = x.made /\ y.mode = x.mode
BY DEF CliRec

LEMMA ClientWrites ==
  ASSUME Inv, NEW c \in Client,
         SendCookie(c) \/ ParamExchange(c) \/ TestDone(c) \/ SendResults(c)
  PROVE  CliKind(c)
<1>1. /\ cli[c] \in CliRec /\ Ctrl(c) \in Conn /\ Ctrl(c)[2] = 0
      /\ CliPrep(net) /\ CliPrep(Drop(net, "c", Ctrl(c)))
  BY ClientLookup
<1>2. /\ {"COOKIE", "PARAM_EXCHANGE", "PARAMS", "TEST_END", "EXCHANGE_RESULTS", "RESULTS"} \subseteq Msg
  BY DEF Msg
<1>3. srv' = srv /\ reported' = reported
  BY DEF SendCookie, ParamExchange, TestDone, SendResults
<1>4. ASSUME NEW n, CliPrep(n), NEW m \in Msg, NEW x, ClientSendsOn(n, c, Ctrl(c), m, x),
             x \in CliRec, x.made = cli[c].made, x.pc \in {"select", "results"},
             cli[c].pc \in {"cookie", "select"}
      PROVE  CliKind(c)
  <2>1. GoesOn(c, x) /\ Running(c) /\ x.pc # "streams"
    BY <1>4 DEF GoesOn, Running
  <2>2. CliStep(c, NoConn)
    BY <1>1, <1>3, <1>4, <2>1, SendsOnLemma
  <2> QED BY <2>2 DEF CliKind
<1>5. CASE SendCookie(c)
  <2> DEFINE x == [cli[c] EXCEPT !.pc = "select"]
  <2>1. x \in CliRec /\ x.pc = "select" /\ x.made = cli[c].made
    BY <1>1, <1>2, NextClient
  <2> HIDE DEF x
  <2>2. ClientSendsOn(net, c, Ctrl(c), "COOKIE", x) /\ cli[c].pc = "cookie"
    BY <1>5 DEF SendCookie, x
  <2> QED BY <1>1, <1>2, <1>4, <2>1, <2>2
<1>6. CASE ParamExchange(c)
  <2> DEFINE x == [cli[c] EXCEPT !.state = "PARAM_EXCHANGE"]
             n == Drop(net, "c", Ctrl(c))
  <2>1. ClientSendsOn(n, c, Ctrl(c), "PARAMS", x) /\ cli[c].pc = "select"
    BY <1>6 DEF ParamExchange, ClientHas
  <2>2. x \in CliRec /\ x.pc = "select" /\ x.made = cli[c].made
    BY <1>1, <1>2, <2>1 DEF CliRec
  <2> HIDE DEF x, n
  <2>3. CliPrep(n)
    BY <1>1 DEF n
  <2> QED BY <1>2, <1>4, <2>1, <2>2, <2>3
<1>7. CASE TestDone(c)
  <2> DEFINE x == [cli[c] EXCEPT !.state = "TEST_END"]
  <2>1. ClientSendsOn(net, c, Ctrl(c), "TEST_END", x) /\ cli[c].pc = "select"
    BY <1>7 DEF TestDone
  <2>2. x \in CliRec /\ x.pc = "select" /\ x.made = cli[c].made
    BY <1>1, <1>2, <2>1 DEF CliRec
  <2> HIDE DEF x
  <2> QED BY <1>1, <1>2, <1>4, <2>1, <2>2
<1>8. CASE SendResults(c)
  <2> DEFINE x == [cli[c] EXCEPT !.state = "EXCHANGE_RESULTS", !.pc = "results"]
             n == Drop(net, "c", Ctrl(c))
  <2>1. ClientSendsOn(n, c, Ctrl(c), "RESULTS", x) /\ cli[c].pc = "select"
    BY <1>8 DEF SendResults, ClientHas
  <2>2. x \in CliRec /\ x.pc = "results" /\ x.made = cli[c].made
    BY <1>1, <1>2 DEF CliRec
  <2> HIDE DEF x, n
  <2>3. CliPrep(n)
    BY <1>1 DEF n
  <2> QED BY <1>2, <1>4, <2>1, <2>2, <2>3
<1> QED BY <1>5, <1>6, <1>7, <1>8

LEMMA SendStreamCookieStep ==
  ASSUME Inv, NEW c \in Client, SendStreamCookie(c)
  PROVE  CliKind(c)
<1> DEFINE i == cli[c].made + 1
           k == <<c, i>>
           pc == IF StreamsMade(i, cli[c].mode) THEN "select" ELSE "streams"
           x == [cli[c] EXCEPT !.made = i, !.pc = pc]
<1>1. cli[c] \in CliRec /\ cli[c].made \in Int /\ cli[c].made >= 0 /\ CliPrep(net)
  BY ClientLookup
<1>2. /\ cli[c].pc = "streamcookie" /\ ClientSendsOn(net, c, k, "COOKIE", x)
      /\ srv' = srv /\ reported' = reported
  BY DEF SendStreamCookie
<1>3. cli[c].made < Streams(cli[c].mode)
  BY <1>2 DEF Inv, OnceInv
<1>4. i \in 0..2 * NumStreams /\ Streams(cli[c].mode) \in Int /\ NumStreams \in Nat
  BY <1>1, <1>3, ConnLemma DEF Streams
<1>5. pc \in {"select", "streams"} /\ (pc = "streams" => i < Streams(cli[c].mode))
  BY <1>1, <1>3, <1>4 DEF StreamsMade
<1>6. k \in Conn /\ k[2] # 0
  BY <1>1, <1>4, ConnLemma
<1>7. x \in CliRec /\ x.pc = pc /\ x.made = i /\ x.mode = cli[c].mode
  <2> HIDE DEF i, pc
  <2> QED BY <1>1, <1>4, <1>5 DEF CliRec
<1>8. GoesOn(c, x) /\ Running(c)
  <2> HIDE DEF x, pc
  <2> QED BY <1>2, <1>5, <1>7 DEF GoesOn, Running
<1>9. "COOKIE" \in Msg
  BY DEF Msg
<1> HIDE DEF x, pc, k
<1>10. CliStep(c, NoConn)
  BY <1>1, <1>2, <1>6, <1>8, <1>9, SendsOnLemma
<1> QED BY <1>10 DEF CliKind

LEMMA ClientReads ==
  ASSUME Inv, NEW c \in Client,
         \/ CreateStreams(c) \/ TestStarts(c) \/ GetResults(c) \/ Drain(c) \/ Drained(c)
         \/ ClientSilent(c)
  PROVE  CliKind(c)
<1>1. /\ cli[c] \in CliRec /\ Ctrl(c) \in Conn /\ net \in NetRec
      /\ CliPrep(net) /\ CliPrep(Drop(net, "c", Ctrl(c)))
      /\ \A m \in Msg : ClientHas(c, m) =>
           /\ cli[c].pc = "select" /\ Running(c) /\ Starts(net, "c", Ctrl(c), m)
  BY ClientLookup
<1>2. {"CREATE_STREAMS", "TEST_START", "TEST_RUNNING"} \subseteq Msg
  BY DEF Msg
<1>3. srv' = srv /\ reported' = reported
  BY DEF CreateStreams, TestStarts, GetResults, Drain, Drained, ClientSilent
<1>4. ASSUME CliPrep(net'), NEW x, cli' = [cli EXCEPT ![c] = x],
             x \in CliRec, x.made = cli[c].made, x.pc \in {"select", "drain", "gone"},
             x.pc = "gone" \/ cli[c].pc # "streamcookie", Running(c)
      PROVE  CliKind(c)
  <2>1. GoesOn(c, x)
    BY <1>4 DEF GoesOn
  <2>2. CliStep(c, NoConn)
    BY <1>3, <1>4, <2>1, GoesOnLemma
  <2> QED BY <2>2 DEF CliKind
<1>5. CASE CreateStreams(c)
  <2> DEFINE x == [cli[c] EXCEPT !.state = "CREATE_STREAMS", !.pc = "streams"]
  <2>1. x \in CliRec /\ x.pc = "streams" /\ x.made = cli[c].made /\ x.mode = cli[c].mode
    BY <1>1, <1>2 DEF CliRec
  <2>2. cli' = [cli EXCEPT ![c] = x]
    BY <1>5 DEF CreateStreams
  <2>3. /\ net' = Drop(net, "c", Ctrl(c)) /\ cli[c].pc = "select" /\ Running(c)
        /\ Starts(net, "c", Ctrl(c), "CREATE_STREAMS")
    BY <1>1, <1>2, <1>5 DEF CreateStreams
  <2>4. net'.in["c"][Ctrl(c)] = Tail(net.in["c"][Ctrl(c)])
    BY <1>1, <2>3, CliPrepRead DEF Starts
  <2>5. x.made < Streams(x.mode)
    <3>1. \E i \in DOMAIN net.in["c"][Ctrl(c)] : net.in["c"][Ctrl(c)][i] = "CREATE_STREAMS"
      <4>1. net.in["c"][Ctrl(c)] \in Seq(Msg)
        BY <1>1, NetFields, SideLemma
      <4> QED BY <2>3, <4>1, TailFacts DEF Starts
    <3>2. ~Creates(c)
      BY <3>1 DEF Inv, OnceInv
    <3> QED BY <2>1, <3>2, ConnLemma DEF Creates, Streams
  <2> HIDE DEF x
  <2>6. GoesOn(c, x)
    BY <2>1, <2>3, <2>4, <2>5 DEF GoesOn
  <2>7. CliPrep(net')
    BY <1>1, <2>3
  <2>8. CliStep(c, NoConn)
    BY <1>3, <2>2, <2>3, <2>6, <2>7, GoesOnLemma
  <2> QED BY <2>8 DEF CliKind
<1>6. CASE TestStarts(c)
  <2>1. PICK m \in {"TEST_START", "TEST_RUNNING"} : ClientHas(c, m) /\ cli' = [cli EXCEPT ![c].state = m]
    BY <1>6 DEF TestStarts
  <2> DEFINE x == [cli[c] EXCEPT !.state = m]
  <2>2. m \in Msg /\ cli[c].pc = "select" /\ Running(c)
    BY <1>1, <1>2, <2>1
  <2>3. x \in CliRec /\ x.pc = "select" /\ x.made = cli[c].made
    BY <1>1, <2>2 DEF CliRec
  <2>4. cli' = [cli EXCEPT ![c] = x]
    BY <2>1
  <2>5. CliPrep(net')
    BY <1>1, <1>6 DEF TestStarts
  <2> HIDE DEF x
  <2> QED BY <1>4, <2>2, <2>3, <2>4, <2>5
<1>7. CASE GetResults(c)
  <2>1. cli[c].pc = "results" /\ Running(c)
    BY <1>7 DEF GetResults, Running
  <2>2. CASE Exit(net, c, "failed")
    <3>1. CliStep(c, NoConn)
      BY <1>1, <1>3, <2>1, <2>2, ExitLemma
    <3> QED BY <3>1 DEF CliKind
  <2>3. CASE net' = Drop(net, "c", Ctrl(c)) /\ cli' = [cli EXCEPT ![c].pc = "select"]
    <3> DEFINE x == [cli[c] EXCEPT !.pc = "select"]
    <3>1. x \in CliRec /\ x.pc = "select" /\ x.made = cli[c].made
      BY <1>1 DEF CliRec
    <3>2. cli' = [cli EXCEPT ![c] = x] /\ CliPrep(net')
      BY <1>1, <2>3
    <3> HIDE DEF x
    <3> QED BY <1>4, <2>1, <3>1, <3>2
  <2> QED BY <1>7, <2>2, <2>3 DEF GetResults
<1>8. CASE Drain(c) \/ Drained(c) \/ ClientSilent(c)
  <2>1. PICK pc \in {"drain", "select", "gone"} : cli' = [cli EXCEPT ![c].pc = pc]
            /\ (pc = "gone" \/ cli[c].pc # "streamcookie")
    BY <1>8 DEF Drain, Drained, ClientSilent
  <2>2. Running(c) /\ net' = net
    BY <1>8 DEF Drain, Drained, ClientSilent, Running
  <2> DEFINE x == [cli[c] EXCEPT !.pc = pc]
  <2>3. x \in CliRec /\ x.pc = pc /\ x.made = cli[c].made
    BY <1>1 DEF CliRec
  <2>4. cli' = [cli EXCEPT ![c] = x] /\ CliPrep(net')
    BY <1>1, <2>1, <2>2
  <2> HIDE DEF x
  <2> QED BY <1>4, <2>1, <2>2, <2>3, <2>4
<1> QED BY <1>5, <1>6, <1>7, <1>8

LEMMA ClientExits ==
  ASSUME Inv, NEW c \in Client,
         \/ iperf_client_end(c) \/ ServerGone(c) \/ ClientStreamError(c) \/ ClientReceiveTimeout(c)
         \/ ClientInterrupted(c) \/ ClientKilled(c)
  PROVE  CliKind(c)
<1>1. /\ cli[c] \in CliRec /\ Ctrl(c) \in Conn /\ Ctrl(c)[1] = c /\ Ctrl(c)[2] = 0 /\ net \in NetRec
      /\ CliPrep(net) /\ CliPrep(Drop(net, "c", Ctrl(c)))
      /\ \A m \in Msg : ClientHas(c, m) =>
           /\ cli[c].pc = "select" /\ Running(c) /\ Starts(net, "c", Ctrl(c), m)
  BY ClientLookup, ConnLemma
<1>2. {"DISPLAY_RESULTS", "IPERF_DONE", "CLIENT_TERMINATE"} \subseteq Msg
  BY DEF Msg
<1>3. srv' = srv /\ reported' = reported
  BY DEF iperf_client_end, ServerGone, ClientStreamError, ClientReceiveTimeout, ClientInterrupted,
         ClientKilled
<1>4. ASSUME NEW n, CliPrep(n), Exit(n, c, "failed"), Running(c)
      PROVE  CliKind(c)
  <2>1. CliStep(c, NoConn)
    BY <1>3, <1>4, ExitLemma
  <2> QED BY <2>1 DEF CliKind
<1>5. CASE iperf_client_end(c)
  <2> DEFINE n == Drop(net, "c", Ctrl(c))
             w == Write(n, "c", Ctrl(c), "IPERF_DONE")
  <2>1. ClientHas(c, "DISPLAY_RESULTS") /\ Exit(w, c, "done")
    BY <1>5 DEF iperf_client_end
  <2>2. CliPrep(w)
    <3> HIDE DEF n
    <3>1. CliPrep(n)
      BY <1>1 DEF n
    <3> QED BY <1>1, <1>2, <3>1, CliPrepWrite
  <2>3. Running(c) /\ Starts(net, "c", Ctrl(c), "DISPLAY_RESULTS")
    BY <1>1, <1>2, <2>1
  <2>4. c \in reported
    <3>1. net.in["c"][Ctrl(c)] \in Seq(Msg)
      BY <1>1, NetFields, SideLemma
    <3>2. \E i \in DOMAIN net.in["c"][Ctrl(c)] : net.in["c"][Ctrl(c)][i] = "DISPLAY_RESULTS"
      BY <2>3, <3>1, TailFacts DEF Starts
    <3> QED BY <1>1, <3>2 DEF Inv, ReportInv
  <2> HIDE DEF w
  <2>5. CliStep(c, NoConn)
    BY <1>3, <2>1, <2>2, <2>3, <2>4, ExitLemma
  <2> QED BY <2>5 DEF CliKind
<1>6. CASE ServerGone(c)
  BY <1>1, <1>4, <1>6 DEF ServerGone, ClientHas, Running
<1>7. CASE ClientStreamError(c) \/ ClientReceiveTimeout(c) \/ ClientKilled(c)
  BY <1>1, <1>4, <1>7 DEF ClientStreamError, ClientReceiveTimeout, ClientKilled, MayDie, Running
<1>8. CASE ClientInterrupted(c)
  <2> DEFINE w == Write(net, "c", Ctrl(c), "CLIENT_TERMINATE")
  <2>1. CliPrep(w)
    BY <1>1, <1>2, CliPrepWrite
  <2> QED BY <1>4, <1>8, <2>1 DEF ClientInterrupted, MayDie
<1> QED BY <1>5, <1>6, <1>7, <1>8

\* Every step of a client is of this kind.
LEMMA ClientLemma ==
  ASSUME Inv, NEW c \in Client, ClientStep(c) \/ ClientEvent(c)
  PROVE  CliKind(c)
BY ConnectStep, ClientWrites, SendStreamCookieStep, ClientReads, ClientExits
   DEF ClientStep, ClientEvent

-----------------------------------------------------------------------------
(* The theorems *)

LEMMA InitLemma == Init => Inv /\ OneOffServesOneTest
<1> SUFFICES ASSUME Init PROVE Inv /\ OneOffServesOneTest
  OBVIOUS
<1> DEFINE q == <<>>
           i == [side \in Side |-> [k \in Conn |-> q]]
           e == [side \in Side |-> [k \in Conn |-> "none"]]
<1>1. net = [in |-> i, end |-> e, backlog |-> q, listening |-> FALSE] /\ reported = {}
  BY DEF Init
<1>2. q = <<>> /\ q \in Seq(Msg) /\ q \in Seq(Conn) /\ DOMAIN q = {}
  OBVIOUS
<1> HIDE DEF q
<1>3. /\ i \in [Side -> [Conn -> Seq(Msg)]] /\ e \in [Side -> [Conn -> End]]
      /\ \A k \in Conn : i["c"][k] = q /\ i["s"][k] = q /\ e["c"][k] = "none" /\ e["s"][k] = "none"
  BY <1>2, SideLemma DEF End
<1> HIDE DEF i, e
<1>4. net \in NetRec /\ net.in = i /\ net.end = e /\ net.backlog = q
  BY <1>1, <1>2, <1>3 DEF NetRec
<1>5. srv = ResetPc("down")
  <2>1. q \in Seq([conn : Conn, sender : BOOLEAN])
    BY DEF q
  <2>2. ResetTest = [pc |-> "down", state |-> "0", ctrl |-> NoConn, cookie |-> NoConn,
                     mode |-> "RECEIVER", streams |-> q, pending |-> NoConn,
                     done |-> FALSE, timer |-> FALSE, badfd |-> FALSE]
    BY <1>2, Zenon DEF ResetTest
  <2>3. ResetTest \in SrvRec /\ ResetTest.pc = "down"
    BY <2>1, <2>2 DEF SrvRec, Mode
  <2>4. [ResetTest EXCEPT !.pc = "down"] = ResetTest
    BY <2>3 DEF SrvRec
  <2> QED BY <2>4 DEF Init, ResetPc
<1>6. /\ srv \in SrvRec /\ srv.pc = "down" /\ srv.state = "0" /\ srv.ctrl = NoConn
      /\ srv.pending = NoConn /\ srv.streams = <<>> /\ srv.cookie = NoConn
  BY <1>5, ResetFields
<1>7. cli \in [Client -> CliRec] /\ \A c \in Client : cli[c].pc = "connect" /\ cli[c].made = 0
  <2>1. 0 \in 0..2 * NumStreams
    BY ConnLemma
  <2> QED BY <2>1 DEF Init, CliRec
<1>8. TypeInv
  BY <1>1, <1>4, <1>6, <1>7 DEF TypeInv
<1>9. PcInv /\ OneOffInv /\ OneOffServesOneTest
  BY <1>1, <1>6 DEF PcInv, Serving, OneOffInv, OneOffServesOneTest
<1>10. PlaceInv /\ FutureInv /\ DataInv /\ HeldInv /\ ReportInv
  BY <1>2, <1>3, <1>4, <1>6, ConnLemma
     DEF PlaceInv, FutureInv, DataInv, HeldInv, ReportInv, Waits
<1>11. OnceInv
  BY <1>2, <1>3, <1>4, <1>7, ConnLemma DEF OnceInv, Creates
<1> QED BY <1>8, <1>9, <1>10, <1>11 DEF Inv

LEMMA NextLemma ==
  ASSUME Inv, OneOffServesOneTest, [Next]_vars
  PROVE  Inv' /\ OneOffServesOneTest'
<1>1. CASE UNCHANGED vars
  <2>1. net' = net /\ srv' = srv /\ cli' = cli /\ reported' = reported
    BY <1>1 DEF vars
  <2>2. TypeInv' /\ PcInv' /\ OneOffInv' /\ OneOffServesOneTest' /\ ReportInv' /\ DataInv'
    BY <2>1 DEF Inv, TypeInv, PcInv, Serving, OneOffInv, OneOffServesOneTest, ReportInv, DataInv
  <2>3. PlaceInv'
    BY <2>1 DEF Inv, PlaceInv, Waits
  <2>4. FutureInv'
    BY <2>1 DEF Inv, FutureInv, ToMake, Running
  <2>5. HeldInv'
    BY <2>1 DEF Inv, HeldInv, Waits, Ctrl
  <2>6. OnceInv'
    BY <2>1 DEF Inv, OnceInv, Fresh, Creates, Waits, Ctrl
  <2> QED BY <2>2, <2>3, <2>4, <2>5, <2>6 DEF Inv
<1>2. CASE ServerStep \/ ServerEvent
  <2>1. PICK ms, to : SrvStep(ms, to)
    BY <1>2, ServerLemma DEF SrvKind
  <2>2. Inv'
    BY <2>1, ServerKeeps
  <2>3. OneOffServesOneTest'
    <3>1. CASE reported' = reported
      BY <3>1 DEF OneOffServesOneTest
    <3>2. CASE srv.ctrl \in Conn /\ reported' = reported \cup {srv.ctrl[1]}
      <4>1. srv.pc # "exit"
        BY <3>2, ConnLemma DEF Inv, PcInv
      <4>2. OneOff => reported \subseteq {srv.ctrl[1]}
        BY <4>1 DEF Inv, OneOffInv
      <4> QED BY <3>2, <4>2 DEF OneOffServesOneTest
    <3> QED BY <2>1, <3>1, <3>2 DEF SrvStep, SrvReports
  <2> QED BY <2>2, <2>3
<1>3. ASSUME NEW c \in Client, ClientStep(c) \/ ClientEvent(c)
      PROVE  Inv' /\ OneOffServesOneTest'
  <2>1. PICK k : CliStep(c, k)
    BY <1>3, ClientLemma DEF CliKind
  <2>2. Inv'
    BY <2>1, ClientKeeps
  <2> QED BY <2>1, <2>2 DEF CliStep, OneOffServesOneTest
<1> QED BY <1>1, <1>2, <1>3 DEF Next

\* The inductive invariant holds of every behaviour of the server's and the
\* clients' control loops.
THEOREM InvariantTheorem == Spec => [](Inv /\ OneOffServesOneTest)
<1>1. Init => Inv /\ OneOffServesOneTest
  BY InitLemma
<1>2. Inv /\ OneOffServesOneTest /\ [Next]_vars => (Inv /\ OneOffServesOneTest)'
  BY NextLemma
<1> QED BY <1>1, <1>2, PTL DEF Spec

\* Type correctness: every queue, descriptor and field of the server, the
\* clients and the connections stays in its type; in particular a client
\* never makes more connections than the numbers there are for them.
THEOREM TypeTheorem == Spec => []TypeOK
<1>1. Inv => TypeOK
  <2> SUFFICES ASSUME Inv PROVE TypeOK
    OBVIOUS
  <2>1. net \in NetRec /\ srv \in SrvRec /\ cli \in [Client -> CliRec] /\ reported \in SUBSET Client
    BY DEF Inv, TypeInv
  <2>2. /\ srv.state \in Msg \cup {"0", "IPERF_START"} /\ srv.ctrl \in Conn \cup {NoConn}
        /\ srv.cookie \in Client \cup {NoConn} /\ srv.mode \in Mode
        /\ srv.streams \in Seq([conn : Conn, sender : BOOLEAN])
        /\ srv.pending \in Conn \cup {NoConn}
        /\ srv.done \in BOOLEAN /\ srv.timer \in BOOLEAN /\ srv.badfd \in BOOLEAN
        /\ srv.pc \in {"down", "select", "cookie", "params", "streamcookie", "start", "timers",
                       "results", "exit"}
    BY <2>1, SrvFields
  <2>3. {srv.ctrl, srv.pending} \subseteq Conn \cup {NoConn}
        /\ {srv.done, srv.timer, srv.badfd} \subseteq BOOLEAN
    BY <2>2
  <2> QED BY <2>1, <2>2, <2>3 DEF TypeOK, NetRec, End, CliRec, Mode
<1> QED BY <1>1, InvariantTheorem, PTL

\* A server that waits for its next client has closed the control connection
\* of every client before, whichever way its test ended: cleanup_server,
\* iperf_accept's refusals, server_timer_proc and the replaced listening
\* sockets leave none behind that is open at both ends.
THEOREM IdleTheorem == Spec => []IdleServerHoldsNobody
<1>1. Inv => IdleServerHoldsNobody
  <2> SUFFICES ASSUME Inv, srv.pc = "select", srv.state = "IPERF_START", NEW c \in Client,
                      net.end["s"][Ctrl(c)] = "open", net.end["c"][Ctrl(c)] = "open"
               PROVE  Contains(net.backlog, Ctrl(c)) \/ srv.ctrl = Ctrl(c)
    BY DEF IdleServerHoldsNobody
  <2>1. srv.pending = NoConn /\ Ctrl(c) # NoConn
    BY ConnLemma DEF Inv, PcInv
  <2>2. Waits(net, Ctrl(c)) \/ srv.ctrl = Ctrl(c)
    BY <2>1 DEF Inv, HeldInv
  <2> QED BY <2>2, WaitsLemma DEF Inv, TypeInv
<1> QED BY <1>1, InvariantTheorem, PTL

\* A --one-off server takes the results of one client only: main's loop goes
\* round again only after an idle restart or an authorization failure, and
\* neither comes after results.
THEOREM OneOffTheorem == Spec => []OneOffServesOneTest
BY InvariantTheorem, PTL

\* The server and its clients keep the promises of module Sessions: one
\* client at a time, results taken only of the client that is served, and no
\* client that ends well without them.
THEOREM SessionsTheorem == Spec => ServesOneAtATime
<1> DEFINE out == [c \in Client |-> IF cli[c].pc \in {"done", "failed"} THEN cli[c].pc ELSE "pending"]
<1>1. Init => S!Init
  <2> SUFFICES ASSUME Init PROVE S!Init
    OBVIOUS
  <2>1. srv.ctrl = NoConn
    BY DEF Init, ResetTest
  <2>2. \A c \in Client : cli[c].pc = "connect"
    BY DEF Init
  <2> QED BY <2>1, <2>2 DEF S!Init, ServedConn, Init
<1>2. Inv /\ [Next]_vars => [S!Next]_S!vars
  <2> SUFFICES ASSUME Inv, [Next]_vars PROVE [S!Next]_S!vars
    OBVIOUS
  <2>0. srv.ctrl \in Conn \cup {NoConn} /\ NoConn \notin Conn /\ NoConn \notin Client
        /\ \A k \in Conn : k[1] \in Client
    BY SrvFields, ConnLemma DEF Inv, TypeInv
  <2>1. CASE UNCHANGED vars
    BY <2>1 DEF vars, S!vars, ServedConn
  <2>2. CASE ServerStep \/ ServerEvent
    <3>1. PICK ms, to : SrvStep(ms, to)
      BY <2>2, ServerLemma DEF SrvKind
    <3>2. out' = out
      BY <3>1 DEF SrvStep
    <3>3. CASE srv'.ctrl \in {srv.ctrl, NoConn} /\ reported' = reported
      <4>1. CASE ServedConn' = ServedConn
        BY <3>2, <3>3, <4>1 DEF S!vars
      <4>2. CASE ServedConn' # ServedConn
        <5>1. S!End
          BY <3>2, <3>3, <4>2, <2>0 DEF S!End, ServedConn
        <5> QED BY <5>1 DEF S!Next
      <4> QED BY <4>1, <4>2
    <3>4. CASE /\ srv'.ctrl \in {srv.ctrl, NoConn} /\ srv.ctrl \in Conn
               /\ reported' = reported \cup {srv.ctrl[1]}
      <4>1. S!Report(srv.ctrl[1])
        BY <3>2, <3>4, <2>0 DEF S!Report, ServedConn
      <4> QED BY <3>4, <4>1, <2>0 DEF S!Next
    <3>5. CASE srv.ctrl = NoConn /\ reported' = reported /\ srv'.ctrl \in Conn
      <4>1. S!Begin(srv'.ctrl[1])
        BY <3>2, <3>5, <2>0 DEF S!Begin, ServedConn
      <4> QED BY <3>5, <4>1, <2>0 DEF S!Next
    <3>6. net.backlog # <<>> => Head(net.backlog) \in Conn
      <4>1. net.backlog \in Seq(Conn)
        BY NetFields DEF Inv, TypeInv
      <4> QED BY <4>1
    <3>7. \/ srv'.ctrl \in {srv.ctrl, NoConn}
          \/ srv.ctrl = NoConn /\ srv'.ctrl \in Conn
      BY <3>1, <3>6 DEF SrvStep, SrvPlaces
    <3>8. reported' = reported \/ /\ srv.ctrl \in Conn /\ srv'.ctrl \in {srv.ctrl, NoConn}
                                  /\ reported' = reported \cup {srv.ctrl[1]}
      BY <3>1 DEF SrvStep, SrvReports
    <3> QED BY <3>3, <3>4, <3>5, <3>7, <3>8
  <2>3. ASSUME NEW c \in Client, ClientStep(c) \/ ClientEvent(c)
        PROVE  [S!Next]_S!vars
    <3>1. PICK k : CliStep(c, k)
      BY <2>3, ClientLemma DEF CliKind
    <3>2. /\ ServedConn' = ServedConn /\ reported' = reported
          /\ \A d \in Client : d # c => cli'[d] = cli[d]
          /\ cli[c].pc \notin {"done", "failed"} /\ (cli'[c].pc = "done" => c \in reported)
      BY <3>1 DEF CliStep, CliSelf, ServedConn
    <3>3. out[c] = "pending" /\ out' = [out EXCEPT ![c] = IF cli'[c].pc \in {"done", "failed"}
                                                        THEN cli'[c].pc ELSE "pending"]
      BY <3>2
    <3>4. CASE cli'[c].pc = "done"
      <4>1. S!Succeed(c)
        BY <3>2, <3>3, <3>4 DEF S!Succeed
      <4> QED BY <4>1 DEF S!Next
    <3>5. CASE cli'[c].pc = "failed"
      <4>1. S!Fail(c)
        BY <3>2, <3>3, <3>5 DEF S!Fail
      <4> QED BY <4>1 DEF S!Next
    <3>6. CASE cli'[c].pc \notin {"done", "failed"}
      <4>1. out' = out
        BY <3>3, <3>6
      <4> QED BY <3>2, <4>1 DEF S!vars
    <3> QED BY <3>4, <3>5, <3>6
  <2> QED BY <2>1, <2>2, <2>3 DEF Next
<1> QED BY <1>1, <1>2, InvariantTheorem, PTL DEF Spec, ServesOneAtATime, S!Spec

=============================================================================
