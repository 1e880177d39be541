-------------------------- MODULE StreamSetupProofs --------------------------
(***************************************************************************)
(* Proofs about module StreamSetup, for every set of tests, any number of  *)
(* streams, of tests, of failures and of repeated datagrams.               *)
(***************************************************************************)
EXTENDS StreamSetup, TLAPS, FiniteSetTheorems, SequenceTheorems, WellFoundedInduction

-----------------------------------------------------------------------------
(* The invariant *)

FD == 1..Fds

Sock ==
  [kind : {"free", "tcp", "udp", "sctp", "ctrl", "conn", "file", "leaked"},
   peer : Nat, buf : Nat, q : Seq(Nat)]

Table == [FD -> Sock]

StreamRec == [fd : FD, file : FD, sender : BOOLEAN]

SrvRec ==
  [state : {"IPERF_START", "PARAM_EXCHANGE", "CREATE_STREAMS", "TEST_RUNNING"},
   pc : {"loop", "announce", "reply", "stream"}, s : Int, listener : Int,
   prot_listener : Int, ctrl_sck : Int, rec : Nat, snd : Nat, streams : Seq(StreamRec),
   read_set : SUBSET Int, bufsize : Nat, tests : Nat]

CliRec ==
  [state : {"connect", "wait", "created", "failed"},
   made : Seq([buf : Nat, bound : SUBSET STRING]), bufsize : Nat, xbind : Seq(STRING)]

Datagram == [kind : {"hello", "reply"}, i : Nat]

GhostRec == [failures : 0..MaxFailures, copies : Nat]

TypeInv ==
  /\ conf \in Configs /\ fds \in Table /\ srv \in SrvRec /\ cli \in CliRec
  /\ net \in SUBSET Datagram /\ ghost \in GhostRec

\* What the server has forgotten, what cleanup_server and iperf_reset_test close,
\* and the socket that is being accepted.
Leaked(f) == {n \in FD : f[n].kind = "leaked"}
StreamFds(t) == {t.streams[k].fd : k \in DOMAIN t.streams}
Files(t) == {t.streams[k].file : k \in DOMAIN t.streams}
Owned(t) == StreamFds(t) \cup Files(t) \cup {t.ctrl_sck, t.listener, t.prot_listener}
Pending(t) == IF t.pc = "loop" THEN {} ELSE {t.s}

\* Every open descriptor is one of these.
Accounted(t, f) == OpenFds(f) \subseteq Leaked(f) \cup Owned(t) \cup Pending(t)

\* The listening socket is the lowest that is not leaked, so the one that
\* replaces it gets its number.
Resting(t, f) ==
  /\ t.pc = "loop" /\ t.streams = <<>> /\ t.rec = 0 /\ t.snd = 0 /\ t.prot_listener = -1
  /\ t.listener \in FD /\ f[t.listener] = Socket("tcp", 0, DefaultBuffer)
  /\ \A k \in 1..t.listener - 1 : IsOpen(f, k)
  /\ \A n \in FD : f[n].peer = 0 /\ f[n].kind # "udp"

IsCtrl(t, f) == t.ctrl_sck \in FD /\ f[t.ctrl_sck].kind = "ctrl"

\* A buffer holds a block, if the user did not choose its size.
Holds(buf) == conf.proto = "udp" /\ conf.bufsize = 0 => buf >= conf.blksize

\* p is the peer of the k-th stream: the client's k-th, or it or one before it is
\* a stranger's; and the client's come in order.
IsPaired(t, f, k, p) ==
  /\ p > 0
  /\ p = k \/ (conf.proto = "udp" /\ p = Foreign) \/ StrangerAmong(t, f, k - 1)
  /\ \A j \in 1..k - 1 : Foreign \notin {p, f[t.streams[j].fd].peer} => f[t.streams[j].fd].peer < p

IsStream(t, f, k) ==
  /\ f[t.streams[k].fd].kind = (IF conf.proto = "udp" THEN "udp" ELSE "conn")
  /\ IsPaired(t, f, k, f[t.streams[k].fd].peer) /\ Holds(f[t.streams[k].fd].buf)
  /\ f[t.streams[k].file].kind = "file"
  /\ t.streams[k].sender = (k > StreamsToRec)

\* Strangers are heard over UDP only.
Fits(p) == p <= Streams \/ (conf.proto = "udp" /\ p = Foreign)

Has(t, f) ==
  /\ IsCtrl(t, f)
  /\ \A k \in 1..Len(t.streams) : IsStream(t, f, k)
  /\ t.rec = (IF Len(t.streams) <= StreamsToRec THEN Len(t.streams) ELSE StreamsToRec)
  /\ t.rec + t.snd = Len(t.streams)
  /\ \A n \in FD : Fits(f[n].peer)

\* The socket for which iperf_udp_accept goes on.
IsNew(t, f, s) ==
  /\ s \in FD /\ IsPaired(t, f, Len(t.streams) + 1, f[s].peer) /\ Holds(f[s].buf)
  /\ f[s].kind = (IF conf.proto = "udp" THEN "udp" ELSE "conn")

Collecting(t, f) ==
  /\ Len(t.streams) < Streams
  /\ t.listener \in FD /\ f[t.listener].kind = (IF conf.proto = "sctp" THEN "sctp" ELSE "tcp")
  /\ f[t.listener].peer = 0
  /\ IF conf.proto # "udp" THEN t.prot_listener = t.listener /\ t.pc = "loop"
     ELSE /\ t.prot_listener \in FD /\ f[t.prot_listener].kind = "udp"
          /\ IF t.pc = "announce" THEN t.prot_listener = t.s ELSE f[t.prot_listener].peer = 0
  /\ t.pc # "loop" => IsNew(t, f, t.s)

Started(t, f) == t.pc = "loop" /\ Len(t.streams) = Streams /\ t.prot_listener = -1

\* The size of the buffers is what the user asked for, or what a block needs.
SizeIsAsAsked(bufsize) ==
  conf.proto = "udp" /\ conf.bufsize = 0 => bufsize \in {0, conf.blksize + UDP_BUFFER_EXTRA}

ServerInv(t, f) ==
  /\ Accounted(t, f)
  /\ t.read_set \subseteq OpenFds(f)
  /\ t.state = "IPERF_START" => Resting(t, f) /\ t.ctrl_sck = -1
  /\ t.state = "PARAM_EXCHANGE" => Resting(t, f) /\ IsCtrl(t, f)
  /\ t.state = "CREATE_STREAMS" => Has(t, f) /\ Collecting(t, f)
  /\ t.state = "TEST_RUNNING" => Has(t, f) /\ Started(t, f)
  /\ t.state # "IPERF_START" => SizeIsAsAsked(t.bufsize)

LeakInv(f, failures) == Cardinality(Leaked(f)) <= 2 * failures

ClientInv ==
  /\ Made <= Streams
  /\ cli.state \in {"connect", "wait"} => Made < Streams
  /\ cli.state = "wait" => conf.proto = "udp" /\ Holds(Actual(cli.bufsize, MaxBuffer))
  /\ cli.state # "failed" => cli.xbind = conf.xbind /\ SizeIsAsAsked(cli.bufsize)
  /\ \A k \in 1..Made : cli.made[k].bound = ToSet(conf.xbind) /\ Holds(cli.made[k].buf)

\* The streams the server has replied to.
Replied(t) == Len(t.streams) + (IF t.pc = "stream" THEN 1 ELSE 0)

\* A UDP socket is connected to the client's stream i.
Met(f, i) == \E n \in FD : f[n].kind = "udp" /\ f[n].peer = i

\* What waits on the listening socket of UDP: datagrams of strangers, and hellos
\* of the client's next stream, unless it has a socket already.
Waits(f, i) == i = 0 \/ (i = Made + 1 /\ Made < Streams /\ ~Met(f, i))
HelloQueue(t, f) ==
  t.pc # "announce" => \A j \in DOMAIN f[t.prot_listener].q : Waits(f, f[t.prot_listener].q[j])

\* Every stream the client has, and every one it gets a reply for, has a socket;
\* the one that is accepted is a stranger's or the client's next.
Greetings(t, f) ==
  /\ Made <= Replied(t)
  /\ \A d \in net :
       /\ 0 < d.i /\ d.i <= Streams
       /\ IF d.kind = "hello" THEN d.i <= Made + 1 ELSE d.i <= Replied(t) /\ Met(f, d.i)
  /\ \A i \in 1..Made : Met(f, i)
  /\ \A n \in FD : f[n].peer = Foreign \/ f[n].peer <= Made + 1
  /\ t.pc = "announce" =>
       \/ f[t.s].peer = Foreign
       \/ /\ f[t.s].peer = Made + 1
          /\ \A d \in net : d.kind = "reply" => d.i # Made + 1

\* What waits on the listening socket of TCP and SCTP: the client's connections
\* that are not accepted, in order, and strangers.
Ordered(w) == \A a, b \in DOMAIN w : a < b /\ w[a] # 0 /\ w[b] # 0 => w[a] < w[b]
ConnectionQueue(t, f) ==
  /\ Len(t.streams) <= Made
  /\ Ordered(f[t.listener].q)
  /\ \A i \in Nat \ {0} :
       (\E j \in DOMAIN f[t.listener].q : f[t.listener].q[j] = i) <=> (Len(t.streams) < i /\ i <= Made)

MeetInv ==
  /\ srv.state = "PARAM_EXCHANGE" => net = {} /\ Made = 0
  /\ conf.proto # "udp" => net = {}
  /\ conf.proto = "udp" /\ srv.state \in {"CREATE_STREAMS", "TEST_RUNNING"} =>
       Greetings(srv, fds)
  /\ srv.state = "CREATE_STREAMS" =>
       IF conf.proto = "udp" THEN HelloQueue(srv, fds) ELSE ConnectionQueue(srv, fds)

Inv == TypeInv /\ ServerInv(srv, fds) /\ LeakInv(fds, ghost.failures) /\ ClientInv /\ MeetInv

-----------------------------------------------------------------------------
(* Descriptors *)

LEMMA ConfLemma ==
  ASSUME conf \in Configs
  PROVE  /\ conf.proto \in {"udp", "tcp", "sctp"} /\ conf.blksize \in Int
         /\ conf.bufsize \in Nat /\ conf.srvmax \in Nat /\ conf.xbind \in Seq(STRING)
         /\ conf.proto # "sctp" => conf.xbind = <<>>
         /\ Streams \in Nat /\ Streams > 0 /\ StreamsToRec \in Nat /\ StreamsToRec <= Streams
         /\ 2 * MaxFailures + 2 * Streams + 3 <= Fds
         /\ Foreign \in Nat /\ Foreign = Streams + 1
<1>1. /\ conf.streams \in Nat \ {0} /\ conf.proto \in {"udp", "tcp", "sctp"}
      /\ conf.blksize \in Int /\ {conf.bufsize, conf.srvmax} \subseteq Nat
      /\ conf.xbind \in Seq(STRING) /\ (conf.proto # "sctp" => conf.xbind = <<>>)
  BY ConfigsAssumption
<1>2. /\ Streams \in Nat /\ Streams > 0 /\ StreamsToRec \in Nat /\ StreamsToRec <= Streams
  BY <1>1 DEF Streams, StreamsOf, StreamsToRec
<1>3. 2 * MaxFailures + 2 * Streams + 3 <= Fds
  BY FdsAssumption DEF Streams
<1>4. Foreign \in Nat /\ Foreign = Streams + 1
  BY <1>2 DEF Foreign
<1> QED BY <1>1, <1>2, <1>3, <1>4

LEMMA ConstLemma ==
  /\ Fds \in Nat /\ MaxTests \in Nat /\ MaxFailures \in Nat /\ MaxDuplicates \in Nat
  /\ DefaultBuffer \in Nat /\ MaxBuffer \in Nat
BY SetupAssumption

LEMMA LeastNatural ==
  ASSUME NEW B \in SUBSET Nat, B # {}
  PROVE  \E m \in B : \A k \in B : m <= k
<1>1. PICK m \in B : \A k \in B : ~(<<k, m>> \in OpToRel(<, Nat))
  BY NatLessThanWellFounded, WFMin
<1>2. \A k \in B : ~(k < m)
  BY <1>1 DEF OpToRel
<1> QED BY <1>2

\* The descriptor that is opened next, if there is one.
IsNext(f, n) == n \in FD /\ ~IsOpen(f, n) /\ \A k \in 1..n - 1 : IsOpen(f, k)

LEMMA NextFdLemma ==
  ASSUME NEW f \in Table, NEW n \in FD, ~IsOpen(f, n)
  PROVE  IsNext(f, NextFd(f))
<1> DEFINE B == {k \in FD : ~IsOpen(f, k)}
<1>1. Fds \in Nat /\ DOMAIN f = FD /\ FD = 1..Fds
  BY ConstLemma DEF Table, FD
<1>2. B \in SUBSET Nat /\ B # {}
  BY <1>1
<1>3. PICK m \in B : \A k \in B : m <= k
  BY <1>2, LeastNatural
<1>4. m \in DOMAIN f /\ ~IsOpen(f, m) /\ \A k \in 1..m - 1 : IsOpen(f, k)
  BY <1>1, <1>3
<1>5. LET p == NextFd(f) IN p \in DOMAIN f /\ ~IsOpen(f, p) /\ \A k \in 1..p - 1 : IsOpen(f, k)
  BY <1>4, Zenon DEF NextFd
<1> QED BY <1>1, <1>5 DEF IsNext

LEMMA OpenLemma ==
  ASSUME NEW f \in Table
  PROVE  /\ OpenFds(f) \subseteq FD /\ \A n \in FD : n \in OpenFds(f) <=> f[n].kind # "free"
         /\ Leaked(f) \subseteq FD /\ Leaked(f) \subseteq OpenFds(f)
         /\ \A n : IsOpen(f, n) <=> n \in OpenFds(f)
         /\ IsFiniteSet(FD) /\ IsFiniteSet(OpenFds(f)) /\ IsFiniteSet(Leaked(f))
         /\ Cardinality(Leaked(f)) \in Nat /\ Cardinality(OpenFds(f)) \in Nat
         /\ FD \subseteq Nat \ {0}
<1>1. DOMAIN f = FD /\ FD = 1..Fds /\ Fds \in Nat
  BY ConstLemma DEF Table, FD
<1>2. /\ OpenFds(f) \subseteq FD /\ \A n \in FD : n \in OpenFds(f) <=> f[n].kind # "free"
      /\ Leaked(f) \subseteq FD /\ Leaked(f) \subseteq OpenFds(f)
      /\ \A n : IsOpen(f, n) <=> n \in OpenFds(f)
  BY <1>1 DEF OpenFds, IsOpen, Leaked
<1>3. IsFiniteSet(FD)
  BY <1>1, FS_Interval
<1>4. IsFiniteSet(OpenFds(f)) /\ IsFiniteSet(Leaked(f))
  BY <1>2, <1>3, FS_Subset
<1> QED BY <1>1, <1>2, <1>3, <1>4, FS_CardinalityType

\* The k-th elements of n records are at most n.
LEMMA ImageLemma ==
  ASSUME NEW n \in Nat, NEW g, DOMAIN g = 1..n
  PROVE  LET T == {g[k] : k \in 1..n} IN IsFiniteSet(T) /\ Cardinality(T) <= n
<1> DEFINE T == {g[k] : k \in 1..n}
           h == [k \in 1..n |-> g[k]]
<1>1. h \in Surjection(1..n, T)
  BY DEF Surjection
<1>2. IsFiniteSet(1..n) /\ Cardinality(1..n) = n
  BY FS_Interval
<1> HIDE DEF T, h
<1>3. IsFiniteSet(T) /\ Cardinality(T) <= n
  BY <1>1, <1>2, FS_Surjection
<1> QED BY <1>3 DEF T

LEMMA UnionBound ==
  ASSUME NEW A, NEW B, IsFiniteSet(A), IsFiniteSet(B)
  PROVE  /\ IsFiniteSet(A \cup B) /\ Cardinality(A \cup B) <= Cardinality(A) + Cardinality(B)
         /\ Cardinality(A \cup B) \in Nat /\ Cardinality(A) \in Nat /\ Cardinality(B) \in Nat
<1> DEFINE a == Cardinality(A)
           b == Cardinality(B)
           i == Cardinality(A \cap B)
           u == Cardinality(A \cup B)
<1>1. u = a + b - i /\ IsFiniteSet(A \cup B)
  BY FS_Union
<1>2. i \in Nat /\ a \in Nat /\ b \in Nat
  BY FS_Intersection, FS_CardinalityType
<1>3. u \in Nat
  BY <1>1, FS_CardinalityType
<1> HIDE DEF a, b, i, u
<1>4. u <= a + b
  BY <1>1, <1>2
<1> QED BY <1>1, <1>2, <1>3, <1>4 DEF a, b, u

LEMMA AddBound ==
  ASSUME NEW S, NEW x, IsFiniteSet(S)
  PROVE  /\ IsFiniteSet(S \cup {x}) /\ Cardinality(S \cup {x}) <= Cardinality(S) + 1
         /\ Cardinality(S \cup {x}) \in Nat /\ Cardinality(S) \in Nat
<1>1. IsFiniteSet({x}) /\ Cardinality({x}) = 1
  BY FS_Singleton
<1> QED BY <1>1, UnionBound

LEMMA OwnedLemma ==
  ASSUME NEW t, t.streams \in Seq(StreamRec)
  PROVE  /\ IsFiniteSet(StreamFds(t)) /\ Cardinality(StreamFds(t)) <= Len(t.streams)
         /\ IsFiniteSet(Files(t)) /\ Cardinality(Files(t)) <= Len(t.streams)
         /\ IsFiniteSet(Owned(t)) /\ Cardinality(Owned(t)) <= 2 * Len(t.streams) + 3
         /\ Cardinality(Owned(t)) \in Nat /\ Len(t.streams) \in Nat
<1> DEFINE n == Len(t.streams)
           a == [k \in 1..n |-> t.streams[k].fd]
           b == [k \in 1..n |-> t.streams[k].file]
<1>1. n \in Nat /\ DOMAIN t.streams = 1..n
  OBVIOUS
<1>2. StreamFds(t) = {a[k] : k \in 1..n} /\ Files(t) = {b[k] : k \in 1..n}
  BY <1>1 DEF StreamFds, Files
<1>3. DOMAIN a = 1..n /\ DOMAIN b = 1..n
  OBVIOUS
<1> HIDE DEF a, b, n
<1>4. /\ IsFiniteSet(StreamFds(t)) /\ Cardinality(StreamFds(t)) <= n
      /\ IsFiniteSet(Files(t)) /\ Cardinality(Files(t)) <= n
  BY <1>1, <1>2, <1>3, ImageLemma
<1> DEFINE U == StreamFds(t) \cup Files(t)
           V == U \cup {t.ctrl_sck}
           W == V \cup {t.listener}
           X == W \cup {t.prot_listener}
<1>5. IsFiniteSet(U) /\ Cardinality(U) <= n + n /\ Cardinality(U) \in Nat
  <2>1. /\ IsFiniteSet(U) /\ Cardinality(U) <= Cardinality(StreamFds(t)) + Cardinality(Files(t))
        /\ Cardinality(U) \in Nat /\ Cardinality(StreamFds(t)) \in Nat
        /\ Cardinality(Files(t)) \in Nat
    BY <1>4, UnionBound
  <2> HIDE DEF U
  <2> QED BY <1>1, <1>4, <2>1
<1> HIDE DEF U
<1>6. IsFiniteSet(V) /\ Cardinality(V) <= Cardinality(U) + 1 /\ Cardinality(V) \in Nat
  BY <1>5, AddBound
<1> HIDE DEF V
<1>7. IsFiniteSet(W) /\ Cardinality(W) <= Cardinality(V) + 1 /\ Cardinality(W) \in Nat
  BY <1>6, AddBound
<1> HIDE DEF W
<1>8. IsFiniteSet(X) /\ Cardinality(X) <= Cardinality(W) + 1 /\ Cardinality(X) \in Nat
  BY <1>7, AddBound
<1>9. Owned(t) = X
  BY DEF Owned, X, W, V, U
<1> HIDE DEF X
<1>10. Cardinality(X) <= 2 * n + 3
  BY <1>1, <1>5, <1>6, <1>7, <1>8
<1> QED BY <1>1, <1>4, <1>8, <1>9, <1>10 DEF n

\* While streams are missing there is room for another descriptor.
LEMMA RoomLemma ==
  ASSUME conf \in Configs, NEW f \in Table, NEW t, t.streams \in Seq(StreamRec),
         Len(t.streams) < Streams, NEW failures \in 0..MaxFailures, LeakInv(f, failures),
         NEW x, OpenFds(f) \subseteq Leaked(f) \cup Owned(t) \cup {x}
  PROVE  IsNext(f, NextFd(f))
<1> DEFINE A == Leaked(f)
           B == A \cup Owned(t)
           C == B \cup {x}
<1>1. /\ IsFiniteSet(A) /\ Cardinality(A) \in Nat /\ MaxFailures \in Nat /\ failures \in Nat
      /\ Cardinality(A) <= 2 * failures /\ failures <= MaxFailures
  BY ConstLemma, OpenLemma DEF LeakInv
<1>2. /\ IsFiniteSet(Owned(t)) /\ Cardinality(Owned(t)) <= 2 * Len(t.streams) + 3
      /\ Cardinality(Owned(t)) \in Nat /\ Len(t.streams) \in Nat
  BY OwnedLemma
<1>3. Streams \in Nat /\ 2 * MaxFailures + 2 * Streams + 3 <= Fds /\ Fds \in Nat
  BY ConfLemma, ConstLemma
<1>4. IsFiniteSet(B) /\ Cardinality(B) <= Cardinality(A) + Cardinality(Owned(t)) /\ Cardinality(B) \in Nat
  BY <1>1, <1>2, UnionBound
<1> HIDE DEF A, B
<1>5. IsFiniteSet(C) /\ Cardinality(C) <= Cardinality(B) + 1 /\ Cardinality(C) \in Nat
  BY <1>4, AddBound
<1>6. OpenFds(f) \subseteq C
  BY DEF A, B
<1> HIDE DEF C
<1>7. Cardinality(OpenFds(f)) <= Cardinality(C) /\ Cardinality(OpenFds(f)) \in Nat
  BY <1>5, <1>6, FS_Subset, OpenLemma
<1>8. Cardinality(C) < Fds
  BY <1>1, <1>2, <1>3, <1>4, <1>5
<1>9. IsFiniteSet(FD) /\ Cardinality(FD) = Fds
  BY <1>3, FS_Interval DEF FD
<1>10. OpenFds(f) # FD
  BY <1>3, <1>5, <1>7, <1>8, <1>9
<1>11. PICK n \in FD : ~IsOpen(f, n)
  BY <1>10, OpenLemma
<1> QED BY <1>11, NextFdLemma

-----------------------------------------------------------------------------
(* Opening and closing *)

Kind == {"free", "tcp", "udp", "sctp", "ctrl", "conn", "file", "leaked"}

LEMMA SockLemma ==
  ASSUME NEW kind \in Kind, NEW peer \in Nat, NEW buf \in Nat
  PROVE  LET x == Socket(kind, peer, buf)
         IN  x \in Sock /\ x.kind = kind /\ x.peer = peer /\ x.buf = buf /\ x.q = <<>>
BY DEF Sock, Socket, Kind

\* g is f with one descriptor more, n, which is x.
IsOpened(g, f, n, x) ==
  /\ g \in Table /\ g[n] = x /\ n \notin OpenFds(f) /\ OpenFds(g) = OpenFds(f) \cup {n}
  /\ Leaked(g) = Leaked(f) /\ n \notin Leaked(f) /\ n \in FD
  /\ \A m \in FD : m # n => g[m] = f[m]

LEMMA OpenedLemma ==
  ASSUME NEW f \in Table, NEW n, IsNext(f, n), NEW x \in Sock, x.kind \notin {"free", "leaked"}
  PROVE  IsOpened([f EXCEPT ![n] = x], f, n, x)
<1> DEFINE g == [f EXCEPT ![n] = x]
<1>1. n \in FD /\ n \notin OpenFds(f)
  BY OpenLemma DEF IsNext
<1>2. g \in Table /\ g[n] = x /\ \A m \in FD : m # n => g[m] = f[m]
  BY <1>1 DEF Table
<1> HIDE DEF g
<1>3. OpenFds(g) = OpenFds(f) \cup {n}
  BY <1>1, <1>2, OpenLemma
<1>4. Leaked(g) = Leaked(f) /\ n \notin Leaked(f)
  BY <1>1, <1>2, OpenLemma DEF Leaked
<1> QED BY <1>1, <1>2, <1>3, <1>4 DEF IsOpened, g

LEMMA AnnounceLemma ==
  ASSUME NEW f \in Table, IsNext(f, NextFd(f)), NEW proto \in {"udp", "tcp", "sctp"}
  PROVE  /\ Socket(proto, 0, DefaultBuffer) \in Sock
         /\ IsOpened(netannounce(f, proto), f, NextFd(f), Socket(proto, 0, DefaultBuffer))
<1> DEFINE x == Socket(proto, 0, DefaultBuffer)
<1>1. x \in Sock /\ x.kind = proto
  BY SockLemma, ConstLemma DEF Kind
<1> HIDE DEF x
<1>2. IsOpened([f EXCEPT ![NextFd(f)] = x], f, NextFd(f), x)
  BY <1>1, OpenedLemma
<1> QED BY <1>1, <1>2 DEF netannounce, x

\* g is f with the descriptors of N closed.
IsClosed(g, f, N) ==
  /\ g \in Table /\ OpenFds(g) = OpenFds(f) \ N /\ Leaked(g) = Leaked(f) \ N
  /\ \A m \in FD : g[m] = IF m \in N THEN Free ELSE f[m]

LEMMA FreeLemma == Free \in Sock /\ Free.kind = "free" /\ Free.peer = 0 /\ Free.q = <<>>
BY SockLemma DEF Free, Kind

LEMMA CloseLemma ==
  ASSUME NEW f \in Table, NEW N
  PROVE  IsClosed(Close(f, N), f, N)
<1> DEFINE g == Close(f, N)
<1>1. g \in Table /\ \A m \in FD : g[m] = IF m \in N THEN Free ELSE f[m]
  BY FreeLemma DEF Close, Table
<1> HIDE DEF g
<1>2. OpenFds(g) = OpenFds(f) \ N
  BY <1>1, OpenLemma, FreeLemma
<1>3. Leaked(g) = Leaked(f) \ N
  BY <1>1, FreeLemma DEF Leaked
<1> QED BY <1>1, <1>2, <1>3 DEF IsClosed, g

LEMMA ConfSame ==
  ASSUME TypeInv
  PROVE  /\ conf \in Configs /\ fds \in Table /\ srv \in SrvRec /\ cli \in CliRec
         /\ net \in SUBSET Datagram /\ ghost \in GhostRec /\ ghost.failures \in 0..MaxFailures
         /\ ghost.failures \in Nat /\ MaxFailures \in Nat /\ ghost.copies \in Nat
BY ConstLemma DEF TypeInv, GhostRec

\* How streams are paired depends on the peers only.
LEMMA PairedLemma ==
  ASSUME NEW t, NEW f, NEW u, NEW g, NEW k \in Nat, NEW p, IsPaired(t, f, k, p),
         \A j \in 1..k - 1 : g[u.streams[j].fd].peer = f[t.streams[j].fd].peer
  PROVE  IsPaired(u, g, k, p)
BY DEF IsPaired, StrangerAmong

LEMMA SrvFields ==
  ASSUME NEW t \in SrvRec
  PROVE  /\ t.state \in {"IPERF_START", "PARAM_EXCHANGE", "CREATE_STREAMS", "TEST_RUNNING"}
         /\ t.pc \in {"loop", "announce", "reply", "stream"} /\ t.s \in Int /\ t.listener \in Int
         /\ t.prot_listener \in Int /\ t.ctrl_sck \in Int /\ t.rec \in Nat /\ t.snd \in Nat
         /\ t.streams \in Seq(StreamRec) /\ t.read_set \in SUBSET Int /\ t.bufsize \in Nat
         /\ t.tests \in Nat /\ Len(t.streams) \in Nat /\ DOMAIN t.streams = 1..Len(t.streams)
         /\ \A k \in 1..Len(t.streams) : /\ t.streams[k] \in StreamRec /\ t.streams[k].fd \in FD
                                         /\ t.streams[k].file \in FD /\ t.streams[k].sender \in BOOLEAN
<1>1. t.streams \in Seq(StreamRec)
  BY DEF SrvRec
<1>2. /\ Len(t.streams) \in Nat /\ DOMAIN t.streams = 1..Len(t.streams)
      /\ \A k \in 1..Len(t.streams) : t.streams[k] \in StreamRec
  BY <1>1
<1>3. \A x \in StreamRec : x.fd \in FD /\ x.file \in FD /\ x.sender \in BOOLEAN
  BY DEF StreamRec
<1> QED BY <1>1, <1>2, <1>3 DEF SrvRec

-----------------------------------------------------------------------------
(* The end of an attempt *)

\* The server between tests.
AtRest(t, f) ==
  /\ f \in Table /\ t \in SrvRec /\ t.state = "IPERF_START" /\ t.ctrl_sck = -1
  /\ Accounted(t, f) /\ t.read_set \subseteq OpenFds(f) /\ Resting(t, f)

LEMMA RestNext ==
  ASSUME AtRest(srv', fds')
  PROVE  /\ fds' \in Table /\ srv' \in SrvRec /\ srv'.state = "IPERF_START"
         /\ ServerInv(srv, fds)'
<1>1. Accounted(srv, fds)' /\ srv'.read_set \subseteq OpenFds(fds)'
  BY DEF AtRest, Accounted, OpenFds, IsOpen, Leaked, Owned, StreamFds, Files, Pending
<1>2. Resting(srv, fds)'
  BY DEF AtRest, Resting, IsOpen
<1>3. srv'.state = "IPERF_START" /\ srv'.ctrl_sck = -1
  BY DEF AtRest
<1> QED BY <1>1, <1>2, <1>3 DEF AtRest, ServerInv

LEMMA IdleLemma ==
  ASSUME conf \in Configs, NEW g \in Table, NEW tests \in Nat, NEW failures \in 0..MaxFailures,
         LeakInv(g, failures), \A n \in FD : g[n] \in {Free, Socket("leaked", 0, 0)},
         NEW h, h = netannounce(g, "tcp"), NEW t, t = Idle(g, tests)
  PROVE  AtRest(t, h) /\ LeakInv(h, failures)
<1> DEFINE n == NextFd(g)
           l == Socket("tcp", 0, DefaultBuffer)
           x == Socket("leaked", 0, 0)
<1>1. x.kind = "leaked" /\ x.peer = 0 /\ Free.kind = "free" /\ Free.peer = 0
  BY SockLemma, FreeLemma DEF Kind
<1>2. OpenFds(g) = Leaked(g)
  BY <1>1, OpenLemma DEF Leaked
<1>3. /\ t.state = "IPERF_START" /\ t.pc = "loop" /\ t.s = 0 /\ t.listener = n
      /\ t.prot_listener = -1 /\ t.ctrl_sck = -1 /\ t.rec = 0 /\ t.snd = 0
      /\ t.streams = <<>> /\ t.read_set = {n} /\ t.bufsize = 0 /\ t.tests = tests
  BY DEF Idle
<1>4. t.streams \in Seq(StreamRec) /\ Len(t.streams) = 0 /\ Streams > 0
  BY <1>3, ConfLemma
<1>5. IsNext(g, n)
  <2>1. OpenFds(g) \subseteq Leaked(g) \cup Owned(t) \cup {0}
    BY <1>2
  <2>2. t.streams \in Seq(StreamRec) /\ Len(t.streams) < Streams
    BY <1>4, ConfLemma
  <2> QED BY <2>1, <2>2, RoomLemma
<1>6. IsOpened(h, g, n, l) /\ l.kind = "tcp" /\ l.peer = 0
  BY <1>5, AnnounceLemma, SockLemma, ConstLemma DEF Kind
<1> HIDE DEF l, x
<1>7. n \in FD /\ n \in Int /\ n \in Nat
  BY <1>5, OpenLemma DEF IsNext
<1> HIDE DEF n
<1>8. t \in SrvRec
  <2>1. {n} \in SUBSET Int /\ 0 \in Nat /\ 0 \in Int /\ -1 \in Int
    BY <1>7
  <2> QED BY <1>4, <1>7, <2>1 DEF Idle, SrvRec, n
<1>9. Resting(t, h)
  <2>1. \A k \in 1..n - 1 : IsOpen(h, k)
    BY <1>5, <1>6, OpenLemma DEF IsOpened, IsNext
  <2>2. \A m \in FD : h[m].peer = 0 /\ h[m].kind # "udp"
    BY <1>1, <1>6 DEF IsOpened, x
  <2> QED BY <1>3, <1>6, <1>7, <2>1, <2>2 DEF Resting, IsOpened, l
<1>10. Accounted(t, h) /\ t.read_set \subseteq OpenFds(h)
  BY <1>2, <1>3, <1>6 DEF Accounted, IsOpened, Owned
<1>11. LeakInv(h, failures)
  BY <1>6 DEF LeakInv, IsOpened
<1> QED BY <1>3, <1>6, <1>8, <1>9, <1>10, <1>11 DEF IsOpened, AtRest

\* What a failure leaves open is X; it counts for half of X at least.
LEMMA RestartLemma ==
  ASSUME conf \in Configs, NEW t, t.streams \in Seq(StreamRec), t.tests \in Nat, NEW f \in Table,
         NEW X, IsFiniteSet(X), OpenFds(f) \subseteq Leaked(f) \cup Owned(t) \cup X,
         NEW m \in Nat, LeakInv(f, m), NEW n \in 0..MaxFailures,
         2 * m + Cardinality(X) <= 2 * n, Restart(t, f)
  PROVE  AtRest(srv', fds') /\ LeakInv(fds', n)
<1> DEFINE a == cleanup_server(t, f)
           b == iperf_reset_test(t, a)
           kept == OpenFds(b)
           x == Socket("leaked", 0, 0)
           g == [k \in 1..Fds |-> IF k \in kept THEN x ELSE Free]
<1>1. fds' = netannounce(g, "tcp") /\ srv' = Idle(g, t.tests)
  BY DEF Restart
<1>2. IsClosed(a, f, StreamFds(t) \cup {t.ctrl_sck, t.listener, t.prot_listener})
  <2>1. a = Close(f, StreamFds(t) \cup {t.ctrl_sck, t.listener, t.prot_listener})
    BY DEF cleanup_server, StreamFds
  <2> QED BY <2>1, CloseLemma
<1>3. IsClosed(b, a, Files(t))
  <2>1. b = Close(a, Files(t))
    BY DEF iperf_reset_test, Files
  <2> QED BY <1>2, <2>1, CloseLemma DEF IsClosed
<1> HIDE DEF a, b
<1>4. kept \subseteq Leaked(f) \cup X /\ kept \subseteq FD
  BY <1>2, <1>3, OpenLemma DEF IsClosed, Owned
<1> HIDE DEF kept
<1>5. x \in Sock /\ x.kind = "leaked" /\ Free \in Sock /\ Free.kind = "free"
  <2>1. "leaked" \in Kind /\ 0 \in Nat
    BY DEF Kind
  <2>2. x \in Sock /\ x.kind = "leaked"
    BY <2>1, SockLemma
  <2> QED BY <2>2, FreeLemma
<1> HIDE DEF x
<1>6. g \in Table /\ \A k \in FD : g[k] = IF k \in kept THEN x ELSE Free
  BY <1>5 DEF Table, FD
<1> HIDE DEF g
<1>7. Leaked(g) = kept
  BY <1>4, <1>5, <1>6 DEF Leaked
<1>8. LeakInv(g, n)
  <2> DEFINE A == Leaked(f)
  <2>1. IsFiniteSet(A)
    BY OpenLemma
  <2>2. Cardinality(A) <= 2 * m /\ kept \in SUBSET (A \cup X)
    BY <1>4 DEF LeakInv
  <2> HIDE DEF A
  <2>3. /\ IsFiniteSet(A \cup X) /\ Cardinality(A \cup X) <= Cardinality(A) + Cardinality(X)
        /\ Cardinality(A \cup X) \in Nat /\ Cardinality(A) \in Nat /\ Cardinality(X) \in Nat
    BY <2>1, UnionBound
  <2>4. Cardinality(kept) <= Cardinality(A \cup X) /\ IsFiniteSet(kept)
    BY <2>2, <2>3, FS_Subset
  <2>5. Cardinality(kept) \in Nat
    BY <2>4, FS_CardinalityType
  <2>6. Cardinality(kept) <= 2 * n
    BY <2>2, <2>3, <2>4, <2>5, ConstLemma
  <2> QED BY <1>7, <2>6 DEF LeakInv
<1>9. \A k \in FD : g[k] \in {Free, Socket("leaked", 0, 0)}
  BY <1>6 DEF x
<1> QED BY <1>1, <1>6, <1>8, <1>9, IdleLemma

-----------------------------------------------------------------------------
(* What the client keeps *)

LEMMA CliFields ==
  ASSUME NEW x \in CliRec
  PROVE  /\ x.state \in {"connect", "wait", "created", "failed"}
         /\ x.made \in Seq([buf : Nat, bound : SUBSET STRING])
         /\ x.bufsize \in Nat /\ x.xbind \in Seq(STRING) /\ Len(x.made) \in Nat
<1>1. x.made \in Seq([buf : Nat, bound : SUBSET STRING])
  BY DEF CliRec
<1>2. Len(x.made) \in Nat
  BY <1>1
<1> QED BY <1>1, <1>2 DEF CliRec

LEMMA ClientFailed ==
  ASSUME cli \in CliRec, ClientInv, conf' = conf,
         cli' \in {cli, [cli EXCEPT !.state = "failed"]}
  PROVE  ClientInv' /\ cli' \in CliRec /\ Made' = Made
<1>1. CASE cli' = cli
  BY <1>1 DEF ClientInv, Made, Streams, Holds, SizeIsAsAsked, Actual
<1>2. CASE cli' = [cli EXCEPT !.state = "failed"]
  <2>1. /\ cli'.state = "failed" /\ cli'.made = cli.made /\ cli' \in CliRec
    BY <1>2 DEF CliRec
  <2>2. Made' = Made
    BY <2>1 DEF Made
  <2> QED BY <2>1, <2>2 DEF ClientInv, Streams, Holds
<1> QED BY <1>1, <1>2

\* The server gives up, and the client with it or later.
LEMMA FailedLemma ==
  ASSUME Inv, conf' = conf, net' = net, cli' \in {cli, [cli EXCEPT !.state = "failed"]},
         ghost' \in GhostRec, NEW t, t.streams \in Seq(StreamRec), t.tests \in Nat, NEW f \in Table,
         NEW X, IsFiniteSet(X), OpenFds(f) \subseteq Leaked(f) \cup Owned(t) \cup X,
         LeakInv(f, ghost.failures), 2 * ghost.failures + Cardinality(X) <= 2 * ghost'.failures,
         Restart(t, f)
  PROVE  Inv'
<1>1. /\ ghost'.failures \in 0..MaxFailures /\ ghost.failures \in Nat /\ conf \in Configs
      /\ cli \in CliRec
  BY ConfSame DEF Inv, GhostRec
<1>2. AtRest(srv', fds') /\ LeakInv(fds', ghost'.failures)
  BY <1>1, RestartLemma
<1>3. fds' \in Table /\ srv' \in SrvRec /\ srv'.state = "IPERF_START" /\ ServerInv(srv, fds)'
  BY <1>2, RestNext
<1>4. LeakInv(fds, ghost.failures)'
  BY <1>2 DEF LeakInv, Leaked
<1>5. ClientInv' /\ cli' \in CliRec
  BY <1>1, ClientFailed DEF Inv
<1>6. MeetInv'
  BY <1>3 DEF MeetInv, Inv
<1>7. TypeInv'
  BY <1>1, <1>3, <1>5 DEF TypeInv, Inv
<1> QED BY <1>3, <1>4, <1>5, <1>6, <1>7 DEF Inv

LEMMA FailLemma ==
  ASSUME TypeInv, Fail
  PROVE  /\ ghost' \in GhostRec /\ ghost'.failures = ghost.failures + 1
         /\ ghost.failures + 1 \in 0..MaxFailures
         /\ \A x : IsFiniteSet({x}) /\ Cardinality({x}) = 1
         /\ ghost'.copies = ghost.copies
<1>1. ghost \in GhostRec /\ ghost.failures \in Nat /\ MaxFailures \in Nat
  BY ConfSame
<1>2. ghost.failures + 1 \in 0..MaxFailures
  BY <1>1 DEF Fail
<1>3. ghost' \in GhostRec /\ ghost'.failures = ghost.failures + 1 /\ ghost'.copies = ghost.copies
  BY <1>1, <1>2 DEF Fail, GhostRec
<1> QED BY <1>2, <1>3, FS_Singleton

LEMMA InitLemma ==
  ASSUME Init
  PROVE  Inv
<1> DEFINE none == [n \in 1..Fds |-> Free]
<1>1. none \in Table /\ \A n \in FD : none[n] = Free
  BY FreeLemma DEF Table, FD
<1>2. LeakInv(none, 0)
  <2> HIDE DEF none
  <2>1. Leaked(none) = {}
    BY <1>1, FreeLemma DEF Leaked
  <2> QED BY <2>1, FS_EmptySet DEF LeakInv
<1>3. conf \in Configs /\ fds = netannounce(none, "tcp") /\ srv = Idle(none, 0)
  BY DEF Init
<1> HIDE DEF none
<1>4. 0 \in Nat /\ 0 \in 0..MaxFailures
  BY ConstLemma
<1>5. AtRest(srv, fds) /\ LeakInv(fds, 0)
  BY <1>1, <1>2, <1>3, <1>4, IdleLemma
<1>6. /\ cli.state = "failed" /\ cli.made = <<>> /\ cli.bufsize = 0 /\ cli.xbind = <<>>
      /\ net = {} /\ ghost.failures = 0 /\ ghost.copies = 0 /\ ghost \in GhostRec
      /\ cli \in CliRec
  BY <1>4 DEF Init, NoClient, GhostRec, CliRec
<1>7. ClientInv
  <2>1. Made = 0
    BY <1>6 DEF Made
  <2> QED BY <1>3, <1>6, <2>1, ConfLemma DEF ClientInv
<1>8. MeetInv
  BY <1>5, <1>6 DEF MeetInv, AtRest
<1>9. ServerInv(srv, fds)
  BY <1>5 DEF ServerInv, AtRest
<1>10. TypeInv
  BY <1>3, <1>5, <1>6 DEF TypeInv, AtRest
<1> QED BY <1>5, <1>6, <1>7, <1>8, <1>9, <1>10 DEF Inv

-----------------------------------------------------------------------------
(* The failures of the server *)

LEMMA LeakMono ==
  ASSUME NEW f \in Table, NEW g \in Table, Leaked(g) \subseteq Leaked(f), NEW m, LeakInv(f, m),
         m \in Int
  PROVE  LeakInv(g, m)
<1> DEFINE A == Leaked(f)
           B == Leaked(g)
<1>1. IsFiniteSet(A) /\ Cardinality(A) \in Nat /\ Cardinality(B) \in Nat
  BY OpenLemma
<1>2. B \in SUBSET A /\ Cardinality(A) <= 2 * m
  BY DEF LeakInv
<1> HIDE DEF A, B
<1>3. Cardinality(B) <= Cardinality(A)
  BY <1>1, <1>2, FS_Subset
<1>4. Cardinality(B) <= 2 * m
  BY <1>1, <1>2, <1>3
<1> QED BY <1>4 DEF B, LeakInv

\* Where the server is when it accepts a UDP stream.
LEMMA PlaceLemma ==
  ASSUME Inv
  PROVE  /\ srv.pc # "loop" => srv.state = "CREATE_STREAMS" /\ conf.proto = "udp"
         /\ srv.state = "CREATE_STREAMS" => Has(srv, fds) /\ Collecting(srv, fds)
         /\ srv.state = "TEST_RUNNING" => Has(srv, fds) /\ Started(srv, fds)
         /\ srv.state \in {"IPERF_START", "PARAM_EXCHANGE"} => Resting(srv, fds)
         /\ srv.state = "PARAM_EXCHANGE" => IsCtrl(srv, fds)
         /\ srv.state # "IPERF_START" => SizeIsAsAsked(srv.bufsize)
         /\ Accounted(srv, fds) /\ srv.read_set \subseteq OpenFds(fds)
         /\ LeakInv(fds, ghost.failures)
<1>1. /\ srv.state = "CREATE_STREAMS" => Has(srv, fds) /\ Collecting(srv, fds)
      /\ srv.state = "TEST_RUNNING" => Has(srv, fds) /\ Started(srv, fds)
      /\ srv.state \in {"IPERF_START", "PARAM_EXCHANGE"} => Resting(srv, fds)
      /\ srv.state = "PARAM_EXCHANGE" => IsCtrl(srv, fds)
      /\ srv.state # "IPERF_START" => SizeIsAsAsked(srv.bufsize)
      /\ Accounted(srv, fds) /\ srv.read_set \subseteq OpenFds(fds)
      /\ LeakInv(fds, ghost.failures)
  BY DEF Inv, ServerInv
<1>2. srv.state \in {"IPERF_START", "PARAM_EXCHANGE", "CREATE_STREAMS", "TEST_RUNNING"}
  BY ConfSame, SrvFields DEF Inv
<1>3. /\ Collecting(srv, fds) => srv.pc = "loop" \/ conf.proto = "udp"
      /\ Started(srv, fds) => srv.pc = "loop"
      /\ Resting(srv, fds) => srv.pc = "loop"
  BY DEF Collecting, Started, Resting
<1> QED BY <1>1, <1>2, <1>3

\* The server gives up in its loop.
LEMMA LoopFails ==
  ASSUME Inv, srv.pc = "loop", conf' = conf, net' = net,
         cli' \in {cli, [cli EXCEPT !.state = "failed"]}, ghost' = ghost \/ Fail,
         Restart(srv, fds)
  PROVE  Inv'
<1>1. OpenFds(fds) \subseteq Leaked(fds) \cup Owned(srv) \cup {}
  BY PlaceLemma DEF Accounted, Pending
<1>2. srv.streams \in Seq(StreamRec) /\ srv.tests \in Nat /\ fds \in Table
  BY ConfSame, SrvFields DEF Inv
<1>3. /\ ghost' \in GhostRec /\ ghost.failures \in Nat /\ ghost'.failures \in Nat
      /\ ghost.failures <= ghost'.failures
  BY ConfSame, FailLemma DEF Inv
<1>4. IsFiniteSet({}) /\ Cardinality({}) = 0
  BY FS_EmptySet
<1>5. 2 * ghost.failures + Cardinality({}) <= 2 * ghost'.failures
  BY <1>3, <1>4
<1> QED BY <1>1, <1>2, <1>3, <1>4, <1>5, PlaceLemma, FailedLemma

\* One descriptor is forgotten, or two.
LEMMA TwoLost ==
  ASSUME NEW x, NEW y
  PROVE  IsFiniteSet({x, y}) /\ Cardinality({x, y}) <= 2 /\ Cardinality({x, y}) \in Nat
<1>1. IsFiniteSet({x}) /\ Cardinality({x}) = 1
  BY FS_Singleton
<1>2. {x, y} = {x} \cup {y}
  OBVIOUS
<1> DEFINE U == {x} \cup {y}
<1>3. IsFiniteSet(U) /\ Cardinality(U) <= Cardinality({x}) + 1 /\ Cardinality(U) \in Nat
  BY <1>1, AddBound
<1> HIDE DEF U
<1>4. Cardinality(U) <= 2
  BY <1>1, <1>3
<1> QED BY <1>2, <1>3, <1>4 DEF U

LEMMA CallFails ==
  ASSUME Inv, conf' = conf, net' = net, cli' \in {cli, [cli EXCEPT !.state = "failed"]}, Fail,
         NEW t, t.streams \in Seq(StreamRec), t.tests \in Nat, NEW f \in Table,
         NEW x, NEW y, OpenFds(f) \subseteq Leaked(f) \cup Owned(t) \cup {x, y},
         Leaked(f) \subseteq Leaked(fds), Restart(t, f)
  PROVE  Inv'
<1>1. /\ ghost' \in GhostRec /\ ghost'.failures = ghost.failures + 1 /\ ghost.failures \in Nat
      /\ fds \in Table
  BY FailLemma, ConfSame DEF Inv
<1>2. IsFiniteSet({x, y}) /\ Cardinality({x, y}) <= 2 /\ Cardinality({x, y}) \in Nat
  BY TwoLost
<1>3. 2 * ghost.failures + Cardinality({x, y}) <= 2 * ghost'.failures
  BY <1>1, <1>2
<1>4. LeakInv(f, ghost.failures)
  BY <1>1, PlaceLemma, LeakMono
<1> QED BY <1>1, <1>2, <1>3, <1>4, FailedLemma

LEMMA UdpAcceptFailsInv ==
  ASSUME Inv, UdpAcceptFails
  PROVE  Inv'
<1> DEFINE t == [srv EXCEPT !.prot_listener = IF srv.pc = "announce" THEN -1 ELSE @]
<1>1. Fail /\ Restart(t, fds) /\ srv.pc \in {"announce", "reply"} /\ conf' = conf /\ cli' = cli
      /\ net' = net
  BY DEF UdpAcceptFails
<1>2. srv \in SrvRec /\ srv.streams \in Seq(StreamRec) /\ srv.tests \in Nat /\ fds \in Table
  BY ConfSame, SrvFields DEF Inv
<1>3. /\ t.streams = srv.streams /\ t.tests = srv.tests /\ t.listener = srv.listener
      /\ t.ctrl_sck = srv.ctrl_sck
      /\ t.prot_listener = IF srv.pc = "announce" THEN -1 ELSE srv.prot_listener
  BY <1>2 DEF SrvRec
<1> HIDE DEF t
<1>4. srv.pc = "announce" => srv.prot_listener = srv.s
  BY PlaceLemma DEF Collecting
<1>5. OpenFds(fds) \subseteq Leaked(fds) \cup Owned(t) \cup {srv.s, srv.s}
  BY <1>1, <1>3, <1>4, PlaceLemma DEF Accounted, Owned, Pending, StreamFds, Files
<1> QED BY <1>1, <1>2, <1>3, <1>5, CallFails

LEMMA StartFailsInv ==
  ASSUME Inv, StartFails
  PROVE  Inv'
<1>1. Fail /\ conf' = conf /\ cli' = cli /\ net' = net /\ srv.state = "TEST_RUNNING"
  BY DEF StartFails
<1>2. CASE Restart(srv, fds)
  <2>1. srv.pc = "loop"
    BY <1>1, PlaceLemma
  <2> QED BY <1>1, <1>2, <2>1, LoopFails
<1>3. CASE Restart([srv EXCEPT !.listener = 0], Close(fds, {srv.listener}))
  <2> DEFINE t == [srv EXCEPT !.listener = 0]
             f == Close(fds, {srv.listener})
  <2>1. srv \in SrvRec /\ srv.streams \in Seq(StreamRec) /\ srv.tests \in Nat /\ fds \in Table
    BY ConfSame, SrvFields DEF Inv
  <2>2. /\ t.streams = srv.streams /\ t.tests = srv.tests /\ t.ctrl_sck = srv.ctrl_sck
        /\ t.prot_listener = srv.prot_listener
    BY <2>1 DEF SrvRec
  <2>3. IsClosed(f, fds, {srv.listener})
    BY <2>1, CloseLemma
  <2>4. Restart(t, f)
    BY <1>3
  <2> HIDE DEF t, f
  <2>5. OpenFds(f) \subseteq Leaked(f) \cup Owned(t) \cup {0, 0}
    BY <1>1, <2>2, <2>3, PlaceLemma DEF Accounted, Owned, Pending, StreamFds, Files, IsClosed
  <2> QED BY <1>1, <2>1, <2>2, <2>3, <2>4, <2>5, CallFails DEF IsClosed
<1> QED BY <1>2, <1>3 DEF StartFails

LEMMA GivesUpInv ==
  ASSUME Inv, ClientGone \/ ReceiveTimeout
  PROVE  Inv'
BY LoopFails DEF ClientGone, ReceiveTimeout

LEMMA NewStreamFailsInv ==
  ASSUME Inv, srv.state = "CREATE_STREAMS", NEW f \in Table, NEW x,
         OpenFds(f) \subseteq Leaked(f) \cup Owned(srv) \cup {x}, Leaked(f) = Leaked(fds),
         NewStreamFails(srv, f)
  PROVE  Inv'
<1>1. PICK g \in {f, [f EXCEPT ![NextFd(f)] = Socket("file", 0, 0)]} :
        Fail /\ Restart(srv, g) /\ conf' = conf /\ cli' = cli /\ net' = net
  BY DEF NewStreamFails
<1>2. /\ srv.streams \in Seq(StreamRec) /\ srv.tests \in Nat /\ fds \in Table /\ conf \in Configs
      /\ ghost.failures \in 0..MaxFailures /\ ghost.failures \in Int
  BY ConfSame, SrvFields DEF Inv
<1>3. Len(srv.streams) < Streams
  BY PlaceLemma DEF Collecting
<1>4. LeakInv(f, ghost.failures)
  BY <1>2, PlaceLemma, LeakMono
<1>5. IsNext(f, NextFd(f))
  BY <1>2, <1>3, <1>4, RoomLemma
<1>6. IsOpened([f EXCEPT ![NextFd(f)] = Socket("file", 0, 0)], f, NextFd(f), Socket("file", 0, 0))
  <2>1. Socket("file", 0, 0) \in Sock /\ Socket("file", 0, 0).kind = "file"
    BY SockLemma DEF Kind
  <2> QED BY <1>5, <2>1, OpenedLemma
<1>7. /\ g \in Table /\ Leaked(g) = Leaked(f)
      /\ OpenFds(g) \subseteq Leaked(g) \cup Owned(srv) \cup {x, NextFd(f)}
  BY <1>1, <1>6 DEF IsOpened
<1> QED BY <1>1, <1>2, <1>7, CallFails

-----------------------------------------------------------------------------
(* Listening *)

\* The socket that replaces the listening one gets its number.
LEMMA SameNumber ==
  ASSUME NEW f \in Table, NEW l \in FD, IsOpen(f, l), \A k \in 1..l - 1 : IsOpen(f, k),
         NEW g, g = Close(f, {l})
  PROVE  NextFd(g) = l /\ IsNext(g, NextFd(g))
<1>1. IsClosed(g, f, {l})
  BY CloseLemma
<1>2. g \in Table /\ ~IsOpen(g, l)
  BY <1>1, OpenLemma DEF IsClosed
<1>3. IsNext(g, NextFd(g))
  BY <1>2, NextFdLemma
<1> DEFINE n == NextFd(g)
<1> HIDE DEF n
<1>4. IsNext(g, n) /\ n \in Nat /\ l \in Nat /\ n # 0 /\ l # 0
  BY <1>3, OpenLemma DEF n, IsNext
<1>5. CASE n < l
  <2>1. IsOpen(f, n) /\ n # l
    BY <1>4, <1>5
  <2>2. IsOpen(g, n)
    BY <1>1, <1>2, <2>1, OpenLemma DEF IsClosed
  <2> QED BY <1>4, <2>2 DEF IsNext
<1>6. CASE l < n
  <2>1. IsOpen(g, l)
    BY <1>4, <1>6 DEF IsNext
  <2> QED BY <1>2, <2>1
<1> QED BY <1>3, <1>4, <1>5, <1>6 DEF n

\* What protocol->listen makes of the descriptors and the test.
Listening(o) ==
  /\ o.f \in Table /\ o.s \in FD /\ o.t \in SrvRec /\ Leaked(o.f) = Leaked(fds)
  /\ OpenFds(o.f) = OpenFds(fds) \cup {o.s}
  /\ o.f[o.s] = Socket(conf.proto, 0, DefaultBuffer)
  /\ o.f[o.s].kind = conf.proto /\ o.f[o.s].peer = 0 /\ o.f[o.s].q = <<>>
  /\ \A m \in FD : m # o.s => o.f[m] = fds[m]
  /\ IF conf.proto = "udp" THEN o.s \notin OpenFds(fds) ELSE o.s = srv.listener
  /\ o.t.read_set \subseteq OpenFds(o.f)
  /\ o.t.listener = srv.listener /\ o.t.ctrl_sck = srv.ctrl_sck /\ o.t.streams = srv.streams
  /\ o.t.rec = srv.rec /\ o.t.snd = srv.snd /\ o.t.pc = srv.pc /\ o.t.bufsize = srv.bufsize
  /\ o.t.tests = srv.tests

LEMMA ListenLemma ==
  ASSUME Inv, srv.state = "PARAM_EXCHANGE"
  PROVE  Listening(Listen(srv, fds))
<1>1. /\ conf \in Configs /\ fds \in Table /\ srv \in SrvRec /\ ghost.failures \in 0..MaxFailures
      /\ srv.read_set \subseteq OpenFds(fds) /\ conf.proto \in {"udp", "tcp", "sctp"}
      /\ srv.streams \in Seq(StreamRec)
  BY ConfSame, ConfLemma, PlaceLemma, SrvFields DEF Inv
<1>2. Resting(srv, fds)
  BY PlaceLemma
<1>3. /\ srv.listener \in FD /\ fds[srv.listener] = Socket("tcp", 0, DefaultBuffer)
      /\ IsOpen(fds, srv.listener) /\ srv.listener \in Int /\ srv.listener \notin Leaked(fds)
      /\ \A k \in 1..srv.listener - 1 : IsOpen(fds, k)
  <2>1. Socket("tcp", 0, DefaultBuffer).kind = "tcp"
    BY SockLemma, ConstLemma DEF Kind
  <2>2. srv.listener \in FD /\ fds[srv.listener].kind = "tcp"
    BY <1>2, <2>1 DEF Resting
  <2>3. IsOpen(fds, srv.listener) /\ srv.listener \notin Leaked(fds)
    BY <1>1, <2>2, OpenLemma DEF Leaked
  <2> QED BY <1>1, <1>2, <2>3, SrvFields DEF Resting
<1> DEFINE l == srv.listener
           x == Socket(conf.proto, 0, DefaultBuffer)
           o == Listen(srv, fds)
<1>4. x.kind = conf.proto /\ x.peer = 0 /\ x.q = <<>>
  <2>1. conf.proto \in Kind
    BY <1>1 DEF Kind
  <2> QED BY <2>1, SockLemma, ConstLemma
<1>5. CASE conf.proto = "udp"
  <2> DEFINE n == NextFd(fds)
  <2>1. IsNext(fds, n)
    <3>1. Len(srv.streams) = 0
      BY <1>2 DEF Resting
    <3>2. OpenFds(fds) \subseteq Leaked(fds) \cup Owned(srv) \cup {0}
      BY <1>2, PlaceLemma DEF Accounted, Pending, Resting
    <3>3. LeakInv(fds, ghost.failures)
      BY PlaceLemma
    <3>4. Len(srv.streams) < Streams
      BY <1>1, <3>1, ConfLemma
    <3> QED BY <1>1, <3>2, <3>3, <3>4, RoomLemma
  <2>2. IsOpened(netannounce(fds, "udp"), fds, n, Socket("udp", 0, DefaultBuffer))
    BY <1>1, <2>1, AnnounceLemma
  <2>3. o.f = netannounce(fds, "udp") /\ o.s = n /\ o.t = srv
    BY <1>5 DEF Listen
  <2> HIDE DEF n, x, o
  <2>4. IsOpened(o.f, fds, o.s, x)
    BY <1>5, <2>2, <2>3 DEF x
  <2> QED BY <1>1, <1>4, <1>5, <2>3, <2>4 DEF Listening, IsOpened, o, x
<1>6. CASE conf.proto # "udp" /\ (conf.proto = "sctp" \/ Relisten)
  <2> DEFINE c == Close(fds, {l})
             r == IF Relisten THEN srv.read_set \ {l} ELSE srv.read_set
  <2>1. NextFd(c) = l /\ IsNext(c, NextFd(c)) /\ IsClosed(c, fds, {l})
    BY <1>1, <1>3, SameNumber, CloseLemma
  <2>2. c \in Table
    BY <2>1 DEF IsClosed
  <2> HIDE DEF c
  <2>3. IsOpened(netannounce(c, conf.proto), c, l, x)
    BY <1>1, <2>1, <2>2, AnnounceLemma
  <2>4. o.f = netannounce(c, conf.proto) /\ o.s = l
        /\ o.t = [srv EXCEPT !.listener = l, !.read_set = r]
    BY <1>6, <2>1, Zenon DEF Listen, c
  <2>5. r \in SUBSET Int
    BY <1>1, SrvFields
  <2> HIDE DEF r, x, o
  <2>6. /\ o.t \in SrvRec /\ o.t.listener = l /\ o.t.ctrl_sck = srv.ctrl_sck
        /\ o.t.streams = srv.streams /\ o.t.rec = srv.rec /\ o.t.snd = srv.snd
        /\ o.t.pc = srv.pc /\ o.t.bufsize = srv.bufsize /\ o.t.tests = srv.tests
        /\ o.t.read_set = r
    BY <1>1, <1>3, <2>4, <2>5 DEF SrvRec
  <2>7. OpenFds(o.f) = OpenFds(fds) \cup {l} /\ Leaked(o.f) = Leaked(fds)
    <3>1. OpenFds(c) = OpenFds(fds) \ {l} /\ Leaked(c) = Leaked(fds) \ {l}
      BY <2>1 DEF IsClosed
    <3>2. OpenFds(o.f) = OpenFds(c) \cup {l} /\ Leaked(o.f) = Leaked(c)
      BY <2>3, <2>4 DEF IsOpened
    <3>3. l \in OpenFds(fds) /\ l \notin Leaked(fds)
      BY <1>1, <1>3, OpenLemma
    <3> QED BY <3>1, <3>2, <3>3
  <2>8. r \subseteq OpenFds(o.f)
    BY <1>1, <2>7 DEF r
  <2>9. \A m \in FD : m # l => o.f[m] = fds[m]
    BY <2>1, <2>3, <2>4 DEF IsOpened, IsClosed
  <2>10. o.f \in Table /\ o.f[l] = x
    BY <2>3, <2>4 DEF IsOpened
  <2>11. x.kind = conf.proto /\ x.peer = 0 /\ x.q = <<>> /\ l \in FD
    BY <1>3, <1>4 DEF x
  <2> HIDE DEF l
  <2> QED BY <1>6, <2>4, <2>6, <2>7, <2>8, <2>9, <2>10, <2>11 DEF Listening, x, o, l
<1>7. CASE conf.proto = "tcp" /\ ~Relisten
  <2>1. o.f = fds /\ o.s = l /\ o.t = srv
    BY <1>7 DEF Listen
  <2>2. OpenFds(fds) = OpenFds(fds) \cup {l}
    BY <1>1, <1>3, OpenLemma
  <2>3. fds[l] = x
    BY <1>3, <1>7
  <2> HIDE DEF x, o
  <2> QED BY <1>1, <1>3, <1>4, <1>7, <2>1, <2>2, <2>3 DEF Listening, x, o
<1> QED BY <1>1, <1>5, <1>6, <1>7

\* The sockets are listening and the client may connect.
LEMMA CreateStreamsInv ==
  ASSUME Inv, CreateStreams
  PROVE  Inv'
<1> DEFINE o == Listen(srv, fds)
<1>1. /\ conf' = conf /\ cli' = cli /\ net' = net /\ ghost' = ghost
      /\ srv.state = "PARAM_EXCHANGE" /\ fds' = o.f
      /\ srv' = [o.t EXCEPT !.state = "CREATE_STREAMS", !.prot_listener = o.s,
                            !.read_set = @ \cup {o.s}]
  BY DEF CreateStreams
<1>2. Listening(o)
  BY <1>1, ListenLemma
<1> HIDE DEF o
<1>3. /\ conf \in Configs /\ fds \in Table /\ srv \in SrvRec /\ ghost.failures \in Nat
      /\ conf.proto \in {"udp", "tcp", "sctp"} /\ Streams \in Nat /\ Streams > 0
      /\ Resting(srv, fds) /\ IsCtrl(srv, fds) /\ SizeIsAsAsked(srv.bufsize)
      /\ Accounted(srv, fds) /\ LeakInv(fds, ghost.failures)
      /\ StreamsToRec \in Nat /\ net = {} /\ Made = 0
  BY <1>1, ConfSame, ConfLemma, PlaceLemma DEF Inv, MeetInv
<1>4. /\ srv' \in SrvRec /\ srv'.state = "CREATE_STREAMS" /\ srv'.prot_listener = o.s
      /\ srv'.listener = srv.listener /\ srv'.ctrl_sck = srv.ctrl_sck /\ srv'.streams = <<>>
      /\ srv'.rec = 0 /\ srv'.snd = 0 /\ srv'.pc = "loop" /\ srv'.bufsize = srv.bufsize
      /\ srv'.read_set = o.t.read_set \cup {o.s}
  <2>1. o.t \in SrvRec /\ o.s \in FD /\ o.s \in Int
    BY <1>2, <1>3, OpenLemma DEF Listening
  <2>2. o.t.read_set \cup {o.s} \in SUBSET Int
    BY <2>1, SrvFields
  <2>3. /\ o.t.streams = <<>> /\ o.t.rec = 0 /\ o.t.snd = 0 /\ o.t.pc = "loop"
        /\ o.t.listener = srv.listener /\ o.t.ctrl_sck = srv.ctrl_sck
        /\ o.t.bufsize = srv.bufsize
    BY <1>2, <1>3 DEF Listening, Resting
  <2> QED BY <1>1, <2>1, <2>2, <2>3 DEF SrvRec
<1>5. Len(srv'.streams) = 0 /\ fds' \in Table
  BY <1>1, <1>2, <1>4 DEF Listening
<1>6. Accounted(srv, fds)'
  <2>1. /\ Leaked(fds)' = Leaked(fds) /\ OpenFds(fds)' = OpenFds(fds) \cup {o.s}
    BY <1>1, <1>2 DEF Listening, Leaked, OpenFds, IsOpen
  <2>2. OpenFds(fds) \subseteq Leaked(fds) \cup {srv.ctrl_sck, srv.listener, srv.prot_listener}
    BY <1>3 DEF Accounted, Resting, Owned, StreamFds, Files, Pending
  <2>3. srv.prot_listener \notin OpenFds(fds)
    <3>1. srv.prot_listener = -1
      BY <1>3 DEF Resting
    <3> QED BY <1>3, <3>1, OpenLemma
  <2> QED BY <1>4, <2>1, <2>2, <2>3 DEF Accounted, Owned
<1>7. srv'.read_set \subseteq OpenFds(fds)'
  <2>1. OpenFds(fds)' = OpenFds(o.f)
    BY <1>1 DEF OpenFds, IsOpen
  <2> QED BY <1>2, <1>4, <2>1 DEF Listening
<1>8. IsCtrl(srv, fds)' /\ srv.ctrl_sck # srv.listener
  <2>1. srv.ctrl_sck \in FD /\ srv.ctrl_sck \in OpenFds(fds) /\ srv.ctrl_sck # srv.listener
        /\ fds[srv.ctrl_sck].kind = "ctrl"
    <3>1. Socket("tcp", 0, DefaultBuffer).kind = "tcp"
      BY SockLemma, ConstLemma DEF Kind
    <3> QED BY <1>3, <3>1, OpenLemma DEF IsCtrl, Resting
  <2>2. srv.ctrl_sck # o.s
    BY <1>2, <2>1 DEF Listening
  <2> QED BY <1>1, <1>2, <1>4, <2>1, <2>2 DEF IsCtrl, Listening
<1>9. Has(srv, fds)'
  <2>1. \A n \in FD : Fits(fds[n].peer)'
    <3>1. \A n \in FD : fds'[n].peer = 0
      BY <1>1, <1>2, <1>3 DEF Listening, Resting
    <3>2. Streams' = Streams
      BY <1>1 DEF Streams
    <3> QED BY <1>3, <3>1, <3>2 DEF Fits
  <2>2. Streams' = Streams /\ StreamsToRec' = StreamsToRec
    BY <1>1 DEF Streams, StreamsToRec
  <2>3. 0 <= StreamsToRec
    BY <1>3
  <2> QED BY <1>4, <1>5, <1>8, <2>1, <2>2, <2>3 DEF Has
<1>10. Collecting(srv, fds)'
  <2>1. conf'.proto = conf.proto /\ Streams' = Streams
    BY <1>1 DEF Streams
  <2>2. CASE conf.proto = "udp"
    <3>1. /\ srv.listener \in FD /\ fds[srv.listener].kind = "tcp" /\ fds[srv.listener].peer = 0
          /\ srv.listener # o.s
      <4>1. srv.listener \in FD /\ fds[srv.listener].kind = "tcp" /\ fds[srv.listener].peer = 0
        BY <1>3, SockLemma, ConstLemma DEF Kind, Resting
      <4>2. srv.listener \in OpenFds(fds)
        BY <1>3, <4>1, OpenLemma
      <4> QED BY <1>2, <2>2, <4>1, <4>2 DEF Listening
    <3> QED BY <1>1, <1>2, <1>3, <1>4, <1>5, <2>1, <2>2, <3>1 DEF Collecting, Listening
  <2>3. CASE conf.proto # "udp"
    <3>1. o.s = srv.listener
      BY <1>2, <2>3 DEF Listening
    <3> QED BY <1>1, <1>2, <1>3, <1>4, <1>5, <2>1, <2>3, <3>1 DEF Collecting, Listening
  <2> QED BY <2>2, <2>3
<1>11. SizeIsAsAsked(srv.bufsize)'
  BY <1>1, <1>3, <1>4 DEF SizeIsAsAsked
<1>12. ServerInv(srv, fds)'
  BY <1>4, <1>6, <1>7, <1>9, <1>10, <1>11 DEF ServerInv
<1>13. LeakInv(fds, ghost.failures)'
  <2>1. Leaked(fds)' = Leaked(fds)
    BY <1>1, <1>2 DEF Listening, Leaked
  <2> QED BY <1>1, <1>3, <2>1 DEF LeakInv
<1>14. ClientInv'
  BY <1>1, <1>3, ConfSame, ClientFailed DEF Inv
<1>15. MeetInv'
  <2>1. net' = {} /\ Made' = 0 /\ conf' = conf
    BY <1>1, <1>3 DEF Made
  <2>2. fds'[srv'.prot_listener].q = <<>>
    BY <1>1, <1>2, <1>4 DEF Listening
  <2>3. HelloQueue(srv, fds)'
    BY <2>2 DEF HelloQueue
  <2>4. CASE conf.proto # "udp"
    <3>1. srv'.listener = srv'.prot_listener
      BY <1>1, <1>10, <2>4 DEF Collecting
    <3>2. fds'[srv'.listener].q = <<>>
      BY <2>2, <3>1
    <3>3. ConnectionQueue(srv, fds)'
      BY <1>5, <2>1, <3>2 DEF ConnectionQueue, Ordered
    <3> QED BY <1>1, <1>4, <2>1, <2>4, <3>3 DEF MeetInv
  <2>5. CASE conf.proto = "udp"
    <3>1. Replied(srv)' = 0
      BY <1>4, <1>5 DEF Replied
    <3>2. \A n \in FD : fds'[n].peer = 0
      BY <1>1, <1>2, <1>3 DEF Listening, Resting
    <3>3. Greetings(srv, fds)'
      BY <1>4, <2>1, <3>1, <3>2 DEF Greetings
    <3> QED BY <1>1, <1>4, <2>1, <2>3, <2>5, <3>3 DEF MeetInv
  <2> QED BY <2>4, <2>5
<1> QED BY <1>1, <1>3, <1>4, <1>5, <1>12, <1>13, <1>14, <1>15 DEF Inv, TypeInv

\* protocol->listen fails.
LEMMA ListenFailsInv ==
  ASSUME Inv, ListenFails
  PROVE  Inv'
<1> DEFINE o == Listen(srv, fds)
<1>1. PICK f \in IF conf.proto = "udp" THEN {fds} ELSE {Close(fds, {srv.listener}), o.f} :
        Restart(srv, f)
  BY DEF ListenFails
<1>2. /\ Fail /\ conf' = conf /\ net' = net /\ cli' = [cli EXCEPT !.state = "failed"]
      /\ srv.state = "PARAM_EXCHANGE"
  BY DEF ListenFails
<1>3. srv.streams \in Seq(StreamRec) /\ srv.tests \in Nat /\ fds \in Table
  BY ConfSame, SrvFields DEF Inv
<1>4. OpenFds(fds) \subseteq Leaked(fds) \cup Owned(srv)
  BY <1>2, PlaceLemma DEF Accounted, Pending
<1>5. CASE f = fds
  BY <1>1, <1>2, <1>3, <1>4, <1>5, CallFails
<1>6. CASE f = Close(fds, {srv.listener})
  <2>1. IsClosed(f, fds, {srv.listener})
    BY <1>3, <1>6, CloseLemma
  <2>2. /\ OpenFds(f) \subseteq Leaked(f) \cup Owned(srv) \cup {0, 0} /\ f \in Table
        /\ Leaked(f) \subseteq Leaked(fds)
    BY <1>4, <2>1 DEF IsClosed, Owned
  <2> QED BY <1>1, <1>2, <1>3, <2>2, CallFails
<1>7. CASE conf.proto # "udp" /\ f = o.f
  <2>1. Listening(o)
    BY <1>2, ListenLemma
  <2> HIDE DEF o
  <2>2. /\ OpenFds(f) \subseteq Leaked(f) \cup Owned(srv) \cup {0, 0} /\ f \in Table
        /\ Leaked(f) \subseteq Leaked(fds)
    BY <1>4, <1>7, <2>1 DEF Listening, Owned
  <2> QED BY <1>1, <1>2, <1>3, <2>2, CallFails
<1> QED BY <1>1, <1>5, <1>6, <1>7

-----------------------------------------------------------------------------
(* Buffers *)

LEMMA ActualLemma ==
  ASSUME NEW bufsize \in Nat, NEW max \in Nat
  PROVE  /\ Actual(bufsize, max) \in Nat
         /\ bufsize = 0 => Actual(bufsize, max) = DefaultBuffer
         /\ bufsize # 0 => Actual(bufsize, max) = (IF bufsize <= max THEN bufsize ELSE max)
<1>1. bufsize # 0 => Min({bufsize, max}) = (IF bufsize <= max THEN bufsize ELSE max)
  BY DEF Min
<1> QED BY <1>1, ConstLemma DEF Actual

\* Buffers that are accepted hold a block, if the user chose no size.
LEMMA UdpBuffersLemma ==
  ASSUME conf \in Configs, NEW bufsize \in Nat, NEW max \in Nat, SizeIsAsAsked(bufsize),
         conf.proto = "udp", UdpBuffers(bufsize, max).ok
  PROVE  LET b == UdpBuffers(bufsize, max)
         IN  /\ b.bufsize \in Nat /\ b.actual = Actual(b.bufsize, max) /\ b.actual \in Nat
             /\ SizeIsAsAsked(b.bufsize) /\ Holds(b.actual)
<1> DEFINE b == UdpBuffers(bufsize, max)
           raise == iperf_udp_buffercheck(bufsize, max) > 0 /\ bufsize = 0
<1>1. /\ b.bufsize = (IF raise THEN conf.blksize + 1 ELSE bufsize)
      /\ b.actual = Actual(b.bufsize, max) /\ iperf_udp_buffercheck(b.bufsize, max) >= 0
  BY DEF UdpBuffers, UDP_BUFFER_EXTRA
<1>2. conf.blksize \in Int /\ DefaultBuffer \in Nat
  BY ConfLemma, ConstLemma
<1>3. Actual(0, max) = DefaultBuffer
  BY ActualLemma
<1>4. raise <=> bufsize = 0 /\ conf.blksize > DefaultBuffer
  BY <1>2, <1>3 DEF iperf_udp_buffercheck
<1>5. b.bufsize \in Nat
  BY <1>1, <1>2, <1>4
<1> DEFINE size == b.bufsize
<1> HIDE DEF b, raise
<1>6. b.actual \in Nat /\ (size = 0 => b.actual = DefaultBuffer)
      /\ (size # 0 => b.actual = (IF size <= max THEN size ELSE max))
  <2>1. size \in Nat /\ b.actual = Actual(size, max)
    BY <1>1, <1>5
  <2> HIDE DEF size
  <2>2. /\ Actual(size, max) \in Nat /\ (size = 0 => Actual(size, max) = DefaultBuffer)
        /\ (size # 0 => Actual(size, max) = (IF size <= max THEN size ELSE max))
    BY <2>1, ActualLemma
  <2> QED BY <2>1, <2>2
<1>7. size <= b.actual
  BY <1>1, <1>2, <1>5, <1>6 DEF iperf_udp_buffercheck
<1>8. SizeIsAsAsked(size)
  BY <1>1, <1>2 DEF SizeIsAsAsked, UDP_BUFFER_EXTRA
<1>9. Holds(b.actual)
  <2> SUFFICES ASSUME conf.bufsize = 0 PROVE b.actual >= conf.blksize
    BY DEF Holds
  <2>1. bufsize \in {0, conf.blksize + 1}
    BY DEF SizeIsAsAsked, UDP_BUFFER_EXTRA
  <2>2. CASE size = 0
    <3>1. conf.blksize <= DefaultBuffer
      BY <1>1, <1>2, <1>4, <2>1, <2>2
    <3> QED BY <1>2, <1>6, <2>2, <3>1
  <2>3. CASE size # 0
    <3>1. size = conf.blksize + 1
      BY <1>1, <2>1, <2>3
    <3> QED BY <1>2, <1>6, <1>7, <3>1
  <2> QED BY <2>2, <2>3
<1> QED BY <1>1, <1>5, <1>6, <1>8, <1>9 DEF b

-----------------------------------------------------------------------------
(* The client *)

\* A step of the client leaves the server alone.
LEMMA ClientStep ==
  ASSUME Inv, UNCHANGED <<conf, fds, srv>>, ghost' = ghost \/ Fail, ClientInv', MeetInv',
         cli' \in CliRec, net' \in SUBSET Datagram
  PROVE  Inv'
<1>1. /\ ghost' \in GhostRec /\ ghost.failures \in Nat /\ ghost'.failures \in Nat
      /\ ghost.failures <= ghost'.failures /\ Cardinality(Leaked(fds)) \in Nat
  BY ConfSame, FailLemma, OpenLemma DEF Inv
<1>2. ServerInv(srv, fds)'
  BY DEF Inv, ServerInv, Accounted, OpenFds, IsOpen, Leaked, Owned, StreamFds, Files, Pending,
     Resting, IsCtrl, Has, Collecting, Started, IsStream, IsNew, IsPaired, Fits, StrangerAmong,
     Holds, SizeIsAsAsked, Foreign, Streams, StreamsToRec
<1>3. Leaked(fds)' = Leaked(fds)
  BY DEF Leaked
<1>4. LeakInv(fds, ghost.failures)'
  <2>1. Cardinality(Leaked(fds)) <= 2 * ghost.failures
    BY DEF Inv, LeakInv
  <2>2. Cardinality(Leaked(fds)) <= 2 * ghost'.failures
    BY <1>1, <2>1
  <2> QED BY <1>3, <2>2 DEF LeakInv
<1> QED BY <1>1, <1>2, <1>4 DEF Inv, TypeInv

\* Nothing is said and nothing is made.
LEMMA SameMeeting ==
  ASSUME MeetInv, UNCHANGED <<conf, fds, srv, net>>, Made' = Made
  PROVE  MeetInv'
BY DEF MeetInv, HelloQueue, Waits, Met, Greetings, ConnectionQueue, Ordered, Replied, Foreign, Streams

\* The client gives up.
LEMMA ClientFailsInv ==
  ASSUME Inv, ClientFails, ghost' = ghost \/ Fail
  PROVE  Inv'
<1>1. UNCHANGED <<conf, fds, srv>> /\ net' = net /\ cli' = [cli EXCEPT !.state = "failed"]
  BY DEF ClientFails
<1>2. ClientInv' /\ cli' \in CliRec /\ Made' = Made
  BY <1>1, ConfSame, ClientFailed DEF Inv
<1>3. MeetInv'
  BY <1>1, <1>2, SameMeeting DEF Inv
<1>4. net' \in SUBSET Datagram
  BY <1>1, ConfSame DEF Inv
<1> QED BY <1>1, <1>2, <1>3, <1>4, ClientStep

LEMMA ClientEndsInv ==
  ASSUME Inv, RecvTimeout \/ ConnectFails \/ Interrupt \/ Finish \/ ServerGone
  PROVE  Inv'
BY ClientFailsInv DEF RecvTimeout, ConnectFails, Interrupt, Finish, ServerGone

LEMMA MadeLemma ==
  ASSUME Inv
  PROVE  /\ Made \in Nat /\ Streams \in Nat /\ conf \in Configs /\ DOMAIN cli.made = 1..Made
         /\ cli \in CliRec /\ srv \in SrvRec /\ fds \in Table /\ net \in SUBSET Datagram
         /\ Len(srv.streams) \in Nat /\ Made <= Streams
         /\ cli.made \in Seq([buf : Nat, bound : SUBSET STRING])
<1>1. Streams \in Nat /\ conf \in Configs
  BY ConfLemma DEF Inv, TypeInv
<1>2. cli \in CliRec /\ srv \in SrvRec /\ fds \in Table /\ net \in SUBSET Datagram
  BY DEF Inv, TypeInv
<1>3. cli.made \in Seq([buf : Nat, bound : SUBSET STRING]) /\ Len(cli.made) \in Nat
  BY <1>2, CliFields
<1>4. Made \in Nat /\ DOMAIN cli.made = 1..Made
  BY <1>3 DEF Made
<1>5. Len(srv.streams) \in Nat
  BY <1>2, SrvFields
<1>6. Made <= Streams
  BY DEF Inv, ClientInv
<1> QED BY <1>1, <1>2, <1>3, <1>4, <1>5, <1>6

LEMMA UdpConnectInv ==
  ASSUME Inv, UdpConnect
  PROVE  Inv'
<1> DEFINE b == UdpBuffers(cli.bufsize, MaxBuffer)
           d == [kind |-> "hello", i |-> Made + 1]
<1>1. CASE ~b.ok
  BY <1>1, ClientFailsInv DEF UdpConnect
<1>2. CASE b.ok
  <2>1. /\ cli' = [cli EXCEPT !.state = "wait", !.bufsize = b.bufsize] /\ net' = net \cup {d}
        /\ UNCHANGED <<conf, fds, srv, ghost>> /\ conf.proto = "udp" /\ cli.state = "connect"
        /\ srv.state # "PARAM_EXCHANGE"
    BY <1>2 DEF UdpConnect
  <2>2. /\ Made \in Nat /\ conf \in Configs /\ cli \in CliRec /\ net \in SUBSET Datagram
        /\ cli.bufsize \in Nat /\ MaxBuffer \in Nat /\ ClientInv /\ SizeIsAsAsked(cli.bufsize)
        /\ Made < Streams
    BY <2>1, MadeLemma, CliFields, ConstLemma DEF Inv, ClientInv
  <2>3. /\ b.bufsize \in Nat /\ b.actual = Actual(b.bufsize, MaxBuffer) /\ Holds(b.actual)
        /\ SizeIsAsAsked(b.bufsize)
    BY <1>2, <2>1, <2>2, UdpBuffersLemma
  <2> HIDE DEF b
  <2>4. /\ cli' \in CliRec /\ cli'.state = "wait" /\ cli'.bufsize = b.bufsize
        /\ cli'.made = cli.made /\ cli'.xbind = cli.xbind
    BY <2>1, <2>2, <2>3 DEF CliRec
  <2>5. d \in Datagram /\ d.kind = "hello" /\ d.i = Made + 1
    BY <2>2 DEF Datagram
  <2> HIDE DEF d
  <2>6. Made' = Made
    BY <2>4 DEF Made
  <2>7. ClientInv'
    BY <2>1, <2>2, <2>3, <2>4, <2>6
       DEF ClientInv, Streams, Holds, Actual, SizeIsAsAsked
  <2>8. MeetInv'
    <3>1. srv'.state = srv.state /\ conf'.proto = "udp"
      BY <2>1
    <3>2. ASSUME srv.state \in {"CREATE_STREAMS", "TEST_RUNNING"} PROVE Greetings(srv, fds)'
      <4>1. Greetings(srv, fds)
        BY <2>1, <3>2 DEF Inv, MeetInv
      <4>2. /\ Replied(srv)' = Replied(srv) /\ srv' = srv /\ fds' = fds /\ Streams' = Streams
            /\ Foreign' = Foreign /\ \A i : Met(fds, i)' = Met(fds, i)
        BY <2>1 DEF Replied, Streams, Foreign, Met
      <4>3. 0 < d.i /\ d.i <= Made + 1 /\ d.i <= Streams
        BY <2>2, <2>5, MadeLemma
      <4>4. \A e \in net' :
              /\ 0 < e.i /\ e.i <= Streams
              /\ IF e.kind = "hello" THEN e.i <= Made + 1 ELSE e.i <= Replied(srv) /\ Met(fds, e.i)
        BY <2>1, <2>5, <4>1, <4>3 DEF Greetings
      <4>5. srv.pc = "announce" =>
              \/ fds[srv.s].peer = Foreign
              \/ /\ fds[srv.s].peer = Made + 1
                 /\ \A e \in net' : e.kind = "reply" => e.i # Made + 1
        BY <2>1, <2>5, <4>1 DEF Greetings
      <4> QED BY <2>6, <4>1, <4>2, <4>4, <4>5 DEF Greetings
    <3>3. ASSUME srv.state = "CREATE_STREAMS" PROVE HelloQueue(srv, fds)'
      <4>1. HelloQueue(srv, fds)
        BY <2>1, <3>3 DEF Inv, MeetInv
      <4> QED BY <2>1, <2>6, <4>1 DEF HelloQueue, Waits, Met, Streams
    <3> QED BY <2>1, <3>1, <3>2, <3>3 DEF MeetInv
  <2>9. net' \in SUBSET Datagram
    BY <2>1, <2>2, <2>5
  <2> QED BY <2>1, <2>4, <2>7, <2>8, <2>9, ClientStep
<1> QED BY <1>1, <1>2

\* One stream more.
LEMMA AddClientStreamLemma ==
  ASSUME Inv, NEW sock, sock \in [buf : Nat, bound : SUBSET STRING], Made < Streams,
         sock.bound = ToSet(conf.xbind), Holds(sock.buf), NEW n, n = AddClientStream(sock)
  PROVE  /\ n \in CliRec /\ Len(n.made) = Made + 1 /\ n.bufsize = cli.bufsize
         /\ n.xbind = cli.xbind /\ n.state \in {"created", "connect"}
         /\ n.state = "connect" => Made + 1 < Streams
         /\ \A k \in 1..Made + 1 : n.made[k].bound = ToSet(conf.xbind) /\ Holds(n.made[k].buf)
<1>1. /\ Made \in Nat /\ Streams \in Nat /\ cli \in CliRec
      /\ cli.made \in Seq([buf : Nat, bound : SUBSET STRING]) /\ Made = Len(cli.made)
  BY MadeLemma DEF Made
<1> DEFINE m == Append(cli.made, sock)
           s == IF Made + 1 = Streams THEN "created" ELSE "connect"
<1>2. /\ m \in Seq([buf : Nat, bound : SUBSET STRING]) /\ Len(m) = Made + 1
      /\ \A k \in 1..Made : m[k] = cli.made[k]
      /\ m[Made + 1] = sock
  BY <1>1
<1>3. n = [cli EXCEPT !.made = m, !.state = s]
  BY DEF AddClientStream
<1>4. s \in {"created", "connect"} /\ (s = "connect" => Made + 1 < Streams)
  BY <1>1
<1> HIDE DEF m, s
<1>5. /\ n \in CliRec /\ n.made = m /\ n.state = s /\ n.bufsize = cli.bufsize
      /\ n.xbind = cli.xbind
  BY <1>1, <1>2, <1>3, <1>4 DEF CliRec
<1>6. ASSUME NEW k \in 1..Made + 1
      PROVE  m[k].bound = ToSet(conf.xbind) /\ Holds(m[k].buf)
  <2>1. CASE k = Made + 1
    BY <1>2, <2>1
  <2>2. CASE k # Made + 1
    <3>1. k \in 1..Made
      BY <1>1, <2>2
    <3> QED BY <1>2, <3>1 DEF Inv, ClientInv
  <2> QED BY <2>1, <2>2
<1> QED BY <1>2, <1>4, <1>5, <1>6

LEMMA UdpConnectedInv ==
  ASSUME Inv, UdpConnected
  PROVE  Inv'
<1> DEFINE sock == [buf |-> Actual(cli.bufsize, MaxBuffer), bound |-> {}]
           d == [kind |-> "reply", i |-> Made + 1]
<1>1. /\ cli.state = "wait" /\ d \in net /\ cli' = AddClientStream(sock)
      /\ UNCHANGED <<conf, fds, srv, net, ghost>>
  BY DEF UdpConnected
<1>2. d.kind = "reply" /\ d.i = Made + 1
  OBVIOUS
<1> HIDE DEF d
<1>3. /\ Made \in Nat /\ Streams \in Nat /\ conf \in Configs /\ cli.bufsize \in Nat
      /\ MaxBuffer \in Nat /\ Made < Streams /\ conf.proto = "udp"
      /\ Holds(Actual(cli.bufsize, MaxBuffer)) /\ cli \in CliRec
      /\ cli.xbind = conf.xbind /\ SizeIsAsAsked(cli.bufsize) /\ net \in SUBSET Datagram
  BY <1>1, MadeLemma, CliFields, ConstLemma DEF Inv, ClientInv
<1>4. /\ sock \in [buf : Nat, bound : SUBSET STRING] /\ sock.bound = ToSet(conf.xbind)
      /\ Holds(sock.buf)
  <2>1. ToSet(conf.xbind) = {}
    BY <1>3, ConfLemma DEF ToSet
  <2> QED BY <1>3, <2>1, ActualLemma
<1> HIDE DEF sock
<1>5. /\ cli' \in CliRec /\ Len(cli'.made) = Made + 1 /\ cli'.bufsize = cli.bufsize
      /\ cli'.xbind = cli.xbind /\ cli'.state \in {"created", "connect"}
      /\ cli'.state = "connect" => Made + 1 < Streams
      /\ \A k \in 1..Made + 1 : cli'.made[k].bound = ToSet(conf.xbind) /\ Holds(cli'.made[k].buf)
  BY <1>1, <1>3, <1>4, AddClientStreamLemma
<1>6. Made' = Made + 1
  BY <1>5 DEF Made
<1>7. ClientInv'
  BY <1>1, <1>3, <1>5, <1>6 DEF ClientInv, Streams, Holds, SizeIsAsAsked
<1>8. MeetInv'
  <2>1. /\ Replied(srv)' = Replied(srv) /\ srv' = srv /\ fds' = fds /\ net' = net
        /\ Streams' = Streams /\ Foreign' = Foreign /\ \A i : Met(fds, i)' = Met(fds, i)
    BY <1>1 DEF Replied, Streams, Foreign, Met
  <2>2. ASSUME srv.state \in {"CREATE_STREAMS", "TEST_RUNNING"}
        PROVE  /\ Made + 1 <= Replied(srv) /\ Met(fds, Made + 1) /\ Greetings(srv, fds)
    <3>1. Greetings(srv, fds)
      BY <1>3, <2>2 DEF Inv, MeetInv
    <3> QED BY <1>1, <1>2, <3>1 DEF Greetings
  <2>3. ASSUME srv.state \in {"CREATE_STREAMS", "TEST_RUNNING"} PROVE Greetings(srv, fds)'
    <3>1. /\ Made + 1 <= Replied(srv) /\ Met(fds, Made + 1) /\ Greetings(srv, fds)
      BY <2>2, <2>3
    <3>2. \A e \in net : e.i \in Nat
      BY <1>3 DEF Datagram
    <3>3. \A e \in net :
            /\ 0 < e.i /\ e.i <= Streams
            /\ IF e.kind = "hello" THEN e.i <= (Made + 1) + 1 ELSE e.i <= Replied(srv) /\ Met(fds, e.i)
      BY <1>3, <3>1, <3>2 DEF Greetings
    <3>4. \A i \in 1..Made + 1 : Met(fds, i)
      <4>1. \A i \in 1..Made + 1 : i \in 1..Made \/ i = Made + 1
        BY <1>3
      <4> QED BY <3>1, <4>1 DEF Greetings
    <3>5. \A n \in FD : fds[n].peer = Foreign \/ fds[n].peer <= (Made + 1) + 1
      <4>1. \A n \in FD : fds[n].peer \in Nat
        BY MadeLemma DEF Table, Sock
      <4> QED BY <1>3, <3>1, <4>1 DEF Greetings
    <3>6. srv.pc = "announce" => fds[srv.s].peer = Foreign
      BY <1>1, <1>2, <3>1 DEF Greetings
    <3> QED BY <1>6, <2>1, <3>1, <3>3, <3>4, <3>5, <3>6 DEF Greetings
  <2>4. ASSUME srv.state = "CREATE_STREAMS" PROVE HelloQueue(srv, fds)'
    <3>1. HelloQueue(srv, fds) /\ Met(fds, Made + 1)
      BY <1>3, <2>2, <2>4 DEF Inv, MeetInv
    <3> QED BY <2>1, <3>1 DEF HelloQueue, Waits
  <2>5. srv.state # "PARAM_EXCHANGE"
    BY <1>1, <1>2 DEF Inv, MeetInv
  <2> QED BY <1>1, <1>3, <2>3, <2>4, <2>5 DEF MeetInv
<1> QED BY <1>1, <1>3, <1>5, <1>7, <1>8, ClientStep

-----------------------------------------------------------------------------
(* What only adds to the queues of the sockets *)

\* g is f but for what waits.
SameSockets(g, f) ==
  /\ g \in Table
  /\ \A n \in FD : g[n].kind = f[n].kind /\ g[n].peer = f[n].peer /\ g[n].buf = f[n].buf

LEMMA SameSocketsLemma ==
  ASSUME NEW f \in Table, NEW g, SameSockets(g, f)
  PROVE  OpenFds(g) = OpenFds(f) /\ Leaked(g) = Leaked(f) /\ g \in Table
<1>1. Leaked(g) = Leaked(f) /\ g \in Table
  BY DEF SameSockets, Leaked
<1>2. OpenFds(g) = OpenFds(f)
  BY <1>1, OpenLemma DEF SameSockets
<1> QED BY <1>1, <1>2

Queued(f, n, i) == [f EXCEPT ![n].q = Append(@, i)]

LEMMA QueuedLemma ==
  ASSUME NEW f \in Table, NEW n \in FD, NEW i \in Nat, NEW g, g = Queued(f, n, i)
  PROVE  SameSockets(g, f) /\ g[n].q = Append(f[n].q, i) /\ \A m \in FD : m # n => g[m] = f[m]
<1>1. f[n] \in Sock /\ f[n].q \in Seq(Nat)
  BY DEF Table, Sock
<1>2. Append(f[n].q, i) \in Seq(Nat)
  BY <1>1
<1>3. /\ g[n] \in Sock /\ g[n].q = Append(f[n].q, i) /\ g[n].kind = f[n].kind
      /\ g[n].peer = f[n].peer /\ g[n].buf = f[n].buf
  BY <1>1, <1>2 DEF Queued, Table, Sock
<1>4. g \in Table /\ \A m \in FD : m # n => g[m] = f[m]
  BY <1>3 DEF Queued, Table
<1> QED BY <1>3, <1>4 DEF SameSockets

\* The sockets themselves stay what they are for the server.
LEMMA SameServer ==
  ASSUME Inv, UNCHANGED <<conf, srv>>, SameSockets(fds', fds),
         srv.state \in {"CREATE_STREAMS", "TEST_RUNNING"}
  PROVE  ServerInv(srv, fds)' /\ fds' \in Table /\ LeakInv(fds', ghost.failures)
<1>1. /\ OpenFds(fds') = OpenFds(fds) /\ Leaked(fds') = Leaked(fds) /\ fds' \in Table
      /\ fds \in Table /\ srv \in SrvRec
  BY ConfSame, SameSocketsLemma DEF Inv
<1>2. OpenFds(fds)' = OpenFds(fds) /\ Leaked(fds)' = Leaked(fds)
  BY <1>1 DEF OpenFds, IsOpen, Leaked
<1>3. Accounted(srv, fds)' /\ srv'.read_set \subseteq OpenFds(fds)'
  BY <1>2, PlaceLemma DEF Accounted, Owned, StreamFds, Files, Pending
<1>4. Has(srv, fds)'
  <2>1. Has(srv, fds) /\ Len(srv.streams) \in Nat
    BY <1>1, PlaceLemma, SrvFields
  <2>2. ASSUME NEW k \in 1..Len(srv.streams) + 1, NEW p, IsPaired(srv, fds, k, p),
               \A j \in 1..Len(srv.streams) : fds'[srv.streams[j].fd].peer = fds[srv.streams[j].fd].peer
        PROVE  IsPaired(srv, fds, k, p)'
    <3>1. k \in Nat /\ \A j \in 1..k - 1 : j \in 1..Len(srv.streams)
      BY <2>1
    <3>2. IsPaired(srv, fds', k, p)
      BY <2>2, <3>1, PairedLemma
    <3> QED BY <3>2 DEF IsPaired, StrangerAmong, Foreign, Streams
  <2>3. \A k \in 1..Len(srv.streams) : IsStream(srv, fds, k)'
    <3>1. StreamsToRec' = StreamsToRec /\ conf' = conf /\ srv' = srv
      BY DEF StreamsToRec
    <3> SUFFICES ASSUME NEW k \in 1..Len(srv.streams)
                 PROVE  /\ IsStream(srv, fds, k)
                        /\ IsPaired(srv, fds, k, fds[srv.streams[k].fd].peer)'
                        /\ LET a == srv.streams[k].fd
                               b == srv.streams[k].file
                           IN  /\ fds'[a].kind = fds[a].kind /\ fds'[a].peer = fds[a].peer
                               /\ fds'[a].buf = fds[a].buf /\ fds'[b].kind = fds[b].kind
      BY <3>1 DEF IsStream, Holds
    <3>2. IsStream(srv, fds, k)
      BY <2>1 DEF Has
    <3>3. \A j \in 1..Len(srv.streams) : srv.streams[j].fd \in FD /\ srv.streams[j].file \in FD
      BY <1>1, SrvFields
    <3>4. \A j \in 1..Len(srv.streams) : fds'[srv.streams[j].fd].peer = fds[srv.streams[j].fd].peer
      BY <3>3 DEF SameSockets
    <3>5. IsPaired(srv, fds, k, fds[srv.streams[k].fd].peer)'
      <4>1. IsPaired(srv, fds, k, fds[srv.streams[k].fd].peer)
        BY <3>2 DEF IsStream
      <4> QED BY <2>2, <3>4, <4>1
    <3> QED BY <3>2, <3>3, <3>5 DEF SameSockets
  <2>4. IsCtrl(srv, fds)'
    BY <2>1 DEF Has, IsCtrl, SameSockets
  <2>5. \A n \in FD : Fits(fds[n].peer)'
    BY <2>1 DEF Has, SameSockets, Fits, Streams, Foreign
  <2> QED BY <2>1, <2>3, <2>4, <2>5 DEF Has, StreamsToRec, Streams
<1>5. srv.state = "CREATE_STREAMS" => Collecting(srv, fds)'
  <2>1. srv.state = "CREATE_STREAMS" => Collecting(srv, fds)
    BY PlaceLemma
  <2> SUFFICES ASSUME srv.state = "CREATE_STREAMS" PROVE Collecting(srv, fds)'
    OBVIOUS
  <2>2. Has(srv, fds) /\ Len(srv.streams) \in Nat
    BY <1>1, PlaceLemma, SrvFields
  <2>3. ASSUME srv.pc # "loop" PROVE IsNew(srv, fds, srv.s)'
    <3>1. IsNew(srv, fds, srv.s)
      BY <2>1, <2>3 DEF Collecting
    <3>2. \A j \in 1..Len(srv.streams) : fds'[srv.streams[j].fd].peer = fds[srv.streams[j].fd].peer
      BY <1>1, SrvFields DEF SameSockets
    <3>3. Len(srv.streams) + 1 \in Nat /\ (Len(srv.streams) + 1) - 1 = Len(srv.streams)
      BY <2>2
    <3>4. IsPaired(srv, fds', Len(srv.streams) + 1, fds[srv.s].peer)
      BY <3>1, <3>2, <3>3, PairedLemma DEF IsNew
    <3>5. /\ fds'[srv.s].peer = fds[srv.s].peer /\ fds'[srv.s].kind = fds[srv.s].kind
          /\ fds'[srv.s].buf = fds[srv.s].buf
      BY <3>1 DEF IsNew, SameSockets
    <3>6. IsPaired(srv, fds, Len(srv.streams) + 1, fds[srv.s].peer)'
      BY <3>4, <3>5 DEF IsPaired, StrangerAmong, Foreign, Streams
    <3> QED BY <3>1, <3>5, <3>6 DEF IsNew, Holds
  <2> QED BY <2>1, <2>3 DEF Collecting, SameSockets, Streams
<1>6. srv.state = "TEST_RUNNING" => Started(srv, fds)'
  <2>1. srv.state = "TEST_RUNNING" => Started(srv, fds)
    BY PlaceLemma
  <2> QED BY <2>1 DEF Started, Streams
<1>7. SizeIsAsAsked(srv.bufsize)'
  BY PlaceLemma DEF SizeIsAsAsked
<1>8. LeakInv(fds', ghost.failures)
  BY <1>1, PlaceLemma DEF LeakInv
<1> QED BY <1>1, <1>3, <1>4, <1>5, <1>6, <1>7, <1>8 DEF ServerInv

\* The sequence w with i at its end.
LEMMA AppendFacts ==
  ASSUME NEW w \in Seq(Nat), NEW i \in Nat, NEW v, v = Append(w, i)
  PROVE  /\ v \in Seq(Nat) /\ Len(w) \in Nat /\ DOMAIN w = 1..Len(w)
         /\ DOMAIN v = 1..Len(w) + 1 /\ v[Len(w) + 1] = i
         /\ \A j \in DOMAIN w : v[j] = w[j] /\ w[j] \in Nat
         /\ \A j \in DOMAIN v : j \in DOMAIN w \/ j = Len(w) + 1
OBVIOUS

\* What is connected stays connected, and nothing else becomes so.
KeepsPeers(g, f) ==
  \A n \in FD : \/ g[n].kind = f[n].kind /\ g[n].peer = f[n].peer
                \/ g[n].peer = 0 /\ ~(f[n].kind = "udp" /\ f[n].peer # 0)

LEMMA MetLemma ==
  ASSUME NEW f, NEW g, KeepsPeers(g, f), NEW i, i # 0
  PROVE  Met(g, i) <=> Met(f, i)
<1>1. Met(g, i) => Met(f, i)
  BY DEF Met, KeepsPeers
<1>2. Met(f, i) => Met(g, i)
  BY DEF Met, KeepsPeers
<1> QED BY <1>1, <1>2

LEMMA GreetingsLemma ==
  ASSUME Inv, conf.proto = "udp", srv.state \in {"CREATE_STREAMS", "TEST_RUNNING"},
         conf' = conf, Made' = Made, net' \subseteq net, KeepsPeers(fds', fds),
         Replied(srv)' = Replied(srv),
         srv'.pc = "announce" =>
           srv.pc = "announce" /\ srv'.s = srv.s /\ fds'[srv.s].peer = fds[srv.s].peer
  PROVE  Greetings(srv, fds)'
<1>1. Greetings(srv, fds)
  BY DEF Inv, MeetInv
<1>2. Made \in Nat /\ Foreign' = Foreign /\ Streams' = Streams
  BY MadeLemma DEF Foreign, Streams
<1>3. \A i : i # 0 => (Met(fds, i)' <=> Met(fds, i))
  BY MetLemma DEF Met
<1>4. \A d \in net' :
        /\ 0 < d.i /\ d.i <= Streams
        /\ IF d.kind = "hello" THEN d.i <= Made + 1 ELSE d.i <= Replied(srv) /\ Met(fds, d.i)'
  <2> SUFFICES ASSUME NEW d \in net
               PROVE  /\ 0 < d.i /\ d.i <= Streams
                      /\ IF d.kind = "hello" THEN d.i <= Made + 1
                         ELSE d.i <= Replied(srv) /\ Met(fds, d.i)'
    OBVIOUS
  <2>1. d.i \in Nat
    BY MadeLemma DEF Datagram
  <2>2. /\ 0 < d.i /\ d.i <= Streams
        /\ IF d.kind = "hello" THEN d.i <= Made + 1 ELSE d.i <= Replied(srv) /\ Met(fds, d.i)
    BY <1>1 DEF Greetings
  <2>3. Met(fds, d.i)' <=> Met(fds, d.i)
    BY <1>3, <2>1, <2>2
  <2> QED BY <2>2, <2>3
<1>5. \A i \in 1..Made : Met(fds, i)'
  <2>1. \A i \in 1..Made : i # 0
    BY <1>2
  <2> QED BY <1>1, <1>3, <2>1 DEF Greetings
<1>6. \A n \in FD : fds'[n].peer = Foreign \/ fds'[n].peer <= Made + 1
  BY <1>1, <1>2 DEF Greetings, KeepsPeers
<1>7. srv'.pc = "announce" =>
        \/ fds'[srv'.s].peer = Foreign
        \/ /\ fds'[srv'.s].peer = Made + 1
           /\ \A d \in net' : d.kind = "reply" => d.i # Made + 1
  BY <1>1 DEF Greetings
<1> QED BY <1>1, <1>2, <1>4, <1>5, <1>6, <1>7 DEF Greetings

\* What waits for the server may go on waiting.
LEMMA WaitsLemma ==
  ASSUME Inv, conf' = conf, Made' = Made, KeepsPeers(fds', fds), NEW i, Waits(fds, i)
  PROVE  Waits(fds, i)'
<1>1. Made \in Nat /\ Made + 1 # 0 /\ Streams' = Streams
  BY MadeLemma DEF Streams
<1>2. Met(fds, Made + 1)' <=> Met(fds, Made + 1)
  BY <1>1, MetLemma DEF Met
<1> QED BY <1>1, <1>2 DEF Waits, Met

\* A datagram more waits on the listening socket, or none.
LEMMA QueueLemma ==
  ASSUME Inv, conf.proto = "udp", srv.state = "CREATE_STREAMS", UNCHANGED <<conf, srv>>,
         Made' = Made, net' \subseteq net, SameSockets(fds', fds), NEW i \in Nat,
         LET p == srv.prot_listener
         IN  srv.pc # "announce" =>
               \/ fds'[p].q = fds[p].q
               \/ fds'[p].q = Append(fds[p].q, i) /\ Waits(fds, i)
  PROVE  MeetInv'
<1>1. KeepsPeers(fds', fds)
  BY DEF SameSockets, KeepsPeers
<1>2. HelloQueue(srv, fds)'
  <2> DEFINE p == srv.prot_listener
             w == fds[p].q
             v == fds'[p].q
  <2> SUFFICES ASSUME srv.pc # "announce", NEW j \in DOMAIN v
               PROVE  Waits(fds, v[j])
    BY <1>1, WaitsLemma DEF HelloQueue
  <2>1. \A k \in DOMAIN w : Waits(fds, w[k])
    BY DEF Inv, MeetInv, HelloQueue
  <2>2. w \in Seq(Nat)
    <3>1. p \in FD /\ fds \in Table
      BY PlaceLemma, MadeLemma DEF Collecting
    <3> QED BY <3>1 DEF Table, Sock
  <2>3. CASE v = w
    BY <2>1, <2>3
  <2>4. CASE v = Append(w, i) /\ Waits(fds, i)
    <3> HIDE DEF w, v
    <3>1. /\ v[Len(w) + 1] = i /\ \A k \in DOMAIN w : v[k] = w[k]
          /\ \A k \in DOMAIN v : k \in DOMAIN w \/ k = Len(w) + 1
      BY <2>2, <2>4, AppendFacts
    <3> QED BY <2>1, <2>4, <3>1
  <2> QED BY <2>3, <2>4
<1>3. Greetings(srv, fds)'
  <2>1. Replied(srv)' = Replied(srv)
    BY DEF Replied
  <2>2. srv.pc = "announce" => fds'[srv.s].peer = fds[srv.s].peer
    <3>1. srv.pc = "announce" => srv.s \in FD
      BY PlaceLemma DEF Collecting, IsNew
    <3> QED BY <3>1 DEF SameSockets
  <2> QED BY <1>1, <2>1, <2>2, GreetingsLemma
<1> QED BY <1>2, <1>3 DEF MeetInv

\* A connection or a datagram of a stranger.
LEMMA StrangerInv ==
  ASSUME Inv, Stranger
  PROVE  Inv'
<1> DEFINE l == srv.listener
           w == fds[l].q
           v == fds'[l].q
<1>1. /\ srv.state = "CREATE_STREAMS" /\ UNCHANGED <<conf, srv, cli, net>>
      /\ ghost' = [ghost EXCEPT !.copies = @ + 1]
  BY DEF Stranger
<1>2. PICK n \in IF conf.proto = "udp" THEN Receivers(0) ELSE {l} : fds' = Queued(fds, n, 0)
  BY DEF Stranger, Queued
<1>3. n \in FD /\ fds \in Table /\ l \in FD
  <2>1. l \in FD /\ fds \in Table
    BY <1>1, ConfSame, PlaceLemma DEF Collecting, Inv
  <2>2. n \in OpenFds(fds) \/ n = l
    BY <1>2 DEF Receivers
  <2> QED BY <2>1, <2>2, OpenLemma
<1>4. /\ SameSockets(fds', fds) /\ fds'[n].q = Append(fds[n].q, 0)
      /\ \A m \in FD : m # n => fds'[m] = fds[m]
  <2>1. 0 \in Nat
    OBVIOUS
  <2> QED BY <1>2, <2>1, <1>3, QueuedLemma
<1>5. ServerInv(srv, fds)' /\ fds' \in Table /\ LeakInv(fds', ghost.failures)
  BY <1>1, <1>4, SameServer
<1>6. ghost' \in GhostRec /\ ghost'.failures = ghost.failures
  BY <1>1, ConfSame DEF Inv, GhostRec
<1>7. ClientInv' /\ cli' \in CliRec /\ Made' = Made
  BY <1>1, ConfSame, ClientFailed DEF Inv
<1>8. LeakInv(fds, ghost.failures)'
  BY <1>5, <1>6 DEF LeakInv, Leaked
<1>9. MeetInv' => Inv'
  BY <1>1, <1>5, <1>6, <1>7, <1>8, ConfSame DEF Inv, TypeInv
<1>10. CASE conf.proto = "udp"
  <2>1. fds'[srv.prot_listener].q = fds[srv.prot_listener].q
        \/ fds'[srv.prot_listener].q = Append(fds[srv.prot_listener].q, 0)
    <3>1. srv.prot_listener \in FD
      BY <1>1, <1>10, PlaceLemma DEF Collecting
    <3> QED BY <1>4, <3>1
  <2>2. Waits(fds, 0) /\ 0 \in Nat /\ net' \subseteq net
    BY <1>1 DEF Waits
  <2>3. MeetInv'
    BY <1>1, <1>4, <1>7, <1>10, <2>1, <2>2, QueueLemma
  <2> QED BY <1>9, <2>3
<1>11. CASE conf.proto # "udp"
  <2>1. n = l /\ w \in Seq(Nat) /\ v = Append(w, 0) /\ fds[l].q = w /\ l = srv.listener
    BY <1>1, <1>2, <1>4, <1>11, <1>3 DEF Table, Sock
  <2>2. ConnectionQueue(srv, fds)'
    <3>1. ConnectionQueue(srv, fds)
      BY <1>1, <1>11 DEF Inv, MeetInv
    <3> HIDE DEF w, v, l
    <3>2. /\ Len(w) \in Nat /\ DOMAIN w = 1..Len(w)
          /\ DOMAIN v = 1..Len(w) + 1 /\ v[Len(w) + 1] = 0
          /\ \A j \in DOMAIN w : v[j] = w[j] /\ w[j] \in Nat
          /\ \A j \in DOMAIN v : j \in DOMAIN w \/ j = Len(w) + 1
      BY <2>1, AppendFacts
    <3>3. Ordered(v)
      BY <3>1, <3>2 DEF ConnectionQueue, Ordered, w, l
    <3>4. \A i \in Nat \ {0} : (\E j \in DOMAIN v : v[j] = i) <=> (\E j \in DOMAIN w : w[j] = i)
      BY <3>2
    <3>5. \A i \in Nat \ {0} : (\E j \in DOMAIN v : v[j] = i) <=> (Len(srv.streams) < i /\ i <= Made)
      BY <3>1, <3>4 DEF ConnectionQueue, w, l
    <3>6. fds'[srv'.listener].q = v /\ srv' = srv /\ Made' = Made
      BY <1>1, <1>7 DEF v, l
    <3>7. Ordered(fds[srv.listener].q)'
      BY <3>3, <3>6 DEF Ordered
    <3>8. Len(srv'.streams) <= Made'
      BY <3>1, <3>6 DEF ConnectionQueue
    <3>9. \A i \in Nat \ {0} :
            (\E j \in DOMAIN fds'[srv'.listener].q : fds'[srv'.listener].q[j] = i)
              <=> (Len(srv'.streams) < i /\ i <= Made')
      BY <3>5, <3>6
    <3> QED BY <3>7, <3>8, <3>9 DEF ConnectionQueue
  <2>3. MeetInv'
    BY <1>1, <1>7, <1>11, <2>2 DEF Inv, MeetInv
  <2> QED BY <1>9, <2>3
<1> QED BY <1>10, <1>11

\* What holds of the next test and its descriptors holds in the next state.
LEMMA NextServer ==
  ASSUME conf' = conf, NEW t, NEW f, srv' = t, fds' = f, ServerInv(t, f)
  PROVE  ServerInv(srv, fds)'
BY DEF ServerInv, Accounted, OpenFds, IsOpen, Leaked, Owned, StreamFds, Files, Pending,
   Resting, IsCtrl, Has, Collecting, Started, IsStream, IsNew, IsPaired, Fits, StrangerAmong,
   Holds, SizeIsAsAsked, Foreign, Streams, StreamsToRec

-----------------------------------------------------------------------------
(* The start of a test *)

LEMMA StartTestInv ==
  ASSUME Inv, StartTest
  PROVE  Inv'
<1> DEFINE n == NextFd(fds)
           x == Socket("ctrl", 0, 0)
<1>1. /\ srv.state = "IPERF_START" /\ conf' \in Configs /\ net' = {} /\ ghost' = ghost
      /\ fds' = [fds EXCEPT ![n] = x]
      /\ srv' = [srv EXCEPT !.state = "PARAM_EXCHANGE", !.ctrl_sck = n,
                            !.read_set = @ \cup {n}, !.tests = @ + 1, !.bufsize = conf'.bufsize]
      /\ cli' = [state |-> "connect", made |-> <<>>, bufsize |-> conf'.bufsize,
                 xbind |-> conf'.xbind]
  BY DEF StartTest
<1>2. /\ conf \in Configs /\ fds \in Table /\ srv \in SrvRec /\ ghost \in GhostRec
      /\ ghost.failures \in 0..MaxFailures /\ srv.streams \in Seq(StreamRec)
  BY ConfSame, SrvFields DEF Inv
<1>3. /\ Resting(srv, fds) /\ srv.ctrl_sck = -1 /\ Accounted(srv, fds)
      /\ srv.read_set \subseteq OpenFds(fds) /\ LeakInv(fds, ghost.failures)
  BY <1>1 DEF Inv, ServerInv
<1>4. /\ conf'.bufsize \in Nat /\ conf'.xbind \in Seq(STRING) /\ Streams' \in Nat /\ Streams' > 0
  <2>1. /\ conf'.streams \in Nat \ {0} /\ {conf'.bufsize, conf'.srvmax} \subseteq Nat
        /\ conf'.xbind \in Seq(STRING)
    BY <1>1, ConfigsAssumption
  <2>2. Streams' = IF conf'.mode = "bidir" THEN 2 * conf'.streams ELSE conf'.streams
    BY DEF Streams, StreamsOf
  <2> QED BY <2>1, <2>2
<1>5. IsNext(fds, n)
  <2>1. Len(srv.streams) < Streams
    BY <1>2, <1>3, ConfLemma DEF Resting
  <2>2. OpenFds(fds) \subseteq Leaked(fds) \cup Owned(srv) \cup {0}
    BY <1>3 DEF Accounted, Pending, Resting
  <2> QED BY <1>2, <1>3, <2>1, <2>2, RoomLemma
<1>6. x \in Sock /\ x.kind = "ctrl" /\ x.peer = 0
  <2>1. "ctrl" \in Kind /\ 0 \in Nat
    BY DEF Kind
  <2> QED BY <2>1, SockLemma
<1> HIDE DEF n, x
<1>7. IsOpened(fds', fds, n, x)
  BY <1>1, <1>2, <1>5, <1>6, OpenedLemma
<1>8. n \in FD /\ n \in Int
  BY <1>2, <1>7, OpenLemma DEF IsOpened
<1>9. /\ srv' \in SrvRec /\ srv'.state = "PARAM_EXCHANGE" /\ srv'.ctrl_sck = n
      /\ srv'.read_set = srv.read_set \cup {n} /\ srv'.bufsize = conf'.bufsize
      /\ srv'.pc = srv.pc /\ srv'.streams = srv.streams /\ srv'.rec = srv.rec
      /\ srv'.snd = srv.snd /\ srv'.listener = srv.listener
      /\ srv'.prot_listener = srv.prot_listener
  <2>1. srv.read_set \cup {n} \in SUBSET Int /\ srv.tests + 1 \in Nat
    BY <1>2, <1>8, SrvFields
  <2> QED BY <1>1, <1>2, <1>4, <1>8, <2>1 DEF SrvRec
<1>10. OpenFds(fds)' = OpenFds(fds) \cup {n} /\ Leaked(fds)' = Leaked(fds)
  BY <1>7 DEF IsOpened, OpenFds, IsOpen, Leaked
<1>11. Accounted(srv, fds)' /\ srv'.read_set \subseteq OpenFds(fds)'
  <2>1. srv.ctrl_sck \notin OpenFds(fds)
    BY <1>2, <1>3, OpenLemma
  <2>2. OpenFds(fds) \subseteq Leaked(fds) \cup StreamFds(srv) \cup Files(srv)
                                 \cup {srv.listener, srv.prot_listener}
    BY <1>3, <2>1 DEF Accounted, Owned, Pending, Resting
  <2>3. StreamFds(srv)' = StreamFds(srv) /\ Files(srv)' = Files(srv)
    BY <1>9 DEF StreamFds, Files
  <2> QED BY <1>3, <1>9, <1>10, <2>2, <2>3 DEF Accounted, Owned
<1>12. Resting(srv, fds)'
  <2>1. srv.listener \in OpenFds(fds)
    <3>1. Socket("tcp", 0, DefaultBuffer).kind = "tcp"
      BY SockLemma, ConstLemma DEF Kind
    <3> QED BY <1>2, <1>3, <3>1, OpenLemma DEF Resting
  <2>2. fds'[srv.listener] = fds[srv.listener]
    BY <1>3, <1>7, <2>1 DEF IsOpened, Resting
  <2>3. \A k \in 1..srv.listener - 1 : IsOpen(fds, k)'
    <3>1. \A k : IsOpen(fds, k) => IsOpen(fds, k)'
      BY <1>2, <1>7, OpenLemma DEF IsOpened
    <3> QED BY <1>3, <3>1 DEF Resting
  <2>4. \A k \in FD : fds'[k].peer = 0 /\ fds'[k].kind # "udp"
    BY <1>3, <1>6, <1>7 DEF IsOpened, Resting
  <2> QED BY <1>3, <1>9, <2>2, <2>3, <2>4 DEF Resting
<1>13. IsCtrl(srv, fds)'
  BY <1>6, <1>7, <1>8, <1>9 DEF IsCtrl, IsOpened
<1>14. SizeIsAsAsked(srv.bufsize)' /\ SizeIsAsAsked(cli.bufsize)'
  BY <1>1, <1>9 DEF SizeIsAsAsked
<1>15. ServerInv(srv, fds)'
  BY <1>9, <1>11, <1>12, <1>13, <1>14 DEF ServerInv
<1>16. LeakInv(fds, ghost.failures)'
  BY <1>1, <1>3, <1>10 DEF LeakInv
<1>17. Made' = 0 /\ cli'.state = "connect" /\ cli'.xbind = conf'.xbind /\ cli'.made = <<>>
  BY <1>1 DEF Made
<1>18. ClientInv'
  BY <1>4, <1>14, <1>17 DEF ClientInv
<1>19. MeetInv'
  BY <1>1, <1>9, <1>17 DEF MeetInv
<1>20. cli' \in CliRec
  BY <1>1, <1>4 DEF CliRec
<1> QED BY <1>1, <1>2, <1>7, <1>9, <1>15, <1>16, <1>18, <1>19, <1>20 DEF Inv, TypeInv, IsOpened

-----------------------------------------------------------------------------
(* The connections of TCP and SCTP *)

LEMMA TailFacts ==
  ASSUME NEW S, NEW x \in Seq(S), x # <<>>
  PROVE  /\ Len(x) \in Nat /\ Len(x) > 0 /\ Head(x) = x[1] /\ Tail(x) \in Seq(S)
         /\ Head(x) \in S /\ Len(Tail(x)) = Len(x) - 1 /\ DOMAIN x = 1..Len(x)
         /\ DOMAIN Tail(x) = 1..Len(x) - 1
         /\ \A j \in 1..Len(x) - 1 : Tail(x)[j] = x[j + 1]
<1>1. Len(x) \in Nat /\ Len(x) > 0 /\ DOMAIN x = 1..Len(x) /\ Head(x) = x[1]
  BY EmptySeq
<1>2. Tail(x) \in Seq(S) /\ Len(Tail(x)) = Len(x) - 1 /\ Head(x) \in S
  BY <1>1
<1>3. \A j \in 1..Len(x) - 1 : Tail(x)[j] = x[j + 1]
  BY <1>1
<1> QED BY <1>1, <1>2, <1>3

\* The list of addresses is complete again after iperf_sctp_bindx.
LEMMA BindLemma ==
  ASSUME Inv, cli.state # "failed",
         NEW b \in IF conf.xbind = <<>> THEN {[ok |-> TRUE, xbind |-> <<>>, bound |-> {}]}
                   ELSE iperf_sctp_bindx(cli.xbind), b.ok
  PROVE  b.xbind = conf.xbind /\ b.bound = ToSet(conf.xbind) /\ ToSet(conf.xbind) \subseteq STRING
<1>1. cli.xbind = conf.xbind /\ conf.xbind \in Seq(STRING)
  BY MadeLemma, ConfLemma DEF Inv, ClientInv
<1>2. ToSet(conf.xbind) \subseteq STRING
  BY <1>1 DEF ToSet
<1>3. CASE conf.xbind = <<>>
  BY <1>2, <1>3 DEF ToSet
<1>4. CASE conf.xbind # <<>>
  <2> DEFINE x == conf.xbind
             h == Head(x)
             r == Tail(x)
  <2>1. b.xbind = <<h>> \o r /\ b.bound = {h} \cup ToSet(r)
    BY <1>1, <1>4 DEF iperf_sctp_bindx
  <2>2. /\ x \in Seq(STRING) /\ Len(x) \in Nat /\ Len(x) > 0 /\ h = x[1] /\ r \in Seq(STRING)
        /\ Len(r) = Len(x) - 1 /\ \A j \in 1..Len(r) : r[j] = x[j + 1]
        /\ DOMAIN x = 1..Len(x) /\ DOMAIN r = 1..Len(r)
    BY <1>1, <1>4, TailFacts
  <2> HIDE DEF x, h, r
  <2>3. /\ <<h>> \o r \in Seq(STRING) /\ Len(<<h>> \o r) = Len(x)
        /\ \A j \in 1..Len(x) : (<<h>> \o r)[j] = x[j]
    <3>1. h \in STRING
      BY <2>2
    <3>2. <<h>> \in Seq(STRING) /\ Len(<<h>>) = 1 /\ <<h>>[1] = h
      BY <3>1
    <3>3. /\ <<h>> \o r \in Seq(STRING) /\ Len(<<h>> \o r) = 1 + Len(r)
          /\ \A j \in 1..1 + Len(r) : (<<h>> \o r)[j] = IF j <= 1 THEN <<h>>[j] ELSE r[j - 1]
      BY <2>2, <3>2
    <3>4. ASSUME NEW j \in 1..Len(x) PROVE (<<h>> \o r)[j] = x[j]
      <4>1. CASE j = 1
        BY <2>2, <3>2, <3>3, <4>1
      <4>2. CASE j # 1
        <5>1. j - 1 \in 1..Len(r) /\ j \in 1..1 + Len(r) /\ ~(j <= 1)
          BY <2>2, <4>2
        <5>2. (<<h>> \o r)[j] = r[j - 1] /\ r[j - 1] = x[(j - 1) + 1]
          BY <2>2, <3>3, <5>1
        <5>3. (j - 1) + 1 = j
          OBVIOUS
        <5> QED BY <5>2, <5>3
      <4> QED BY <4>1, <4>2
    <3> QED BY <2>2, <3>3, <3>4
  <2>4. <<h>> \o r = x
    BY <2>2, <2>3, SeqEqual
  <2>5. {h} \cup ToSet(r) = ToSet(x)
    <3>1. \A j \in 1..Len(x) : j = 1 \/ (j - 1 \in 1..Len(r) /\ r[j - 1] = x[j])
      BY <2>2
    <3>2. \A j \in 1..Len(r) : j + 1 \in 1..Len(x)
      BY <2>2
    <3>3. 1 \in 1..Len(x)
      BY <2>2
    <3>4. ASSUME NEW a \in ToSet(x)
          PROVE  a \in {h} \cup ToSet(r)
      <4>1. PICK j \in 1..Len(x) : a = x[j]
        BY <2>2 DEF ToSet
      <4>2. CASE j = 1
        BY <2>2, <4>1, <4>2
      <4>3. CASE j - 1 \in 1..Len(r) /\ r[j - 1] = x[j]
        BY <2>2, <4>1, <4>3 DEF ToSet
      <4> QED BY <3>1, <4>1, <4>2, <4>3
    <3>5. {h} \cup ToSet(r) \subseteq ToSet(x)
      BY <2>2, <3>2, <3>3 DEF ToSet
    <3> QED BY <3>4, <3>5
  <2> QED BY <1>2, <2>1, <2>4, <2>5 DEF x
<1> QED BY <1>3, <1>4

LEMMA ConnectInv ==
  ASSUME Inv, Connect
  PROVE  Inv'
<1>1. /\ conf.proto # "udp" /\ cli.state = "connect" /\ srv.state # "PARAM_EXCHANGE"
  BY DEF Connect
<1>2. CASE srv.state # "CREATE_STREAMS"
  BY <1>2, ClientFailsInv DEF Connect
<1>3. CASE srv.state = "CREATE_STREAMS"
  <2>1. PICK b \in IF conf.xbind = <<>> THEN {[ok |-> TRUE, xbind |-> <<>>, bound |-> {}]}
                   ELSE iperf_sctp_bindx(cli.xbind) :
          IF b.ok
          THEN /\ fds' = Queued(fds, srv.listener, Made + 1)
               /\ cli' = [AddClientStream([buf |-> DefaultBuffer, bound |-> b.bound])
                            EXCEPT !.xbind = b.xbind]
               /\ UNCHANGED <<conf, srv, net, ghost>>
          ELSE Fail /\ ClientFails
    BY <1>3 DEF Connect, Queued
  <2>2. CASE ~b.ok
    BY <2>1, <2>2, ClientFailsInv
  <2>3. CASE b.ok
    <3> DEFINE sock == [buf |-> DefaultBuffer, bound |-> b.bound]
               n == AddClientStream(sock)
               l == srv.listener
               w == fds[l].q
               v == fds'[l].q
    <3>1. /\ fds' = Queued(fds, l, Made + 1) /\ cli' = [n EXCEPT !.xbind = b.xbind]
          /\ UNCHANGED <<conf, srv, net, ghost>>
      BY <2>1, <2>3
    <3>2. b.xbind = conf.xbind /\ b.bound = ToSet(conf.xbind) /\ ToSet(conf.xbind) \subseteq STRING
      BY <1>1, <2>3, BindLemma
    <3>3. /\ Made \in Nat /\ Made < Streams /\ conf \in Configs /\ Streams \in Nat
          /\ conf.xbind \in Seq(STRING) /\ cli.xbind = conf.xbind /\ SizeIsAsAsked(cli.bufsize)
          /\ Len(srv.streams) \in Nat /\ fds \in Table /\ srv \in SrvRec
      BY <1>1, MadeLemma, ConfLemma DEF Inv, ClientInv
    <3>4. /\ sock \in [buf : Nat, bound : SUBSET STRING] /\ sock.bound = ToSet(conf.xbind)
          /\ Holds(sock.buf)
      BY <1>1, <3>2, ConstLemma DEF Holds
    <3> HIDE DEF sock
    <3>5. /\ n \in CliRec /\ Len(n.made) = Made + 1 /\ n.bufsize = cli.bufsize
          /\ n.xbind = cli.xbind /\ n.state \in {"created", "connect"}
          /\ n.state = "connect" => Made + 1 < Streams
          /\ \A k \in 1..Made + 1 : n.made[k].bound = ToSet(conf.xbind) /\ Holds(n.made[k].buf)
      BY <3>3, <3>4, AddClientStreamLemma
    <3> HIDE DEF n
    <3>6. /\ cli' \in CliRec /\ cli'.made = n.made /\ cli'.bufsize = cli.bufsize
          /\ cli'.xbind = conf.xbind /\ cli'.state = n.state
      BY <3>1, <3>2, <3>3, <3>5 DEF CliRec
    <3>7. Made' = Made + 1
      BY <3>5, <3>6 DEF Made
    <3>8. ClientInv'
      BY <3>1, <3>3, <3>5, <3>6, <3>7 DEF ClientInv, Streams, Holds, SizeIsAsAsked
    <3>9. l \in FD /\ w \in Seq(Nat) /\ Made + 1 \in Nat
      <4>1. l \in FD
        BY <1>3, PlaceLemma DEF Collecting
      <4> QED BY <3>3, <4>1 DEF Table, Sock
    <3>10. SameSockets(fds', fds) /\ fds'[l].q = Append(fds[l].q, Made + 1)
      <4> DEFINE i0 == Made + 1
      <4>1. fds' = Queued(fds, l, i0) /\ i0 \in Nat
        BY <3>1, <3>9
      <4> HIDE DEF l, w, v, i0
      <4>2. fds \in Table /\ l \in FD
        BY <3>3, <3>9
      <4>3. SameSockets(fds', fds) /\ fds'[l].q = Append(fds[l].q, i0)
        BY <4>1, <4>2, QueuedLemma
      <4> QED BY <4>3 DEF i0
    <3>11. ServerInv(srv, fds)' /\ fds' \in Table /\ LeakInv(fds', ghost.failures)
      BY <1>3, <3>1, <3>10, SameServer
    <3>12. ConnectionQueue(srv, fds)'
      <4>1. ConnectionQueue(srv, fds)
        BY <1>1, <1>3 DEF Inv, MeetInv
      <4> DEFINE i0 == Made + 1
                 Queues(i) == \E j \in DOMAIN w : w[j] = i
                 Queues2(i) == \E j \in DOMAIN v : v[j] = i
      <4>2. v = Append(w, i0)
        <5>1. l' = l
          BY <3>1
        <5> QED BY <3>10, <5>1
      <4>3. Ordered(w) /\ Len(srv.streams) <= Made
        BY <4>1 DEF ConnectionQueue
      <4>4. \A i \in Nat \ {0} : Queues(i) <=> Len(srv.streams) < i /\ i <= Made
        BY <4>1 DEF ConnectionQueue
      <4> HIDE DEF w, v, l, i0
      <4>5. /\ Len(w) \in Nat /\ DOMAIN w = 1..Len(w)
            /\ DOMAIN v = 1..Len(w) + 1 /\ v[Len(w) + 1] = i0
            /\ \A j \in DOMAIN w : v[j] = w[j] /\ w[j] \in Nat
            /\ \A j \in DOMAIN v : j \in DOMAIN w \/ j = Len(w) + 1
        BY <3>9, <4>2, AppendFacts DEF i0
      <4>6. \A j \in DOMAIN w : w[j] # 0 => w[j] < i0
        BY <3>3, <4>4, <4>5 DEF i0
      <4>7. Ordered(v)
        BY <4>3, <4>5, <4>6 DEF Ordered
      <4>8. \A i \in Nat \ {0} : Queues2(i) <=> Queues(i) \/ i = i0
        BY <4>5
      <4> HIDE DEF Queues, Queues2
      <4>9. \A i \in Nat \ {0} : Queues2(i) <=> (Len(srv.streams) < i /\ i <= i0)
        BY <3>3, <4>3, <4>4, <4>8 DEF i0
      <4>10. fds'[srv'.listener].q = v /\ srv' = srv /\ Made' = i0
        BY <3>1, <3>7 DEF v, l, i0
      <4>11. Ordered(fds[srv.listener].q)'
        BY <4>7, <4>10 DEF Ordered
      <4>12. Len(srv'.streams) <= Made'
        BY <3>3, <4>3, <4>10 DEF i0
      <4>13. \A i \in Nat \ {0} :
               (\E j \in DOMAIN fds'[srv'.listener].q : fds'[srv'.listener].q[j] = i)
                 <=> (Len(srv'.streams) < i /\ i <= Made')
        BY <4>9, <4>10 DEF Queues2
      <4> QED BY <4>11, <4>12, <4>13 DEF ConnectionQueue
    <3>13. MeetInv'
      BY <1>1, <1>3, <3>1, <3>12 DEF Inv, MeetInv
    <3>14. LeakInv(fds, ghost.failures)'
      BY <3>1, <3>11 DEF LeakInv, Leaked
    <3> QED BY <3>1, <3>6, <3>8, <3>11, <3>13, <3>14, ConfSame DEF Inv, TypeInv
  <2> QED BY <2>2, <2>3
<1> QED BY <1>2, <1>3

-----------------------------------------------------------------------------
(* Accepting over UDP *)

\* A socket that is not connected, or a free one: no stream and no file.
IsIdle(f, s) ==
  s \in FD /\ f[s].kind \notin {"ctrl", "file"} /\ (f[s].peer = 0 \/ f[s].kind = "free")

\* g is f but for s.
SameBut(g, f, s) ==
  \A m \in FD : m # s => g[m].kind = f[m].kind /\ g[m].peer = f[m].peer /\ g[m].buf = f[m].buf

LEMMA IdleIsNoStream ==
  ASSUME NEW t \in SrvRec, NEW f \in Table, NEW s, Has(t, f), IsIdle(f, s)
  PROVE  \A k \in 1..Len(t.streams) :
           /\ t.streams[k].fd \in FD /\ t.streams[k].fd # s
           /\ t.streams[k].file \in FD /\ t.streams[k].file # s
<1> SUFFICES ASSUME NEW k \in 1..Len(t.streams)
             PROVE  /\ t.streams[k].fd \in FD /\ t.streams[k].fd # s
                    /\ t.streams[k].file \in FD /\ t.streams[k].file # s
  OBVIOUS
<1> DEFINE a == t.streams[k].fd
           b == t.streams[k].file
<1>1. IsStream(t, f, k) /\ a \in FD /\ b \in FD
  BY SrvFields DEF Has
<1>2. f[a].kind \in {"udp", "conn"} /\ f[a].peer > 0
  BY <1>1 DEF IsStream, IsPaired
<1> HIDE DEF a
<1>3. a # s
  BY <1>2 DEF IsIdle
<1>4. b # s
  BY <1>1 DEF IsStream, IsIdle
<1> QED BY <1>1, <1>3, <1>4 DEF a

LEMMA StillHas ==
  ASSUME conf \in Configs, NEW t \in SrvRec, NEW f \in Table, NEW g \in Table, NEW s, Has(t, f),
         IsIdle(f, s), SameBut(g, f, s), Fits(g[s].peer),
         NEW u, u.streams = t.streams, u.ctrl_sck = t.ctrl_sck, u.rec = t.rec, u.snd = t.snd
  PROVE  Has(u, g)
<1>1. IsCtrl(u, g)
  BY DEF Has, IsCtrl, IsIdle, SameBut
<1>2. ASSUME NEW k \in 1..Len(t.streams)
      PROVE  IsStream(u, g, k)
  <2> DEFINE a == t.streams[k].fd
             b == t.streams[k].file
  <2>1. IsStream(t, f, k)
    BY DEF Has
  <2>2. \A j \in 1..Len(t.streams) :
          /\ t.streams[j].fd \in FD /\ t.streams[j].fd # s
          /\ t.streams[j].file \in FD /\ t.streams[j].file # s
    BY IdleIsNoStream
  <2>3. k \in Nat /\ \A j \in 1..k - 1 : j \in 1..Len(t.streams)
    BY SrvFields
  <2>4. \A j \in 1..k - 1 : g[u.streams[j].fd].peer = f[t.streams[j].fd].peer
    BY <2>2, <2>3 DEF SameBut
  <2>5. IsPaired(u, g, k, f[a].peer)
    <3> DEFINE p == f[a].peer
    <3>1. IsPaired(t, f, k, p)
      BY <2>1 DEF IsStream
    <3> HIDE DEF p
    <3>2. IsPaired(u, g, k, p)
      BY <2>3, <2>4, <3>1, PairedLemma
    <3> QED BY <3>2 DEF p
  <2> QED BY <2>1, <2>2, <2>5 DEF SameBut, IsStream, Holds
<1>3. \A n \in FD : Fits(g[n].peer)
  BY DEF Has, SameBut
<1> QED BY <1>1, <1>2, <1>3 DEF Has

\* An idle socket that is not connected afterwards met nobody.
LEMMA IdleKeeps ==
  ASSUME NEW f, NEW g, NEW s, IsIdle(f, s), SameBut(g, f, s), g[s].peer = 0
  PROVE  KeepsPeers(g, f)
BY DEF IsIdle, SameBut, KeepsPeers

LEMMA KeepsTwice ==
  ASSUME NEW f, NEW g, NEW h, KeepsPeers(g, f), KeepsPeers(h, g)
  PROVE  KeepsPeers(h, f)
BY DEF KeepsPeers

\* What iperf_udp_accept makes of the descriptors.
Connected(f, s, buf) == [Popped(f, s) EXCEPT ![s].peer = Sender(Head(f[s].q)), ![s].buf = buf]

LEMMA ConnectedLemma ==
  ASSUME conf \in Configs, NEW f \in Table, NEW s \in FD, f[s].q # <<>>, NEW buf \in Nat,
         NEW g, g = Connected(f, s, buf)
  PROVE  /\ g \in Table /\ SameBut(g, f, s) /\ g[s].kind = f[s].kind
         /\ g[s].peer = Sender(f[s].q[1]) /\ 1 \in DOMAIN f[s].q /\ g[s].buf = buf
<1> DEFINE w == f[s].q
           p == [f[s] EXCEPT !.q = Tail(w)]
           a == Sender(Head(w))
           x == [[p EXCEPT !.peer = a] EXCEPT !.buf = buf]
<1>1. f[s] \in Sock /\ w \in Seq(Nat)
  BY DEF Table, Sock
<1>2. Len(w) > 0 /\ Head(w) = w[1] /\ Tail(w) \in Seq(Nat) /\ Head(w) \in Nat /\ 1 \in DOMAIN w
  BY <1>1, TailFacts
<1> HIDE DEF w
<1>3. a \in Nat
  BY <1>2, ConfLemma DEF Sender
<1> HIDE DEF a
<1>4. p \in Sock /\ p.kind = f[s].kind /\ p.peer = f[s].peer /\ p.buf = f[s].buf
  BY <1>1, <1>2 DEF Sock
<1> HIDE DEF p
<1>5. x \in Sock /\ x.kind = p.kind /\ x.peer = a /\ x.buf = buf
  BY <1>3, <1>4 DEF Sock
<1> HIDE DEF x
<1>6. Popped(f, s) = [f EXCEPT ![s] = p]
  BY DEF Popped, p, w, Table
<1>7. [f EXCEPT ![s] = p][s] = p
  BY DEF Table
<1>8. g = [f EXCEPT ![s] = x]
  BY <1>6, <1>7 DEF x, a, w, Table, Connected
<1>9. g \in Table /\ g[s] = x /\ \A m \in FD : m # s => g[m] = f[m]
  BY <1>5, <1>8 DEF Table
<1> QED BY <1>2, <1>4, <1>5, <1>9 DEF SameBut, w, a

\* The descriptors that are open and leaked are the same.
LEMMA SameButLemma ==
  ASSUME NEW f \in Table, NEW g \in Table, NEW s \in FD, SameBut(g, f, s), g[s].kind = f[s].kind
  PROVE  OpenFds(g) = OpenFds(f) /\ Leaked(g) = Leaked(f)
<1>1. \A m \in FD : g[m].kind = f[m].kind
  BY DEF SameBut
<1> QED BY <1>1, OpenLemma DEF Leaked

LEMMA AcceptSteps ==
  AcceptStep(1) = "announce" /\ AfterStep("announce") = "reply" /\ AfterStep("reply") = "stream"
<1>1. AcceptStep(1) = "announce" /\ AcceptStep(2) = "reply" /\ AcceptStep(3) = "stream"
  BY DEF AcceptStep
<1>2. (CHOOSE n \in 1..2 : AcceptStep(n) = "announce") = 1
  BY <1>1
<1>3. (CHOOSE n \in 1..2 : AcceptStep(n) = "reply") = 2
  BY <1>1
<1> QED BY <1>1, <1>2, <1>3 DEF AfterStep

\* Connecting a socket that was not connected loses nobody.
LEMMA MetStill ==
  ASSUME NEW f, NEW g, NEW s, SameBut(g, f, s), f[s].peer = 0, NEW i, i # 0, Met(f, i)
  PROVE  Met(g, i)
BY DEF SameBut, Met

\* What waits on the listening socket makes the next stream, of the client if
\* nobody else was there before.
LEMMA NewPaired ==
  ASSUME Inv, conf.proto = "udp", srv.state = "CREATE_STREAMS", srv.pc = "loop",
         NEW v, Waits(fds, v)
  PROVE  /\ IsPaired(srv, fds, Len(srv.streams) + 1, Sender(v)) /\ Fits(Sender(v))
         /\ Sender(v) = Foreign \/ (Sender(v) = Made + 1 /\ ~Met(fds, Made + 1))
<1> DEFINE n == Len(srv.streams)
           peer(j) == fds[srv.streams[j].fd].peer
<1>1. /\ Made \in Nat /\ Streams \in Nat /\ Foreign = Streams + 1 /\ n \in Nat
      /\ srv \in SrvRec /\ fds \in Table /\ (n + 1) - 1 = n
  BY MadeLemma, ConfLemma DEF Inv, TypeInv
<1>2. Greetings(srv, fds) /\ Has(srv, fds)
  BY PlaceLemma DEF Inv, MeetInv
<1>3. CASE v = 0
  BY <1>1, <1>3 DEF Sender, IsPaired, Fits
<1>4. CASE v = Made + 1 /\ Made < Streams /\ ~Met(fds, Made + 1)
  <2>1. Sender(v) = Made + 1
    BY <1>1, <1>4 DEF Sender
  <2>2. ASSUME NEW j \in 1..n
        PROVE  /\ peer(j) \in Nat /\ (peer(j) = Foreign \/ peer(j) < Made + 1)
               /\ IsPaired(srv, fds, j, peer(j))
    <3> DEFINE a == srv.streams[j].fd
    <3>1. IsStream(srv, fds, j) /\ a \in FD
      BY <1>1, <1>2, SrvFields DEF Has
    <3> HIDE DEF a
    <3>2. fds[a].peer \in Nat /\ fds[a].kind = "udp" /\ IsPaired(srv, fds, j, fds[a].peer)
      BY <1>1, <3>1 DEF Table, Sock, IsStream, a
    <3>3. fds[a].peer = Foreign \/ fds[a].peer <= Made + 1
      BY <1>2, <3>1 DEF Greetings
    <3>4. fds[a].peer # Made + 1
      BY <1>4, <3>1, <3>2 DEF Met
    <3>5. fds[a].peer = Foreign \/ fds[a].peer < Made + 1
      BY <1>1, <3>2, <3>3, <3>4
    <3> QED BY <3>2, <3>5 DEF a
  <2>3. Made + 1 = n + 1 \/ StrangerAmong(srv, fds, n)
    <3> SUFFICES ASSUME ~StrangerAmong(srv, fds, n) PROVE Made = n
      OBVIOUS
    <3>1. Made <= n
      BY <1>1, <1>2 DEF Greetings, Replied
    <3>2. CASE n = 0
      BY <1>1, <3>1, <3>2
    <3>3. CASE n > 0
      <4>1. n \in 1..n /\ \A j \in 1..n - 1 : j \in 1..n
        BY <1>1, <3>3
      <4>2. peer(n) # Foreign /\ ~StrangerAmong(srv, fds, n - 1)
        BY <4>1 DEF StrangerAmong
      <4>3. peer(n) = n
        BY <2>2, <4>1, <4>2 DEF IsPaired
      <4> QED BY <1>1, <2>2, <3>1, <4>1, <4>2, <4>3
    <3> QED BY <1>1, <3>2, <3>3
  <2>4. Made + 1 > 0 /\ Made + 1 <= Streams
    BY <1>1, <1>4
  <2>5. IsPaired(srv, fds, n + 1, Made + 1)
    BY <1>1, <2>2, <2>3, <2>4 DEF IsPaired
  <2> QED BY <1>4, <2>1, <2>4, <2>5 DEF Fits
<1> QED BY <1>3, <1>4 DEF Waits

LEMMA UdpAcceptInv ==
  ASSUME Inv, UdpAccept
  PROVE  Inv'
<1> DEFINE s == srv.prot_listener
           b == UdpBuffers(srv.bufsize, conf.srvmax)
<1>1. /\ conf.proto = "udp" /\ srv.state = "CREATE_STREAMS" /\ srv.pc = "loop"
      /\ fds[s].q # <<>> /\ UNCHANGED <<conf, cli, net, ghost>>
  BY DEF UdpAccept, Accepting
<1>2. CASE ~b.ok
  <2>1. Restart(srv, fds)
    BY <1>2 DEF UdpAccept
  <2> QED BY <1>1, <2>1, LoopFails
<1>3. CASE b.ok
  <2> DEFINE n == Len(srv.streams)
  <2>1. /\ fds' = Connected(fds, s, b.actual)
        /\ srv' = [srv EXCEPT !.pc = AcceptStep(1), !.s = s, !.bufsize = b.bufsize]
    BY <1>3 DEF UdpAccept, Connected
  <2>2. /\ Has(srv, fds) /\ Collecting(srv, fds) /\ SizeIsAsAsked(srv.bufsize)
        /\ Accounted(srv, fds) /\ srv.read_set \subseteq OpenFds(fds) /\ LeakInv(fds, ghost.failures)
    BY <1>1, PlaceLemma
  <2>3. /\ conf \in Configs /\ fds \in Table /\ srv \in SrvRec /\ srv.bufsize \in Nat
        /\ conf.srvmax \in Nat /\ Streams \in Nat /\ n \in Nat /\ n < Streams /\ s \in Int
    BY <2>2, MadeLemma, SrvFields, ConfLemma DEF Collecting
  <2>4. /\ b.bufsize \in Nat /\ b.actual \in Nat /\ SizeIsAsAsked(b.bufsize) /\ Holds(b.actual)
    BY <1>1, <1>3, <2>2, <2>3, UdpBuffersLemma
  <2>5. s \in FD /\ fds[s].kind = "udp" /\ fds[s].peer = 0
    BY <1>1, <2>2 DEF Collecting
  <2> HIDE DEF s, b
  <2>6. /\ fds' \in Table /\ SameBut(fds', fds, s) /\ fds'[s].kind = fds[s].kind
        /\ fds'[s].peer = Sender(fds[s].q[1]) /\ 1 \in DOMAIN fds[s].q
        /\ fds'[s].buf = b.actual
    BY <1>1, <2>1, <2>3, <2>4, <2>5, ConnectedLemma
  <2> DEFINE v == Sender(fds[s].q[1])
  <2>7. /\ IsPaired(srv, fds, n + 1, v) /\ Fits(v)
        /\ v = Foreign \/ (v = Made + 1 /\ ~Met(fds, Made + 1))
    <3>1. HelloQueue(srv, fds)
      BY <1>1 DEF Inv, MeetInv
    <3>2. Waits(fds, fds[s].q[1])
      BY <1>1, <2>6, <3>1 DEF HelloQueue, s
    <3> QED BY <1>1, <3>2, NewPaired
  <2> HIDE DEF v
  <2>8. /\ srv' \in SrvRec /\ srv'.state = "CREATE_STREAMS" /\ srv'.pc = "announce" /\ srv'.s = s
        /\ srv'.bufsize = b.bufsize /\ srv'.streams = srv.streams /\ srv'.rec = srv.rec
        /\ srv'.snd = srv.snd /\ srv'.listener = srv.listener /\ srv'.prot_listener = s
        /\ srv'.ctrl_sck = srv.ctrl_sck /\ srv'.read_set = srv.read_set
    BY <1>1, <2>1, <2>3, <2>4, AcceptSteps DEF SrvRec, s
  <2>9. OpenFds(fds') = OpenFds(fds) /\ Leaked(fds') = Leaked(fds)
    BY <2>3, <2>5, <2>6, SameButLemma
  <2> DEFINE t == srv'
             f == fds'
  <2>10. Accounted(t, f) /\ t.read_set \subseteq OpenFds(f)
    <3>1. Owned(t) = Owned(srv)
      BY <2>8 DEF Owned, StreamFds, Files, s
    <3> QED BY <1>1, <2>2, <2>8, <2>9, <3>1 DEF Accounted, Pending
  <2>11. Has(t, f)
    <3>1. IsIdle(fds, s)
      BY <2>5 DEF IsIdle
    <3>2. Fits(f[s].peer)
      BY <2>6, <2>7 DEF v
    <3> HIDE DEF t, f
    <3> QED BY <2>2, <2>3, <2>6, <2>8, <3>1, <3>2, StillHas DEF t, f
  <2>12. Collecting(t, f)
    <3>1. /\ srv.listener \in FD /\ fds[srv.listener].kind = "tcp" /\ fds[srv.listener].peer = 0
      BY <1>1, <2>2 DEF Collecting
    <3>2. f[srv.listener].kind = "tcp" /\ f[srv.listener].peer = 0
      BY <2>5, <2>6, <3>1 DEF SameBut
    <3>3. IsNew(t, f, s)
      <4>1. IsIdle(fds, s) /\ (n + 1) - 1 = n /\ n + 1 \in Nat
        BY <2>3, <2>5 DEF IsIdle
      <4>2. \A j \in 1..n : srv.streams[j].fd \in FD /\ srv.streams[j].fd # s
        BY <2>2, <2>3, <4>1, IdleIsNoStream
      <4>3. \A j \in 1..n : fds'[srv'.streams[j].fd].peer = fds[srv.streams[j].fd].peer
        BY <2>6, <2>8, <4>2 DEF SameBut
      <4> HIDE DEF t, f
      <4>4. \A j \in 1..(n + 1) - 1 : fds'[srv'.streams[j].fd].peer = fds[srv.streams[j].fd].peer
        BY <4>1, <4>3
      <4>5. IsPaired(srv', fds', n + 1, v)
        <5> HIDE DEF n
        <5> QED BY <2>7, <4>1, <4>4, PairedLemma
      <4>6. Holds(b.actual) /\ s \in FD
        BY <2>4, <2>5
      <4> QED BY <1>1, <2>5, <2>6, <2>8, <4>5, <4>6 DEF IsNew, t, f, v
    <3> QED BY <1>1, <2>3, <2>5, <2>6, <2>8, <3>1, <3>2, <3>3 DEF Collecting
  <2>13. ServerInv(t, f)
    BY <2>4, <2>8, <2>10, <2>11, <2>12 DEF ServerInv
  <2>14. ServerInv(srv, fds)'
    <3> HIDE DEF t, f
    <3> QED BY <1>1, <2>13, NextServer DEF t, f
  <2>15. LeakInv(fds, ghost.failures)'
    BY <1>1, <2>2, <2>9 DEF LeakInv, Leaked
  <2>16. ClientInv' /\ cli' \in CliRec /\ Made' = Made
    BY <1>1, MadeLemma, ClientFailed DEF Inv
  <2>17. MeetInv'
    <3>1. HelloQueue(srv, fds)'
      BY <2>8 DEF HelloQueue
    <3>2. Replied(srv)' = Replied(srv) /\ Foreign' = Foreign /\ Streams' = Streams
      BY <1>1, <2>8 DEF Replied, Foreign, Streams
    <3>3. Greetings(srv, fds) /\ Made \in Nat
      BY <1>1, MadeLemma DEF Inv, MeetInv
    <3>4. \A i : i # 0 /\ Met(fds, i) => Met(fds', i)
      BY <2>5, <2>6, MetStill
    <3>5. \A i : Met(fds', i) => Met(fds, i)'
      BY DEF Met
    <3>6. \A n0 \in FD : fds'[n0].peer = Foreign \/ fds'[n0].peer <= Made + 1
      <4>1. ASSUME NEW m \in FD PROVE fds'[m].peer = Foreign \/ fds'[m].peer <= Made + 1
        <5>1. CASE m = s
          BY <2>6, <2>7, <3>3, <5>1 DEF v
        <5>2. CASE m # s
          BY <2>6, <3>3, <5>2 DEF SameBut, Greetings
        <5> QED BY <5>1, <5>2
      <4> QED BY <4>1
    <3>7. \/ fds'[srv'.s].peer = Foreign
          \/ /\ fds'[srv'.s].peer = Made + 1
             /\ \A d \in net' : d.kind = "reply" => d.i # Made + 1
      <4>1. \A d \in net : d.kind = "reply" => Met(fds, d.i)
        BY <3>3 DEF Greetings
      <4> QED BY <1>1, <2>6, <2>7, <2>8, <4>1 DEF v
    <3>8. \A i \in 1..Made : Met(fds, i)'
      <4>1. \A i \in 1..Made : i # 0
        BY <3>3
      <4> QED BY <3>3, <3>4, <3>5, <4>1 DEF Greetings
    <3>9. \A d \in net' :
            /\ 0 < d.i /\ d.i <= Streams
            /\ IF d.kind = "hello" THEN d.i <= Made + 1 ELSE d.i <= Replied(srv) /\ Met(fds, d.i)'
      <4> SUFFICES ASSUME NEW d \in net
                   PROVE  /\ 0 < d.i /\ d.i <= Streams
                          /\ IF d.kind = "hello" THEN d.i <= Made + 1
                             ELSE d.i <= Replied(srv) /\ Met(fds, d.i)'
        BY <1>1
      <4>1. /\ 0 < d.i /\ d.i <= Streams
            /\ IF d.kind = "hello" THEN d.i <= Made + 1 ELSE d.i <= Replied(srv) /\ Met(fds, d.i)
        BY <3>3 DEF Greetings
      <4>2. d.i # 0
        BY <4>1
      <4> QED BY <3>4, <3>5, <4>1, <4>2
    <3>10. Greetings(srv, fds)'
      BY <2>16, <3>2, <3>3, <3>6, <3>7, <3>8, <3>9 DEF Greetings
    <3> QED BY <1>1, <2>8, <2>16, <3>1, <3>10 DEF Inv, MeetInv
  <2> QED BY <1>1, <2>6, <2>8, <2>14, <2>15, <2>16, <2>17, ConfSame DEF Inv, TypeInv
<1> QED BY <1>2, <1>3

\* Before a socket is announced or a stream made there is one more descriptor
\* than the test owns.
LEMMA AcceptRoom ==
  ASSUME Inv, srv.state = "CREATE_STREAMS"
  PROVE  /\ srv.pc # "loop" => IsNext(fds, NextFd(fds))
         /\ srv.pc # "loop" => IsNew(srv, fds, srv.s) /\ conf.proto = "udp"
         /\ conf \in Configs /\ fds \in Table /\ srv \in SrvRec /\ Streams \in Nat
         /\ Len(srv.streams) \in Nat /\ Len(srv.streams) < Streams
         /\ Has(srv, fds) /\ Collecting(srv, fds) /\ SizeIsAsAsked(srv.bufsize)
         /\ Accounted(srv, fds) /\ srv.read_set \subseteq OpenFds(fds)
         /\ LeakInv(fds, ghost.failures)
<1>1. /\ conf \in Configs /\ fds \in Table /\ srv \in SrvRec /\ Len(srv.streams) \in Nat
      /\ srv.streams \in Seq(StreamRec) /\ ghost.failures \in 0..MaxFailures /\ Streams \in Nat
  BY MadeLemma, SrvFields, ConfSame DEF Inv
<1>2. /\ Has(srv, fds) /\ Collecting(srv, fds) /\ SizeIsAsAsked(srv.bufsize)
      /\ Accounted(srv, fds) /\ srv.read_set \subseteq OpenFds(fds) /\ LeakInv(fds, ghost.failures)
      /\ Len(srv.streams) < Streams
  BY PlaceLemma DEF Collecting
<1>3. srv.pc # "loop" => IsNew(srv, fds, srv.s) /\ conf.proto = "udp"
  BY <1>2 DEF Collecting
<1>4. OpenFds(fds) \subseteq Leaked(fds) \cup Owned(srv) \cup {srv.s}
  BY <1>2 DEF Accounted, Pending
<1>5. IsNext(fds, NextFd(fds))
  BY <1>1, <1>2, <1>4, RoomLemma
<1> QED BY <1>1, <1>2, <1>3, <1>5

LEMMA UdpAnnounceInv ==
  ASSUME Inv, UdpAnnounce
  PROVE  Inv'
<1> DEFINE n == NextFd(fds)
           x == Socket("udp", 0, DefaultBuffer)
           t == srv'
           f == fds'
<1>1. /\ srv.pc = "announce" /\ fds' = netannounce(fds, "udp") /\ UNCHANGED <<conf, cli, net, ghost>>
      /\ srv' = [srv EXCEPT !.pc = "reply", !.prot_listener = n, !.read_set = @ \cup {n}]
  BY AcceptSteps DEF UdpAnnounce
<1>2. srv.state = "CREATE_STREAMS"
  BY <1>1, PlaceLemma
<1>3. /\ IsNext(fds, n) /\ IsNew(srv, fds, srv.s) /\ conf.proto = "udp"
      /\ conf \in Configs /\ fds \in Table /\ srv \in SrvRec /\ Streams \in Nat
      /\ Len(srv.streams) \in Nat /\ Len(srv.streams) < Streams
      /\ Has(srv, fds) /\ Collecting(srv, fds) /\ SizeIsAsAsked(srv.bufsize)
      /\ Accounted(srv, fds) /\ srv.read_set \subseteq OpenFds(fds)
      /\ LeakInv(fds, ghost.failures)
  BY <1>1, <1>2, AcceptRoom
<1>4. srv.prot_listener = srv.s
  BY <1>1, <1>3 DEF Collecting
<1>5. x.kind = "udp" /\ x.peer = 0 /\ x.q = <<>>
  <2>1. "udp" \in Kind /\ 0 \in Nat
    BY DEF Kind
  <2> QED BY <2>1, SockLemma, ConstLemma
<1>6. IsOpened(f, fds, n, x)
  BY <1>1, <1>3, AnnounceLemma
<1> HIDE DEF n, x
<1>7. n \in Int /\ n \in FD /\ f \in Table /\ f[n] = x /\ n \notin OpenFds(fds)
      /\ OpenFds(f) = OpenFds(fds) \cup {n} /\ Leaked(f) = Leaked(fds)
      /\ \A m \in FD : m # n => f[m] = fds[m]
  BY <1>3, <1>6, OpenLemma DEF IsOpened
<1>8. /\ t \in SrvRec /\ t.state = "CREATE_STREAMS" /\ t.pc = "reply" /\ t.s = srv.s
      /\ t.bufsize = srv.bufsize /\ t.streams = srv.streams /\ t.rec = srv.rec
      /\ t.snd = srv.snd /\ t.listener = srv.listener /\ t.prot_listener = n
      /\ t.ctrl_sck = srv.ctrl_sck /\ t.read_set = srv.read_set \cup {n}
  <2>1. srv.read_set \cup {n} \in SUBSET Int
    BY <1>3, <1>7, SrvFields
  <2> QED BY <1>1, <1>2, <1>3, <1>7, <2>1 DEF SrvRec
<1> HIDE DEF t, f
<1>9. srv.s \in FD /\ srv.s # n /\ srv.listener # n
  <2>1. srv.s \in FD /\ fds[srv.s].kind = "udp" /\ srv.listener \in FD /\ fds[srv.listener].kind = "tcp"
    BY <1>3 DEF IsNew, Collecting
  <2>2. srv.s \in OpenFds(fds) /\ srv.listener \in OpenFds(fds)
    BY <1>3, <2>1, OpenLemma
  <2> QED BY <1>7, <2>1, <2>2
<1>10. Accounted(t, f) /\ t.read_set \subseteq OpenFds(f)
  <2>1. Owned(srv) \cup {n} \subseteq Owned(t) \cup {srv.s}
    BY <1>4, <1>8 DEF Owned, StreamFds, Files
  <2>2. Pending(t) = {srv.s} /\ Pending(srv) = {srv.s}
    BY <1>1, <1>8 DEF Pending
  <2> QED BY <1>3, <1>7, <1>8, <2>1, <2>2 DEF Accounted
<1>11. Has(t, f)
  <2>1. fds[n].kind = "free" /\ IsIdle(fds, n)
    BY <1>3, <1>7, OpenLemma DEF IsIdle
  <2>2. Fits(f[n].peer) /\ SameBut(f, fds, n)
    BY <1>3, <1>5, <1>7 DEF SameBut, Fits
  <2> QED BY <1>3, <1>7, <1>8, <2>1, <2>2, StillHas
<1>12. Collecting(t, f)
  <2>1. /\ srv.listener \in FD /\ fds[srv.listener].kind = "tcp" /\ fds[srv.listener].peer = 0
    BY <1>3 DEF Collecting
  <2>2. f[srv.listener] = fds[srv.listener] /\ f[srv.s] = fds[srv.s]
    BY <1>7, <1>9, <2>1
  <2>3. IsNew(t, f, srv.s)
    <3> DEFINE k == Len(srv.streams)
    <3>1. IsIdle(fds, n) /\ (k + 1) - 1 = k /\ k + 1 \in Nat
      BY <1>3, <1>7, OpenLemma DEF IsIdle
    <3>2. \A j \in 1..k : srv.streams[j].fd \in FD /\ srv.streams[j].fd # n
      BY <1>3, <3>1, IdleIsNoStream
    <3>3. \A j \in 1..k : f[t.streams[j].fd].peer = fds[srv.streams[j].fd].peer
      BY <1>7, <1>8, <3>2
    <3>4. IsPaired(srv, fds, k + 1, fds[srv.s].peer)
      BY <1>3 DEF IsNew
    <3>5. IsPaired(t, f, k + 1, fds[srv.s].peer)
      BY <3>1, <3>3, <3>4, PairedLemma
    <3> QED BY <1>3, <1>8, <2>2, <3>5 DEF IsNew
  <2> QED BY <1>3, <1>5, <1>7, <1>8, <2>1, <2>2, <2>3 DEF Collecting
<1>13. ServerInv(t, f)
  BY <1>3, <1>8, <1>10, <1>11, <1>12 DEF ServerInv
<1>14. ServerInv(srv, fds)'
  BY <1>1, <1>13, NextServer DEF t, f
<1>15. LeakInv(fds, ghost.failures)'
  BY <1>1, <1>3, <1>7 DEF LeakInv, Leaked, f
<1>16. ClientInv' /\ cli' \in CliRec /\ Made' = Made
  BY <1>1, MadeLemma, ClientFailed DEF Inv
<1>17. MeetInv'
  <2>1. HelloQueue(srv, fds)'
    BY <1>5, <1>7, <1>8 DEF HelloQueue, f, t
  <2>2. Replied(srv)' = Replied(srv)
    BY <1>1, <1>8 DEF Replied, t
  <2>3. KeepsPeers(fds', fds)
    <3>1. IsIdle(fds, n) /\ SameBut(f, fds, n)
      BY <1>3, <1>7, OpenLemma DEF IsIdle, SameBut
    <3> QED BY <1>5, <1>7, <3>1, IdleKeeps DEF f
  <2>4. Greetings(srv, fds)'
    BY <1>1, <1>2, <1>3, <1>8, <1>16, <2>2, <2>3, GreetingsLemma DEF t
  <2> QED BY <1>1, <1>2, <1>3, <1>8, <1>16, <2>1, <2>4 DEF Inv, MeetInv, t
<1> QED BY <1>1, <1>7, <1>8, <1>14, <1>15, <1>16, <1>17, ConfSame DEF Inv, TypeInv, t, f

LEMMA UdpReplyInv ==
  ASSUME Inv, UdpReply
  PROVE  Inv'
<1> DEFINE n == Len(srv.streams)
           d == [kind |-> "reply", i |-> fds[srv.s].peer]
           t == srv'
<1>1. /\ srv.pc = "reply" /\ UNCHANGED <<conf, fds, cli, ghost>>
      /\ net' = IF d.i = Foreign THEN net ELSE net \cup {d}
      /\ srv' = [srv EXCEPT !.pc = "stream"]
  BY AcceptSteps DEF UdpReply
<1>2. srv.state = "CREATE_STREAMS"
  BY <1>1, PlaceLemma
<1>3. /\ IsNew(srv, fds, srv.s) /\ conf.proto = "udp"
      /\ conf \in Configs /\ fds \in Table /\ srv \in SrvRec /\ Streams \in Nat
      /\ n \in Nat /\ n < Streams
      /\ Has(srv, fds) /\ Collecting(srv, fds) /\ SizeIsAsAsked(srv.bufsize)
      /\ Accounted(srv, fds) /\ srv.read_set \subseteq OpenFds(fds)
      /\ LeakInv(fds, ghost.failures)
  BY <1>1, <1>2, AcceptRoom
<1>4. /\ d.kind = "reply" /\ d.i = fds[srv.s].peer /\ d \in Datagram /\ d.i \in Nat /\ 0 < d.i
      /\ srv.s \in FD /\ fds[srv.s].kind = "udp" /\ Fits(d.i)
  <2>1. srv.s \in FD /\ fds[srv.s].kind = "udp" /\ fds[srv.s].peer > 0
    BY <1>3 DEF IsNew, IsPaired
  <2>2. fds[srv.s].peer \in Nat /\ Fits(fds[srv.s].peer)
    BY <1>3, <2>1 DEF Table, Sock, Has
  <2> QED BY <2>1, <2>2 DEF Datagram
<1> HIDE DEF d
<1>5. /\ t \in SrvRec /\ t.state = "CREATE_STREAMS" /\ t.pc = "stream" /\ t.s = srv.s
      /\ t.bufsize = srv.bufsize /\ t.streams = srv.streams /\ t.rec = srv.rec
      /\ t.snd = srv.snd /\ t.listener = srv.listener /\ t.prot_listener = srv.prot_listener
      /\ t.ctrl_sck = srv.ctrl_sck /\ t.read_set = srv.read_set
  BY <1>1, <1>2, <1>3 DEF SrvRec
<1> HIDE DEF t
<1>6. Accounted(t, fds)
  BY <1>1, <1>3, <1>5 DEF Accounted, Owned, StreamFds, Files, Pending
<1>7. Has(t, fds)
  BY <1>3, <1>5 DEF Has, IsCtrl, IsStream, IsPaired, StrangerAmong
<1>8. Collecting(t, fds)
  BY <1>1, <1>3, <1>5 DEF Collecting, IsNew, IsPaired, StrangerAmong
<1>9. ServerInv(t, fds)
  BY <1>3, <1>5, <1>6, <1>7, <1>8 DEF ServerInv
<1>10. ServerInv(srv, fds)'
  BY <1>1, <1>9, NextServer DEF t
<1>11. LeakInv(fds, ghost.failures)'
  BY <1>1, <1>3 DEF LeakInv, Leaked
<1>12. ClientInv' /\ cli' \in CliRec /\ Made' = Made
  BY <1>1, MadeLemma, ClientFailed DEF Inv
<1>13. MeetInv'
  <2>1. /\ Replied(srv) = n /\ Replied(srv)' = n + 1 /\ Foreign' = Foreign /\ Streams' = Streams
        /\ \A i : Met(fds, i)' <=> Met(fds, i)
    BY <1>1, <1>3, <1>5 DEF Replied, t, Foreign, Streams, Met
  <2>2. HelloQueue(srv, fds)'
    <3>1. HelloQueue(srv, fds)
      BY <1>2, <1>3 DEF Inv, MeetInv
    <3> QED BY <1>1, <1>5, <1>12, <2>1, <3>1 DEF HelloQueue, Waits, t
  <2>3. Greetings(srv, fds) /\ Made \in Nat
    BY <1>2, <1>3, MadeLemma DEF Inv, MeetInv
  <2>4. ASSUME NEW e \in net'
        PROVE  /\ 0 < e.i /\ e.i <= Streams
               /\ IF e.kind = "hello" THEN e.i <= Made + 1 ELSE e.i <= n + 1 /\ Met(fds, e.i)
    <3>1. CASE e \in net
      <4>1. e.i \in Nat
        BY <3>1, MadeLemma DEF Datagram
      <4>2. /\ 0 < e.i /\ e.i <= Streams
            /\ IF e.kind = "hello" THEN e.i <= Made + 1 ELSE e.i <= n /\ Met(fds, e.i)
        BY <2>1, <2>3, <3>1 DEF Greetings
      <4> QED BY <1>3, <4>1, <4>2
    <3>2. CASE e = d /\ d.i # Foreign
      <4>1. d.i <= Streams /\ Met(fds, d.i)
        BY <1>4, <3>2 DEF Fits, Met
      <4>2. d.i <= Made + 1 /\ Made <= n
        BY <1>4, <2>1, <2>3, <3>2 DEF Greetings
      <4>3. d.i <= n + 1
        BY <1>3, <1>4, <2>3, <4>2
      <4> QED BY <1>4, <3>2, <4>1, <4>3
    <3> QED BY <1>1, <3>1, <3>2
  <2>5. Made <= n + 1
    BY <1>3, <2>1, <2>3 DEF Greetings
  <2>6. srv'.pc # "announce" /\ srv'.s = srv.s
    BY <1>5 DEF t
  <2>7. /\ \A i \in 1..Made : Met(fds, i)
        /\ \A m \in FD : fds[m].peer = Foreign \/ fds[m].peer <= Made + 1
    BY <2>3 DEF Greetings
  <2>8. Greetings(srv, fds)'
    BY <1>1, <1>12, <2>1, <2>4, <2>5, <2>6, <2>7 DEF Greetings
  <2> QED BY <1>1, <1>2, <1>3, <1>5, <1>12, <2>2, <2>8 DEF MeetInv, t
<1>14. net' \in SUBSET Datagram
  BY <1>1, <1>4, MadeLemma
<1> QED BY <1>1, <1>5, <1>10, <1>11, <1>12, <1>13, <1>14, ConfSame DEF Inv, TypeInv, t

-----------------------------------------------------------------------------
(* Another stream of the server *)

\* The listening sockets while no socket is being accepted from them.
Places(t, f) ==
  /\ t.listener \in FD /\ f[t.listener].kind = (IF conf.proto = "sctp" THEN "sctp" ELSE "tcp")
  /\ f[t.listener].peer = 0
  /\ IF conf.proto # "udp" THEN t.prot_listener = t.listener
     ELSE t.prot_listener \in FD /\ f[t.prot_listener].kind = "udp" /\ f[t.prot_listener].peer = 0

\* A stream was added, and the socket that was accepted is owned.
Added(u, g) ==
  /\ u \in SrvRec /\ g \in Table /\ u.state = "CREATE_STREAMS" /\ u.pc = "loop"
  /\ Has(u, g) /\ Places(u, g) /\ Accounted(u, g) /\ u.read_set \subseteq OpenFds(g)
  /\ SizeIsAsAsked(u.bufsize)

\* What another stream needs.
Addable(t, f, s) ==
  /\ t \in SrvRec /\ f \in Table /\ t.state = "CREATE_STREAMS" /\ Len(t.streams) < Streams
  /\ Has(t, f) /\ Places(t, f) /\ IsNew(t, f, s) /\ SizeIsAsAsked(t.bufsize)
  /\ OpenFds(f) \subseteq Leaked(f) \cup Owned(t) \cup {s} /\ t.read_set \subseteq OpenFds(f)
  /\ IsNext(f, NextFd(f))

\* The sockets of PlaceLemma are idle.
LEMMA PlacesIdle ==
  ASSUME conf \in Configs, NEW t, NEW f \in Table, Places(t, f)
  PROVE  /\ t.listener \in FD /\ t.prot_listener \in FD /\ IsIdle(f, t.listener)
         /\ IsIdle(f, t.prot_listener) /\ t.listener \notin Leaked(f)
         /\ t.prot_listener \notin Leaked(f)
BY DEF Places, IsIdle, Leaked

\* All streams are there.
LEMMA EndSetupLemma ==
  ASSUME conf \in Configs, NEW u, NEW g, Added(u, g), Len(u.streams) = Streams,
         NEW o, o = EndSetup(u, g)
  PROVE  /\ o.f \in Table /\ o.t \in SrvRec /\ o.t.state = "TEST_RUNNING" /\ o.t.pc = "loop"
         /\ o.t.streams = u.streams /\ Leaked(o.f) = Leaked(g) /\ ServerInv(o.t, o.f)
         /\ KeepsPeers(o.f, g)
<1> DEFINE p == u.prot_listener
           l == u.listener
<1>1. /\ u \in SrvRec /\ g \in Table /\ u.state = "CREATE_STREAMS" /\ u.pc = "loop"
      /\ Has(u, g) /\ Places(u, g) /\ Accounted(u, g) /\ u.read_set \subseteq OpenFds(g)
      /\ SizeIsAsAsked(u.bufsize) /\ u.read_set \in SUBSET Int /\ Streams \in Nat
      /\ -1 \in Int
  BY SrvFields, ConfLemma DEF Added
<1>2. /\ l \in FD /\ p \in FD /\ IsIdle(g, l) /\ IsIdle(g, p) /\ l \notin Leaked(g)
      /\ p \notin Leaked(g) /\ l \in Int /\ p \in Int
  BY <1>1, PlacesIdle, SrvFields
<1>3. OpenFds(g) \subseteq Leaked(g) \cup Owned(u)
  BY <1>1 DEF Accounted, Pending
<1>4. ASSUME NEW f, f \in Table, Leaked(f) = Leaked(g), NEW t \in SrvRec,
             t.state = "TEST_RUNNING", t.pc = "loop", t.streams = u.streams,
             t.prot_listener = -1, t.bufsize = u.bufsize, Has(t, f),
             OpenFds(f) \subseteq Leaked(f) \cup Owned(t), t.read_set \subseteq OpenFds(f)
      PROVE  ServerInv(t, f)
  <2>1. Accounted(t, f)
    BY <1>4 DEF Accounted
  <2>2. Started(t, f)
    BY <1>4 DEF Started
  <2> QED BY <1>1, <1>4, <2>1, <2>2 DEF ServerInv
<1>5. CASE conf.proto # "tcp"
  <2> DEFINE f == Close(g, {p})
             t == [u EXCEPT !.state = "TEST_RUNNING", !.read_set = @ \ {p}, !.prot_listener = -1]
  <2>1. o = [f |-> f, t |-> t]
    BY <1>5 DEF EndSetup
  <2>2. IsClosed(f, g, {p})
    BY <1>1, CloseLemma
  <2> HIDE DEF f
  <2>3. /\ t \in SrvRec /\ t.state = "TEST_RUNNING" /\ t.pc = "loop" /\ t.streams = u.streams
        /\ t.prot_listener = -1 /\ t.bufsize = u.bufsize /\ t.rec = u.rec /\ t.snd = u.snd
        /\ t.ctrl_sck = u.ctrl_sck /\ t.listener = u.listener /\ t.read_set = u.read_set \ {p}
    BY <1>1 DEF SrvRec
  <2> HIDE DEF t, p, l
  <2>4. /\ f \in Table /\ Leaked(f) = Leaked(g) /\ OpenFds(f) = OpenFds(g) \ {p}
        /\ SameBut(f, g, p) /\ f[p].peer = 0
    BY <1>2, <2>2, FreeLemma DEF IsClosed, SameBut
  <2>5. Has(t, f)
    <3>1. Fits(f[p].peer)
      BY <1>1, <2>4 DEF Fits
    <3> QED BY <1>1, <1>2, <2>3, <2>4, <3>1, StillHas
  <2>6. OpenFds(f) \subseteq Leaked(f) \cup Owned(t) /\ t.read_set \subseteq OpenFds(f)
    BY <1>1, <1>3, <2>3, <2>4 DEF Owned, StreamFds, Files, p
  <2>7. ServerInv(t, f)
    BY <1>4, <2>3, <2>4, <2>5, <2>6
  <2>8. KeepsPeers(f, g)
    BY <1>2, <2>4, IdleKeeps
  <2> QED BY <2>1, <2>3, <2>4, <2>7, <2>8
<1>6. CASE conf.proto = "tcp" /\ Relisten
  <2> DEFINE c == Close(g, {l})
             n == NextFd(c)
             f == netannounce(c, "tcp")
             x == Socket("tcp", 0, DefaultBuffer)
             r == (u.read_set \ {l}) \cup {n}
             t == [u EXCEPT !.state = "TEST_RUNNING", !.listener = n, !.prot_listener = -1,
                            !.read_set = r]
  <2>1. o = [f |-> f, t |-> t]
    BY <1>6 DEF EndSetup
  <2>2. IsClosed(c, g, {l})
    BY <1>1, CloseLemma
  <2> HIDE DEF c
  <2>3. c \in Table /\ ~IsOpen(c, l)
    <3>1. c \in Table /\ l \notin OpenFds(c)
      BY <2>2 DEF IsClosed
    <3> QED BY <3>1, OpenLemma
  <2>4. IsNext(c, n)
    BY <1>2, <2>3, NextFdLemma
  <2>5. IsOpened(f, c, n, x) /\ x.peer = 0
    BY <2>3, <2>4, AnnounceLemma, SockLemma, ConstLemma DEF Kind
  <2> HIDE DEF f, n, x
  <2>6. n \in Int /\ n \in FD /\ n \notin OpenFds(c)
    BY <2>3, <2>5, OpenLemma DEF IsOpened
  <2>7. r \in SUBSET Int
    BY <1>1, <2>6
  <2> HIDE DEF r
  <2>8. /\ t \in SrvRec /\ t.state = "TEST_RUNNING" /\ t.pc = "loop" /\ t.streams = u.streams
        /\ t.prot_listener = -1 /\ t.bufsize = u.bufsize /\ t.rec = u.rec /\ t.snd = u.snd
        /\ t.ctrl_sck = u.ctrl_sck /\ t.listener = n /\ t.read_set = r
    BY <1>1, <2>6, <2>7 DEF SrvRec
  <2> HIDE DEF t, l, p
  <2>9. /\ Leaked(c) = Leaked(g) /\ OpenFds(c) = OpenFds(g) \ {l} /\ SameBut(c, g, l)
        /\ c[l].peer = 0
    BY <1>2, <2>2, FreeLemma DEF IsClosed, SameBut
  <2>10. /\ f \in Table /\ Leaked(f) = Leaked(c) /\ OpenFds(f) = OpenFds(c) \cup {n}
         /\ SameBut(f, c, n) /\ f[n].peer = 0
    BY <2>5 DEF IsOpened, SameBut
  <2>11. Has(u, c)
    <3>1. Fits(c[l].peer)
      BY <1>1, <2>9 DEF Fits
    <3> QED BY <1>1, <1>2, <2>3, <2>9, <3>1, StillHas
  <2>12. Has(t, f)
    <3>1. c[n].kind = "free"
      BY <2>3, <2>6, OpenLemma
    <3>2. IsIdle(c, n) /\ Fits(f[n].peer)
      BY <1>1, <2>6, <2>10, <3>1 DEF IsIdle, Fits
    <3> QED BY <1>1, <2>3, <2>8, <2>10, <2>11, <3>2, StillHas
  <2>13. p = l
    BY <1>1, <1>6 DEF Places, p, l
  <2>14. OpenFds(f) \subseteq Leaked(f) \cup Owned(t)
    BY <1>3, <2>8, <2>9, <2>10, <2>13 DEF Owned, StreamFds, Files, p, l
  <2>15. t.read_set \subseteq OpenFds(f)
    BY <1>1, <2>8, <2>9, <2>10 DEF r
  <2>16. ServerInv(t, f)
    BY <1>4, <2>8, <2>9, <2>10, <2>12, <2>14, <2>15
  <2>17. KeepsPeers(f, g)
    <3>1. KeepsPeers(c, g)
      BY <1>2, <2>9, IdleKeeps
    <3>2. IsIdle(c, n)
      BY <2>3, <2>6, OpenLemma DEF IsIdle
    <3>3. KeepsPeers(f, c)
      BY <2>10, <3>2, IdleKeeps
    <3> QED BY <3>1, <3>3, KeepsTwice
  <2> QED BY <2>1, <2>8, <2>9, <2>10, <2>16, <2>17
<1>7. CASE conf.proto = "tcp" /\ ~Relisten
  <2> DEFINE t == [u EXCEPT !.state = "TEST_RUNNING", !.prot_listener = -1]
  <2>1. o = [f |-> g, t |-> t]
    BY <1>7 DEF EndSetup
  <2>2. /\ t \in SrvRec /\ t.state = "TEST_RUNNING" /\ t.pc = "loop" /\ t.streams = u.streams
        /\ t.prot_listener = -1 /\ t.bufsize = u.bufsize /\ t.rec = u.rec /\ t.snd = u.snd
        /\ t.ctrl_sck = u.ctrl_sck /\ t.listener = u.listener /\ t.read_set = u.read_set
    BY <1>1 DEF SrvRec
  <2> HIDE DEF t
  <2>3. Has(t, g)
    BY <1>1, <2>2 DEF Has, IsCtrl, IsStream, IsPaired, StrangerAmong
  <2>4. OpenFds(g) \subseteq Leaked(g) \cup Owned(t) /\ t.read_set \subseteq OpenFds(g)
    <3>1. u.prot_listener = u.listener
      BY <1>1, <1>7 DEF Places
    <3> QED BY <1>1, <1>3, <2>2, <3>1 DEF Owned, StreamFds, Files
  <2>5. ServerInv(t, g)
    BY <1>1, <1>4, <2>2, <2>3, <2>4
  <2>6. KeepsPeers(g, g)
    BY DEF KeepsPeers
  <2> QED BY <1>1, <2>1, <2>2, <2>5, <2>6
<1> QED BY <1>5, <1>6, <1>7

\* The counters of streams, for one stream more.
LEMMA CountLemma ==
  ASSUME NEW n \in Nat, NEW m \in Nat, NEW rec \in Nat, NEW snd \in Nat,
         rec = (IF n <= m THEN n ELSE m), rec + snd = n,
         NEW rec2, rec2 = (IF rec = m THEN rec ELSE rec + 1),
         NEW snd2, snd2 = (IF rec = m THEN snd + 1 ELSE snd)
  PROVE  /\ rec2 \in Nat /\ snd2 \in Nat /\ rec2 = (IF n + 1 <= m THEN n + 1 ELSE m)
         /\ rec2 + snd2 = n + 1 /\ (rec = m <=> n + 1 > m)
<1>1. CASE n < m
  <2>1. rec = n /\ ~(rec = m)
    BY <1>1
  <2> QED BY <1>1, <2>1
<1>2. CASE ~(n < m)
  <2>1. rec = m
    BY <1>2
  <2> QED BY <1>2, <2>1
<1> QED BY <1>1, <1>2

LEMMA AddStreamLemma ==
  ASSUME conf \in Configs, NEW t, NEW f, NEW s, Addable(t, f, s), NEW o, o = AddStream(t, f, s)
  PROVE  /\ o.f \in Table /\ o.t \in SrvRec /\ ServerInv(o.t, o.f) /\ Leaked(o.f) = Leaked(f)
         /\ Len(o.t.streams) = Len(t.streams) + 1 /\ o.t.pc = "loop"
         /\ o.t.state \in {"CREATE_STREAMS", "TEST_RUNNING"} /\ KeepsPeers(o.f, f)
         /\ o.t.state = "CREATE_STREAMS" =>
              /\ o.t.listener = t.listener /\ o.t.prot_listener = t.prot_listener
              /\ o.f[t.listener] = f[t.listener] /\ o.f[t.prot_listener] = f[t.prot_listener]
<1> DEFINE sender == t.rec = StreamsToRec
           file == NextFd(f)
           x == Socket("file", 0, 0)
           g == [f EXCEPT ![file] = x]
           rec == IF sender THEN t.rec ELSE t.rec + 1
           snd == IF sender THEN t.snd + 1 ELSE t.snd
           e == [fd |-> s, file |-> file, sender |-> sender]
           q == Append(t.streams, e)
           rs == IF sender THEN t.read_set ELSE t.read_set \cup {s}
           u == [t EXCEPT !.pc = "loop", !.rec = rec, !.snd = snd, !.streams = q, !.read_set = rs]
           n == Len(t.streams)
<1>1. /\ t \in SrvRec /\ f \in Table /\ t.state = "CREATE_STREAMS" /\ n < Streams
      /\ Has(t, f) /\ Places(t, f) /\ IsNew(t, f, s) /\ SizeIsAsAsked(t.bufsize)
      /\ OpenFds(f) \subseteq Leaked(f) \cup Owned(t) \cup {s} /\ t.read_set \subseteq OpenFds(f)
      /\ IsNext(f, file) /\ n \in Nat /\ Streams \in Nat /\ StreamsToRec \in Nat
      /\ t.rec \in Nat /\ t.snd \in Nat /\ t.streams \in Seq(StreamRec)
  BY SrvFields, ConfLemma DEF Addable
<1>2. o = IF rec + snd = Streams THEN EndSetup(u, g) ELSE [f |-> g, t |-> u]
  <2>1. u.rec = rec /\ u.snd = snd
    BY <1>1 DEF SrvRec
  <2>2. o = IF u.rec + u.snd = Streams THEN EndSetup(u, g) ELSE [f |-> g, t |-> u]
    BY DEF AddStream
  <2> HIDE DEF u, g, rec, snd
  <2> QED BY <2>1, <2>2
<1>3. x \in Sock /\ x.kind = "file" /\ x.peer = 0
  <2>1. "file" \in Kind /\ 0 \in Nat
    BY DEF Kind
  <2> QED BY <2>1, SockLemma
<1> HIDE DEF x, file
<1>4. IsOpened(g, f, file, x)
  BY <1>1, <1>3, OpenedLemma
<1> HIDE DEF g
<1>5. /\ g \in Table /\ g[file] = x /\ file \notin OpenFds(f) /\ OpenFds(g) = OpenFds(f) \cup {file}
      /\ Leaked(g) = Leaked(f) /\ file \in FD /\ file \in Int /\ \A m \in FD : m # file => g[m] = f[m]
      /\ f[file].kind = "free"
  BY <1>1, <1>4, OpenLemma DEF IsOpened
<1>6. s \in FD /\ s \in OpenFds(f) /\ s # file /\ s \in Int /\ g[s] = f[s]
  <2>1. s \in FD /\ f[s].kind \in {"udp", "conn"}
    BY <1>1 DEF IsNew
  <2> QED BY <1>1, <1>5, <2>1, OpenLemma
<1>7. /\ rec \in Nat /\ snd \in Nat
      /\ rec = (IF n + 1 <= StreamsToRec THEN n + 1 ELSE StreamsToRec)
      /\ rec + snd = n + 1 /\ sender = (n + 1 > StreamsToRec) /\ sender \in BOOLEAN
  <2>1. t.rec = (IF n <= StreamsToRec THEN n ELSE StreamsToRec) /\ t.rec + t.snd = n
    BY <1>1 DEF Has
  <2> HIDE DEF n
  <2>2. /\ rec \in Nat /\ snd \in Nat
        /\ rec = (IF n + 1 <= StreamsToRec THEN n + 1 ELSE StreamsToRec)
        /\ rec + snd = n + 1 /\ (t.rec = StreamsToRec <=> n + 1 > StreamsToRec)
    <3>1. n \in Nat /\ StreamsToRec \in Nat /\ t.rec \in Nat /\ t.snd \in Nat
      BY <1>1
    <3> QED BY <2>1, <3>1, CountLemma
  <2>3. sender \in BOOLEAN
    OBVIOUS
  <2>4. sender <=> n + 1 > StreamsToRec
    BY <2>2
  <2>5. sender = (n + 1 > StreamsToRec)
    <3> HIDE DEF sender
    <3> QED BY <2>3, <2>4
  <2> QED BY <2>2, <2>3, <2>5
<1> HIDE DEF rec, snd, sender
<1>8. /\ e \in StreamRec /\ e.fd = s /\ e.file = file /\ e.sender = sender
  BY <1>5, <1>6, <1>7 DEF StreamRec
<1> HIDE DEF e
<1>9. /\ q \in Seq(StreamRec) /\ Len(q) = n + 1 /\ \A k \in 1..n : q[k] = t.streams[k]
      /\ q[n + 1] = e /\ DOMAIN q = 1..n + 1 /\ DOMAIN t.streams = 1..n
  BY <1>1, <1>8
<1> HIDE DEF q
<1>10. rs \in SUBSET Int /\ rs \subseteq OpenFds(f)
  BY <1>1, <1>6, SrvFields
<1> HIDE DEF rs
<1>11. /\ u \in SrvRec /\ u.state = "CREATE_STREAMS" /\ u.pc = "loop" /\ u.rec = rec /\ u.snd = snd
       /\ u.streams = q /\ u.read_set = rs /\ u.listener = t.listener /\ u.ctrl_sck = t.ctrl_sck
       /\ u.prot_listener = t.prot_listener /\ u.bufsize = t.bufsize
  BY <1>1, <1>7, <1>9, <1>10 DEF SrvRec
<1> HIDE DEF u
<1>12. /\ t.listener \in FD /\ t.prot_listener \in FD /\ g[t.listener] = f[t.listener]
       /\ g[t.prot_listener] = f[t.prot_listener]
  <2>1. /\ t.listener \in FD /\ t.prot_listener \in FD /\ f[t.listener].kind # "free"
        /\ f[t.prot_listener].kind # "free"
    BY <1>1 DEF Places
  <2> QED BY <1>5, <2>1
<1>13. Places(u, g)
  BY <1>1, <1>11, <1>12 DEF Places
<1>14. Accounted(u, g) /\ u.read_set \subseteq OpenFds(g)
  <2>1. StreamFds(t) \cup {s} \subseteq StreamFds(u) /\ Files(t) \cup {file} \subseteq Files(u)
    <3>1. \A k \in 1..n : k \in 1..n + 1
      BY <1>1
    <3>2. n + 1 \in 1..n + 1
      BY <1>1
    <3>3. s \in StreamFds(u) /\ file \in Files(u)
      BY <1>8, <1>9, <1>11, <3>2 DEF StreamFds, Files
    <3>4. StreamFds(t) \subseteq StreamFds(u) /\ Files(t) \subseteq Files(u)
      BY <1>9, <1>11, <3>1 DEF StreamFds, Files
    <3> QED BY <3>3, <3>4
  <2>2. OpenFds(g) \subseteq Leaked(g) \cup Owned(u)
    BY <1>1, <1>5, <1>11, <2>1 DEF Owned
  <2> QED BY <1>5, <1>10, <1>11, <2>2 DEF Accounted
<1>15. Has(u, g)
  <2>1. IsCtrl(u, g)
    <3>1. t.ctrl_sck \in FD /\ f[t.ctrl_sck].kind = "ctrl"
      BY <1>1 DEF Has, IsCtrl
    <3> QED BY <1>5, <1>11, <3>1 DEF IsCtrl
  <2>2. \A j \in 1..n : g[u.streams[j].fd].peer = f[t.streams[j].fd].peer
    <3> SUFFICES ASSUME NEW j \in 1..n
                 PROVE  g[u.streams[j].fd].peer = f[t.streams[j].fd].peer
      OBVIOUS
    <3> DEFINE a == t.streams[j].fd
    <3>1. IsStream(t, f, j) /\ a \in FD
      BY <1>1, SrvFields DEF Has
    <3>2. f[a].kind # "free"
      BY <3>1 DEF IsStream
    <3>3. u.streams[j] = t.streams[j]
      BY <1>9, <1>11
    <3> HIDE DEF a
    <3>4. g[a] = f[a]
      BY <1>5, <3>1, <3>2
    <3> QED BY <3>3, <3>4 DEF a
  <2>3. ASSUME NEW k \in 1..n
        PROVE  IsStream(u, g, k)
    <3> DEFINE a == t.streams[k].fd
               b == t.streams[k].file
    <3>1. IsStream(t, f, k) /\ a \in FD /\ b \in FD
      BY <1>1, SrvFields DEF Has
    <3>2. g[a] = f[a] /\ g[b] = f[b]
      <4>1. f[a].kind # "free" /\ f[b].kind # "free"
        BY <3>1 DEF IsStream
      <4> HIDE DEF a, b
      <4> QED BY <1>5, <3>1, <4>1
    <3>3. u.streams[k] = t.streams[k]
      BY <1>9, <1>11
    <3>4. IsPaired(u, g, k, f[a].peer)
      <4> DEFINE p == f[a].peer
      <4>1. IsPaired(t, f, k, p)
        BY <3>1 DEF IsStream
      <4>2. k \in Nat /\ \A j \in 1..k - 1 : j \in 1..n
        BY <1>1
      <4> HIDE DEF p
      <4>3. \A j \in 1..k - 1 : g[u.streams[j].fd].peer = f[t.streams[j].fd].peer
        BY <2>2, <4>2
      <4>4. IsPaired(u, g, k, p)
        BY <4>1, <4>2, <4>3, PairedLemma
      <4> QED BY <4>4 DEF p
    <3> QED BY <3>1, <3>2, <3>3, <3>4 DEF IsStream
  <2>4. IsStream(u, g, n + 1)
    <3>1. u.streams[n + 1] = e
      BY <1>9, <1>11
    <3> DEFINE p == f[s].peer
    <3>2. g[s].peer = p /\ Holds(g[s].buf) /\ IsPaired(t, f, n + 1, p)
          /\ g[s].kind = (IF conf.proto = "udp" THEN "udp" ELSE "conn")
      BY <1>1, <1>6 DEF IsNew
    <3>3. n + 1 \in Nat /\ \A j \in 1..(n + 1) - 1 : g[u.streams[j].fd].peer = f[t.streams[j].fd].peer
      BY <1>1, <2>2
    <3>4. IsPaired(u, g, n + 1, p)
      <4> HIDE DEF p, n
      <4> QED BY <3>2, <3>3, PairedLemma
    <3> HIDE DEF p
    <3>5. g[file].kind = "file"
      BY <1>3, <1>5
    <3> QED BY <1>7, <1>8, <3>1, <3>2, <3>5, <3>4 DEF IsStream
  <2>5. \A k \in 1..n + 1 : IsStream(u, g, k)
    BY <1>1, <2>3, <2>4
  <2>6. \A m \in FD : Fits(g[m].peer)
    BY <1>1, <1>3, <1>5 DEF Has, Fits
  <2> HIDE DEF n
  <2> QED BY <1>7, <1>9, <1>11, <2>1, <2>5, <2>6 DEF Has
<1>16. Added(u, g)
  BY <1>1, <1>5, <1>11, <1>13, <1>14, <1>15 DEF Added
<1>17. KeepsPeers(g, f)
  <2>1. IsIdle(f, file) /\ SameBut(g, f, file) /\ g[file].peer = 0
    BY <1>3, <1>5 DEF IsIdle, SameBut
  <2> QED BY <2>1, IdleKeeps
<1>18. CASE rec + snd = Streams
  <2>1. o = EndSetup(u, g) /\ Len(u.streams) = Streams
    BY <1>2, <1>7, <1>9, <1>11, <1>18
  <2>2. /\ o.f \in Table /\ o.t \in SrvRec /\ o.t.state = "TEST_RUNNING" /\ o.t.pc = "loop"
        /\ o.t.streams = u.streams /\ Leaked(o.f) = Leaked(g) /\ ServerInv(o.t, o.f)
        /\ KeepsPeers(o.f, g)
    BY <1>16, <2>1, EndSetupLemma
  <2>3. KeepsPeers(o.f, f)
    BY <1>17, <2>2, KeepsTwice
  <2> QED BY <1>5, <1>9, <1>11, <2>2, <2>3
<1>19. CASE rec + snd # Streams
  <2>1. o = [f |-> g, t |-> u]
    BY <1>2, <1>19
  <2>2. Collecting(u, g)
    <3>1. Len(u.streams) < Streams
      BY <1>1, <1>7, <1>9, <1>11, <1>19
    <3> QED BY <1>11, <1>13, <3>1 DEF Collecting, Places
  <2>3. ServerInv(u, g)
    BY <1>1, <1>11, <1>14, <1>15, <2>2 DEF ServerInv
  <2> QED BY <1>5, <1>9, <1>11, <1>12, <1>17, <2>1, <2>3
<1> QED BY <1>18, <1>19

LEMMA UdpStreamInv ==
  ASSUME Inv, UdpStream
  PROVE  Inv'
<1>1. srv.pc = "stream" /\ srv.state = "CREATE_STREAMS"
  BY PlaceLemma DEF UdpStream
<1> DEFINE n == Len(srv.streams)
           p == srv.prot_listener
<1>2. /\ IsNext(fds, NextFd(fds)) /\ IsNew(srv, fds, srv.s) /\ conf.proto = "udp"
      /\ conf \in Configs /\ fds \in Table /\ srv \in SrvRec /\ Streams \in Nat
      /\ n \in Nat /\ n < Streams
      /\ Has(srv, fds) /\ Collecting(srv, fds) /\ SizeIsAsAsked(srv.bufsize)
      /\ Accounted(srv, fds) /\ srv.read_set \subseteq OpenFds(fds)
      /\ LeakInv(fds, ghost.failures)
  BY <1>1, AcceptRoom
<1>3. OpenFds(fds) \subseteq Leaked(fds) \cup Owned(srv) \cup {srv.s}
  BY <1>1, <1>2 DEF Accounted, Pending
<1>4. CASE /\ \E o \in {AddStream(srv, fds, srv.s)} : fds' = o.f /\ srv' = o.t
           /\ UNCHANGED <<conf, cli, net, ghost>>
  <2> DEFINE o == AddStream(srv, fds, srv.s)
  <2>1. Addable(srv, fds, srv.s)
    <3>1. Places(srv, fds)
      BY <1>1, <1>2 DEF Places, Collecting
    <3> QED BY <1>1, <1>2, <1>3, <3>1 DEF Addable
  <2>2. fds' = o.f /\ srv' = o.t /\ UNCHANGED <<conf, cli, net, ghost>>
    BY <1>4
  <2>3. /\ o.f \in Table /\ o.t \in SrvRec /\ ServerInv(o.t, o.f) /\ Leaked(o.f) = Leaked(fds)
        /\ Len(o.t.streams) = n + 1 /\ o.t.pc = "loop"
        /\ o.t.state \in {"CREATE_STREAMS", "TEST_RUNNING"} /\ KeepsPeers(o.f, fds)
        /\ o.t.state = "CREATE_STREAMS" => o.t.prot_listener = p /\ o.f[p] = fds[p]
    BY <1>2, <2>1, AddStreamLemma
  <2> HIDE DEF o, n
  <2>4. ServerInv(srv, fds)'
    BY <2>2, <2>3, NextServer
  <2>5. LeakInv(fds, ghost.failures)'
    BY <1>2, <2>2, <2>3 DEF LeakInv, Leaked
  <2>6. ClientInv' /\ cli' \in CliRec /\ Made' = Made
    BY <2>2, MadeLemma, ClientFailed DEF Inv
  <2>7. MeetInv'
    <3>1. Replied(srv)' = Replied(srv)
      BY <1>1, <1>2, <2>2, <2>3 DEF Replied, n
    <3>2. Greetings(srv, fds)'
      BY <1>1, <1>2, <2>2, <2>3, <2>6, <3>1, GreetingsLemma
    <3>3. srv'.state = "CREATE_STREAMS" => HelloQueue(srv, fds)'
      <4>1. HelloQueue(srv, fds)
        BY <1>1, <1>2 DEF Inv, MeetInv
      <4>2. \A j \in DOMAIN fds[p].q : Waits(fds, fds[p].q[j])
        BY <1>1, <4>1 DEF HelloQueue
      <4>3. \A i : Waits(fds, i) => Waits(fds, i)'
        BY <2>2, <2>3, <2>6, WaitsLemma
      <4> QED BY <2>2, <2>3, <4>2, <4>3 DEF HelloQueue
    <3> QED BY <1>2, <2>2, <2>3, <2>6, <3>2, <3>3 DEF MeetInv
  <2> QED BY <2>2, <2>3, <2>4, <2>5, <2>6, <2>7, ConfSame DEF Inv, TypeInv
<1>5. CASE NewStreamFails(srv, fds)
  BY <1>1, <1>2, <1>3, <1>5, NewStreamFailsInv
<1> QED BY <1>4, <1>5 DEF UdpStream

-----------------------------------------------------------------------------
(* Accepting over TCP and SCTP *)

\* v is the queue w without its first connection.
IsTail(v, w) ==
  /\ 1 \in DOMAIN w /\ w[1] \in Nat /\ Head(w) = w[1] /\ v \in Seq(Nat) /\ Ordered(v)
  /\ \A i \in Nat \ {0} : (\E j \in DOMAIN v : v[j] = i)
                            <=> ((\E j \in DOMAIN w : w[j] = i) /\ i # w[1])

LEMMA TailQueue ==
  ASSUME NEW w \in Seq(Nat), w # <<>>, Ordered(w)
  PROVE  IsTail(Tail(w), w)
<1> DEFINE v == Tail(w)
<1> DEFINE n == Len(w)
<1>1. /\ n \in Nat /\ n > 0 /\ DOMAIN w = 1..n /\ DOMAIN v = 1..n - 1 /\ Head(w) = w[1]
      /\ v \in Seq(Nat) /\ w[1] \in Nat /\ 1 \in DOMAIN w
      /\ \A j \in 1..n - 1 : v[j] = w[j + 1]
  BY TailFacts
<1> HIDE DEF n, v
<1>2. \A j \in DOMAIN v : j \in Int /\ j + 1 \in DOMAIN w /\ 1 < j + 1 /\ v[j] = w[j + 1]
  <2> SUFFICES ASSUME NEW j \in 1..n - 1
               PROVE  j \in Int /\ j + 1 \in 1..n /\ 1 < j + 1 /\ v[j] = w[j + 1]
    BY <1>1
  <2>1. n \in Nat
    BY <1>1
  <2>2. j \in Int /\ j + 1 \in 1..n /\ 1 < j + 1
    BY <2>1
  <2> QED BY <1>1, <2>2
<1>3. \A j \in DOMAIN w : j \in Int /\ (j = 1 \/ (j - 1 \in DOMAIN v /\ v[j - 1] = w[j]))
  <2> SUFFICES ASSUME NEW j \in 1..n, j # 1
               PROVE  j - 1 \in 1..n - 1 /\ v[j - 1] = w[j]
    BY <1>1
  <2>1. j - 1 \in 1..n - 1 /\ (j - 1) + 1 = j
    BY <1>1
  <2>2. v[j - 1] = w[(j - 1) + 1]
    BY <1>1, <2>1
  <2> QED BY <2>1, <2>2
<1>4. Ordered(v)
  <2> SUFFICES ASSUME NEW a \in DOMAIN v, NEW b \in DOMAIN v, a < b, v[a] # 0, v[b] # 0
               PROVE  v[a] < v[b]
    BY DEF Ordered
  <2>1. a + 1 \in DOMAIN w /\ b + 1 \in DOMAIN w /\ a + 1 < b + 1
    BY <1>2
  <2>2. w[a + 1] < w[b + 1]
    BY <1>2, <2>1 DEF Ordered
  <2> QED BY <1>2, <2>2
<1>5. ASSUME NEW i \in Nat \ {0}
      PROVE  (\E j \in DOMAIN v : v[j] = i) <=> ((\E j \in DOMAIN w : w[j] = i) /\ i # w[1])
  <2>1. ASSUME NEW j \in DOMAIN v, v[j] = i
        PROVE  (\E k \in DOMAIN w : w[k] = i) /\ i # w[1]
    <3>1. j + 1 \in DOMAIN w /\ w[j + 1] = i /\ 1 < j + 1
      BY <1>2, <2>1
    <3>2. w[1] \in Nat /\ 1 \in DOMAIN w /\ i \in Nat /\ i # 0
      BY <1>1
    <3>3. \A a, b \in DOMAIN w : a < b /\ w[a] # 0 /\ w[b] # 0 => w[a] < w[b]
      BY Zenon DEF Ordered
    <3>4. w[1] = 0 \/ w[1] < i
      <4>1. 1 < j + 1 /\ w[1] # 0 /\ w[j + 1] # 0 => w[1] < w[j + 1]
        BY <3>1, <3>2, <3>3, Zenon
      <4> QED BY <3>1, <3>2, <4>1
    <3> QED BY <3>1, <3>2, <3>4
  <2>2. ASSUME NEW j \in DOMAIN w, w[j] = i, i # w[1]
        PROVE  \E k \in DOMAIN v : v[k] = i
    <3>1. j # 1
      BY <2>2
    <3>2. j - 1 \in DOMAIN v /\ v[j - 1] = i
      BY <1>3, <2>2, <3>1
    <3> QED BY <3>2
  <2> QED BY <2>1, <2>2
<1> QED BY <1>1, <1>4, <1>5 DEF IsTail, v

\* The connection that is accepted next is the one the server counts next.
LEMMA FirstLemma ==
  ASSUME NEW w, Ordered(w), 1 \in DOMAIN w, w[1] \in Nat \ {0}, DOMAIN w \subseteq Nat \ {0},
         NEW n \in Nat, NEW m \in Nat,
         \A i \in Nat \ {0} : (\E j \in DOMAIN w : w[j] = i) <=> (n < i /\ i <= m)
  PROVE  w[1] = n + 1 /\ n + 1 <= m
<1>1. n < w[1] /\ w[1] <= m
  OBVIOUS
<1>2. n + 1 \in Nat \ {0} /\ n < n + 1 /\ n + 1 <= m
  BY <1>1
<1>3. PICK j \in DOMAIN w : w[j] = n + 1
  BY <1>2
<1>4. j = 1 \/ 1 < j
  BY <1>3
<1>5. 1 < j => w[1] < n + 1
  BY <1>2, <1>3 DEF Ordered
<1> QED BY <1>1, <1>2, <1>3, <1>4, <1>5

LEMMA PoppedLemma ==
  ASSUME NEW f \in Table, NEW n \in FD, f[n].q # <<>>
  PROVE  /\ SameSockets(Popped(f, n), f) /\ Popped(f, n)[n].q = Tail(f[n].q)
         /\ Popped(f, n) \in Table
<1> DEFINE x == [f[n] EXCEPT !.q = Tail(f[n].q)]
           g == Popped(f, n)
<1>1. f[n] \in Sock /\ f[n].q \in Seq(Nat)
  BY DEF Table, Sock
<1>2. Tail(f[n].q) \in Seq(Nat)
  BY <1>1, TailFacts
<1>3. x \in Sock /\ x.q = Tail(f[n].q) /\ x.kind = f[n].kind /\ x.peer = f[n].peer /\ x.buf = f[n].buf
  BY <1>1, <1>2 DEF Sock
<1>4. g = [f EXCEPT ![n] = x]
  BY DEF Popped
<1> HIDE DEF x, g
<1>5. g \in Table /\ g[n] = x /\ \A m \in FD : m # n => g[m] = f[m]
  BY <1>3, <1>4 DEF Table
<1>6. SameSockets(g, f) /\ g[n].q = Tail(f[n].q) /\ g \in Table
  BY <1>3, <1>5 DEF SameSockets
<1> QED BY <1>6 DEF g

LEMMA AcceptConnectionInv ==
  ASSUME Inv, AcceptConnection
  PROVE  Inv'
<1> DEFINE l == srv.listener
           w == fds[l].q
           f == Popped(fds, l)
           s == NextFd(f)
           i == Head(w)
           x == Socket("conn", i, DefaultBuffer)
           g == [f EXCEPT ![s] = x]
           n == Len(srv.streams)
<1>1. conf.proto # "udp" /\ srv.state = "CREATE_STREAMS" /\ srv.pc = "loop"
      /\ fds[srv.prot_listener].q # <<>>
  BY DEF AcceptConnection, Accepting
<1>2. /\ conf \in Configs /\ fds \in Table /\ srv \in SrvRec /\ Streams \in Nat
      /\ n \in Nat /\ n < Streams /\ Has(srv, fds) /\ Collecting(srv, fds)
      /\ SizeIsAsAsked(srv.bufsize) /\ Accounted(srv, fds)
      /\ srv.read_set \subseteq OpenFds(fds) /\ LeakInv(fds, ghost.failures)
      /\ srv.streams \in Seq(StreamRec) /\ ghost.failures \in 0..MaxFailures /\ Made \in Nat
      /\ srv.tests \in Nat
  BY <1>1, AcceptRoom, SrvFields, MadeLemma, ConfSame DEF Inv
<1>3. l \in FD /\ srv.prot_listener = l /\ w # <<>> /\ w \in Seq(Nat)
  <2>1. l \in FD /\ srv.prot_listener = l
    BY <1>1, <1>2 DEF Collecting
  <2> QED BY <1>1, <1>2, <2>1 DEF Table, Sock
<1>4. /\ Ordered(w) /\ n <= Made
      /\ \A k \in Nat \ {0} : (\E j \in DOMAIN w : w[j] = k) <=> (n < k /\ k <= Made)
  BY <1>1 DEF Inv, MeetInv, ConnectionQueue
<1>5. \/ i = 0 /\ fds' = f /\ UNCHANGED <<conf, srv, cli, net, ghost>>
      \/ /\ i # 0 /\ fds' = AddStream(srv, g, s).f /\ srv' = AddStream(srv, g, s).t
         /\ UNCHANGED <<conf, cli, net, ghost>>
      \/ i # 0 /\ NewStreamFails(srv, g)
      \/ /\ Fail /\ Restart(srv, IF conf.proto = "sctp" THEN f ELSE g)
         /\ UNCHANGED <<conf, cli, net>>
  BY DEF AcceptConnection
<1>6. SameSockets(f, fds) /\ f[l].q = Tail(w) /\ f \in Table
  BY <1>2, <1>3, PoppedLemma
<1> HIDE DEF f
<1>7. OpenFds(f) = OpenFds(fds) /\ Leaked(f) = Leaked(fds)
  BY <1>2, <1>6, SameSocketsLemma
<1>8. OpenFds(f) \subseteq Leaked(f) \cup Owned(srv) \cup {0} /\ OpenFds(f) \subseteq Leaked(f) \cup Owned(srv)
      /\ LeakInv(f, ghost.failures)
  BY <1>1, <1>2, <1>7 DEF Accounted, Pending, LeakInv
<1>9. IsNext(f, s)
  <2> HIDE DEF n
  <2>1. Len(srv.streams) < Streams
    BY <1>2 DEF n
  <2> QED BY <1>2, <1>6, <1>8, <2>1, RoomLemma
<1> DEFINE v == Tail(w)
<1>10. /\ 1 \in DOMAIN w /\ w[1] \in Nat /\ i = w[1] /\ v \in Seq(Nat) /\ Ordered(v)
       /\ \A k \in Nat \ {0} : (\E j \in DOMAIN v : v[j] = k)
                                 <=> ((\E j \in DOMAIN w : w[j] = k) /\ k # w[1])
  <2>1. v = Tail(w) /\ i = Head(w)
    OBVIOUS
  <2> HIDE DEF w, v, i
  <2>2. w \in Seq(Nat) /\ w # <<>> /\ Ordered(w)
    BY <1>3, <1>4
  <2>3. IsTail(Tail(w), w)
    BY <2>2, TailQueue
  <2> QED BY <2>1, <2>3 DEF IsTail
<1>11. x \in Sock /\ x.kind = "conn" /\ x.peer = i /\ x.buf = DefaultBuffer
  <2>1. i \in Nat /\ "conn" \in Kind
    BY <1>10 DEF Kind
  <2> HIDE DEF i
  <2> QED BY <2>1, SockLemma, ConstLemma
<1> HIDE DEF x, s, i
<1>12. IsOpened(g, f, s, x)
  BY <1>6, <1>9, <1>11, OpenedLemma
<1> HIDE DEF g
<1>13. /\ g \in Table /\ g[s] = x /\ s \notin OpenFds(f) /\ OpenFds(g) = OpenFds(f) \cup {s}
       /\ Leaked(g) = Leaked(f) /\ s \in FD /\ \A m \in FD : m # s => g[m] = f[m]
  BY <1>12 DEF IsOpened
<1>14. OpenFds(g) \subseteq Leaked(g) \cup Owned(srv) \cup {s}
  BY <1>8, <1>13
<1>15. CASE i = 0 /\ fds' = f /\ UNCHANGED <<conf, srv, cli, net, ghost>>
  <2>1. ServerInv(srv, fds)' /\ fds' \in Table /\ LeakInv(fds', ghost.failures)
    BY <1>1, <1>6, <1>15, SameServer
  <2>2. LeakInv(fds, ghost.failures)'
    BY <1>15, <2>1 DEF LeakInv, Leaked
  <2>3. ClientInv' /\ cli' \in CliRec /\ Made' = Made
    BY <1>15, MadeLemma, ClientFailed DEF Inv
  <2>4. ConnectionQueue(srv, fds)'
    <3>1. \A k \in Nat \ {0} : (\E j \in DOMAIN v : v[j] = k) <=> (n < k /\ k <= Made)
      BY <1>4, <1>10, <1>15
    <3>2. fds'[srv'.listener].q = v /\ Made' = Made /\ srv' = srv
      BY <1>6, <1>15, <2>3
    <3> HIDE DEF v
    <3>3. Ordered(fds[srv.listener].q)'
      BY <1>10, <3>2 DEF Ordered
    <3> QED BY <1>4, <3>1, <3>2, <3>3 DEF ConnectionQueue
  <2>5. MeetInv'
    BY <1>1, <1>15, <2>4 DEF Inv, MeetInv
  <2> QED BY <1>15, <2>1, <2>2, <2>3, <2>5, ConfSame DEF Inv, TypeInv
<1>16. CASE /\ i # 0 /\ fds' = AddStream(srv, g, s).f /\ srv' = AddStream(srv, g, s).t
            /\ UNCHANGED <<conf, cli, net, ghost>>
  <2> DEFINE o == AddStream(srv, g, s)
  <2>1. i = n + 1 /\ n + 1 <= Made
    <3>1. DOMAIN w \subseteq Nat \ {0}
      BY <1>3
    <3>2. w[1] \in Nat \ {0}
      BY <1>10, <1>16
    <3> HIDE DEF w, n
    <3>3. w[1] = n + 1 /\ n + 1 <= Made
      BY <1>2, <1>4, <1>10, <3>1, <3>2, FirstLemma
    <3> QED BY <1>10, <3>3
  <2>2. fds[s].kind = "free" /\ f[s].kind = "free"
    BY <1>2, <1>6, <1>13, OpenLemma DEF SameSockets
  <2>3. Has(srv, g)
    <3>1. IsIdle(fds, s)
      BY <1>13, <2>2 DEF IsIdle
    <3>2. SameBut(g, fds, s)
      BY <1>6, <1>13 DEF SameBut, SameSockets
    <3>3. Fits(g[s].peer)
      BY <1>2, <1>11, <1>13, <2>1 DEF Fits
    <3> QED BY <1>2, <1>13, <3>1, <3>2, <3>3, StillHas
  <2>4. g[l] = f[l] /\ fds[l].kind = g[l].kind /\ fds[l].peer = g[l].peer
    <3>1. fds[l].kind # "free"
      BY <1>2 DEF Collecting
    <3>2. l # s
      BY <2>2, <3>1
    <3> QED BY <1>3, <1>6, <1>13, <3>2 DEF SameSockets
  <2>5. Places(srv, g)
    BY <1>1, <1>2, <1>3, <2>4 DEF Places, Collecting
  <2>6. IsNew(srv, g, s)
    <3>1. \A j \in 1..n : IsPaired(srv, g, j, g[srv.streams[j].fd].peer)
      BY <2>3 DEF Has, IsStream
    <3>2. \A j \in 1..n : j \in Nat /\ g[srv.streams[j].fd].peer = j
      BY <1>1, <1>2, <3>1 DEF IsPaired, StrangerAmong
    <3>3. IsPaired(srv, g, n + 1, n + 1)
      BY <1>2, <3>2 DEF IsPaired
    <3> QED BY <1>1, <1>11, <1>13, <2>1, <3>3 DEF IsNew, Holds
  <2>7. IsNext(g, NextFd(g))
    <3>1. LeakInv(g, ghost.failures)
      BY <1>8, <1>13 DEF LeakInv
    <3>2. Len(srv.streams) < Streams
      BY <1>2
    <3> QED BY <1>2, <1>13, <1>14, <3>1, <3>2, RoomLemma
  <2>8. srv.read_set \subseteq OpenFds(g)
    BY <1>2, <1>7, <1>13
  <2>9. Addable(srv, g, s)
    BY <1>1, <1>2, <1>13, <1>14, <2>3, <2>5, <2>6, <2>7, <2>8 DEF Addable
  <2>10. /\ o.f \in Table /\ o.t \in SrvRec /\ ServerInv(o.t, o.f) /\ Leaked(o.f) = Leaked(g)
         /\ Len(o.t.streams) = n + 1 /\ o.t.pc = "loop"
         /\ o.t.state \in {"CREATE_STREAMS", "TEST_RUNNING"}
         /\ o.t.state = "CREATE_STREAMS" => o.t.listener = l /\ o.f[l] = g[l]
    BY <1>2, <2>9, AddStreamLemma
  <2>11. fds' = o.f /\ srv' = o.t /\ UNCHANGED <<conf, cli, net, ghost>>
    BY <1>16
  <2> HIDE DEF o
  <2>12. ServerInv(srv, fds)'
    BY <2>10, <2>11, NextServer
  <2>13. LeakInv(fds, ghost.failures)'
    BY <1>2, <1>7, <1>13, <2>10, <2>11 DEF LeakInv, Leaked
  <2>14. ClientInv' /\ cli' \in CliRec /\ Made' = Made
    BY <2>11, MadeLemma, ClientFailed DEF Inv
  <2>15. srv'.state = "CREATE_STREAMS" => ConnectionQueue(srv, fds)'
    <3> SUFFICES ASSUME srv'.state = "CREATE_STREAMS"
                 PROVE  ConnectionQueue(srv, fds)'
      OBVIOUS
    <3>1. fds'[srv'.listener].q = v /\ Len(srv'.streams) = n + 1
      BY <1>6, <2>4, <2>10, <2>11
    <3> HIDE DEF v, w, n
    <3>2. Ordered(fds[srv.listener].q)'
      BY <1>10, <3>1 DEF Ordered
    <3>3. \A k \in Nat \ {0} : (\E j \in DOMAIN v : v[j] = k) <=> (n < k /\ k <= Made) /\ k # n + 1
      BY <1>4, <1>10, <2>1
    <3>4. \A k \in Nat \ {0} : (n < k /\ k <= Made) /\ k # n + 1 <=> n + 1 < k /\ k <= Made
      BY <1>2
    <3>5. \A k \in Nat \ {0} : (\E j \in DOMAIN v : v[j] = k) <=> (n + 1 < k /\ k <= Made)
      BY <3>3, <3>4
    <3> QED BY <2>1, <2>14, <3>1, <3>2, <3>5 DEF ConnectionQueue
  <2>16. MeetInv'
    BY <1>1, <2>10, <2>11, <2>15 DEF Inv, MeetInv
  <2> QED BY <2>10, <2>11, <2>12, <2>13, <2>14, <2>16, ConfSame DEF Inv, TypeInv
<1>17. CASE i # 0 /\ NewStreamFails(srv, g)
  BY <1>1, <1>7, <1>13, <1>14, <1>17, NewStreamFailsInv
<1>18. CASE /\ Fail /\ Restart(srv, IF conf.proto = "sctp" THEN f ELSE g)
            /\ UNCHANGED <<conf, cli, net>>
  <2> DEFINE h == IF conf.proto = "sctp" THEN f ELSE g
  <2>1. /\ h \in Table /\ OpenFds(h) \subseteq Leaked(h) \cup Owned(srv) \cup {s, s}
        /\ Leaked(h) \subseteq Leaked(fds)
    BY <1>6, <1>7, <1>8, <1>13, <1>14
  <2>2. Restart(srv, h)
    BY <1>18
  <2> HIDE DEF h
  <2> QED BY <1>2, <1>18, <2>1, <2>2, CallFails
<1> QED BY <1>5, <1>15, <1>16, <1>17, <1>18

-----------------------------------------------------------------------------
(* Hellos *)

\* A hello that arrives at the socket that is not connected announces the stream
\* that the client makes, which has no socket yet.
LEMMA HelloLemma ==
  ASSUME Inv, NEW d \in net, d.kind = "hello", srv.state = "CREATE_STREAMS",
         srv.pc # "announce", srv.prot_listener \in Receivers(d.i)
  PROVE  Waits(fds, d.i)
<1> DEFINE mine(p) == {k \in OpenFds(fds) : fds[k].kind = "udp" /\ fds[k].peer = p}
           i == d.i
<1>1. conf.proto = "udp"
  BY DEF Inv, MeetInv
<1>2. /\ fds \in Table /\ Collecting(srv, fds) /\ Made \in Nat /\ Greetings(srv, fds)
      /\ Streams \in Nat
  BY <1>1, AcceptRoom, MadeLemma DEF Inv, MeetInv
<1>3. i \in Nat /\ 0 < i /\ i <= Made + 1 /\ i <= Streams
  <2>1. d \in Datagram
    BY MadeLemma
  <2> QED BY <1>2, <2>1 DEF Greetings, Datagram
<1>4. fds[srv.prot_listener].peer = 0
  BY <1>1, <1>2 DEF Collecting
<1>5. Receivers(i) = IF mine(i) # {} THEN mine(i) ELSE mine(0)
  BY DEF Receivers
<1> HIDE DEF i
<1>6. mine(i) = {}
  BY <1>3, <1>4, <1>5 DEF i
<1>7. ~Met(fds, i)
  <2> SUFFICES ASSUME NEW n \in FD, fds[n].kind = "udp", fds[n].peer = i PROVE FALSE
    BY DEF Met
  <2>1. n \in OpenFds(fds)
    BY <1>2, OpenLemma
  <2> QED BY <1>6, <2>1
<1>8. ~(i \in 1..Made)
  BY <1>2, <1>7 DEF Greetings
<1>9. i = Made + 1 /\ Made < Streams
  BY <1>2, <1>3, <1>8
<1> QED BY <1>7, <1>9 DEF Waits, i

\* What a hello makes of the descriptors.
Delivered(f, N, i) == [n \in DOMAIN f |-> IF n \in N THEN [f[n] EXCEPT !.q = Append(@, i)] ELSE f[n]]

LEMMA DeliveredLemma ==
  ASSUME NEW f \in Table, NEW N, NEW i \in Nat, NEW g, g = Delivered(f, N, i)
  PROVE  /\ SameSockets(g, f)
         /\ \A n \in FD : IF n \in N THEN g[n].q = Append(f[n].q, i) /\ f[n].q \in Seq(Nat)
                          ELSE g[n] = f[n]
<1>1. ASSUME NEW n \in FD
      PROVE  LET x == [f[n] EXCEPT !.q = Append(@, i)]
             IN  /\ x \in Sock /\ x.kind = f[n].kind /\ x.peer = f[n].peer /\ x.buf = f[n].buf
                 /\ x.q = Append(f[n].q, i) /\ f[n].q \in Seq(Nat) /\ f[n] \in Sock
  <2>1. f[n] \in Sock /\ f[n].q \in Seq(Nat)
    BY DEF Table, Sock
  <2>2. Append(f[n].q, i) \in Seq(Nat)
    BY <2>1
  <2> QED BY <2>1, <2>2 DEF Sock
<1>2. DOMAIN g = FD /\ \A n \in FD : g[n] = IF n \in N THEN [f[n] EXCEPT !.q = Append(@, i)] ELSE f[n]
  BY DEF Delivered, Table
<1>3. g \in Table
  <2>1. g = [n \in FD |-> g[n]]
    BY <1>2 DEF Delivered, Table
  <2>2. \A n \in FD : g[n] \in Sock
    BY <1>1, <1>2
  <2> QED BY <2>1, <2>2 DEF Table
<1>4. \A n \in FD : g[n].kind = f[n].kind /\ g[n].peer = f[n].peer /\ g[n].buf = f[n].buf
  BY <1>1, <1>2
<1>5. \A n \in FD : IF n \in N THEN g[n].q = Append(f[n].q, i) /\ f[n].q \in Seq(Nat)
                    ELSE g[n] = f[n]
  BY <1>1, <1>2
<1> QED BY <1>3, <1>4, <1>5 DEF SameSockets

LEMMA DeliverInv ==
  ASSUME Inv, Deliver
  PROVE  Inv'
<1>1. PICK d \in {e \in net : e.kind = "hello"}, again \in BOOLEAN :
        /\ net' = IF again THEN net ELSE net \ {d}
        /\ ghost' = IF again THEN [ghost EXCEPT !.copies = @ + 1] ELSE ghost
        /\ fds' = Delivered(fds, Receivers(d.i), d.i)
        /\ UNCHANGED <<conf, srv, cli>>
  BY DEF Deliver, Delivered
<1> DEFINE N == Receivers(d.i)
           p == srv.prot_listener
<1>2. /\ d \in net /\ d.kind = "hello" /\ net # {} /\ conf' = conf /\ srv' = srv /\ cli' = cli
      /\ net' \subseteq net
  BY <1>1
<1>3. conf.proto = "udp" /\ srv.state # "PARAM_EXCHANGE"
  BY <1>2 DEF Inv, MeetInv
<1>4. /\ conf \in Configs /\ fds \in Table /\ srv \in SrvRec /\ net \in SUBSET Datagram
      /\ d.i \in Nat /\ ghost \in GhostRec
      /\ srv.state \in {"IPERF_START", "CREATE_STREAMS", "TEST_RUNNING"}
  <2>1. d \in Datagram
    BY <1>2, MadeLemma
  <2> QED BY <1>3, <2>1, MadeLemma, ConfSame, SrvFields DEF Datagram, Inv
<1>5. ghost' \in GhostRec /\ ghost'.failures = ghost.failures
  BY <1>1, <1>4 DEF GhostRec
<1> HIDE DEF N
<1>6. /\ SameSockets(fds', fds)
      /\ \A n \in FD : IF n \in N THEN fds'[n].q = Append(fds[n].q, d.i) /\ fds[n].q \in Seq(Nat)
                       ELSE fds'[n] = fds[n]
  BY <1>1, <1>4, DeliveredLemma DEF N
<1>7. ServerInv(srv, fds)' /\ fds' \in Table /\ LeakInv(fds', ghost.failures)
  <2>1. CASE srv.state = "IPERF_START"
    <3>1. Resting(srv, fds)
      BY <2>1, PlaceLemma
    <3>2. N = {}
      <4>1. \A n \in OpenFds(fds) : fds[n].kind # "udp"
        BY <1>4, <3>1, OpenLemma DEF Resting
      <4> QED BY <4>1 DEF Receivers, N
    <3>3. \A n \in FD : fds'[n] = fds[n]
      BY <1>6, <3>2
    <3>4. fds' = fds
      BY <1>4, <1>6, <3>3 DEF SameSockets, Table
    <3>5. ServerInv(srv, fds)
      BY DEF Inv
    <3> QED BY <1>2, <1>4, <3>4, <3>5, NextServer, PlaceLemma
  <2>2. CASE srv.state \in {"CREATE_STREAMS", "TEST_RUNNING"}
    BY <1>2, <1>6, <2>2, SameServer
  <2> QED BY <1>4, <2>1, <2>2
<1>8. LeakInv(fds, ghost.failures)'
  BY <1>5, <1>7 DEF LeakInv, Leaked
<1>9. ClientInv' /\ cli' \in CliRec /\ Made' = Made
  BY <1>2, MadeLemma, ClientFailed DEF Inv
<1>10. ASSUME srv.state = "CREATE_STREAMS" PROVE MeetInv'
  <2>1. ASSUME srv.pc # "announce"
        PROVE  \/ fds'[p].q = fds[p].q
               \/ fds'[p].q = Append(fds[p].q, d.i) /\ Waits(fds, d.i)
    <3>1. p \in FD
      BY <1>3, <1>10, PlaceLemma DEF Collecting
    <3>2. CASE p \notin N
      BY <1>6, <3>1, <3>2
    <3>3. CASE p \in N
      <4>1. Waits(fds, d.i)
        BY <1>2, <1>10, <2>1, <3>3, HelloLemma DEF N
      <4>2. fds'[p].q = Append(fds[p].q, d.i)
        BY <1>6, <3>1, <3>3
      <4> QED BY <4>1, <4>2
    <3> QED BY <3>2, <3>3
  <2> QED BY <1>2, <1>3, <1>4, <1>6, <1>9, <1>10, <2>1, QueueLemma
<1>11. ASSUME srv.state = "TEST_RUNNING" PROVE MeetInv'
  <2>1. srv.pc = "loop"
    BY <1>11, PlaceLemma DEF Started
  <2>2. KeepsPeers(fds', fds) /\ Replied(srv)' = Replied(srv)
    BY <1>2, <1>6 DEF SameSockets, KeepsPeers, Replied
  <2>3. Greetings(srv, fds)'
    BY <1>2, <1>3, <1>9, <1>11, <2>1, <2>2, GreetingsLemma
  <2>4. srv'.state = "TEST_RUNNING" /\ conf'.proto = "udp"
    BY <1>2, <1>3, <1>11
  <2> QED BY <2>3, <2>4 DEF MeetInv
<1>12. MeetInv'
  <2>1. CASE srv.state = "IPERF_START"
    <3>1. srv'.state = "IPERF_START" /\ conf'.proto = "udp"
      BY <1>2, <1>3, <2>1
    <3> QED BY <3>1 DEF MeetInv
  <2> QED BY <1>4, <1>10, <1>11, <2>1
<1> QED BY <1>2, <1>4, <1>5, <1>7, <1>8, <1>9, <1>12 DEF Inv, TypeInv

-----------------------------------------------------------------------------
(* The theorems *)

LEMMA NextInv ==
  ASSUME Inv, [Next]_vars
  PROVE  Inv'
<1>1. CASE Server
  BY <1>1, CreateStreamsInv, UdpAcceptInv, UdpAnnounceInv, UdpReplyInv, UdpStreamInv,
     AcceptConnectionInv, GivesUpInv DEF Server
<1>2. CASE Client
  BY <1>2, StartTestInv, UdpConnectInv, UdpConnectedInv, ConnectInv, ClientEndsInv DEF Client
<1>3. CASE Faults
  BY <1>3, ListenFailsInv, UdpAcceptFailsInv, StartFailsInv, GivesUpInv, ClientEndsInv,
     DeliverInv, StrangerInv DEF Faults
<1>4. CASE UNCHANGED vars
  <2>1. UNCHANGED <<conf, fds, srv, cli, net, ghost>>
    BY <1>4 DEF vars
  <2>2. ClientInv' /\ cli' \in CliRec /\ Made' = Made
    BY <2>1, MadeLemma, ClientFailed DEF Inv
  <2>3. MeetInv'
    BY <2>1, <2>2, SameMeeting DEF Inv
  <2>4. net' \in SUBSET Datagram
    BY <2>1, MadeLemma
  <2> QED BY <2>1, <2>2, <2>3, <2>4, ClientStep
<1> QED BY <1>1, <1>2, <1>3, <1>4 DEF Next

\* Every open descriptor is leaked, owned or being accepted; the listening
\* socket keeps its number; what waits for the server is the client's next
\* stream, or a stranger's.
THEOREM Invariance == Spec => []Inv
BY InitLemma, NextInv, PTL DEF Spec

\* What the server keeps where it counts its streams.
LEMMA ServerPlace ==
  ASSUME Inv
  PROVE  /\ srv.state \in {"IPERF_START", "PARAM_EXCHANGE", "CREATE_STREAMS", "TEST_RUNNING"}
         /\ Len(srv.streams) \in Nat /\ Len(srv.streams) <= Streams
         /\ DOMAIN srv.streams = 1..Len(srv.streams) /\ Streams \in Nat
         /\ StreamsToRec \in Nat /\ StreamsToRec <= Streams
         /\ \A k \in 1..Len(srv.streams) : IsStream(srv, fds, k) /\ srv.streams[k].fd \in FD
         /\ \A n \in FD : fds[n].peer \in 0..Foreign
         /\ srv.rec \in 0..StreamsToRec /\ srv.snd \in 0..Streams
<1>1. /\ srv.state \in {"IPERF_START", "PARAM_EXCHANGE", "CREATE_STREAMS", "TEST_RUNNING"}
      /\ Len(srv.streams) \in Nat /\ DOMAIN srv.streams = 1..Len(srv.streams)
      /\ \A k \in 1..Len(srv.streams) : srv.streams[k].fd \in FD
      /\ Streams \in Nat /\ StreamsToRec \in Nat /\ StreamsToRec <= Streams
      /\ srv.rec \in Nat /\ srv.snd \in Nat /\ Foreign = Streams + 1
  BY MadeLemma, SrvFields, ConfLemma
<1>2. \A n \in FD : fds[n].peer \in Nat
  BY MadeLemma DEF Table, Sock
<1>3. CASE srv.state \in {"IPERF_START", "PARAM_EXCHANGE"}
  <2>1. Resting(srv, fds)
    BY <1>3, PlaceLemma
  <2>2. Len(srv.streams) = 0 /\ srv.rec = 0 /\ srv.snd = 0 /\ \A n \in FD : fds[n].peer = 0
    BY <2>1 DEF Resting
  <2> QED BY <1>1, <2>2
<1>4. CASE srv.state \in {"CREATE_STREAMS", "TEST_RUNNING"}
  <2>1. Has(srv, fds) /\ Len(srv.streams) <= Streams
    BY <1>1, <1>4, PlaceLemma DEF Collecting, Started
  <2>2. /\ srv.rec = (IF Len(srv.streams) <= StreamsToRec THEN Len(srv.streams) ELSE StreamsToRec)
        /\ srv.rec + srv.snd = Len(srv.streams) /\ \A n \in FD : Fits(fds[n].peer)
        /\ \A k \in 1..Len(srv.streams) : IsStream(srv, fds, k)
    BY <2>1 DEF Has
  <2>3. srv.rec \in 0..StreamsToRec /\ srv.snd \in 0..Streams
    BY <1>1, <2>1, <2>2
  <2>4. \A n \in FD : fds[n].peer \in 0..Foreign
    BY <1>1, <1>2, <2>2 DEF Fits
  <2> QED BY <1>1, <2>1, <2>2, <2>3, <2>4
<1> QED BY <1>1, <1>3, <1>4

\* The kinds of the descriptors, the counters of streams and the states of both
\* sides are what struct iperf_test and the system allow.
THEOREM TypeCorrect == Spec => []TypeOK
<1>1. Inv => TypeOK
  <2> SUFFICES ASSUME Inv PROVE TypeOK
    OBVIOUS
  <2>1. \A n \in 1..Fds : fds[n].kind \in Kind
    BY MadeLemma DEF Table, Sock, FD, Kind
  <2>2. \A n \in 1..Fds : fds[n].peer \in 0..Foreign
    BY ServerPlace DEF FD
  <2>3. cli.state \in {"connect", "wait", "created", "failed"} /\ Len(cli.made) <= Streams
    BY MadeLemma, CliFields DEF Made
  <2>4. srv.pc \in {"loop", "announce", "reply", "stream"} /\ conf \in Configs
    BY MadeLemma, SrvFields
  <2> QED BY <2>1, <2>2, <2>3, <2>4, ServerPlace DEF TypeOK, Kind
<1> QED BY <1>1, Invariance, PTL

\* iperf_run_server never selects on a descriptor that it has closed, although
\* FD_CLR and FD_SET are many lines from close() and the numbers are used again.
THEOREM NoClosedSelect == Spec => []SelectIsValid
<1>1. Inv => SelectIsValid
  BY PlaceLemma DEF SelectIsValid
<1> QED BY <1>1, Invariance, PTL

\* The hello of a client that waits finds a socket, as iperf_udp_accept announces
\* the next one before it replies; except while it accepts a stranger's datagram.
THEOREM HellosHeard == Spec => []HelloIsHeard
<1>1. Inv => HelloIsHeard
  <2> SUFFICES ASSUME Inv, cli.state = "wait", srv.state = "CREATE_STREAMS",
                      ~(srv.pc = "announce" /\ fds[srv.s].peer = Foreign)
               PROVE  Receivers(Made + 1) # {}
    BY DEF HelloIsHeard
  <2> DEFINE i == Made + 1
             mine(p) == {k \in OpenFds(fds) : fds[k].kind = "udp" /\ fds[k].peer = p}
  <2>1. conf.proto = "udp"
    BY DEF Inv, ClientInv
  <2>2. /\ fds \in Table /\ Collecting(srv, fds) /\ Greetings(srv, fds)
        /\ (srv.pc # "loop" => IsNew(srv, fds, srv.s))
    BY <2>1, AcceptRoom, MadeLemma DEF Inv, MeetInv
  <2>3. Receivers(i) = IF mine(i) # {} THEN mine(i) ELSE mine(0)
    BY DEF Receivers
  <2>4. ASSUME NEW k \in FD, NEW p, fds[k].kind = "udp", fds[k].peer = p PROVE k \in mine(p)
    BY <2>2, <2>4, OpenLemma
  <2> HIDE DEF mine
  <2>5. CASE srv.pc # "announce"
    <3>1. srv.prot_listener \in mine(0)
      BY <2>1, <2>2, <2>4, <2>5 DEF Collecting
    <3> QED BY <2>3, <3>1
  <2>6. CASE srv.pc = "announce"
    <3>1. fds[srv.s].peer = i
      BY <2>2, <2>6 DEF Greetings
    <3>2. srv.s \in mine(i)
      BY <2>1, <2>2, <2>4, <2>6, <3>1 DEF IsNew
    <3> QED BY <2>3, <3>2
  <2> QED BY <2>5, <2>6
<1> QED BY <1>1, Invariance, PTL

\* When the server starts a test, its k-th stream is the client's k-th, in the
\* opposite direction: nothing but their order pairs them.  Over UDP that holds
\* up to the first stream that is a stranger's; from there on the client's
\* streams still come in order and none comes twice.
THEOREM StreamsPaired == Spec => []StreamsArePaired
<1>1. Inv => StreamsArePaired
  <2> DEFINE peer(k) == fds[srv.streams[k].fd].peer
  <2> SUFFICES ASSUME Inv, srv.state = "TEST_RUNNING"
               PROVE  /\ Len(srv.streams) = Streams
                      /\ \A k \in 1..Streams : /\ peer(k) = k \/ StrangerAmong(srv, fds, k)
                                               /\ srv.streams[k].sender # ClientSends(k)
                      /\ \A j, k \in 1..Streams :
                           j < k /\ Foreign \notin {peer(j), peer(k)} => peer(j) < peer(k)
    BY DEF StreamsArePaired
  <2>1. Len(srv.streams) = Streams /\ Streams \in Nat
    BY PlaceLemma, MadeLemma DEF Started
  <2>2. ASSUME NEW k \in 1..Streams
        PROVE  /\ peer(k) = k \/ StrangerAmong(srv, fds, k)
               /\ srv.streams[k].sender # ClientSends(k)
               /\ IsPaired(srv, fds, k, peer(k))
    <3>1. IsStream(srv, fds, k)
      BY <2>1, ServerPlace
    <3>2. IsPaired(srv, fds, k, peer(k)) /\ srv.streams[k].sender = (k > StreamsToRec)
      BY <3>1 DEF IsStream
    <3>3. /\ conf.streams \in Nat /\ conf.mode \in {"normal", "reverse", "bidir"}
          /\ Streams = IF conf.mode = "bidir" THEN 2 * conf.streams ELSE conf.streams
          /\ StreamsToRec = IF conf.mode = "reverse" THEN 0 ELSE conf.streams
      BY MadeLemma, ConfigsAssumption DEF Streams, StreamsOf, StreamsToRec
    <3>4. ClientSends(k) <=> ~(k > StreamsToRec)
      BY <3>3 DEF ClientSends
    <3>5. ClientSends(k) \in BOOLEAN /\ (k > StreamsToRec) \in BOOLEAN
      BY <3>3 DEF ClientSends
    <3>6. srv.streams[k].sender # ClientSends(k)
      BY <3>2, <3>4, <3>5
    <3>7. k \in 1..k /\ \A j \in 1..k - 1 : j \in 1..k
      BY <2>1
    <3>8. peer(k) = k \/ StrangerAmong(srv, fds, k)
      BY <3>2, <3>7 DEF IsPaired, StrangerAmong
    <3> QED BY <3>2, <3>6, <3>8
  <2>3. ASSUME NEW j \in 1..Streams, NEW k \in 1..Streams, j < k,
               Foreign \notin {peer(j), peer(k)}
        PROVE  peer(j) < peer(k)
    <3>1. j \in 1..k - 1
      BY <2>1, <2>3
    <3> QED BY <2>2, <2>3, <3>1 DEF IsPaired
  <2> QED BY <2>1, <2>2, <2>3
<1> QED BY <1>1, Invariance, PTL

\* Between tests the server of iperf_run_server holds its listening socket and
\* at most two descriptors for each system call that ever failed.
THEOREM LeaksFromFailures == Spec => []LeaksAreFailures
<1>1. Inv => LeaksAreFailures
  <2> SUFFICES ASSUME Inv, srv.state = "IPERF_START"
               PROVE  Cardinality(OpenFds(fds)) <= 1 + 2 * ghost.failures
    BY DEF LeaksAreFailures
  <2> DEFINE A == Leaked(fds)
             B == A \cup {srv.listener}
             C == OpenFds(fds)
  <2>1. /\ Resting(srv, fds) /\ srv.ctrl_sck = -1 /\ Accounted(srv, fds) /\ fds \in Table
        /\ Cardinality(A) <= 2 * ghost.failures /\ ghost.failures \in Nat
    BY ConfSame DEF Inv, ServerInv, LeakInv
  <2>2. C \subseteq B
    <3>1. StreamFds(srv) = {} /\ Files(srv) = {} /\ Pending(srv) = {} /\ srv.prot_listener = -1
      BY <2>1 DEF StreamFds, Files, Pending, Resting
    <3>2. -1 \notin C
      BY <2>1, OpenLemma
    <3> QED BY <2>1, <3>1, <3>2 DEF Accounted, Owned
  <2>3. IsFiniteSet(A) /\ Cardinality(A) \in Nat /\ IsFiniteSet(C) /\ Cardinality(C) \in Nat
    BY <2>1, OpenLemma
  <2> HIDE DEF A, C
  <2>4. IsFiniteSet(B) /\ Cardinality(B) <= Cardinality(A) + 1 /\ Cardinality(B) \in Nat
    BY <2>3, AddBound
  <2> HIDE DEF B
  <2>5. Cardinality(C) <= Cardinality(B)
    BY <2>2, <2>4, FS_Subset
  <2>6. Cardinality(C) <= 1 + 2 * ghost.failures
    BY <2>1, <2>3, <2>4, <2>5
  <2> QED BY <2>6 DEF C
<1> QED BY <1>1, Invariance, PTL

\* iperf_udp_buffercheck and iperf_sctp_bindx leave every stream, and not only
\* the first, the buffers and the addresses that were asked for.
THEOREM SocketsAsAsked == Spec => []SocketsAreAsAsked
<1>1. Inv => SocketsAreAsAsked
  <2> SUFFICES ASSUME Inv PROVE SocketsAreAsAsked
    OBVIOUS
  <2>1. \A k \in DOMAIN cli.made : cli.made[k].bound = ToSet(conf.xbind) /\ Holds(cli.made[k].buf)
    BY MadeLemma DEF Inv, ClientInv
  <2>2. \A k \in DOMAIN srv.streams : Holds(fds[srv.streams[k].fd].buf)
    BY ServerPlace DEF IsStream
  <2> QED BY <2>1, <2>2 DEF SocketsAreAsAsked, Holds
<1> QED BY <1>1, Invariance, PTL

=============================================================================
