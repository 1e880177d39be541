----------------------------- MODULE AuthProofs -----------------------------
(***************************************************************************)
(* Proofs about modules Options and Auth, for every set of command lines,  *)
(* credentials, users files and clock offsets: what a command line is read *)
(* into, whatever the order of its options, and whom the server accepts.   *)
(***************************************************************************)
EXTENDS Auth, TLAPS, FiniteSetTheorems, WellFoundedInduction

FlagNames == {"client_flag", "server_flag", "rate_flag", "duration_flag", "rcv_timeout_flag"}
Slots == {"t", "n", "k", "l", "b", "i", "skew", "nstreams", "tos", "other"}

\* struct iperf_test, as far as Options has it.
Test ==
  [role : {"none", "c", "s"}, mode : {"SENDER", "RECEIVER", "BIDIRECTIONAL"},
   reverse : BOOLEAN, bidirectional : BOOLEAN, protocol : {"tcp", "udp", "sctp"},
   multipath : BOOLEAN, sender_has_retransmits : BOOLEAN, flags : SUBSET FlagNames,
   given : SUBSET STRING, value : [Slots -> Int], burst : Int, limit_interval : Int,
   per_interval : Int, rcv_timeout : [secs : Int, usecs : Int]]

Has(O, f) == \E o \in O : o.flag = f

AuthFlags == {"username", "rsa-public-key-path", "rsa-private-key-path", "authorized-users-path"}

\* The direction, which is worked out while role and direction are read.
DirectionOK(t, O) ==
  /\ t.reverse <=> Has(O, "R")
  /\ t.bidirectional <=> Has(O, "bidir")
  /\ ~(t.reverse /\ t.bidirectional)
  /\ t.mode = IF t.bidirectional THEN "BIDIRECTIONAL"
              ELSE IF t.role = "none" THEN "RECEIVER"
              ELSE IF t.reverse THEN Opposite(t.role) ELSE Ordinary(t.role)
  /\ t.role = "c" \/ (t.role = "s" /\ ~t.bidirectional) =>
       (t.sender_has_retransmits <=> (t.mode # "RECEIVER" /\ t.protocol = "tcp"))

\* The flags that are looked at when all options are read.
FlagsOK(t, O) ==
  /\ t.reverse \/ t.bidirectional => "client_flag" \in t.flags
  /\ "rcv_timeout_flag" \in t.flags <=> Has(O, "rcv-timeout")
  /\ \A f \in AuthFlags : f \in t.given <=> Has(O, f)

\* The numbers.
NumbersOK(t, O) ==
  /\ t.value["l"] < 0 => \E o \in O : o.flag = "l" /\ (o.n < 0 \/ o.suffix = "G")
  /\ t.value["i"] \in 0..MAX_INTERVAL
  /\ t.limit_interval \in 0..MAX_INTERVAL
  /\ 0 <= t.rcv_timeout.usecs /\ t.rcv_timeout.usecs < SEC_TO_US

\* A test after the options in O were read.
ParsedOK(t, O) == DirectionOK(t, O) /\ FlagsOK(t, O) /\ NumbersOK(t, O)

-----------------------------------------------------------------------------
(* Options *)

\* A number with a unit of less than a gigabyte keeps its sign, and every
\* option has a value.
LEMMA IntOfLemma ==
  ASSUME NEW o \in Option
  PROVE  IntOf(o) \in Int /\ (IntOf(o) < 0 => o.n < 0 \/ o.suffix = "G")
<1>1. o.n \in Int
  BY DEF Option
<1>2. CASE o.suffix = "G"
  <2>1. o.n % 4 \in 0..3
    BY <1>1
  <2>2. Unit("G", 1024) \in Int
    BY SMT DEF Unit
  <2> DEFINE g == Unit("G", 1024)
             k == 1 + (o.n % 4)
  <2> HIDE DEF g, k
  <2>3. k \in 1..4
    BY <2>1 DEF k
  <2>4. <<0, g, -g - g, -g>>[k] \in Int
    BY <2>2, <2>3 DEF g
  <2> QED BY <1>2, <2>4 DEF IntOf, g, k
<1>3. CASE o.suffix # "G"
  <2>1. IntOf(o) = o.n * Unit(o.suffix, 1024)
    BY <1>3 DEF IntOf, unit_atoi
  <2>2. Unit(o.suffix, 1024) \in {1, 1024, 1048576}
    BY <1>3, SMT DEF Unit
  <2> QED BY <1>1, <2>1, <2>2, SMT
<1> QED BY <1>2, <1>3

LEMMA ValueLemma ==
  ASSUME NEW o \in Option
  PROVE  Value(o) \in Int /\ unit_atof_rate(o) \in Int
<1>1. o.n \in Int
  BY DEF Option
<1>2. unit_atoi(o) \in Int /\ unit_atof(o) \in Int /\ unit_atof_rate(o) \in Int
  <2>1. Unit(o.suffix, 1024) \in Int /\ Unit(o.suffix, 1000) \in Int
    BY SMT DEF Unit
  <2> QED BY <1>1, <2>1 DEF unit_atoi, unit_atof, unit_atof_rate
<1>3. parse_qos(o) \in Int
  <2>1. ASSUME NEW x \in DOMAIN IpQos PROVE IpQos[x] \in Int
    BY SMT DEF IpQos
  <2> QED BY <1>1, <2>1, SMT DEF parse_qos
<1> QED BY <1>1, <1>2, <1>3, IntOfLemma DEF Value

LEMMA DefaultsLemma == iperf_defaults \in Test /\ ParsedOK(iperf_defaults, {})
<1>1. iperf_defaults \in Test
  BY DEF iperf_defaults, Test, Slots
<1>2. DirectionOK(iperf_defaults, {}) /\ FlagsOK(iperf_defaults, {})
  BY DEF iperf_defaults, DirectionOK, FlagsOK, Has
<1>3. NumbersOK(iperf_defaults, {})
  <2> DEFINE t == iperf_defaults
  <2>1. t.value = [t |-> 10, n |-> 0, k |-> 0, l |-> 0, b |-> 0, i |-> 10, skew |-> 0,
                   nstreams |-> 0, tos |-> 0, other |-> 0]
    BY DEF iperf_defaults
  <2>2. t.value["l"] = 0 /\ t.value["i"] = 10
    BY <2>1
  <2>3. t.limit_interval = 50 /\ t.rcv_timeout.usecs = 0
    BY DEF iperf_defaults
  <2> HIDE DEF t
  <2>4. NumbersOK(t, {})
    BY <2>2, <2>3, SMT DEF NumbersOK, MAX_INTERVAL, SEC_TO_US
  <2> QED BY <2>4 DEF t
<1> QED BY <1>1, <1>2, <1>3 DEF ParsedOK

\* A turn of the loop without an error.
AfterOption(t, o) == [Assign(t, o) EXCEPT !.flags = @ \cup FlagsOf(o)]

LEMMA FlagsLemma ==
  ASSUME NEW o \in Option
  PROVE  /\ FlagsOf(o) \in SUBSET FlagNames
         /\ o.flag \in {"R", "bidir"} => "client_flag" \in FlagsOf(o)
         /\ "rcv_timeout_flag" \in FlagsOf(o) <=> o.flag = "rcv-timeout"
<1>1. FlagsOf(o) \in SUBSET FlagNames
  BY DEF FlagsOf, FlagNames
<1>2. {"R", "bidir"} \subseteq ClientOnly
  BY DEF ClientOnly
<1>3. o.flag \in {"R", "bidir"} => "client_flag" \in FlagsOf(o)
  BY <1>2 DEF FlagsOf
<1>4. "rcv_timeout_flag" \in FlagsOf(o) <=> o.flag = "rcv-timeout"
  BY DEF FlagsOf
<1> QED BY <1>1, <1>3, <1>4

\* What an option that is not about role, direction or protocol leaves alone.
KeepsDirection(a, t) ==
  /\ a.reverse = t.reverse /\ a.bidirectional = t.bidirectional /\ a.role = t.role
  /\ a.mode = t.mode /\ a.protocol = t.protocol /\ a.flags = t.flags
  /\ a.sender_has_retransmits = t.sender_has_retransmits

\* Whatever an option does to other fields: one that leaves direction, role and
\* protocol alone and none of the other fields out of range.
LEMMA PlainOption ==
  ASSUME NEW t \in Test, NEW a \in Test, NEW O, NEW o \in Option, ParsedOK(t, O),
         o.flag \notin {"R", "bidir"},
         KeepsDirection(a, t),
         \A f \in AuthFlags : f \in a.given <=> f \in t.given \/ f = o.flag,
         NumbersOK(a, O \cup {o})
  PROVE  LET u == [a EXCEPT !.flags = @ \cup FlagsOf(o)]
         IN  u \in Test /\ ParsedOK(u, O \cup {o})
<1> DEFINE u == [a EXCEPT !.flags = @ \cup FlagsOf(o)]
<1>1. u \in Test
  BY FlagsLemma DEF Test
<1>2. /\ u.reverse = t.reverse /\ u.bidirectional = t.bidirectional /\ u.role = t.role
      /\ u.mode = t.mode /\ u.protocol = t.protocol
      /\ u.sender_has_retransmits = t.sender_has_retransmits
      /\ u.flags = t.flags \cup FlagsOf(o) /\ u.given = a.given /\ u.value = a.value
      /\ u.limit_interval = a.limit_interval /\ u.rcv_timeout = a.rcv_timeout
  BY DEF Test, KeepsDirection
<1> HIDE DEF u
<1>3. \A f : Has(O \cup {o}, f) <=> Has(O, f) \/ o.flag = f
  BY DEF Has
<1>4. DirectionOK(u, O \cup {o})
  <2>1. DirectionOK(t, O)
    BY DEF ParsedOK
  <2> QED BY <1>2, <1>3, <2>1 DEF DirectionOK
<1>5. FlagsOK(u, O \cup {o})
  <2>1. FlagsOK(t, O)
    BY DEF ParsedOK
  <2>2. "rcv_timeout_flag" \in u.flags <=> Has(O \cup {o}, "rcv-timeout")
    BY <1>2, <1>3, <2>1, FlagsLemma DEF FlagsOK
  <2>3. u.reverse \/ u.bidirectional => "client_flag" \in u.flags
    BY <1>2, <2>1 DEF FlagsOK
  <2>4. \A f \in AuthFlags : f \in u.given <=> Has(O \cup {o}, f)
    BY <1>2, <1>3, <2>1 DEF FlagsOK
  <2> QED BY <2>2, <2>3, <2>4 DEF FlagsOK
<1>6. NumbersOK(u, O \cup {o})
  BY <1>2 DEF NumbersOK
<1> QED BY <1>1, <1>4, <1>5, <1>6 DEF ParsedOK, u

\* The option's own field, or its name among those given.
LEMMA StoredLemma ==
  ASSUME NEW t \in Test, NEW o \in Option
  PROVE  LET a == Stored(t, o) IN
         /\ a \in Test
         /\ KeepsDirection(a, t)
         /\ a.limit_interval = t.limit_interval /\ a.rcv_timeout = t.rcv_timeout
         /\ \A x \in Slots :
              a.value[x] = IF x = Slot(o.flag) /\ x # "other" THEN Value(o) ELSE t.value[x]
         /\ a.given = IF Slot(o.flag) = "other" THEN t.given \cup {o.flag} ELSE t.given
<1>1. Slot(o.flag) \in Slots
  BY DEF Slot, Slots
<1>2. o.flag \in STRING
  BY DEF Option
<1>3. CASE Slot(o.flag) = "other"
  BY <1>1, <1>2, <1>3 DEF Stored, Test, KeepsDirection
<1>4. CASE Slot(o.flag) # "other"
  <2>1. Stored(t, o) = [t EXCEPT !.value[Slot(o.flag)] = Value(o)]
    BY <1>4 DEF Stored
  <2> QED BY <1>1, <1>4, <2>1, ValueLemma DEF Test, KeepsDirection
<1> QED BY <1>3, <1>4

\* An option that is neither refused nor the end of the program is read into
\* the test as it should be, whatever was read before it.
LEMMA OptionLemma ==
  ASSUME NEW t \in Test, NEW O, NEW o \in Option, ParsedOK(t, O), InRange(o), ~Clashes(t, o)
  PROVE  AfterOption(t, o) \in Test /\ ParsedOK(AfterOption(t, o), O \cup {o})
<1> DEFINE u == AfterOption(t, o)
           P == O \cup {o}
<1> SUFFICES u \in Test /\ ParsedOK(u, P)
  OBVIOUS
<1>1. /\ DirectionOK(t, O) /\ FlagsOK(t, O) /\ NumbersOK(t, O)
      /\ t.value["l"] \in Int /\ t.value["i"] \in Int
  BY DEF ParsedOK, Test, Slots
<1>2. \A f : Has(P, f) <=> Has(O, f) \/ o.flag = f
  BY DEF Has
<1>3. \A a \in Test : (/\ a.value["l"] = t.value["l"] /\ a.value["i"] = t.value["i"]
                       /\ a.limit_interval = t.limit_interval
                       /\ a.rcv_timeout = t.rcv_timeout) => NumbersOK(a, P)
  BY <1>1 DEF NumbersOK
<1>4. CASE o.flag \in {"s", "c", "R", "bidir", "m", "u", "sctp"}
  <2> DEFINE a == Assign(t, o)
  <2>1. /\ a \in Test
        /\ a.role = IF o.flag \in {"s", "c"} THEN o.flag ELSE t.role
        /\ a.reverse = (t.reverse \/ o.flag = "R")
        /\ a.bidirectional = (t.bidirectional \/ o.flag = "bidir")
        /\ a.mode = CASE o.flag \in {"s", "c"} ->
                          IF t.reverse THEN Opposite(o.flag)
                          ELSE IF t.bidirectional THEN "BIDIRECTIONAL" ELSE Ordinary(o.flag)
                     [] o.flag = "R" -> IF t.role = "none" THEN t.mode ELSE Opposite(t.role)
                     [] o.flag = "bidir" -> "BIDIRECTIONAL"
                     [] OTHER -> t.mode
        /\ a.sender_has_retransmits = IF o.flag = "bidir" THEN t.sender_has_retransmits
                                      ELSE a.mode # "RECEIVER" /\ a.protocol = "tcp"
        /\ o.flag \notin {"m", "u", "sctp"} => a.protocol = t.protocol
        /\ a.flags = t.flags /\ a.given = t.given /\ a.value = t.value
        /\ a.limit_interval = t.limit_interval /\ a.rcv_timeout = t.rcv_timeout
    <3>1. CASE o.flag \in {"s", "c"}
      <4>1. a = iperf_set_test_role(t, o.flag)
        BY <3>1 DEF Assign
      <4> QED BY <3>1, <4>1, ZenonT(60) DEF iperf_set_test_role, check_sender_has_retransmits, Test,
                                Opposite, Ordinary
    <3>2. CASE o.flag = "R"
      <4>1. a = iperf_set_test_reverse(t)
        BY <3>2 DEF Assign
      <4> QED BY <3>2, <4>1, ZenonT(60) DEF iperf_set_test_reverse, check_sender_has_retransmits, Test,
                                Opposite
    <3>3. CASE o.flag = "bidir"
      <4>1. a = iperf_set_test_bidirectional(t)
        BY <3>3 DEF Assign
      <4> QED BY <3>3, <4>1 DEF iperf_set_test_bidirectional, Test
    <3>4. CASE o.flag = "m"
      <4>1. a = [set_protocol(t, "tcp") EXCEPT !.multipath = TRUE]
        BY <3>4 DEF Assign
      <4> QED BY <3>4, <4>1, ZenonT(60) DEF set_protocol, check_sender_has_retransmits, Test
    <3>5. CASE o.flag \in {"u", "sctp"}
      <4>1. a = set_protocol(t, IF o.flag = "u" THEN "udp" ELSE "sctp")
        BY <3>5 DEF Assign
      <4> QED BY <3>5, <4>1 DEF set_protocol, check_sender_has_retransmits, Test
    <3> QED BY <1>4, <3>1, <3>2, <3>3, <3>4, <3>5
  <2> HIDE DEF a
  <2>2. /\ u \in Test /\ u.flags = a.flags \cup FlagsOf(o)
        /\ u.role = a.role /\ u.mode = a.mode /\ u.reverse = a.reverse
        /\ u.bidirectional = a.bidirectional /\ u.protocol = a.protocol
        /\ u.sender_has_retransmits = a.sender_has_retransmits
        /\ u.given = a.given /\ u.value = a.value
        /\ u.limit_interval = a.limit_interval /\ u.rcv_timeout = a.rcv_timeout
    <3>1. u = [a EXCEPT !.flags = @ \cup FlagsOf(o)]
      BY DEF AfterOption, a
    <3> QED BY <2>1, <3>1, FlagsLemma DEF Test
  <2> HIDE DEF u
  <2>3. ~(o.flag = "s" /\ t.role = "c") /\ ~(o.flag = "c" /\ t.role = "s")
        /\ ~(o.flag = "R" /\ t.bidirectional) /\ ~(o.flag = "bidir" /\ t.reverse)
    BY DEF Clashes
  <2>4. DirectionOK(u, P)
    <3>1. t.role \in {"none", "s", "c"}
      BY DEF Test
    <3> QED BY <1>1, <1>2, <1>4, <2>1, <2>2, <2>3, <3>1, ZenonT(60) DEF DirectionOK, Opposite, Ordinary
  <2>5. FlagsOK(u, P)
    <3>1. "rcv_timeout_flag" \in u.flags <=> Has(P, "rcv-timeout")
      BY <1>1, <1>2, <1>4, <2>1, <2>2, FlagsLemma DEF FlagsOK
    <3>2. u.reverse \/ u.bidirectional => "client_flag" \in u.flags
      BY <1>1, <2>1, <2>2, FlagsLemma DEF FlagsOK
    <3>3. \A f \in AuthFlags : f \in u.given <=> Has(P, f)
      BY <1>1, <1>2, <1>4, <2>1, <2>2 DEF FlagsOK, AuthFlags
    <3> QED BY <3>1, <3>2, <3>3 DEF FlagsOK
  <2>6. NumbersOK(u, P)
    BY <1>3, <2>1, <2>2
  <2> QED BY <2>2, <2>4, <2>5, <2>6 DEF ParsedOK
<1>5. CASE o.flag \notin {"s", "c", "R", "bidir", "m", "u", "sctp"}
  <2> DEFINE st == Stored(t, o)
             a == Assign(t, o)
             slot == Slot(o.flag)
  <2>1. ASSUME a \in Test, KeepsDirection(a, t), NumbersOK(a, P),
               \A f \in AuthFlags : f \in a.given <=> f \in t.given \/ f = o.flag
        PROVE  u \in Test /\ ParsedOK(u, P)
    <3>1. u = [a EXCEPT !.flags = @ \cup FlagsOf(o)]
      BY DEF AfterOption
    <3> HIDE DEF u, a
    <3> QED BY <1>5, <2>1, <3>1, PlainOption
  <2>2. o.m \in Int /\ o.n \in Int
    BY DEF Option
  <2>3. /\ st \in Test /\ KeepsDirection(st, t)
        /\ st.limit_interval = t.limit_interval /\ st.rcv_timeout = t.rcv_timeout
        /\ st.value["l"] = IF slot = "l" THEN Value(o) ELSE t.value["l"]
        /\ st.value["i"] = IF slot = "i" THEN Value(o) ELSE t.value["i"]
        /\ st.given = IF slot = "other" THEN t.given \cup {o.flag} ELSE t.given
    BY StoredLemma DEF Slots
  <2>4. \A f \in AuthFlags : Slot(f) = "other"
    BY DEF AuthFlags, Slot
  <2>5. \A f \in AuthFlags : f \in st.given <=> f \in t.given \/ f = o.flag
    BY <2>3, <2>4
  <2> HIDE DEF u, P, st, slot
  <2>6. CASE o.flag \in {"b", "nstreams"}
    <3> DEFINE z == IF o.flag = "b" THEN t ELSE st
    <3>1. a = BitRate(z, o)
      BY <2>6 DEF Assign, st
    <3>2. slot \notin {"l", "i", "other"} /\ o.flag \notin AuthFlags
      BY <2>6 DEF Slot, AuthFlags, slot
    <3>3. /\ z \in Test /\ KeepsDirection(z, t) /\ z.given = t.given
          /\ z.limit_interval = t.limit_interval /\ z.rcv_timeout = t.rcv_timeout
          /\ z.value["l"] = t.value["l"] /\ z.value["i"] = t.value["i"]
      BY <2>3, <3>2 DEF KeepsDirection
    <3> HIDE DEF z, a
    <3>4. /\ a \in Test /\ KeepsDirection(a, z) /\ a.given = z.given
          /\ a.limit_interval = z.limit_interval /\ a.rcv_timeout = z.rcv_timeout
          /\ a.value["l"] = z.value["l"] /\ a.value["i"] = z.value["i"]
      BY <2>2, <3>1, <3>3, ValueLemma DEF BitRate, Test, Slots, KeepsDirection
    <3>5. KeepsDirection(a, t) /\ NumbersOK(a, P)
      BY <1>3, <3>3, <3>4 DEF KeepsDirection
    <3> QED BY <2>1, <3>2, <3>3, <3>4, <3>5
  <2>7. CASE o.flag = "server-bitrate-limit"
    <3>1. a = [st EXCEPT !.limit_interval = IF o.slash THEN o.m ELSE @]
      BY <2>7 DEF Assign, st
    <3>2. slot \notin {"l", "i"}
      BY <2>7 DEF Slot, slot
    <3>3. o.slash => o.m \in 0..MAX_INTERVAL
      <4>1. o.slash => (o.m = 0 \/ o.m \in MIN_INTERVAL..MAX_INTERVAL)
        BY <2>7 DEF InRange
      <4> QED BY <4>1 DEF MIN_INTERVAL, MAX_INTERVAL
    <3> HIDE DEF a
    <3>4. /\ a \in Test /\ KeepsDirection(a, st) /\ a.given = st.given /\ a.value = st.value
          /\ a.limit_interval = (IF o.slash THEN o.m ELSE st.limit_interval)
          /\ a.rcv_timeout = st.rcv_timeout
      BY <2>2, <2>3, <3>1 DEF Test, KeepsDirection
    <3>5. KeepsDirection(a, t)
      BY <2>3, <3>4 DEF KeepsDirection
    <3>6. NumbersOK(a, P)
      BY <1>1, <2>3, <3>2, <3>3, <3>4 DEF NumbersOK, P
    <3> QED BY <2>1, <2>5, <3>4, <3>5, <3>6
  <2>8. CASE o.flag = "rcv-timeout"
    <3> DEFINE r == [secs |-> o.n \div 1000, usecs |-> (o.n % 1000) * 1000]
    <3>1. a = [t EXCEPT !.rcv_timeout = r]
      BY <2>8 DEF Assign
    <3>2. o.n \div 1000 \in Int /\ o.n % 1000 \in 0..999
      BY <2>2
    <3>6. r \in [secs : Int, usecs : Int] /\ r.usecs = (o.n % 1000) * 1000
      BY <3>2
    <3> HIDE DEF a, r
    <3>3. /\ a \in Test /\ KeepsDirection(a, t) /\ a.given = t.given /\ a.value = t.value
          /\ a.limit_interval = t.limit_interval /\ a.rcv_timeout.usecs = (o.n % 1000) * 1000
      BY <3>1, <3>6 DEF Test, KeepsDirection
    <3>4. NumbersOK(a, P)
      BY <1>1, <3>2, <3>3, SMT DEF NumbersOK, P, SEC_TO_US
    <3>5. o.flag \notin AuthFlags
      BY <2>8 DEF AuthFlags
    <3> QED BY <2>1, <3>3, <3>4, <3>5
  <2>9. CASE o.flag \notin {"b", "nstreams", "server-bitrate-limit", "rcv-timeout"}
    <3>1. a = st
      BY <1>5, <2>9 DEF Assign, st
    <3>2. SUFFICES NumbersOK(st, P)
      BY <2>1, <2>3, <2>5, <3>1
    <3>3. CASE o.flag = "l"
      <4>1. slot = "l" /\ Value(o) = IntOf(o)
        BY <3>3 DEF Slot, Value, slot
      <4> QED BY <1>1, <2>3, <3>3, <4>1, IntOfLemma DEF NumbersOK, P
    <3>4. CASE o.flag = "i"
      <4>1. slot = "i"
        BY <3>4 DEF Slot, slot
      <4>2. Value(o) = 0 \/ Value(o) \in MIN_INTERVAL..MAX_INTERVAL
        BY <3>4 DEF InRange
      <4>3. Value(o) \in 0..MAX_INTERVAL
        BY <4>2 DEF MIN_INTERVAL, MAX_INTERVAL
      <4> QED BY <1>1, <2>3, <4>1, <4>3 DEF NumbersOK, P
    <3>5. CASE o.flag \notin {"l", "i"}
      <4>1. slot \notin {"l", "i"}
        BY <3>5 DEF Slot, slot
      <4> QED BY <1>3, <2>3, <4>1
    <3> QED BY <3>3, <3>4, <3>5
  <2> QED BY <2>6, <2>7, <2>8, <2>9
<1> QED BY <1>4, <1>5

-----------------------------------------------------------------------------
(* The checks after the loop *)

\* A rounded quotient of two numbers of tenths of a second.
LEMMA RoundedQuotient ==
  ASSUME NEW a \in 0..600, NEW i \in 10..600, i < a
  PROVE  (2 * a + i) \div (2 * i) \in 1..60
<1> DEFINE x == 2 * a + i
           y == 2 * i
<1>1. x \in Nat /\ y \in Nat /\ y > 0 /\ x >= y /\ x < 61 * y
  OBVIOUS
<1> HIDE DEF x, y
<1>2. x \div y \in 1..60
  BY <1>1
<1> QED BY <1>2 DEF x, y

LEMMA CompleteLemma ==
  ASSUME NEW t \in Test, NEW O, ParsedOK(t, O), NEW readable, ~Refused(t, readable),
         NEW u \in Complete(t)
  PROVE  u \in Test /\ Usable(u, O) /\ \A f \in AuthFlags : f \in u.given <=> Has(O, f)
<1>1. PICK n \in StatsPerInterval(t) :
        u = [t EXCEPT !.value["l"] = BlockSize(t),
             !.value["b"] = IF "rate_flag" \in t.flags THEN @
                            ELSE IF t.protocol = "udp" THEN UDP_RATE ELSE 0,
             !.value["t"] = IF (t.value["n"] # 0 \/ t.value["k"] # 0)
                               /\ "duration_flag" \notin t.flags THEN 0 ELSE @,
             !.value["skew"] = IF t.role = "s" /\ "rsa-private-key-path" \in t.given /\ @ = 0
                               THEN 10 ELSE @,
             !.per_interval = n]
  BY DEF Complete
<1>2. t.value \in [Slots -> Int]
  BY DEF Test
<1>3. BlockSize(t) \in Int /\ UDP_RATE \in Int
  BY <1>2, SMT DEF BlockSize, DEFAULT_SCTP_BLKSIZE, DEFAULT_TCP_BLKSIZE, UDP_RATE, MB, Slots
<1>4. /\ DirectionOK(t, O) /\ FlagsOK(t, O) /\ NumbersOK(t, O)
      /\ t.value["i"] \in 0..600 /\ t.limit_interval \in 0..600 /\ t.per_interval \in Int
  BY DEF ParsedOK, NumbersOK, MAX_INTERVAL, Test
<1>5. n \in Int /\ (t.value["i"] >= 10 /\ t.limit_interval # 0 => n \in 1..60)
  <2> DEFINE i == t.value["i"]
             a == t.limit_interval
             q == (2 * a + i) \div (2 * i)
  <2>1. INT_MAX \in Int /\ -INT_MAX - 1 \in Int
    BY SMT DEF INT_MAX
  <2>2. \/ a = 0 /\ n = t.per_interval
        \/ a # 0 /\ a <= i /\ n = 1
        \/ a # 0 /\ ~(a <= i) /\ i = 0 /\ n \in {INT_MAX, -INT_MAX - 1}
        \/ a # 0 /\ ~(a <= i) /\ i # 0 /\ n = q
    <3>1. StatsPerInterval(t) = IF a = 0 THEN {t.per_interval} ELSE IF a <= i THEN {1}
                                ELSE IF i = 0 THEN {INT_MAX, -INT_MAX - 1} ELSE {q}
      BY DEF StatsPerInterval
    <3> HIDE DEF i, a, q
    <3> QED BY <1>1, <3>1
  <2>3. i \in 0..600 /\ a \in 0..600
    BY <1>4
  <2> HIDE DEF i, a
  <2>4. i # 0 => q \in Int
    BY <2>3
  <2>5. i >= 10 /\ i < a => q \in 1..60
    <3> SUFFICES ASSUME i >= 10, i < a PROVE q \in 1..60
      OBVIOUS
    <3>1. i \in 10..600
      BY <2>3
    <3> QED BY <2>3, <3>1, RoundedQuotient, ZenonT(60)
  <2> HIDE DEF q
  <2>6. t.per_interval \in Int
    BY <1>4
  <2>7. n \in Int /\ (i >= 10 /\ a # 0 => n \in 1..60)
    BY <2>1, <2>2, <2>3, <2>4, <2>5, <2>6
  <2> QED BY <2>7 DEF i, a
<1>6. /\ u \in Test /\ u.role = t.role /\ u.mode = t.mode /\ u.protocol = t.protocol
      /\ u.sender_has_retransmits = t.sender_has_retransmits
      /\ u.given = t.given /\ u.limit_interval = t.limit_interval
      /\ u.rcv_timeout = t.rcv_timeout /\ u.per_interval = n
      /\ u.value["l"] = BlockSize(t) /\ u.value["i"] = t.value["i"]
      /\ u.value["n"] = t.value["n"] /\ u.value["k"] = t.value["k"]
      /\ u.value["t"] = IF (t.value["n"] # 0 \/ t.value["k"] # 0)
                           /\ "duration_flag" \notin t.flags THEN 0 ELSE t.value["t"]
  <2> DEFINE v == [t.value EXCEPT
                     !["l"] = BlockSize(t),
                     !["b"] = IF "rate_flag" \in t.flags THEN @
                              ELSE IF t.protocol = "udp" THEN UDP_RATE ELSE 0,
                     !["t"] = IF (t.value["n"] # 0 \/ t.value["k"] # 0)
                                 /\ "duration_flag" \notin t.flags THEN 0 ELSE @,
                     !["skew"] = IF t.role = "s" /\ "rsa-private-key-path" \in t.given /\ @ = 0
                                 THEN 10 ELSE @]
  <2>1. u = [t EXCEPT !.value = v, !.per_interval = n]
    BY <1>1, ZenonT(60) DEF Test
  <2>2. v \in [Slots -> Int] /\ v["l"] = BlockSize(t) /\ v["i"] = t.value["i"]
        /\ v["n"] = t.value["n"] /\ v["k"] = t.value["k"]
        /\ v["t"] = IF (t.value["n"] # 0 \/ t.value["k"] # 0)
                       /\ "duration_flag" \notin t.flags THEN 0 ELSE t.value["t"]
    BY <1>2, <1>3 DEF Slots
  <2> HIDE DEF v
  <2> QED BY <1>5, <2>1, <2>2 DEF Test
<1> DEFINE F == {o.flag : o \in O}
           sends == IF u.role = "c" THEN "R" \notin F ELSE "bidir" \in F \/ "R" \in F
<1>7. \A f : f \in F <=> Has(O, f)
  BY DEF Has
<1> HIDE DEF F
<1>8. /\ u.role \in {"c", "s"} /\ (u.role = "s" => ~t.reverse /\ ~t.bidirectional)
      /\ ~(u.role = "c" /\ "rcv_timeout_flag" \in t.flags /\ t.mode = "SENDER")
      /\ ~BadBlockSize(t) /\ ~TwoEnds(t)
  BY <1>4, <1>6 DEF Refused, FlagsOK, Test
<1>9. /\ u.mode = IF "bidir" \in F THEN "BIDIRECTIONAL" ELSE IF sends THEN "SENDER" ELSE "RECEIVER"
      /\ u.sender_has_retransmits <=> (sends /\ u.protocol = "tcp")
  BY <1>4, <1>6, <1>7, <1>8 DEF DirectionOK, Opposite, Ordinary
<1>10. ("rcv-timeout" \in F /\ u.role = "c") => {"R", "bidir"} \cap F # {}
  BY <1>4, <1>6, <1>7, <1>8 DEF DirectionOK, FlagsOK, Opposite, Ordinary
<1>11. Cardinality({c \in {"t", "n", "k"} : u.value[c] # 0}) <= 1
  <2> DEFINE C == {c \in {"t", "n", "k"} : u.value[c] # 0}
  <2>1. \E x : C \subseteq {x}
    BY <1>6, <1>8 DEF TwoEnds
  <2>2. C = {} \/ \E x : C = {x}
    BY <2>1
  <2> HIDE DEF C
  <2>3. Cardinality(C) \in {0, 1}
    BY <2>2, FS_EmptySet, FS_Singleton
  <2> QED BY <2>3 DEF C
<1>12. IF u.protocol = "udp"
       THEN \/ u.value["l"] \in {0} \cup MIN_UDP_BLOCKSIZE..MAX_UDP_BLOCKSIZE
            \/ \E o \in O : o.flag = "l" /\ (o.n < 0 \/ o.suffix = "G")
       ELSE u.value["l"] \in 1..MAX_BLOCKSIZE
  <2>1. MAX_BLOCKSIZE \in Int
    BY SMT DEF MAX_BLOCKSIZE, MB
  <2>2. CASE t.protocol = "udp"
    <3>1. BlockSize(t) = t.value["l"]
      BY <2>2 DEF BlockSize
    <3>2. \/ t.value["l"] <= 0 
          \/ t.value["l"] \in MIN_UDP_BLOCKSIZE..MAX_UDP_BLOCKSIZE
      BY <1>2, <1>8, <2>2, <3>1 DEF BadBlockSize, Slots
    <3>3. t.value["l"] \in Int
      BY <1>2 DEF Slots
    <3> QED BY <1>4, <1>6, <2>2, <3>1, <3>2, <3>3 DEF NumbersOK
  <2>3. CASE t.protocol # "udp"
    BY <1>3, <1>6, <1>8, <2>1, <2>3 DEF BadBlockSize
  <2> QED BY <2>2, <2>3
<1>13. 0 <= u.rcv_timeout.usecs /\ u.rcv_timeout.usecs < SEC_TO_US
  BY <1>4, <1>6 DEF NumbersOK
<1>14. (u.value["i"] >= 10 /\ u.limit_interval # 0) => u.per_interval \in 1..60
  BY <1>5, <1>6
<1>15. Usable(u, O)
  BY <1>9, <1>10, <1>11, <1>12, <1>13, <1>14 DEF Usable, F
<1> QED BY <1>4, <1>6, <1>15 DEF FlagsOK

-----------------------------------------------------------------------------
(* The inductive invariant *)

Program == [rest : SUBSET Option, test : Test, result : {"parsing", "ok", "refused", "exit"},
            readable : BOOLEAN]

\* What is read so far is in the test, and what is accepted is usable and has
\* the keys and files that were given.
OptionsInv ==
  /\ argv \in CommandLines
  /\ prog \in [Prog -> Program]
  /\ \A p \in Prog :
       /\ prog[p].rest \subseteq argv[p]
       /\ prog[p].result = "parsing" => ParsedOK(prog[p].test, argv[p] \ prog[p].rest)
       /\ prog[p].result = "ok" =>
            /\ Usable(prog[p].test, argv[p])
            /\ \A f \in AuthFlags : f \in prog[p].test.given <=> Has(argv[p], f)

Token == {NoToken} \cup {encode_auth_setting(c, ts) : c \in Credentials, ts \in Int}

\* A token is the current client's own, and the server keeps none between tests.
TokenInv ==
  /\ auth \in [state : {"idle", "parameters", "accepted", "denied", "failed"},
               client : Credentials \cup {Nobody}, offset : Int, sent : Int,
               message : Token, authtoken : Token, now : Int, tests : Int]
  /\ auth.state # "idle" => Ready
  /\ auth.state \in {"idle", "parameters", "failed"} => auth.authtoken = NoToken
  /\ auth.state = "parameters" =>
       auth.message = IF auth.client = Nobody THEN NoToken
                      ELSE encode_auth_setting(auth.client, auth.sent + auth.offset)

IInv == OptionsInv /\ TokenInv /\ AuthorizationIsExact

LEMMA InitLemma == Init => IInv
<1> SUFFICES ASSUME Init PROVE IInv
  OBVIOUS
<1>1. argv \in CommandLines /\ \A p \in Prog : argv[p] \in SUBSET Option
  BY OptionsAssumption, SMTT(60) DEF Init, InitOptions
<1>2. /\ prog \in [Prog -> Program]
      /\ \A p \in Prog : /\ prog[p].rest = argv[p] /\ prog[p].test = iperf_defaults
                         /\ prog[p].result = "parsing"
  BY <1>1, DefaultsLemma DEF Init, InitOptions, Program
<1>3. \A p \in Prog : argv[p] \ prog[p].rest = {}
  BY <1>2
<1>4. OptionsInv
  BY <1>1, <1>2, <1>3, DefaultsLemma DEF OptionsInv
<1>5. TokenInv /\ AuthorizationIsExact
  BY DEF Init, InitAuth, TokenInv, AuthorizationIsExact, Token
<1> QED BY <1>4, <1>5 DEF IInv

\* A turn of the loop: what is read, is read in; or the command line is refused.
LEMMA ParseLemma ==
  ASSUME OptionsInv, NEW p \in Prog, NEW o \in prog[p].rest, Parse(p, o)
  PROVE  OptionsInv'
<1> DEFINE a == prog[p]
           b == [ParseOption(a, o) EXCEPT !.rest = a.rest \ {o}]
           O == argv[p] \ a.rest
<1>1. /\ a \in Program /\ a.result = "parsing" /\ a.rest \subseteq argv[p] /\ o \in Option
      /\ prog' = [prog EXCEPT ![p] = b] /\ argv' = argv /\ o \in a.rest
      /\ ParsedOK(a.test, O)
  <2>1. a \in Program /\ a.rest \subseteq argv[p]
    BY DEF OptionsInv
  <2>2. o \in Option
    BY <2>1 DEF Program
  <2>3. a.result = "parsing" /\ argv' = argv
    BY DEF Parse
  <2>4. prog' = [prog EXCEPT ![p] = b]
    BY DEF Parse
  <2>5. ParsedOK(a.test, O)
    BY <2>3 DEF OptionsInv
  <2> QED BY <2>1, <2>2, <2>3, <2>4, <2>5
<1>2. /\ b \in Program /\ b.rest = a.rest \ {o}
      /\ b.result \in {"parsing", "refused", "exit"}
      /\ b.result = "parsing" => ParsedOK(b.test, O \cup {o})
  <2>1. CASE o.flag \in {"v", "h"}
    BY <1>1, <2>1 DEF ParseOption, Program
  <2>2. CASE o.flag \notin {"v", "h"} /\ (~InRange(o) \/ Clashes(a.test, o))
    BY <1>1, <2>2 DEF ParseOption, Program
  <2>3. CASE o.flag \notin {"v", "h"} /\ InRange(o) /\ ~Clashes(a.test, o)
    <3>1. ParseOption(a, o) = [a EXCEPT !.test = AfterOption(a.test, o)]
      BY <2>3 DEF ParseOption, AfterOption
    <3>2. a.test \in Test
      BY <1>1 DEF Program
    <3>3. AfterOption(a.test, o) \in Test /\ ParsedOK(AfterOption(a.test, o), O \cup {o})
      BY <1>1, <2>3, <3>2, OptionLemma
    <3> QED BY <1>1, <3>1, <3>3 DEF Program
  <2> QED BY <2>1, <2>2, <2>3
<1>3. prog \in [Prog -> Program]
  BY DEF OptionsInv
<1> HIDE DEF b
<1>4. b.rest \subseteq argv[p] /\ argv[p] \ b.rest = O \cup {o}
  <2> HIDE DEF a
  <2> QED BY <1>1, <1>2
<1>5. prog' \in [Prog -> Program] /\ prog'[p] = b /\ \A q \in Prog \ {p} : prog'[q] = prog[q]
  <2> HIDE DEF a
  <2> QED BY <1>1, <1>2, <1>3
<1>6. ASSUME NEW q \in Prog
      PROVE  /\ prog'[q].rest \subseteq argv[q]
             /\ prog'[q].result = "parsing" => ParsedOK(prog'[q].test, argv[q] \ prog'[q].rest)
             /\ prog'[q].result = "ok" =>
                  /\ Usable(prog'[q].test, argv[q])
                  /\ \A f \in AuthFlags : f \in prog'[q].test.given <=> Has(argv[q], f)
  <2>1. CASE q = p
    <3> HIDE DEF a
    <3> QED BY <1>2, <1>4, <1>5, <2>1
  <2>2. CASE q # p
    BY <1>5, <2>2 DEF OptionsInv
  <2> QED BY <2>1, <2>2
<1> QED BY <1>1, <1>5, <1>6 DEF OptionsInv

\* The checks at the end.
LEMMA FinishLemma ==
  ASSUME OptionsInv, NEW p \in Prog, NEW readable \in BOOLEAN, Finish(p, readable)
  PROVE  OptionsInv'
<1>1. PICK a \in CheckAll(prog[p], readable) :
        prog' = [prog EXCEPT ![p] = [a EXCEPT !.readable = readable]]
  BY DEF Finish
<1> DEFINE b == [a EXCEPT !.readable = readable]
           t == prog[p].test
<1>2. /\ prog[p] \in Program /\ prog[p].result = "parsing" /\ prog[p].rest = {}
      /\ argv' = argv /\ argv[p] \ prog[p].rest = argv[p] /\ t \in Test
      /\ ParsedOK(t, argv[p])
  BY DEF OptionsInv, Finish, Program
<1>3. /\ b \in Program /\ b.rest = {} /\ b.result # "parsing"
      /\ b.result = "ok" => /\ Usable(b.test, argv[p])
                            /\ \A f \in AuthFlags : f \in b.test.given <=> Has(argv[p], f)
  <2>1. CASE Refused(t, readable)
    <3>1. a = [prog[p] EXCEPT !.result = "refused"]
      BY <1>1, <1>2, <2>1 DEF CheckAll
    <3> QED BY <1>2, <3>1 DEF Program
  <2>2. CASE ~Refused(t, readable)
    <3>1. PICK u \in Complete(t) : a = [prog[p] EXCEPT !.result = "ok", !.test = u]
      BY <1>1, <1>2, <2>2 DEF CheckAll
    <3>2. /\ u \in Test /\ Usable(u, argv[p])
          /\ \A f \in AuthFlags : f \in u.given <=> Has(argv[p], f)
      BY <1>2, <2>2, CompleteLemma
    <3> QED BY <1>2, <3>1, <3>2 DEF Program
  <2> QED BY <2>1, <2>2
<1>4. prog' = [prog EXCEPT ![p] = b]
  BY <1>1
<1> HIDE DEF b
<1>5. prog' \in [Prog -> Program] /\ prog'[p] = b /\ \A q \in Prog \ {p} : prog'[q] = prog[q]
  BY <1>3, <1>4 DEF OptionsInv
<1>6. ASSUME NEW q \in Prog
      PROVE  /\ prog'[q].rest \subseteq argv[q]
             /\ prog'[q].result = "parsing" => ParsedOK(prog'[q].test, argv[q] \ prog'[q].rest)
             /\ prog'[q].result = "ok" =>
                  /\ Usable(prog'[q].test, argv[q])
                  /\ \A f \in AuthFlags : f \in prog'[q].test.given <=> Has(argv[q], f)
  <2>1. CASE q = p
    BY <1>3, <1>5, <2>1
  <2>2. CASE q # p
    BY <1>5, <2>2 DEF OptionsInv
  <2> QED BY <2>1, <2>2
<1> QED BY <1>2, <1>5, <1>6 DEF OptionsInv

-----------------------------------------------------------------------------
(* Authorization *)

\* Command lines are only read before the first test.
LEMMA ReadingLemma ==
  ASSUME IInv, NEW p \in Prog, prog[p].result = "parsing", auth' = auth
  PROVE  TokenInv' /\ AuthorizationIsExact'
<1>1. auth.state = "idle"
  BY DEF IInv, TokenInv, Ready
<1> QED BY <1>1 DEF IInv, TokenInv, AuthorizationIsExact

\* What the server decides on when the parameters arrive.
LEMMA DecisionLemma ==
  ASSUME IInv, auth.state = "parameters"
  PROVE  LET c == auth.client
             age == auth.now - auth.sent - auth.offset
             skew == prog["server"].test.value["skew"]
             listed == \E line \in UsersFile :
                         line = [kind |-> "entry", user |-> c.user, hash |-> PasswordHash(c)]
             given(f) == \E o \in argv["server"] : o.flag = f
             protected == given("rsa-private-key-path") /\ given("authorized-users-path")
         IN  test_is_authorized(auth.message, auth.now) <=>
               (protected => /\ c # Nobody /\ listed /\ {c.user, c.password} \cap NotWords = {}
                             /\ age \in -skew..skew)
<1> DEFINE c == auth.client
           age == auth.now - auth.sent - auth.offset
           skew == prog["server"].test.value["skew"]
           listed == \E line \in UsersFile :
                       line = [kind |-> "entry", user |-> c.user, hash |-> PasswordHash(c)]
           protected == Has(argv["server"], "rsa-private-key-path")
                        /\ Has(argv["server"], "authorized-users-path")
<1>1. /\ auth.now \in Int /\ auth.sent \in Int /\ auth.offset \in Int
      /\ c \in Credentials \cup {Nobody}
      /\ auth.message = IF c = Nobody THEN NoToken
                        ELSE encode_auth_setting(c, auth.sent + auth.offset)
      /\ Ready
  BY DEF IInv, TokenInv
<1>2. skew \in Int
  BY DEF IInv, OptionsInv, Program, Test, Slots, Prog
<1>3. Configured <=> protected
  <2>1. /\ "server" \in Prog /\ prog["server"].result = "ok"
        /\ "rsa-private-key-path" \in AuthFlags /\ "authorized-users-path" \in AuthFlags
    BY <1>1 DEF Ready, Prog, AuthFlags
  <2>2. \A f \in AuthFlags : f \in prog["server"].test.given <=> Has(argv["server"], f)
    BY <2>1 DEF IInv, OptionsInv
  <2> QED BY <2>1, <2>2 DEF Configured
<1>4. CASE c = Nobody
  BY <1>1, <1>3, <1>4 DEF test_is_authorized, Has
<1>5. CASE c # Nobody
  <2> DEFINE token == encode_auth_setting(c, auth.sent + auth.offset)
  <2>1. c \in Credentials /\ auth.message = token /\ c = [user |-> c.user, password |-> c.password]
    BY <1>1, <1>5, AuthAssumption
  <2>2. token # NoToken
    BY <1>5, <2>1 DEF encode_auth_setting, NoToken, Nobody
  <2>3. /\ token.user = c.user /\ token.password = c.password
        /\ token.ts = auth.sent + auth.offset /\ PasswordHash(token) = PasswordHash(c)
    BY DEF encode_auth_setting, PasswordHash
  <2> HIDE DEF token
  <2>4. (\E line \in UsersFile : line.kind = "entry" /\ line.user = token.user
                                 /\ line.hash = PasswordHash(token)) <=> listed
    BY <2>3, AuthAssumption
  <2>5. check_authentication(token, auth.now, skew) <=> (listed /\ age \in -skew..skew)
    <3>1. (auth.now - token.ts <= skew /\ auth.now - token.ts >= -skew) <=> age \in -skew..skew
      BY <1>1, <1>2, <2>3
    <3> QED BY <2>4, <3>1 DEF check_authentication
  <2>6. (\E t \in decode_auth_setting(token) : check_authentication(t, auth.now, skew))
        <=> (listed /\ age \in -skew..skew /\ {c.user, c.password} \cap NotWords = {})
    BY <2>3, <2>5 DEF decode_auth_setting
  <2> HIDE DEF listed
  <2>7. test_is_authorized(token, auth.now) <=>
          (protected => listed /\ age \in -skew..skew /\ {c.user, c.password} \cap NotWords = {})
    BY <1>3, <2>2, <2>6 DEF test_is_authorized
  <2> QED BY <1>5, <2>1, <2>7 DEF listed, Has
<1> QED BY <1>4, <1>5

LEMMA StepLemma == IInv /\ [Next]_avars => IInv'
<1> SUFFICES ASSUME IInv, [Next]_avars PROVE IInv'
  OBVIOUS
<1>1. ASSUME NEW p \in Prog, NEW o \in prog[p].rest, Parse(p, o), UNCHANGED auth PROVE IInv'
  BY <1>1, ParseLemma, ReadingLemma DEF IInv, Parse
<1>2. ASSUME NEW p \in Prog, NEW readable \in BOOLEAN, Finish(p, readable), UNCHANGED auth
      PROVE  IInv'
  BY <1>2, FinishLemma, ReadingLemma DEF IInv, Finish
<1>3. ASSUME NEW c \in Credentials \cup {Nobody}, NEW offset \in Offsets, send_parameters(c, offset)
      PROVE  IInv'
  <2>1. OptionsInv'
    BY <1>3 DEF IInv, OptionsInv, send_parameters
  <2>2. offset \in Int /\ auth.now \in Int
    BY AuthAssumption DEF IInv, TokenInv
  <2>3. c # Nobody => encode_auth_setting(c, auth.now + offset) \in Token
    BY <2>2 DEF Token
  <2>4. TokenInv'
    <3>1. NoToken \in Token
      BY DEF Token
    <3> DEFINE message == IF c = Nobody THEN NoToken ELSE encode_auth_setting(c, auth.now + offset)
               state == IF c.password \in TooLong THEN "failed" ELSE "parameters"
    <3>2. /\ auth' = [auth EXCEPT !.tests = @ + 1, !.client = c, !.offset = offset,
                                  !.sent = auth.now, !.state = state, !.message = message]
          /\ auth.state = "idle" /\ Ready /\ Ready' /\ message \in Token
          /\ state \in {"failed", "parameters"}
      BY <1>3, <2>3, <3>1 DEF send_parameters, Ready
    <3>3. auth'.message = message /\ auth'.client = c /\ auth'.sent = auth.now /\ auth'.offset = offset
          /\ auth'.state = state /\ auth'.authtoken = NoToken
      BY <3>2 DEF IInv, TokenInv
    <3> HIDE DEF message, state
    <3>4. auth' \in [state : {"idle", "parameters", "accepted", "denied", "failed"},
                     client : Credentials \cup {Nobody}, offset : Int, sent : Int,
                     message : Token, authtoken : Token, now : Int, tests : Int]
      <4> DEFINE S == {"idle", "parameters", "accepted", "denied", "failed"}
                 C == Credentials \cup {Nobody}
                 A == [state : S, client : C, offset : Int, sent : Int,
                       message : Token, authtoken : Token, now : Int, tests : Int]
      <4>1. state \in S /\ c \in C /\ auth \in A
        BY <1>3, <3>2 DEF IInv, TokenInv
      <4> HIDE DEF S, C
      <4>2. auth.tests + 1 \in Int
        BY <4>1
      <4> QED BY <2>2, <3>2, <4>1, <4>2
    <3> QED BY <3>2, <3>3, <3>4 DEF TokenInv, message
  <2>5. AuthorizationIsExact'
    BY <1>3 DEF IInv, TokenInv, AuthorizationIsExact, send_parameters
  <2> QED BY <2>1, <2>4, <2>5 DEF IInv
<1>4. CASE Tick
  <2>1. OptionsInv'
    BY <1>4 DEF IInv, OptionsInv, Tick
  <2>2. TokenInv'
    BY <1>4 DEF IInv, TokenInv, Tick, Ready
  <2>3. AuthorizationIsExact'
    BY <1>4 DEF IInv, TokenInv, AuthorizationIsExact, Tick
  <2> QED BY <2>1, <2>2, <2>3 DEF IInv
<1>5. CASE iperf_exchange_parameters
  <2>1. auth.state = "parameters" /\ auth.authtoken = NoToken
    BY <1>5 DEF iperf_exchange_parameters, IInv, TokenInv
  <2>2. /\ auth' = [auth EXCEPT
                     !.authtoken = auth.message,
                     !.state = IF test_is_authorized(auth.message, auth.now)
                               THEN "accepted" ELSE "denied"]
        /\ argv' = argv /\ prog' = prog
    BY <1>5, <2>1 DEF iperf_exchange_parameters
  <2>3. OptionsInv'
    BY <2>2 DEF IInv, OptionsInv
  <2>4. TokenInv'
    BY <2>1, <2>2 DEF IInv, TokenInv, Ready
  <2>5. auth.state' = "accepted" <=> test_is_authorized(auth.message, auth.now)
    BY <2>2 DEF IInv, TokenInv
  <2>6. /\ auth'.client = auth.client /\ auth'.now = auth.now /\ auth'.sent = auth.sent
        /\ auth'.offset = auth.offset
    BY <2>2 DEF IInv, TokenInv
  <2>7. AuthorizationIsExact'
    BY <2>1, <2>2, <2>5, <2>6, DecisionLemma DEF AuthorizationIsExact, PasswordHash, Nobody
  <2> QED BY <2>3, <2>4, <2>7 DEF IInv
<1>6. CASE iperf_reset_test
  <2>1. OptionsInv'
    BY <1>6 DEF IInv, OptionsInv, iperf_reset_test
  <2>2. NoToken \in Token
    BY DEF Token
  <2>3. TokenInv'
    BY <1>6, <2>2 DEF IInv, TokenInv, iperf_reset_test, Ready
  <2>4. AuthorizationIsExact'
    BY <1>6 DEF IInv, TokenInv, AuthorizationIsExact, iperf_reset_test
  <2> QED BY <2>1, <2>3, <2>4 DEF IInv
<1>7. CASE UNCHANGED avars
  BY <1>7 DEF IInv, OptionsInv, TokenInv, AuthorizationIsExact, avars, Ready
<1> QED BY <1>1, <1>2, <1>3, <1>4, <1>5, <1>6, <1>7 DEF Next

\* Every accepted command line, read in whatever order, gives settings the rest
\* of the program can use: one direction, the one that was asked for, at most
\* one end condition, a block of a legal size, a receive timeout only at a
\* receiver, and a bitrate limit that fits its ring (iperf_parse_arguments).
THEOREM SettingsTheorem == Spec => []SettingsAreUsable
<1>1. IInv => SettingsAreUsable
  BY DEF IInv, OptionsInv, SettingsAreUsable
<1> QED BY <1>1, InitLemma, StepLemma, PTL DEF Spec

\* A server with a key and a users file accepts exactly the clients whose own
\* credentials are in the file and whose token is fresh, and any other server
\* accepts everybody (test_is_authorized), for all credentials and clocks.
THEOREM AuthorizationTheorem == Spec => []AuthorizationIsExact
<1>1. IInv => AuthorizationIsExact
  BY DEF IInv
<1> QED BY <1>1, InitLemma, StepLemma, PTL DEF Spec

-----------------------------------------------------------------------------
(* The order of the options *)

\* The options whose name is kept among those given.
Named(f) ==
  Slot(f) = "other" /\ f \notin {"s", "c", "R", "bidir", "m", "u", "sctp", "rcv-timeout"}

\* The numbers an option stores; --nstreams stores that of -b as well.
Writes(o, x) == x # "other" /\ (Slot(o.flag) = x \/ (o.flag = "nstreams" /\ x = "b"))
Written(o, x) == IF x = "b" THEN unit_atof_rate(o) ELSE Value(o)

SetsBurst(o) == o.flag \in {"b", "nstreams"} /\ o.slash
SetsLimitInterval(o) == o.flag = "server-bitrate-limit" /\ o.slash
RcvTimeout(o) == [secs |-> o.n \div 1000, usecs |-> (o.n % 1000) * 1000]

RoleAndProtocolOK(t, O) ==
  /\ t.role = IF Has(O, "c") THEN "c" ELSE IF Has(O, "s") THEN "s" ELSE "none"
  /\ t.protocol = IF Has(O, "u") THEN "udp" ELSE IF Has(O, "sctp") THEN "sctp" ELSE "tcp"
  /\ t.multipath <=> Has(O, "m")

\* A field is what the option for it gave, or the default.
StoredOK(t, O) ==
  /\ t.flags = UNION {FlagsOf(o) : o \in O}
  /\ \A f : f \in t.given <=> Named(f) /\ Has(O, f)
  /\ \A x \in Slots :
       /\ \A o \in O : Writes(o, x) => t.value[x] = Written(o, x)
       /\ (\A o \in O : ~Writes(o, x)) => t.value[x] = iperf_defaults.value[x]

LimitsOK(t, O) ==
  /\ \A o \in O : SetsBurst(o) => t.burst = o.m
  /\ (\A o \in O : ~SetsBurst(o)) => t.burst = iperf_defaults.burst
  /\ \A o \in O : SetsLimitInterval(o) => t.limit_interval = o.m
  /\ (\A o \in O : ~SetsLimitInterval(o)) => t.limit_interval = iperf_defaults.limit_interval
  /\ \A o \in O : o.flag = "rcv-timeout" => t.rcv_timeout = RcvTimeout(o)
  /\ ~Has(O, "rcv-timeout") => t.rcv_timeout = iperf_defaults.rcv_timeout
  /\ t.per_interval = iperf_defaults.per_interval

\* t is what the options in O say, whatever order they came in.  Only
\* sender_has_retransmits depends on the order, in a server with --bidir.
Meant(t, O) ==
  /\ t \in Test /\ ParsedOK(t, O)
  /\ RoleAndProtocolOK(t, O) /\ StoredOK(t, O) /\ LimitsOK(t, O)

LEMMA DefaultsMeant == Meant(iperf_defaults, {})
<1> DEFINE t == iperf_defaults
<1>1. t \in Test /\ ParsedOK(t, {})
  BY DefaultsLemma
<1>2. /\ t.role = "none" /\ t.protocol = "tcp" /\ t.multipath = FALSE /\ t.flags = {}
      /\ t.given = {}
  BY DEF iperf_defaults
<1>3. \A f : ~Has({}, f)
  BY DEF Has
<1> HIDE DEF t
<1>4. RoleAndProtocolOK(t, {})
  BY <1>2, <1>3 DEF RoleAndProtocolOK
<1>5. StoredOK(t, {})
  BY <1>2, <1>3 DEF StoredOK, t
<1>6. LimitsOK(t, {})
  BY <1>3 DEF LimitsOK, t
<1> QED BY <1>1, <1>4, <1>5, <1>6 DEF Meant, t

\* What one turn of the loop does to every field but direction.
LEMMA AfterLemma ==
  ASSUME NEW t \in Test, NEW o \in Option
  PROVE  LET u == AfterOption(t, o) IN
         /\ u.role = IF o.flag \in {"s", "c"} THEN o.flag ELSE t.role
         /\ u.protocol = IF o.flag = "u" THEN "udp" ELSE IF o.flag = "sctp" THEN "sctp"
                         ELSE IF o.flag = "m" THEN "tcp" ELSE t.protocol
         /\ (u.multipath <=> t.multipath \/ o.flag = "m")
         /\ u.flags = t.flags \cup FlagsOf(o)
         /\ u.given = IF Named(o.flag) THEN t.given \cup {o.flag} ELSE t.given
         /\ \A x \in Slots : u.value[x] = IF Writes(o, x) THEN Written(o, x) ELSE t.value[x]
         /\ u.burst = IF SetsBurst(o) THEN o.m ELSE t.burst
         /\ u.limit_interval = IF SetsLimitInterval(o) THEN o.m ELSE t.limit_interval
         /\ u.rcv_timeout = IF o.flag = "rcv-timeout" THEN RcvTimeout(o) ELSE t.rcv_timeout
         /\ u.per_interval = t.per_interval
<1> DEFINE a == Assign(t, o)
           st == Stored(t, o)
           Fields(v) ==
             /\ v.role = IF o.flag \in {"s", "c"} THEN o.flag ELSE t.role
             /\ v.protocol = IF o.flag = "u" THEN "udp" ELSE IF o.flag = "sctp" THEN "sctp"
                             ELSE IF o.flag = "m" THEN "tcp" ELSE t.protocol
             /\ (v.multipath <=> t.multipath \/ o.flag = "m")
             /\ v.given = IF Named(o.flag) THEN t.given \cup {o.flag} ELSE t.given
             /\ \A x \in Slots : v.value[x] = IF Writes(o, x) THEN Written(o, x) ELSE t.value[x]
             /\ v.burst = IF SetsBurst(o) THEN o.m ELSE t.burst
             /\ v.limit_interval = IF SetsLimitInterval(o) THEN o.m ELSE t.limit_interval
             /\ v.rcv_timeout = IF o.flag = "rcv-timeout" THEN RcvTimeout(o) ELSE t.rcv_timeout
             /\ v.per_interval = t.per_interval
<1>1. SUFFICES Fields(a) /\ a.flags = t.flags /\ DOMAIN a = DOMAIN t
               /\ a = [f \in DOMAIN t |-> a[f]]
  <2>1. AfterOption(t, o) = [a EXCEPT !.flags = @ \cup FlagsOf(o)]
    BY DEF AfterOption
  <2>2. DOMAIN t = {"role", "mode", "reverse", "bidirectional", "protocol", "multipath",
                    "sender_has_retransmits", "flags", "given", "value", "burst",
                    "limit_interval", "per_interval", "rcv_timeout"}
    BY DEF Test
  <2> HIDE DEF a
  <2> QED BY <1>1, <2>1, <2>2
<1>2. o.flag \in STRING /\ o.slash \in BOOLEAN
  BY DEF Option
<1>3. /\ st.role = t.role /\ st.protocol = t.protocol /\ st.multipath = t.multipath
      /\ st.flags = t.flags /\ st.burst = t.burst /\ st.limit_interval = t.limit_interval
      /\ st.rcv_timeout = t.rcv_timeout /\ st.per_interval = t.per_interval /\ st \in Test
      /\ \A x \in Slots :
           st.value[x] = IF x = Slot(o.flag) /\ x # "other" THEN Value(o) ELSE t.value[x]
      /\ st.given = IF Slot(o.flag) = "other" THEN t.given \cup {o.flag} ELSE t.given
  <2>1. /\ st.burst = t.burst /\ st.per_interval = t.per_interval /\ st.multipath = t.multipath
    BY DEF Stored, Test
  <2> QED BY <2>1, StoredLemma DEF KeepsDirection
<1>4. CASE o.flag \in {"s", "c", "R", "bidir", "m", "u", "sctp", "rcv-timeout"}
  <2>1. Slot(o.flag) = "other" /\ ~Named(o.flag) /\ \A x : ~Writes(o, x)
    BY <1>4 DEF Slot, Named, Writes
  <2>2. ~SetsBurst(o) /\ ~SetsLimitInterval(o)
    BY <1>4 DEF SetsBurst, SetsLimitInterval
  <2>3. CASE o.flag \in {"s", "c"}
    <3>1. a = iperf_set_test_role(t, o.flag)
      BY <2>3 DEF Assign
    <3> QED BY <2>1, <2>2, <2>3, <3>1, ZenonT(60) DEF iperf_set_test_role, check_sender_has_retransmits, Test
  <2>4. CASE o.flag = "R"
    <3>1. a = iperf_set_test_reverse(t)
      BY <2>4 DEF Assign
    <3> QED BY <2>1, <2>2, <2>4, <3>1, ZenonT(60) DEF iperf_set_test_reverse, check_sender_has_retransmits, Test
  <2>5. CASE o.flag = "bidir"
    <3>1. a = iperf_set_test_bidirectional(t)
      BY <2>5 DEF Assign
    <3> QED BY <2>1, <2>2, <2>5, <3>1 DEF iperf_set_test_bidirectional, Test
  <2>6. CASE o.flag = "m"
    <3>1. a = [set_protocol(t, "tcp") EXCEPT !.multipath = TRUE]
      BY <2>6 DEF Assign
    <3> QED BY <2>1, <2>2, <2>6, <3>1, ZenonT(60) DEF set_protocol, check_sender_has_retransmits, Test
  <2>7. CASE o.flag \in {"u", "sctp"}
    <3>1. a = set_protocol(t, IF o.flag = "u" THEN "udp" ELSE "sctp")
      BY <2>7 DEF Assign
    <3> QED BY <2>1, <2>2, <2>7, <3>1, ZenonT(60) DEF set_protocol, check_sender_has_retransmits, Test
  <2>8. CASE o.flag = "rcv-timeout"
    <3>1. a = [t EXCEPT !.rcv_timeout = RcvTimeout(o)]
      BY <2>8 DEF Assign, RcvTimeout
    <3> QED BY <2>1, <2>2, <2>8, <3>1 DEF Test
  <2> QED BY <1>4, <2>3, <2>4, <2>5, <2>6, <2>7, <2>8
<1>5. CASE o.flag \notin {"s", "c", "R", "bidir", "m", "u", "sctp", "rcv-timeout"}
  <2>1. Named(o.flag) <=> Slot(o.flag) = "other"
    BY <1>5 DEF Named
  <2>2. CASE o.flag \in {"b", "nstreams"}
    <3> DEFINE z == IF o.flag = "b" THEN t ELSE st
    <3>1. a = [z EXCEPT !.value["b"] = unit_atof_rate(o), !.burst = IF o.slash THEN o.m ELSE @]
      <4>1. a = BitRate(z, o)
        BY <2>2 DEF Assign
      <4> QED BY <4>1 DEF BitRate
    <3>2. Slot(o.flag) = o.flag /\ ~Named(o.flag)
      BY <2>2 DEF Slot, Named
    <3>3. \A x \in Slots : Writes(o, x) <=> x = "b" \/ x = o.flag
      BY <2>2, <3>2 DEF Writes, Slots
    <3>4. ~SetsLimitInterval(o) /\ (SetsBurst(o) <=> o.slash)
      BY <2>2 DEF SetsLimitInterval, SetsBurst
    <3>5. /\ z \in Test /\ z.role = t.role /\ z.protocol = t.protocol /\ z.multipath = t.multipath
          /\ z.flags = t.flags /\ z.burst = t.burst /\ z.limit_interval = t.limit_interval
          /\ z.rcv_timeout = t.rcv_timeout /\ z.per_interval = t.per_interval /\ z.given = t.given
      <4>1. CASE o.flag = "b"
        BY <4>1 DEF z
      <4>2. CASE o.flag # "b"
        <5>1. z = st
          BY <4>2
        <5>2. Slot(o.flag) # "other"
          BY <2>2, <3>2
        <5> HIDE DEF z, st
        <5> QED BY <1>3, <5>1, <5>2
      <4> QED BY <4>1, <4>2
    <3>6. \A x \in Slots : x # "b" => z.value[x] = IF Writes(o, x) THEN Value(o) ELSE t.value[x]
      BY <1>3, <2>2, <3>2, <3>3
    <3> HIDE DEF z, a
    <3>7. /\ a.role = z.role /\ a.protocol = z.protocol /\ a.multipath = z.multipath
          /\ a.flags = z.flags /\ a.limit_interval = z.limit_interval
          /\ a.rcv_timeout = z.rcv_timeout /\ a.per_interval = z.per_interval /\ a.given = z.given
          /\ a.burst = (IF o.slash THEN o.m ELSE z.burst)
          /\ a.value = [z.value EXCEPT !["b"] = unit_atof_rate(o)]
          /\ DOMAIN a = DOMAIN t /\ a = [f \in DOMAIN t |-> a[f]]
      BY <3>1, <3>5 DEF Test
    <3>8. \A x \in Slots : a.value[x] = IF x = "b" THEN unit_atof_rate(o) ELSE z.value[x]
      BY <3>5, <3>7 DEF Test
    <3>9. \A x \in Slots : a.value[x] = IF Writes(o, x) THEN Written(o, x) ELSE t.value[x]
      BY <3>3, <3>6, <3>8 DEF Written
    <3> QED BY <1>5, <2>2, <3>2, <3>4, <3>5, <3>7, <3>9
  <2>3. CASE o.flag = "server-bitrate-limit"
    <3>1. a = [st EXCEPT !.limit_interval = IF o.slash THEN o.m ELSE @]
      BY <2>3 DEF Assign
    <3>2. Slot(o.flag) = "other" /\ \A x : ~Writes(o, x)
      BY <2>3 DEF Slot, Writes
    <3>3. ~SetsBurst(o) /\ (SetsLimitInterval(o) <=> o.slash)
      BY <2>3 DEF SetsLimitInterval, SetsBurst
    <3> HIDE DEF st, a
    <3>4. /\ a.role = st.role /\ a.protocol = st.protocol /\ a.multipath = st.multipath
          /\ a.flags = st.flags /\ a.burst = st.burst /\ a.value = st.value
          /\ a.rcv_timeout = st.rcv_timeout /\ a.per_interval = st.per_interval /\ a.given = st.given
          /\ a.limit_interval = (IF o.slash THEN o.m ELSE st.limit_interval)
          /\ DOMAIN a = DOMAIN t /\ a = [f \in DOMAIN t |-> a[f]]
      BY <1>3, <3>1 DEF Test
    <3>5. \A x \in Slots : st.value[x] = t.value[x]
      BY <1>3, <3>2
    <3> QED BY <1>3, <1>5, <2>1, <2>3, <3>2, <3>3, <3>4, <3>5
  <2>4. CASE o.flag \notin {"b", "nstreams", "server-bitrate-limit"}
    <3>1. a = st
      BY <1>5, <2>4 DEF Assign
    <3>2. \A x : Writes(o, x) <=> (x = Slot(o.flag) /\ x # "other")
      BY <2>4 DEF Writes
    <3>3. ~SetsBurst(o) /\ ~SetsLimitInterval(o)
      BY <2>4 DEF SetsLimitInterval, SetsBurst
    <3>4. Slot(o.flag) # "b"
      BY <2>4 DEF Slot
    <3> HIDE DEF st, a
    <3>5. DOMAIN a = DOMAIN t /\ a = [f \in DOMAIN t |-> a[f]]
      BY <1>3, <3>1 DEF Test
    <3>6. \A x \in Slots : a.value[x] = IF Writes(o, x) THEN Written(o, x) ELSE t.value[x]
      BY <1>3, <3>1, <3>2, <3>4 DEF Written
    <3> QED BY <1>3, <1>5, <2>1, <2>4, <3>1, <3>3, <3>5, <3>6
  <2> QED BY <2>2, <2>3, <2>4
<1> QED BY <1>4, <1>5

\* Options that store into the same place have the same Field.
LEMMA WritesLemma ==
  ASSUME NEW o, NEW x, Writes(o, x)
  PROVE  Field(o.flag) = IF x = "skew" THEN "time-skew-threshold"
                         ELSE IF x = "nstreams" THEN "b" ELSE x
<1>1. CASE o.flag = "nstreams"
  BY <1>1 DEF Writes, Slot, Field
<1>2. CASE o.flag \in {"S", "dscp"}
  BY <1>2 DEF Writes, Slot, Field
<1>3. CASE o.flag = "time-skew-threshold"
  BY <1>3 DEF Writes, Slot, Field
<1>4. CASE o.flag \in {"t", "n", "k", "l", "b", "i"}
  BY <1>4 DEF Writes, Slot, Field
<1>5. CASE o.flag \notin {"nstreams", "S", "dscp", "time-skew-threshold", "t", "n", "k", "l", "b", "i"}
  BY <1>5 DEF Writes, Slot
<1> QED BY <1>1, <1>2, <1>3, <1>4, <1>5

\* An option that is read after others, none of which is for its field, adds to
\* the test what it says and takes away nothing they said.
LEMMA MeantLemma ==
  ASSUME NEW t, NEW O, Meant(t, O), NEW o \in Option, o \notin O, TypedOnce(O \cup {o}),
         InRange(o), ~Clashes(t, o)
  PROVE  Meant(AfterOption(t, o), O \cup {o})
<1> DEFINE u == AfterOption(t, o)
           P == O \cup {o}
<1>1. /\ t \in Test /\ ParsedOK(t, O) /\ RoleAndProtocolOK(t, O) /\ StoredOK(t, O) /\ LimitsOK(t, O)
  BY DEF Meant
<1>2. u \in Test /\ ParsedOK(u, P)
  BY <1>1, OptionLemma
<1>3. \A f : Has(P, f) <=> Has(O, f) \/ o.flag = f
  BY DEF Has
<1>4. \A o1, o2 \in P : Field(o1.flag) = Field(o2.flag) => o1 = o2
  BY DEF TypedOnce
<1>5. /\ u.role = IF o.flag \in {"s", "c"} THEN o.flag ELSE t.role
      /\ u.protocol = IF o.flag = "u" THEN "udp" ELSE IF o.flag = "sctp" THEN "sctp"
                      ELSE IF o.flag = "m" THEN "tcp" ELSE t.protocol
      /\ u.multipath <=> t.multipath \/ o.flag = "m"
      /\ u.flags = t.flags \cup FlagsOf(o)
      /\ u.given = IF Named(o.flag) THEN t.given \cup {o.flag} ELSE t.given
      /\ \A x \in Slots : u.value[x] = IF Writes(o, x) THEN Written(o, x) ELSE t.value[x]
      /\ u.burst = IF SetsBurst(o) THEN o.m ELSE t.burst
      /\ u.limit_interval = IF SetsLimitInterval(o) THEN o.m ELSE t.limit_interval
      /\ u.rcv_timeout = IF o.flag = "rcv-timeout" THEN RcvTimeout(o) ELSE t.rcv_timeout
      /\ u.per_interval = t.per_interval
  BY <1>1, AfterLemma
<1> HIDE DEF u
<1>6. RoleAndProtocolOK(u, P)
  <2>1. u.role = IF Has(P, "c") THEN "c" ELSE IF Has(P, "s") THEN "s" ELSE "none"
    <3>1. ~(o.flag = "s" /\ t.role = "c") /\ ~(o.flag = "c" /\ t.role = "s")
      BY DEF Clashes
    <3> QED BY <1>1, <1>3, <1>5, <3>1 DEF RoleAndProtocolOK
  <2>2. u.protocol = IF Has(P, "u") THEN "udp" ELSE IF Has(P, "sctp") THEN "sctp" ELSE "tcp"
    <3>1. CASE o.flag \in {"u", "m", "sctp"}
      <4>1. ASSUME NEW f \in {"u", "m", "sctp"}, Has(O, f) PROVE FALSE
        <5>1. PICK o2 \in O : o2.flag = f
          BY <4>1 DEF Has
        <5>2. Field(o2.flag) = Field(o.flag)
          BY <3>1, <5>1 DEF Field
        <5> QED BY <1>4, <5>1, <5>2
      <4> QED BY <1>3, <1>5, <3>1, <4>1
    <3>2. CASE o.flag \notin {"u", "m", "sctp"}
      BY <1>1, <1>3, <1>5, <3>2 DEF RoleAndProtocolOK
    <3> QED BY <3>1, <3>2
  <2>3. u.multipath <=> Has(P, "m")
    BY <1>1, <1>3, <1>5 DEF RoleAndProtocolOK
  <2> QED BY <2>1, <2>2, <2>3 DEF RoleAndProtocolOK
<1>7. StoredOK(u, P)
  <2>1. u.flags = UNION {FlagsOf(o2) : o2 \in P}
    <3>1. t.flags = UNION {FlagsOf(o2) : o2 \in O}
      BY <1>1 DEF StoredOK
    <3>2. UNION {FlagsOf(o2) : o2 \in P} = (UNION {FlagsOf(o2) : o2 \in O}) \cup FlagsOf(o)
      OBVIOUS
    <3> QED BY <1>5, <3>1, <3>2
  <2>2. \A f : f \in u.given <=> Named(f) /\ Has(P, f)
    BY <1>1, <1>3, <1>5 DEF StoredOK
  <2>3. ASSUME NEW x \in Slots, NEW o2 \in P, Writes(o2, x) PROVE u.value[x] = Written(o2, x)
    <3>1. CASE Writes(o, x)
      <4>1. Field(o2.flag) = Field(o.flag)
        BY <2>3, <3>1, WritesLemma
      <4> QED BY <1>4, <1>5, <3>1, <4>1
    <3>2. CASE ~Writes(o, x)
      <4>1. o2 \in O
        BY <2>3, <3>2
      <4>2. t.value[x] = Written(o2, x)
        BY <1>1, <2>3, <4>1 DEF StoredOK
      <4> QED BY <1>5, <3>2, <4>2
    <3> QED BY <3>1, <3>2
  <2>4. ASSUME NEW x \in Slots, \A o2 \in P : ~Writes(o2, x)
        PROVE  u.value[x] = iperf_defaults.value[x]
    <3>1. t.value[x] = iperf_defaults.value[x]
      BY <1>1, <2>4 DEF StoredOK
    <3> QED BY <1>5, <2>4, <3>1
  <2> QED BY <2>1, <2>2, <2>3, <2>4 DEF StoredOK
<1>8. LimitsOK(u, P)
  <2>1. ASSUME NEW o2 \in P, SetsBurst(o2) PROVE u.burst = o2.m
    <3>1. CASE SetsBurst(o)
      <4>1. Field(o2.flag) = Field(o.flag)
        BY <2>1, <3>1 DEF SetsBurst, Field
      <4> QED BY <1>4, <1>5, <3>1, <4>1
    <3>2. CASE ~SetsBurst(o)
      BY <1>1, <1>5, <2>1, <3>2 DEF LimitsOK
    <3> QED BY <3>1, <3>2
  <2>2. (\A o2 \in P : ~SetsBurst(o2)) => u.burst = iperf_defaults.burst
    BY <1>1, <1>5 DEF LimitsOK
  <2>3. ASSUME NEW o2 \in P, SetsLimitInterval(o2) PROVE u.limit_interval = o2.m
    <3>1. CASE SetsLimitInterval(o)
      <4>1. Field(o2.flag) = Field(o.flag)
        BY <2>3, <3>1 DEF SetsLimitInterval
      <4> QED BY <1>4, <1>5, <3>1, <4>1
    <3>2. CASE ~SetsLimitInterval(o)
      BY <1>1, <1>5, <2>3, <3>2 DEF LimitsOK
    <3> QED BY <3>1, <3>2
  <2>4. (\A o2 \in P : ~SetsLimitInterval(o2)) => u.limit_interval = iperf_defaults.limit_interval
    BY <1>1, <1>5 DEF LimitsOK
  <2>5. ASSUME NEW o2 \in P, o2.flag = "rcv-timeout" PROVE u.rcv_timeout = RcvTimeout(o2)
    <3>1. CASE o.flag = "rcv-timeout"
      <4>1. o2 = o
        BY <1>4, <2>5, <3>1
      <4> QED BY <1>5, <3>1, <4>1
    <3>2. CASE o.flag # "rcv-timeout"
      BY <1>1, <1>5, <2>5, <3>2 DEF LimitsOK
    <3> QED BY <3>1, <3>2
  <2>6. ~Has(P, "rcv-timeout") => u.rcv_timeout = iperf_defaults.rcv_timeout
    BY <1>1, <1>3, <1>5 DEF LimitsOK
  <2> QED BY <1>1, <1>5, <2>1, <2>2, <2>3, <2>4, <2>5, <2>6 DEF LimitsOK
<1> QED BY <1>2, <1>6, <1>7, <1>8 DEF Meant, u

\* Two tests read from the same options differ in sender_has_retransmits at most.
LEMMA AgreeLemma ==
  ASSUME NEW O, NEW t, NEW u, Meant(t, O), Meant(u, O)
  PROVE  u = [t EXCEPT !.sender_has_retransmits = u.sender_has_retransmits]
<1>1. /\ t \in Test /\ DirectionOK(t, O) /\ RoleAndProtocolOK(t, O) /\ StoredOK(t, O) /\ LimitsOK(t, O)
      /\ u \in Test /\ DirectionOK(u, O) /\ RoleAndProtocolOK(u, O) /\ StoredOK(u, O) /\ LimitsOK(u, O)
  BY DEF Meant, ParsedOK
<1>2. u.role = t.role /\ u.protocol = t.protocol /\ u.multipath = t.multipath
  <2>1. u.multipath \in BOOLEAN /\ t.multipath \in BOOLEAN
    BY <1>1 DEF Test
  <2> QED BY <1>1, <2>1 DEF RoleAndProtocolOK
<1>3. u.reverse = t.reverse /\ u.bidirectional = t.bidirectional /\ u.mode = t.mode
  <2>1. /\ u.reverse \in BOOLEAN /\ t.reverse \in BOOLEAN
        /\ u.bidirectional \in BOOLEAN /\ t.bidirectional \in BOOLEAN
    BY <1>1 DEF Test
  <2>2. u.reverse = t.reverse /\ u.bidirectional = t.bidirectional
    BY <1>1, <2>1 DEF DirectionOK
  <2> QED BY <1>1, <1>2, <2>2 DEF DirectionOK
<1>4. u.flags = t.flags /\ u.given = t.given
  BY <1>1 DEF StoredOK
<1>5. u.value = t.value
  <2>1. ASSUME NEW x \in Slots PROVE u.value[x] = t.value[x]
    <3>1. CASE \E o \in O : Writes(o, x)
      BY <1>1, <3>1 DEF StoredOK
    <3>2. CASE \A o \in O : ~Writes(o, x)
      BY <1>1, <3>2 DEF StoredOK
    <3> QED BY <3>1, <3>2
  <2>2. u.value \in [Slots -> Int] /\ t.value \in [Slots -> Int]
    BY <1>1 DEF Test
  <2> QED BY <2>1, <2>2
<1>6. u.burst = t.burst
  <2>1. CASE \E o \in O : SetsBurst(o)
    BY <1>1, <2>1 DEF LimitsOK
  <2>2. CASE \A o \in O : ~SetsBurst(o)
    BY <1>1, <2>2 DEF LimitsOK
  <2> QED BY <2>1, <2>2
<1>7. u.limit_interval = t.limit_interval
  <2>1. CASE \E o \in O : SetsLimitInterval(o)
    BY <1>1, <2>1 DEF LimitsOK
  <2>2. CASE \A o \in O : ~SetsLimitInterval(o)
    BY <1>1, <2>2 DEF LimitsOK
  <2> QED BY <2>1, <2>2
<1>8. u.rcv_timeout = t.rcv_timeout /\ u.per_interval = t.per_interval
  <2>1. CASE Has(O, "rcv-timeout")
    BY <1>1, <2>1 DEF LimitsOK, Has
  <2>2. CASE ~Has(O, "rcv-timeout")
    BY <1>1, <2>2 DEF LimitsOK
  <2> QED BY <1>1, <2>1, <2>2 DEF LimitsOK
<1> QED BY <1>1, <1>2, <1>3, <1>4, <1>5, <1>6, <1>7, <1>8 DEF Test

\* They are refused together, and if not they are the same.
LEMMA RefusedLemma ==
  ASSUME NEW O, NEW t, NEW u, Meant(t, O), Meant(u, O), NEW readable
  PROVE  /\ Refused(t, readable) <=> Refused(u, readable)
         /\ ~Refused(t, readable) => t = u
<1>1. u = [t EXCEPT !.sender_has_retransmits = u.sender_has_retransmits] /\ t \in Test /\ u \in Test
  BY AgreeLemma DEF Meant
<1>2. /\ u.role = t.role /\ u.mode = t.mode /\ u.protocol = t.protocol /\ u.flags = t.flags
      /\ u.given = t.given /\ u.value = t.value
  BY <1>1 DEF Test
<1>3. Refused(t, readable) <=> Refused(u, readable)
  <2>1. BadBlockSize(t) <=> BadBlockSize(u)
    BY <1>2 DEF BadBlockSize, BlockSize
  <2>2. BadAuth(t, readable) <=> BadAuth(u, readable)
    BY <1>2 DEF BadAuth
  <2>3. TwoEnds(t) <=> TwoEnds(u)
    BY <1>2 DEF TwoEnds
  <2> QED BY <1>2, <2>1, <2>2, <2>3 DEF Refused
<1>4. ASSUME ~Refused(t, readable) PROVE t.sender_has_retransmits = u.sender_has_retransmits
  <2>1. /\ DirectionOK(t, O) /\ DirectionOK(u, O) /\ FlagsOK(t, O) /\ FlagsOK(u, O)
    BY DEF Meant, ParsedOK
  <2>2. t.role \in {"c", "s"} /\ (t.role = "s" => ~t.bidirectional /\ ~u.bidirectional)
    BY <1>1, <1>2, <1>4, <2>1 DEF Refused, FlagsOK, Test
  <2>3. t.sender_has_retransmits \in BOOLEAN /\ u.sender_has_retransmits \in BOOLEAN
    BY <1>1 DEF Test
  <2>4. /\ t.sender_has_retransmits <=> (t.mode # "RECEIVER" /\ t.protocol = "tcp")
        /\ u.sender_has_retransmits <=> (u.mode # "RECEIVER" /\ u.protocol = "tcp")
    BY <1>2, <2>1, <2>2 DEF DirectionOK
  <2> QED BY <1>2, <2>3, <2>4
<1>5. ASSUME ~Refused(t, readable) PROVE t = u
  <2>1. [t EXCEPT !.sender_has_retransmits = t.sender_has_retransmits] = t
    BY <1>1 DEF Test
  <2> QED BY <1>1, <1>4, <1>5, <2>1
<1> QED BY <1>3, <1>5

\* What refuses a command line whatever its order.
Bad(O) ==
  \/ \E o \in O : ~InRange(o)
  \/ Has(O, "c") /\ Has(O, "s")
  \/ Has(O, "R") /\ Has(O, "bidir")

\* A program that has read the options in O, or has stopped at one of them.
HasRead(a, O) ==
  \/ a.result = "parsing" /\ ~Bad(O) /\ Meant(a.test, O)
  \/ a.result = "refused" /\ Bad(O)

LEMMA BadLemma ==
  ASSUME NEW O, NEW P, O \subseteq P, Bad(O)
  PROVE  Bad(P)
BY DEF Bad, Has

\* One more option: the loop goes on with it, or refuses what any order refuses.
LEMMA TurnLemma ==
  ASSUME NEW a, {"test", "result"} \subseteq DOMAIN a, NEW O, NEW o \in Option, o \notin O,
         TypedOnce(O \cup {o}), a.result = "parsing", ~Bad(O), Meant(a.test, O)
  PROVE  HasRead(ParseOption(a, o), O \cup {o}) /\ DOMAIN ParseOption(a, o) = DOMAIN a
<1> DEFINE t == a.test
           P == O \cup {o}
           b == ParseOption(a, o)
<1>1. o.flag \notin {"v", "h"}
  BY DEF TypedOnce
<1>2. \A f : Has(P, f) <=> Has(O, f) \/ o.flag = f
  BY DEF Has
<1>3. t.role = IF Has(O, "c") THEN "c" ELSE IF Has(O, "s") THEN "s" ELSE "none"
  BY DEF Meant, RoleAndProtocolOK
<1>4. (t.bidirectional <=> Has(O, "bidir")) /\ (t.reverse <=> Has(O, "R"))
  BY DEF Meant, ParsedOK, DirectionOK
<1>5. Bad(P) <=> ~InRange(o) \/ Clashes(t, o)
  <2> HIDE DEF t, P
  <2>1. (\E o2 \in P : ~InRange(o2)) <=> (\E o2 \in O : ~InRange(o2)) \/ ~InRange(o)
    BY DEF P
  <2>2. ~(\E o2 \in O : ~InRange(o2)) /\ ~(Has(O, "c") /\ Has(O, "s")) /\ ~(Has(O, "R") /\ Has(O, "bidir"))
    BY DEF Bad
  <2>3. Clashes(t, o) <=> \/ o.flag = "s" /\ Has(O, "c")
                          \/ o.flag = "c" /\ Has(O, "s")
                          \/ o.flag = "R" /\ Has(O, "bidir")
                          \/ o.flag = "bidir" /\ Has(O, "R")
    BY <1>3, <1>4, <2>2 DEF Clashes
  <2> QED BY <1>2, <2>1, <2>2, <2>3 DEF Bad
<1>6. CASE ~InRange(o) \/ Clashes(t, o)
  <2>1. b = [a EXCEPT !.result = "refused"]
    BY <1>1, <1>6 DEF ParseOption
  <2> QED BY <1>5, <1>6, <2>1 DEF HasRead
<1>7. CASE InRange(o) /\ ~Clashes(t, o)
  <2>1. b = [a EXCEPT !.test = AfterOption(t, o)]
    BY <1>1, <1>7 DEF ParseOption, AfterOption
  <2>2. Meant(AfterOption(t, o), P)
    BY <1>7, MeantLemma
  <2>3. b.result = "parsing" /\ b.test = AfterOption(t, o) /\ DOMAIN b = DOMAIN a
    BY <2>1
  <2> HIDE DEF b, t, P
  <2> QED BY <1>5, <1>7, <2>2, <2>3 DEF HasRead, b, P
<1> QED BY <1>6, <1>7

\* Every set of natural numbers that is not empty has a least element.
LEMMA LeastNatural ==
  ASSUME NEW B \in SUBSET Nat, B # {}
  PROVE  \E m \in B : \A k \in B : m <= k
<1> DEFINE R == OpToRel(<, Nat)
<1>1. IsWellFoundedOn(R, Nat)
  BY NatLessThanWellFounded
<1>2. ASSUME NEW x \in B, NEW y \in B PROVE y < x <=> <<y, x>> \in R
  BY DEF OpToRel
<1> HIDE DEF R
<1>3. PICK m \in B : \A k \in B : ~(<<k, m>> \in R)
  BY <1>1, WFMin
<1>4. \A k \in B : ~(k < m)
  BY <1>2, <1>3
<1> QED BY <1>4

\* Induction over the natural numbers, for a set instead of a predicate.
LEMMA NatSetInduction ==
  ASSUME NEW G \in SUBSET Nat, 0 \in G, \A n \in G : n + 1 \in G
  PROVE  G = Nat
<1> SUFFICES ASSUME Nat \ G # {} PROVE FALSE
  OBVIOUS
<1>1. PICK m \in Nat \ G : \A k \in Nat \ G : m <= k
  BY LeastNatural
<1>2. m - 1 \in Nat /\ m - 1 \in G
  BY <1>1
<1> QED BY <1>1, <1>2

\* Induction over the subsets of a finite set.
LEMMA SubsetInduction ==
  ASSUME NEW S, IsFiniteSet(S), NEW G \in SUBSET SUBSET S,
         \A U \in SUBSET S : (\A x \in U : U \ {x} \in G) => U \in G
  PROVE  G = SUBSET S
<1> DEFINE N == {n \in Nat : \A U \in SUBSET S : Cardinality(U) = n => U \in G}
<1>1. 0 \in N
  BY FS_EmptySet, FS_Subset
<1>2. ASSUME NEW n \in N PROVE n + 1 \in N
  <2> SUFFICES ASSUME NEW U \in SUBSET S, Cardinality(U) = n + 1 PROVE U \in G
    OBVIOUS
  <2> HIDE DEF N
  <2>1. n \in Nat /\ IsFiniteSet(U)
    BY FS_Subset DEF N
  <2>2. ASSUME NEW x \in U PROVE U \ {x} \in G
    <3>1. Cardinality(U \ {x}) = Cardinality(U) - 1
      BY <2>1, FS_RemoveElement
    <3>2. Cardinality(U \ {x}) = n /\ U \ {x} \in SUBSET S
      BY <2>1, <3>1
    <3> QED BY <3>2 DEF N
  <2> QED BY <2>2
<1>3. N = Nat
  <2> HIDE DEF N
  <2>1. N \in SUBSET Nat
    BY DEF N
  <2> QED BY <1>1, <1>2, <2>1, NatSetInduction
<1>4. ASSUME NEW U \in SUBSET S PROVE U \in G
  BY <1>3, FS_Subset, FS_CardinalityType
<1> QED BY <1>4

Pick(s) == CHOOSE x \in s : TRUE

LEMMA PickLemma == ASSUME NEW s, s # {} PROVE Pick(s) \in s
BY DEF Pick

Start == [test |-> iperf_defaults, result |-> "parsing"]
Turn(o, a) == IF a.result = "parsing" THEN ParseOption(a, o) ELSE a

\* The function that FoldSet defines for InSomeOrder.
IsFold(g, S) == g = [s \in SUBSET S |-> IF s = {} THEN Start ELSE Turn(Pick(s), g[s \ {Pick(s)}])]

LEMMA InSomeOrderIsFold ==
  ASSUME NEW p
  PROVE  InSomeOrder(p) = (CHOOSE g : IsFold(g, argv[p]))[argv[p]]
BY DEF InSomeOrder, FoldSet, MapThenFoldSet, IsFold, Pick, Start, Turn

Small(S, n) == {s \in SUBSET S : Cardinality(s) <= n}

\* There is such a function.
LEMMA FoldExists ==
  ASSUME NEW S, IsFiniteSet(S)
  PROVE  \E g : IsFold(g, S)
<1> DEFINE Rec(g, s) == IF s = {} THEN Start ELSE Turn(Pick(s), g[s \ {Pick(s)}])
           N == {n \in Nat : \E g : g = [s \in Small(S, n) |-> Rec(g, s)]}
<1>1. 0 \in N
  <2> DEFINE g == [s \in Small(S, 0) |-> Start]
  <2>1. \A s \in Small(S, 0) : s = {}
    BY FS_EmptySet, FS_Subset, FS_CardinalityType DEF Small
  <2>2. g = [s \in Small(S, 0) |-> Rec(g, s)]
    BY <2>1
  <2> QED BY <2>2
<1>2. ASSUME NEW n \in N PROVE n + 1 \in N
  <2>1. PICK g : g = [s \in Small(S, n) |-> Rec(g, s)]
    OBVIOUS
  <2>2. n \in Nat
    OBVIOUS
  <2> HIDE DEF N
  <2> DEFINE h == [s \in Small(S, n + 1) |-> Rec(g, s)]
  <2>3. ASSUME NEW s \in Small(S, n + 1), s # {}
        PROVE  s \ {Pick(s)} \in Small(S, n)
    <3>1. s \in SUBSET S /\ IsFiniteSet(s) /\ Cardinality(s) <= n + 1 /\ Pick(s) \in s
      BY <2>3, FS_Subset, PickLemma DEF Small
    <3>2. Cardinality(s \ {Pick(s)}) = Cardinality(s) - 1 /\ Cardinality(s) \in Nat
      BY <3>1, FS_RemoveElement, FS_CardinalityType
    <3> QED BY <2>2, <3>1, <3>2 DEF Small
  <2>4. ASSUME NEW s \in Small(S, n) PROVE s \in Small(S, n + 1) /\ h[s] = g[s]
    <3>1. s \in Small(S, n + 1)
      BY <2>2, FS_Subset, FS_CardinalityType DEF Small
    <3>2. g[s] = Rec(g, s)
      BY <2>1
    <3> QED BY <3>1, <3>2
  <2>5. ASSUME NEW s \in Small(S, n + 1) PROVE h[s] = Rec(h, s)
    <3>1. h[s] = Rec(g, s)
      OBVIOUS
    <3>2. s # {} => g[s \ {Pick(s)}] = h[s \ {Pick(s)}]
      BY <2>3, <2>4
    <3> QED BY <3>1, <3>2
  <2>6. h = [s \in Small(S, n + 1) |-> Rec(h, s)]
    BY <2>5
  <2> HIDE DEF h
  <2>7. n + 1 \in Nat
    BY <2>2
  <2> QED BY <2>6, <2>7 DEF N
<1>3. N = Nat
  <2> HIDE DEF N
  <2>1. N \in SUBSET Nat
    BY DEF N
  <2> QED BY <1>1, <1>2, <2>1, NatSetInduction
<1>4. Cardinality(S) \in Nat /\ Small(S, Cardinality(S)) = SUBSET S
  BY FS_Subset, FS_CardinalityType DEF Small
<1>5. PICK g : g = [s \in SUBSET S |-> Rec(g, s)]
  <2>1. Cardinality(S) \in N
    BY <1>3, <1>4
  <2> QED BY <1>4, <2>1
<1> QED BY <1>5 DEF IsFold

\* InSomeOrder reads a command line as the loop does.
LEMMA InSomeOrderLemma ==
  ASSUME NEW p, argv[p] \in SUBSET Option, IsFiniteSet(argv[p]), TypedOnce(argv[p])
  PROVE  HasRead(InSomeOrder(p), argv[p]) /\ DOMAIN InSomeOrder(p) = {"test", "result"}
<1> DEFINE S == argv[p]
           g == CHOOSE h : IsFold(h, S)
           G == {U \in SUBSET S : HasRead(g[U], U) /\ DOMAIN g[U] = {"test", "result"}}
<1>1. InSomeOrder(p) = g[S]
  BY InSomeOrderIsFold
<1>2. IsFold(g, S)
  BY FoldExists
<1> HIDE DEF g
<1>3. ASSUME NEW U \in SUBSET S, \A x \in U : U \ {x} \in G PROVE U \in G
  <2>1. g[U] = IF U = {} THEN Start ELSE Turn(Pick(U), g[U \ {Pick(U)}])
    BY <1>2 DEF IsFold
  <2>2. CASE U = {}
    <3>1. ~Bad({})
      BY DEF Bad, Has
    <3> QED BY <2>1, <2>2, <3>1, DefaultsMeant DEF Start, HasRead
  <2>3. CASE U # {}
    <3> DEFINE x == Pick(U)
               O == U \ {x}
               a == g[O]
    <3>1. x \in U /\ x \in Option /\ x \notin O /\ U = O \cup {x} /\ O \subseteq U
      BY <2>3, PickLemma
    <3>2. HasRead(a, O) /\ DOMAIN a = {"test", "result"} /\ g[U] = Turn(x, a)
      BY <1>3, <2>1, <2>3, <3>1
    <3>3. TypedOnce(O \cup {x})
      BY <3>1 DEF TypedOnce
    <3> HIDE DEF x, O, a
    <3>4. CASE a.result = "parsing"
      <4>1. ~Bad(O) /\ Meant(a.test, O) /\ {"test", "result"} \subseteq DOMAIN a
        BY <3>2, <3>4 DEF HasRead
      <4>2. HasRead(ParseOption(a, x), O \cup {x}) /\ DOMAIN ParseOption(a, x) = DOMAIN a
        BY <3>1, <3>3, <3>4, <4>1, TurnLemma
      <4>3. g[U] = ParseOption(a, x)
        BY <3>2, <3>4 DEF Turn
      <4> QED BY <3>1, <3>2, <4>2, <4>3
    <3>5. CASE a.result # "parsing"
      <4>1. a.result = "refused" /\ Bad(O)
        BY <3>2, <3>5 DEF HasRead
      <4>2. g[U] = a
        BY <3>2, <3>5 DEF Turn
      <4>3. Bad(U)
        BY <3>1, <4>1, BadLemma
      <4> QED BY <3>2, <4>1, <4>2, <4>3 DEF HasRead
    <3> QED BY <3>4, <3>5
  <2> QED BY <2>2, <2>3
<1>4. G = SUBSET S
  <2> HIDE DEF G, S
  <2>1. G \in SUBSET SUBSET S
    BY DEF G
  <2>2. IsFiniteSet(S)
    BY DEF S
  <2> QED BY <1>3, <2>1, <2>2, SubsetInduction
<1> QED BY <1>1, <1>4

\* Where a program stands with a command line that gives no field twice: what
\* it has read so far and, at the end, whether any order is refused.
OrderInv ==
  \A p \in Prog : TypedOnce(argv[p]) =>
    /\ prog[p].result = "parsing" => HasRead(prog[p], argv[p] \ prog[p].rest)
    /\ prog[p].result = "refused" =>
         \/ Bad(argv[p])
         \/ ~Bad(argv[p]) /\ \E t : Meant(t, argv[p]) /\ Refused(t, prog[p].readable)
    /\ prog[p].result = "ok" =>
         /\ ~Bad(argv[p])
         /\ \E t : Meant(t, argv[p]) /\ ~Refused(t, prog[p].readable) /\ prog[p].test \in Complete(t)

LEMMA InitOrder == Init => OrderInv
<1> SUFFICES ASSUME Init, NEW p \in Prog
             PROVE  prog[p].result = "parsing" /\ HasRead(prog[p], argv[p] \ prog[p].rest)
  BY DEF OrderInv
<1>1. /\ prog[p].rest = argv[p] /\ prog[p].test = iperf_defaults /\ prog[p].result = "parsing"
  BY DEF Init, InitOptions
<1>2. argv[p] \ prog[p].rest = {}
  BY <1>1
<1>3. ~Bad({})
  BY DEF Bad, Has
<1> QED BY <1>1, <1>2, <1>3, DefaultsMeant DEF HasRead

\* A turn of the loop.
LEMMA ParseOrder ==
  ASSUME OptionsInv, OrderInv, NEW p \in Prog, NEW o \in prog[p].rest, Parse(p, o)
  PROVE  OrderInv'
<1> DEFINE a == prog[p]
           b == [ParseOption(a, o) EXCEPT !.rest = a.rest \ {o}]
           O == argv[p] \ a.rest
<1>1. /\ a \in Program /\ a.result = "parsing" /\ a.rest \subseteq argv[p] /\ o \in Option
      /\ prog' = [prog EXCEPT ![p] = b] /\ argv' = argv /\ o \in a.rest /\ o \notin O
  <2>1. a \in Program /\ a.rest \subseteq argv[p]
    BY DEF OptionsInv
  <2> QED BY <2>1 DEF Parse, Program
<1>2. prog'[p] = b /\ \A q \in Prog \ {p} : prog'[q] = prog[q]
  <2> HIDE DEF a, b
  <2>1. prog \in [Prog -> Program]
    BY DEF OptionsInv
  <2> QED BY <1>1, <2>1
<1>3. DOMAIN a = {"rest", "test", "result", "readable"}
  BY <1>1 DEF Program
<1>4. ASSUME TypedOnce(argv[p])
      PROVE  HasRead(b, argv[p] \ b.rest) /\ b.rest \subseteq argv[p]
  <2>1. a.result = "parsing" /\ ~Bad(O) /\ Meant(a.test, O)
    <3>1. HasRead(a, O)
      BY <1>1, <1>4 DEF OrderInv
    <3> QED BY <1>1, <3>1 DEF HasRead
  <2>2. TypedOnce(O \cup {o})
    <3>1. O \cup {o} \subseteq argv[p]
      BY <1>1
    <3> QED BY <1>4, <3>1 DEF TypedOnce
  <2> HIDE DEF a, O
  <2>3. HasRead(ParseOption(a, o), O \cup {o}) /\ DOMAIN ParseOption(a, o) = DOMAIN a
    BY <1>1, <1>3, <2>1, <2>2, TurnLemma
  <2>4. /\ b.rest = a.rest \ {o} /\ b.result = ParseOption(a, o).result
        /\ b.test = ParseOption(a, o).test
    BY <1>3, <2>3
  <2>5. argv[p] \ b.rest = O \cup {o}
    BY <1>1, <2>4 DEF O
  <2>6. HasRead(b, O \cup {o})
    <3> HIDE DEF b
    <3> QED BY <2>3, <2>4 DEF HasRead
  <2> QED BY <1>1, <2>4, <2>5, <2>6
<1> HIDE DEF b
<1>5. ASSUME NEW q \in Prog, TypedOnce(argv[q])
      PROVE  /\ prog'[q].result = "parsing" => HasRead(prog'[q], argv[q] \ prog'[q].rest)
             /\ prog'[q].result = "refused" =>
                  \/ Bad(argv[q])
                  \/ ~Bad(argv[q]) /\ \E t : Meant(t, argv[q]) /\ Refused(t, prog'[q].readable)
             /\ prog'[q].result = "ok" =>
                  /\ ~Bad(argv[q])
                  /\ \E t : /\ Meant(t, argv[q]) /\ ~Refused(t, prog'[q].readable)
                            /\ prog'[q].test \in Complete(t)
  <2>1. CASE q = p
    <3>1. HasRead(b, argv[p] \ b.rest) /\ prog'[q] = b
      BY <1>2, <1>4, <1>5, <2>1
    <3>2. b.result = "refused" => Bad(argv[p])
      BY <3>1, BadLemma DEF HasRead
    <3>3. b.result \in {"parsing", "refused"}
      BY <3>1 DEF HasRead
    <3> QED BY <2>1, <3>1, <3>2, <3>3
  <2>2. CASE q # p
    BY <1>2, <1>5, <2>2 DEF OrderInv
  <2> QED BY <2>1, <2>2
<1> QED BY <1>1, <1>5 DEF OrderInv

\* What the checks after the loop leave of a test they do not refuse.
Accepted(a, u) == [a EXCEPT !.result = "ok", !.test = u]

LEMMA AcceptedLemma ==
  ASSUME NEW a, NEW readable, a.result = "parsing", ~Refused(a.test, readable)
  PROVE  CheckAll(a, readable) = {Accepted(a, u) : u \in Complete(a.test)}
BY Zenon DEF CheckAll, Accepted

\* The end of the loop.
LEMMA FinishOrder ==
  ASSUME OptionsInv, OrderInv, NEW p \in Prog, NEW readable \in BOOLEAN, Finish(p, readable)
  PROVE  OrderInv'
<1> DEFINE t == prog[p].test
<1>1. PICK a \in CheckAll(prog[p], readable) :
        prog' = [prog EXCEPT ![p] = [a EXCEPT !.readable = readable]]
  BY DEF Finish
<1> DEFINE b == [a EXCEPT !.readable = readable]
<1>2. /\ prog[p] \in Program /\ prog[p].result = "parsing" /\ prog[p].rest = {}
      /\ argv' = argv /\ argv[p] \ prog[p].rest = argv[p]
  BY DEF OptionsInv, Finish
<1>3. prog \in [Prog -> Program]
  BY DEF OptionsInv
<1>4. prog'[p] = b /\ \A q \in Prog \ {p} : prog'[q] = prog[q]
  <2> HIDE DEF b
  <2> QED BY <1>1, <1>3 DEF b
<1>5. /\ Refused(t, readable) => b.result = "refused" /\ b.readable = readable
      /\ ~Refused(t, readable) => /\ b.result = "ok" /\ b.readable = readable
                                  /\ b.test \in Complete(t)
  <2>1. CASE Refused(t, readable)
    <3>1. a = [prog[p] EXCEPT !.result = "refused"]
      BY <1>1, <1>2, <2>1 DEF CheckAll
    <3> QED BY <1>2, <2>1, <3>1 DEF Program
  <2>2. CASE ~Refused(t, readable)
    <3>1. PICK u \in Complete(t) : a = Accepted(prog[p], u)
      <4>1. prog[p].result = "parsing" /\ ~Refused(prog[p].test, readable)
        BY <1>2, <2>2
      <4>2. CheckAll(prog[p], readable) = {Accepted(prog[p], u) : u \in Complete(prog[p].test)}
        BY <4>1, AcceptedLemma, Zenon
      <4> QED BY <1>1, <4>2
    <3>2. b.result = "ok" /\ b.readable = readable /\ b.test = u
      BY <1>2, <3>1 DEF Accepted, Program
    <3> QED BY <2>2, <3>2
  <2> QED BY <2>1, <2>2
<1> HIDE DEF b
<1>6. ASSUME NEW q \in Prog, TypedOnce(argv[q])
      PROVE  /\ prog'[q].result = "parsing" => HasRead(prog'[q], argv[q] \ prog'[q].rest)
             /\ prog'[q].result = "refused" =>
                  \/ Bad(argv[q])
                  \/ ~Bad(argv[q]) /\ \E u : Meant(u, argv[q]) /\ Refused(u, prog'[q].readable)
             /\ prog'[q].result = "ok" =>
                  /\ ~Bad(argv[q])
                  /\ \E u : /\ Meant(u, argv[q]) /\ ~Refused(u, prog'[q].readable)
                            /\ prog'[q].test \in Complete(u)
  <2>1. CASE q = p
    <3>1. ~Bad(argv[p]) /\ Meant(t, argv[p])
      <4>1. HasRead(prog[p], argv[p])
        BY <1>2, <1>6, <2>1 DEF OrderInv
      <4> QED BY <1>2, <4>1 DEF HasRead
    <3> HIDE DEF t
    <3> QED BY <1>4, <1>5, <2>1, <3>1
  <2>2. CASE q # p
    BY <1>4, <1>6, <2>2 DEF OrderInv
  <2> QED BY <2>1, <2>2
<1> QED BY <1>2, <1>6 DEF OrderInv

LEMMA StepOrder == IInv /\ OrderInv /\ [Next]_avars => OrderInv'
<1> SUFFICES ASSUME IInv, OrderInv, [Next]_avars PROVE OrderInv'
  OBVIOUS
<1>1. ASSUME NEW p \in Prog, NEW o \in prog[p].rest, Parse(p, o) PROVE OrderInv'
  BY <1>1, ParseOrder DEF IInv
<1>2. ASSUME NEW p \in Prog, NEW readable \in BOOLEAN, Finish(p, readable) PROVE OrderInv'
  BY <1>2, FinishOrder DEF IInv
<1>3. ASSUME UNCHANGED <<argv, prog>> PROVE OrderInv'
  BY <1>3 DEF OrderInv
<1>4. ASSUME NEW c \in Credentials \cup {Nobody}, NEW offset \in Offsets, send_parameters(c, offset)
      PROVE  OrderInv'
  BY <1>3, <1>4 DEF send_parameters
<1>5. CASE Tick
  BY <1>3, <1>5 DEF Tick
<1>6. CASE iperf_exchange_parameters
  BY <1>3, <1>6 DEF iperf_exchange_parameters
<1>7. CASE iperf_reset_test
  BY <1>3, <1>7 DEF iperf_reset_test
<1>8. CASE UNCHANGED avars
  BY <1>3, <1>8 DEF avars
<1> QED BY <1>1, <1>2, <1>4, <1>5, <1>6, <1>7, <1>8 DEF Next

\* A finished program stands where the fixed order ends.
LEMMA OrderLemma ==
  ASSUME IInv, OrderInv
  PROVE  OptionOrderIsIrrelevant
<1> SUFFICES ASSUME NEW p \in Prog, prog[p].result \in {"ok", "refused"}, TypedOnce(argv[p])
             PROVE  \E a \in CheckAll(InSomeOrder(p), prog[p].readable) :
                      /\ a.result = prog[p].result
                      /\ a.result = "ok" => a.test = prog[p].test
  BY DEF OptionOrderIsIrrelevant
<1> DEFINE S == argv[p]
           r == prog[p].readable
           f == InSomeOrder(p)
<1>1. argv \in CommandLines
  BY DEF IInv, OptionsInv
<1>2. HasRead(f, S) /\ DOMAIN f = {"test", "result"}
  BY <1>1, OptionsAssumption, InSomeOrderLemma
<1> HIDE DEF f
<1>3. CASE Bad(S)
  <2>1. f.result = "refused"
    BY <1>2, <1>3 DEF HasRead
  <2>2. prog[p].result = "refused"
    BY <1>3 DEF OrderInv
  <2>3. CheckAll(f, r) = {f}
    BY <2>1 DEF CheckAll
  <2> QED BY <2>1, <2>2, <2>3 DEF f
<1>4. CASE ~Bad(S)
  <2>1. f.result = "parsing" /\ Meant(f.test, S)
    BY <1>2, <1>4 DEF HasRead
  <2>2. CASE prog[p].result = "refused"
    <3>1. PICK t : Meant(t, S) /\ Refused(t, r)
      BY <1>4, <2>2 DEF OrderInv
    <3>2. Refused(f.test, r)
      BY <2>1, <3>1, RefusedLemma
    <3>3. CheckAll(f, r) = {[f EXCEPT !.result = "refused"]}
      BY <2>1, <3>2 DEF CheckAll
    <3>4. [f EXCEPT !.result = "refused"].result = "refused"
      BY <1>2
    <3> QED BY <2>2, <3>3, <3>4 DEF f
  <2>3. CASE prog[p].result = "ok"
    <3>1. PICK t : Meant(t, S) /\ ~Refused(t, r) /\ prog[p].test \in Complete(t)
      BY <2>3 DEF OrderInv
    <3>2. f.test = t /\ ~Refused(f.test, r)
      BY <2>1, <3>1, RefusedLemma
    <3> DEFINE a == Accepted(f, prog[p].test)
    <3>3. a \in CheckAll(f, r)
      <4>1. CheckAll(f, r) = {Accepted(f, u) : u \in Complete(f.test)}
        BY <2>1, <3>2, AcceptedLemma, Zenon
      <4> QED BY <3>1, <3>2, <4>1
    <3>4. a.result = "ok" /\ a.test = prog[p].test
      BY <1>2 DEF Accepted
    <3> QED BY <2>3, <3>3, <3>4 DEF f
  <2> QED BY <2>2, <2>3
<1> QED BY <1>3, <1>4

\* A command line that gives no field twice comes to the same settings, or is
\* refused, in whatever order its options are typed, although role, direction,
\* protocol and sender_has_retransmits are worked out from one to the next
\* (iperf_parse_arguments, iperf_set_test_role and its relatives).
THEOREM OrderTheorem == Spec => []OptionOrderIsIrrelevant
<1>1. IInv /\ OrderInv => OptionOrderIsIrrelevant
  BY OrderLemma
<1> QED BY <1>1, InitLemma, StepLemma, InitOrder, StepOrder, PTL DEF Spec

=============================================================================
