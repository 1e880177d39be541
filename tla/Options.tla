------------------------------ MODULE Options ------------------------------
(***************************************************************************)
(* The command lines of a client and a server: iperf_parse_arguments with  *)
(* the setters it calls, unit_atoi and its relatives, and parse_qos.       *)
(* getopt_long hands over the options in the order the user typed them;    *)
(* each is checked and stored by itself, and what only several together    *)
(* can tell is checked at the end.                                         *)
(*                                                                         *)
(* An option is [flag, n, suffix, slash, m]: its letter or long name, the  *)
(* number it is given, that number's unit (or a DSCP name), and whether    *)
(* there is a second number m after a slash or comma.  Times of -i and of  *)
(* the bitrate limit are in tenths of a second.  Which error refuses a     *)
(* command line is left out.  An operator whose name ends in _wrong is a   *)
(* mistake the definition after it could have had.                         *)
(***************************************************************************)
EXTENDS Integers, FiniteSets, FiniteSetsExt

CONSTANT CommandLines  \* pairs of command lines: [client, server |-> a set of options]

VARIABLES
  argv,   \* what the user typed for each program
  prog    \* each program: the options not yet read, struct iperf_test, the outcome

Prog == {"client", "server"}

\* The string without a character.
Empty == ""

Option == [flag : STRING, n : Int, suffix : STRING, slash : BOOLEAN, m : Int]

\* Numbers with a unit are small: only gigabytes overflow an int (see IntOf).
ASSUME OptionsAssumption ==
  \A line \in CommandLines, p \in Prog :
    /\ line[p] \subseteq Option /\ IsFiniteSet(line[p])
    /\ \A o \in line[p] : o.suffix \in {"K", "M"} => o.n \in -2047..2047

-----------------------------------------------------------------------------
(* Numbers *)

\* Units without T, whose multiples are beyond 32 bits.
Unit(suffix, base) ==
  CASE suffix = "K" -> base
    [] suffix = "M" -> base * base
    [] suffix = "G" -> base * base * base
    [] OTHER -> 1

unit_atof(o) == o.n * Unit(o.suffix, 1024)
unit_atof_rate(o) == o.n * Unit(o.suffix, 1000)

unit_atoi(o) == o.n * Unit(o.suffix, 1024)

\* unit_atoi stored in a 32-bit int: n * 2^30 keeps the last two bits of n.
IntOf(o) ==
  LET giga == Unit("G", 1024)
  IN  IF o.suffix = "G" THEN <<0, giga, -giga - giga, -giga>>[1 + (o.n % 4)] ELSE unit_atoi(o)

\* dscp.c: names of classes, or a number.
IpQos == [af11 |-> 40, af12 |-> 48, af13 |-> 56, af21 |-> 72, af22 |-> 80, af23 |-> 88,
          af31 |-> 104, af32 |-> 112, af33 |-> 120, af41 |-> 136, af42 |-> 144,
          af43 |-> 152, cs0 |-> 0, cs1 |-> 32, cs2 |-> 64, cs3 |-> 96, cs4 |-> 128,
          cs5 |-> 160, cs6 |-> 192, cs7 |-> 224, ef |-> 184, lowdelay |-> 16,
          throughput |-> 8, reliability |-> 4]

parse_qos(o) ==
  IF o.suffix \in DOMAIN IpQos THEN IpQos[o.suffix]
  ELSE IF o.suffix = Empty /\ o.n \in 0..255 THEN o.n ELSE -1

Value(o) ==
  CASE o.flag \in {"n", "k"} -> unit_atoi(o)
    [] o.flag \in {"l", "nstreams", "pacing-timer", "connect-timeout"} -> IntOf(o)
    [] o.flag \in {"b", "fq-rate", "server-bitrate-limit"} -> unit_atof_rate(o)
    [] o.flag = "w" -> unit_atof(o)
    [] o.flag = "dscp" -> parse_qos(o)
    [] OTHER -> o.n

MB == 1024 * 1024
MAX_TCP_BUFFER == 512 * MB
MAX_BLOCKSIZE == MB
MIN_UDP_BLOCKSIZE == 16
MAX_UDP_BLOCKSIZE == 65507
MIN_INTERVAL == 1
MAX_INTERVAL == 600
MAX_TIME == 86400
MAX_BURST == 1000
MAX_MSS == 9 * 1024
MAX_STREAMS == 128
MAX_PORT == 65535
MAX_FLOWLABEL == 1048575
DEFAULT_TCP_BLKSIZE == 128 * 1024
DEFAULT_SCTP_BLKSIZE == 64 * 1024
UDP_RATE == MB
INT_MAX == 2147483647
SEC_TO_US == 1000 * 1000

\* The checks of a single option.
InRange(o) ==
  LET v == Value(o)
      interval(x) == x = 0 \/ x \in MIN_INTERVAL..MAX_INTERVAL
  IN  CASE o.flag \in {"p", "cport"} -> v \in 1..MAX_PORT
        [] o.flag = "i" -> interval(v)
        [] o.flag = "server-bitrate-limit" -> o.slash => interval(o.m)
        [] o.flag \in {"b", "nstreams"} -> o.slash => o.m \in 1..MAX_BURST
        [] o.flag = "t" -> v <= MAX_TIME
        [] o.flag = "P" -> v <= MAX_STREAMS
        [] o.flag = "w" -> v <= MAX_TCP_BUFFER
        [] o.flag = "M" -> v <= MAX_MSS
        [] o.flag \in {"S", "dscp"} -> v \in 0..255
        [] o.flag = "L" -> v \in 1..MAX_FLOWLABEL
        [] o.flag = "O" -> v \in 0..60
        [] o.flag = "idle-timeout" -> v \in 1..MAX_TIME
        [] o.flag = "rcv-timeout" -> v \in 100..MAX_TIME * 1000
        [] o.flag = "A" -> v \in 0..1024 /\ (o.slash => o.m \in 0..1024)
        [] o.flag = "time-skew-threshold" -> v > 0
        [] o.flag = "f" -> o.suffix \in {"k", "K", "m", "M", "g", "G", "t", "T"}
        [] OTHER -> TRUE

-----------------------------------------------------------------------------
(* Directions and protocols *)

\* iperf_defaults.
iperf_defaults ==
  [role |-> "none", mode |-> "RECEIVER", reverse |-> FALSE, bidirectional |-> FALSE,
   protocol |-> "tcp", multipath |-> FALSE, sender_has_retransmits |-> FALSE,
   flags |-> {}, given |-> {}, value |-> [t |-> 10, n |-> 0, k |-> 0, l |-> 0, b |-> 0,
   i |-> 10, skew |-> 0, nstreams |-> 0, tos |-> 0, other |-> 0],
   burst |-> 0, limit_interval |-> 50, per_interval |-> 0,
   rcv_timeout |-> [secs |-> 120, usecs |-> 0]]

check_sender_has_retransmits(t) ==
  [t EXCEPT !.sender_has_retransmits = t.mode # "RECEIVER" /\ t.protocol = "tcp"]

Opposite(role) == IF role = "c" THEN "RECEIVER" ELSE "SENDER"
Ordinary(role) == IF role = "c" THEN "SENDER" ELSE "RECEIVER"

iperf_set_test_role_wrong(t, role) ==
  check_sender_has_retransmits(
    [t EXCEPT !.role = role,
              !.mode = IF t.reverse THEN Opposite(role) ELSE Ordinary(role)])

iperf_set_test_role(t, role) ==
  check_sender_has_retransmits(
    [t EXCEPT !.role = role,
              !.mode = IF t.reverse THEN Opposite(role)
                       ELSE IF t.bidirectional THEN "BIDIRECTIONAL" ELSE Ordinary(role)])

\* Without a role the mode is left as it is.
iperf_set_test_reverse(t) ==
  check_sender_has_retransmits(
    [t EXCEPT !.reverse = TRUE, !.mode = IF t.role = "none" THEN @ ELSE Opposite(t.role)])

iperf_set_test_bidirectional(t) == [t EXCEPT !.bidirectional = TRUE, !.mode = "BIDIRECTIONAL"]

set_protocol(t, id) == check_sender_has_retransmits([t EXCEPT !.protocol = id])

-----------------------------------------------------------------------------
(* The loop over the options *)

ClientOnly ==
  {"u", "sctp", "nstreams", "b", "t", "n", "k", "l", "P", "R", "bidir", "w", "M", "N", "S",
   "dscp", "extra-data", "L", "Z", "repeating-payload", "O", "T", "C", "get-server-output",
   "no-fq-socket-pacing", "fq-rate", "dont-fragment", "pacing-timer", "connect-timeout"}
ServerOnly == {"D", "1", "server-bitrate-limit", "idle-timeout"}

FlagsOf(o) ==
     (IF o.flag \in ClientOnly \/ (o.flag = "A" /\ o.slash) THEN {"client_flag"} ELSE {})
  \cup (IF o.flag \in ServerOnly THEN {"server_flag"} ELSE {})
  \cup (IF o.flag \in {"b", "nstreams"} THEN {"rate_flag"} ELSE {})
  \cup (IF o.flag = "t" THEN {"duration_flag"} ELSE {})
  \cup (IF o.flag = "rcv-timeout" THEN {"rcv_timeout_flag"} ELSE {})

\* The option's own field.
Slot(flag) ==
  CASE flag \in {"S", "dscp"} -> "tos"
    [] flag = "time-skew-threshold" -> "skew"
    [] flag \in {"t", "n", "k", "l", "b", "i", "nstreams"} -> flag
    [] OTHER -> "other"

Stored(t, o) ==
  IF Slot(o.flag) = "other" THEN [t EXCEPT !.given = @ \cup {o.flag}]
  ELSE [t EXCEPT !.value[Slot(o.flag)] = Value(o)]

BitRate(t, o) ==
  [t EXCEPT !.value["b"] = unit_atof_rate(o), !.burst = IF o.slash THEN o.m ELSE @]

\* One case of the switch.  That of --nstreams runs on into that of -b.
Assign(t, o) ==
  CASE o.flag \in {"s", "c"} -> iperf_set_test_role(t, o.flag)
    [] o.flag = "R" -> iperf_set_test_reverse(t)
    [] o.flag = "bidir" -> iperf_set_test_bidirectional(t)
    [] o.flag = "m" -> [set_protocol(t, "tcp") EXCEPT !.multipath = TRUE]
    [] o.flag = "u" -> set_protocol(t, "udp")
    [] o.flag = "sctp" -> set_protocol(t, "sctp")
    [] o.flag = "b" -> BitRate(t, o)
    [] o.flag = "nstreams" -> BitRate(Stored(t, o), o)
    [] o.flag = "server-bitrate-limit" ->
         [Stored(t, o) EXCEPT !.limit_interval = IF o.slash THEN o.m ELSE @]
    [] o.flag = "rcv-timeout" ->
         [t EXCEPT !.rcv_timeout = [secs |-> o.n \div 1000, usecs |-> (o.n % 1000) * 1000]]
    [] OTHER -> Stored(t, o)

\* The refusals that depend on the options before it.
Clashes(t, o) ==
  \/ o.flag = "s" /\ t.role = "c"
  \/ o.flag = "c" /\ t.role = "s"
  \/ o.flag = "R" /\ t.bidirectional
  \/ o.flag = "bidir" /\ t.reverse

\* One turn of the loop; -v and -h end the program.
ParseOption(a, o) ==
  IF o.flag \in {"v", "h"} THEN [a EXCEPT !.result = "exit"]
  ELSE IF ~InRange(o) \/ Clashes(a.test, o) THEN [a EXCEPT !.result = "refused"]
  ELSE [a EXCEPT !.test = [Assign(a.test, o) EXCEPT !.flags = @ \cup FlagsOf(o)]]

-----------------------------------------------------------------------------
(* After the loop *)

BlockSize(t) ==
  IF t.value["l"] # 0 THEN t.value["l"]
  ELSE CASE t.protocol = "udp" -> 0
         [] t.protocol = "sctp" -> DEFAULT_SCTP_BLKSIZE
         [] OTHER -> DEFAULT_TCP_BLKSIZE

BadBlockSize(t) ==
  LET l == BlockSize(t)
  IN  \/ t.protocol # "udp" /\ l <= 0
      \/ l > MAX_BLOCKSIZE
      \/ t.protocol = "udp" /\ l > 0 /\ l \notin MIN_UDP_BLOCKSIZE..MAX_UDP_BLOCKSIZE

\* Credentials are complete or absent, belong to the role, and can be read.
BadAuth(t, readable) ==
  LET has(f) == f \in t.given
      client == has("username") \/ has("rsa-public-key-path")
      server == has("rsa-private-key-path") \/ has("authorized-users-path")
  IN  \/ t.role = "s" /\ client
      \/ t.role = "c" /\ client /\ ~(has("username") /\ has("rsa-public-key-path") /\ readable)
      \/ t.role = "c" /\ (server \/ t.value["skew"] # 0)
      \/ t.role = "s" /\ server
           /\ ~(has("rsa-private-key-path") /\ has("authorized-users-path") /\ readable)

TwoEnds_wrong(t) ==
  "duration_flag" \in t.flags /\ (t.value["n"] # 0 \/ t.value["k"] # 0)

TwoEnds(t) ==
  \/ "duration_flag" \in t.flags /\ (t.value["n"] # 0 \/ t.value["k"] # 0)
  \/ t.value["n"] # 0 /\ t.value["k"] # 0

Refused(t, readable) ==
  \/ t.role = "c" /\ "server_flag" \in t.flags
  \/ t.role = "s" /\ "client_flag" \in t.flags
  \/ BadAuth(t, readable)
  \/ t.role = "c" /\ "rcv_timeout_flag" \in t.flags /\ t.mode = "SENDER"
  \/ BadBlockSize(t)
  \/ TwoEnds(t)
  \/ t.role = "none"

\* Intervals of the statistics in one of the bitrate limit, rounded; with -i 0
\* the quotient is infinite, and its conversion to int gives the largest or the
\* smallest, depending on the processor.
StatsPerInterval(t) ==
  LET i == t.value["i"]
  IN  IF t.limit_interval = 0 THEN {t.per_interval}
      ELSE IF t.limit_interval <= i THEN {1}
      ELSE IF i = 0 THEN {INT_MAX, -INT_MAX - 1}
      ELSE {(2 * t.limit_interval + i) \div (2 * i)}

\* The defaults that depend on several options.
Complete(t) ==
  {[t EXCEPT !.value["l"] = BlockSize(t),
             !.value["b"] = IF "rate_flag" \in t.flags THEN @
                            ELSE IF t.protocol = "udp" THEN UDP_RATE ELSE 0,
             !.value["t"] = IF (t.value["n"] # 0 \/ t.value["k"] # 0)
                               /\ "duration_flag" \notin t.flags THEN 0 ELSE @,
             !.value["skew"] = IF t.role = "s" /\ "rsa-private-key-path" \in t.given /\ @ = 0
                               THEN 10 ELSE @,
             !.per_interval = n] : n \in StatsPerInterval(t)}

CheckAll(a, readable) ==
  IF a.result # "parsing" THEN {a}
  ELSE IF Refused(a.test, readable) THEN {[a EXCEPT !.result = "refused"]}
  ELSE {[a EXCEPT !.result = "ok", !.test = t] : t \in Complete(a.test)}

-----------------------------------------------------------------------------
InitOptions ==
  /\ argv \in CommandLines
  /\ prog = [p \in Prog |-> [rest |-> argv[p], test |-> iperf_defaults, result |-> "parsing",
                             readable |-> TRUE]]

\* getopt_long returns the next option.
Parse(p, o) ==
  /\ prog[p].result = "parsing" /\ o \in prog[p].rest
  /\ prog' = [prog EXCEPT ![p] = [ParseOption(prog[p], o) EXCEPT !.rest = prog[p].rest \ {o}]]
  /\ UNCHANGED argv

\* There are no more; password and key files can be read, or not.
Finish(p, readable) ==
  /\ prog[p].result = "parsing" /\ prog[p].rest = {}
  /\ \E a \in CheckAll(prog[p], readable) :
       prog' = [prog EXCEPT ![p] = [a EXCEPT !.readable = readable]]
  /\ UNCHANGED argv

-----------------------------------------------------------------------------
(* Properties *)

\* The field of the test an option overwrites.
Field(flag) ==
  CASE flag \in {"u", "m", "sctp"} -> "protocol"
    [] flag \in {"b", "nstreams"} -> "b"
    [] flag \in {"S", "dscp"} -> "tos"
    [] OTHER -> flag

\* No field is given twice, and the program is not asked for its version or help.
TypedOnce(O) ==
  /\ \A o1, o2 \in O : Field(o1.flag) = Field(o2.flag) => o1 = o2
  /\ \A o \in O : o.flag \notin {"v", "h"}

InSomeOrder(p) ==
  FoldSet(LAMBDA o, a : IF a.result = "parsing" THEN ParseOption(a, o) ELSE a,
          [test |-> iperf_defaults, result |-> "parsing"], argv[p])

\* The order of the options does not matter, although direction and role are
\* worked out while they are read: a command line that gives no field twice
\* comes to the same outcome in any order as in a fixed one.
OptionOrderIsIrrelevant ==
  \A p \in Prog :
    prog[p].result \in {"ok", "refused"} /\ TypedOnce(argv[p])
    => \E a \in CheckAll(InSomeOrder(p), prog[p].readable) :
         /\ a.result = prog[p].result
         /\ a.result = "ok" => a.test = prog[p].test

\* What the rest of the program relies on once a command line O is accepted: one
\* direction, which is the one asked for; at most one end condition; a block
\* that exists and, over UDP, holds the header (unless its size was typed as a
\* negative one or does not fit into an int); a receive timeout only for who
\* receives; and, for statistics of a second and more, a window of the bitrate
\* limit within the 60 entries of its ring.
Usable(t, O) ==
  LET f == {o.flag : o \in O}
      sends == IF t.role = "c" THEN "R" \notin f ELSE "bidir" \in f \/ "R" \in f
  IN  /\ t.mode = IF "bidir" \in f THEN "BIDIRECTIONAL"
                  ELSE IF sends THEN "SENDER" ELSE "RECEIVER"
      /\ t.sender_has_retransmits <=> (sends /\ t.protocol = "tcp")
      /\ ("rcv-timeout" \in f /\ t.role = "c") => {"R", "bidir"} \cap f # {}
      /\ Cardinality({c \in {"t", "n", "k"} : t.value[c] # 0}) <= 1
      /\ IF t.protocol = "udp"
         THEN \/ t.value["l"] \in {0} \cup MIN_UDP_BLOCKSIZE..MAX_UDP_BLOCKSIZE
              \/ \E o \in O : o.flag = "l" /\ (o.n < 0 \/ o.suffix = "G")
         ELSE t.value["l"] \in 1..MAX_BLOCKSIZE
      /\ 0 <= t.rcv_timeout.usecs /\ t.rcv_timeout.usecs < SEC_TO_US
      /\ (t.value["i"] >= 10 /\ t.limit_interval # 0) => t.per_interval \in 1..60

\* Every accepted command line is usable, in whatever order it was read.
SettingsAreUsable ==
  \A p \in Prog : prog[p].result = "ok" => Usable(prog[p].test, argv[p])

=============================================================================
