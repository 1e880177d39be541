------------------------------ MODULE Settings ------------------------------
(***************************************************************************)
(* The settings of a test, which the client sends (send_parameters) and the*)
(* server stores in its one struct iperf_test (get_parameters), over the   *)
(* consecutive tests of a server: what iperf_tcp_listen makes of them and  *)
(* what iperf_reset_test leaves of them.                                   *)
(*                                                                         *)
(* A setting is named after its key in the JSON object.  Its value is 0 if *)
(* it is what iperf_defaults says, and else the number of the test whose   *)
(* client chose it, so that a value of an earlier test can be told.        *)
(***************************************************************************)
EXTENDS Integers, FiniteSets

CONSTANTS
  MaxTests,    \* bound: the tests the server runs
  MaxChosen    \* bound: the settings a client chooses

ASSUME SettingsAssumption == MaxTests \in Nat /\ MaxChosen \in Nat

VARIABLES
  test,       \* the server's settings
  mode,       \* and its test->mode
  req,        \* the settings of the client whose test it is
  listener,   \* the settings the listening socket was made with
  phase,      \* how far the server is with this test
  number      \* of this test

vars == <<test, mode, req, listener, phase, number>>

\* Settings that are in every message: len and pacing_timer because their
\* defaults are not 0.
AlwaysSent == {"protocol", "omit", "time", "parallel", "len", "pacing_timer"}

\* Settings that are sent if the client has chosen them.
SentIfChosen ==
  {"server_affinity", "num", "blockcount", "MSS", "nodelay", "reverse",
   "bidirectional", "multipath", "window", "bandwidth", "fqrate", "burst",
   "TOS", "flowlabel", "title", "extra_data", "congestion",
   "get_server_output", "udp_counters_64bit", "repeating_payload",
   "dont_fragment", "authtoken"}

Field == AlwaysSent \cup SentIfChosen

\* The settings iperf_reset_test puts back.
ResetFields ==
  {"protocol", "omit", "time", "parallel", "len", "server_affinity", "MSS",
   "nodelay", "reverse", "bidirectional", "window", "bandwidth", "burst", "TOS",
   "title", "extra_data", "udp_counters_64bit", "dont_fragment", "authtoken"}

\* The settings of a listening socket.
SocketField == {"multipath", "nodelay", "MSS", "window"}

\* What iperf_parse_arguments accepts from a client: not both directions'
\* options, and one end condition.
Accepted(r) ==
  /\ ~(r["reverse"] # 0 /\ r["bidirectional"] # 0)
  /\ Cardinality({f \in {"time", "num", "blockcount"} : r[f] # 0}) <= 1

send_parameters(r) ==
  [f \in AlwaysSent \cup {g \in SentIfChosen : r[g] # 0} |-> r[f]]

get_parameters(t, j) == [f \in Field |-> IF f \in DOMAIN j THEN j[f] ELSE t[f]]

\* iperf_set_test_reverse and iperf_set_test_bidirectional in get_parameters.
GetMode(m, j) ==
  IF "bidirectional" \in DOMAIN j THEN "BIDIRECTIONAL"
  ELSE IF "reverse" \in DOMAIN j THEN "SENDER" ELSE m

iperf_reset_test_wrong(t) == [f \in Field |-> IF f \in ResetFields THEN -1 ELSE t[f]]

iperf_reset_test_wrong2(t) ==
  [f \in Field |-> IF f \in ResetFields \ {"bandwidth"} THEN 0 ELSE t[f]]

iperf_reset_test(t) == [f \in Field |-> IF f \in ResetFields THEN 0 ELSE t[f]]

Plain == [f \in SocketField |-> 0]

iperf_tcp_listen_wrong(l, t) ==
  IF \E f \in {"multipath", "nodelay", "MSS"} : t[f] # 0
  THEN [f \in SocketField |-> t[f]] ELSE l

\* The listening socket for the streams of a TCP test.
iperf_tcp_listen(l, t) ==
  IF \E f \in SocketField : t[f] # 0 THEN [f \in SocketField |-> t[f]] ELSE l

-----------------------------------------------------------------------------
Init ==
  /\ test = [f \in Field |-> 0] /\ mode = "RECEIVER"
  /\ req = [f \in Field |-> 0]
  /\ listener = Plain
  /\ phase = "down" /\ number = 0

\* iperf_run_server: iperf_server_listen.
Listen ==
  /\ phase = "down" /\ number < MaxTests
  /\ listener' = Plain
  /\ phase' = "idle"
  /\ UNCHANGED <<test, mode, req, number>>

\* A client with its command line options connects.
Request ==
  /\ phase = "idle"
  /\ number' = number + 1
  /\ \E option \in [1..MaxChosen -> Field \cup {"none"}] :
       req' = [f \in Field |->
                 IF \E i \in 1..MaxChosen : option[i] = f THEN number + 1 ELSE 0]
  /\ Accepted(req')
  /\ phase' = "params"
  /\ UNCHANGED <<test, mode, listener>>

\* iperf_exchange_parameters: get_parameters and the protocol's listen.
Exchange ==
  /\ phase = "params"
  /\ test' = get_parameters(test, send_parameters(req))
  /\ mode' = GetMode(mode, send_parameters(req))
  /\ listener' = IF test'["protocol"] = 0 THEN iperf_tcp_listen(listener, test') ELSE listener
  /\ phase' = "streams"
  /\ UNCHANGED <<req, number>>

\* iperf_run_server has all streams: the listening socket of a TCP test is
\* replaced again, unless multipath was the only reason to replace it.
StreamsAccepted ==
  /\ phase = "streams"
  /\ listener' = IF test["protocol"] = 0 /\ \E f \in SocketField \ {"multipath"} : test[f] # 0
                 THEN Plain ELSE listener
  /\ phase' = "running"
  /\ UNCHANGED <<test, mode, req, number>>

EndTest_wrong ==
  /\ phase \in {"idle", "params", "streams", "running"}
  /\ test' = iperf_reset_test(test)
  /\ listener' = Plain
  /\ phase' = "down"
  /\ UNCHANGED <<mode, req, number>>

\* cleanup_server and iperf_reset_test, after a whole test or a failed one.
EndTest ==
  /\ phase \in {"idle", "params", "streams", "running"}
  /\ test' = iperf_reset_test(test)
  /\ mode' = "RECEIVER"
  /\ listener' = Plain
  /\ phase' = "down"
  /\ UNCHANGED <<req, number>>

Next == Listen \/ Request \/ Exchange \/ StreamsAccepted \/ EndTest

Spec == Init /\ [][Next]_vars

-----------------------------------------------------------------------------
(* Properties *)

\* The type invariant.
TypeOK ==
  /\ test \in [Field -> Nat] /\ req \in [Field -> Nat]
  /\ listener \in [SocketField -> Nat]
  /\ mode \in {"SENDER", "RECEIVER", "BIDIRECTIONAL"}
  /\ phase \in {"down", "idle", "params", "streams", "running"}
  /\ number \in Nat

InTest == phase \in {"streams", "running"}

\* What a later client may find of an earlier client's choices.
Inherited ==
  {"multipath", "num", "blockcount", "fqrate", "flowlabel", "congestion",
   "get_server_output", "repeating_payload"}

\* Whatever tests came before, the server has the value this client asked for
\* of every setting that is sent, but for the eight an earlier client can leave
\* behind: one the client did not choose is not in the message, so it must not
\* be left from the last.  The eight are named here, and not taken from
\* iperf_reset_test: a field it forgets besides them is found.
ServerHasRequest == InTest => \A f \in Field \ Inherited : test[f] = req[f]

\* The server's mode is the client's turned round, also right after a test in
\* another mode.
ModesAreOpposite ==
  InTest =>
    mode = CASE req["bidirectional"] # 0 -> "BIDIRECTIONAL"
             [] req["reverse"] # 0 -> "SENDER"
             [] OTHER -> "RECEIVER"

\* The streams of a TCP test come through a socket with everything the client
\* asked for, and with no buffer size, MSS or delay setting it did not ask for.
SocketServesRequest ==
  phase = "streams" /\ req["protocol"] = 0 =>
    /\ \A f \in SocketField \ {"multipath"} : listener[f] = req[f]
    /\ req["multipath"] # 0 => listener["multipath"] = req["multipath"]

\* iperf_tcp_listen's comment: the data connections "have all the correct
\* parameters in place".
SocketIsAsRequested ==
  phase = "streams" /\ req["protocol"] = 0 =>
    \A f \in SocketField : listener[f] = req[f]

=============================================================================
