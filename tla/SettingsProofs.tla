--------------------------- MODULE SettingsProofs ---------------------------
(***************************************************************************)
(* Proofs about module Settings, for any number of tests and of chosen     *)
(* settings.  The properties speak of a test after its parameters were     *)
(* exchanged; they are inductive once it is known what the server is like  *)
(* before: reset, receiving, and listening on a plain socket.              *)
(***************************************************************************)
EXTENDS Settings, TLAPS

\* Before the parameters arrive, nothing that is reset is left from earlier
\* tests.
Clean ==
  phase \in {"down", "idle", "params"} =>
    mode = "RECEIVER" /\ \A f \in ResetFields : test[f] = 0

\* The server meets its clients on a socket without options.
MetOnPlainSocket == phase \in {"idle", "params"} => listener = Plain

\* A client's command line does not ask for both reverse and bidirectional.
Accepts == ~(req["reverse"] # 0 /\ req["bidirectional"] # 0)

IInv ==
  /\ TypeOK /\ Accepts /\ Clean /\ MetOnPlainSocket
  /\ ServerHasRequest /\ ModesAreOpposite /\ SocketServesRequest

\* What a client chose reaches the server, and what it did not choose is what
\* the server had: send_parameters and get_parameters together.
LEMMA ExchangeLemma ==
  ASSUME NEW t \in [Field -> Nat], NEW r \in [Field -> Nat]
  PROVE  LET u == get_parameters(t, send_parameters(r)) IN
         /\ u \in [Field -> Nat]
         /\ \A f \in Field : f \in AlwaysSent \/ r[f] # 0 => u[f] = r[f]
         /\ \A f \in Field : f \notin AlwaysSent /\ r[f] = 0 => u[f] = t[f]
<1> DEFINE j == send_parameters(r)
<1>1. DOMAIN j = AlwaysSent \cup {g \in SentIfChosen : r[g] # 0}
  BY DEF send_parameters
<1>2. \A f \in DOMAIN j : j[f] = r[f]
  BY <1>1 DEF send_parameters
<1>3. DOMAIN j \subseteq Field
  BY <1>1 DEF Field
<1>4. \A f \in Field : f \in DOMAIN j <=> f \in AlwaysSent \/ r[f] # 0
  BY <1>1 DEF Field
<1> HIDE DEF j
<1> QED
  BY <1>2, <1>3, <1>4 DEF get_parameters, j

\* What is sent only if chosen is reset, or is inherited.
LEMMA NoFieldIsForgotten ==
  Field \ Inherited = ResetFields \cup {"pacing_timer"}
  BY DEF Field, AlwaysSent, SentIfChosen, ResetFields, Inherited

\* If the server's settings were reset, then after the exchange they are the
\* client's.
LEMMA ResetThenExchange ==
  ASSUME NEW t \in [Field -> Nat], NEW r \in [Field -> Nat],
         \A f \in ResetFields : t[f] = 0
  PROVE  \A f \in Field \ Inherited : get_parameters(t, send_parameters(r))[f] = r[f]
<1>1. \A f \in Field \ Inherited : f \in ResetFields \/ f \in AlwaysSent
  BY NoFieldIsForgotten DEF AlwaysSent
<1> QED
  BY <1>1, ExchangeLemma

\* The keys get_parameters looks for to set the mode.
LEMMA ModeKeys ==
  ASSUME NEW r \in [Field -> Nat]
  PROVE  /\ "bidirectional" \in DOMAIN send_parameters(r) <=> r["bidirectional"] # 0
         /\ "reverse" \in DOMAIN send_parameters(r) <=> r["reverse"] # 0
BY DEF send_parameters, AlwaysSent, SentIfChosen

\* The initial state satisfies the invariant.
THEOREM SettingsInit == Init => IInv
<1> SUFFICES ASSUME Init PROVE IInv
  OBVIOUS
<1>1. ResetFields \subseteq Field
  BY DEF ResetFields, Field, AlwaysSent, SentIfChosen
<1>2. TypeOK
  BY DEF Init, TypeOK, Plain
<1>3. Accepts
  BY "reverse" \in Field DEF Init, Accepts, Field, SentIfChosen
<1> QED
  BY <1>1, <1>2, <1>3 DEF Init, IInv, Clean, MetOnPlainSocket, ServerHasRequest,
     ModesAreOpposite, SocketServesRequest, InTest

\* The exchange of the parameters establishes what is claimed of a test.
LEMMA ExchangeStep == IInv /\ Exchange => IInv'
<1> SUFFICES ASSUME IInv, Exchange PROVE IInv'
  OBVIOUS
<1>1. /\ test \in [Field -> Nat] /\ req \in [Field -> Nat] /\ req' = req
      /\ phase = "params" /\ phase' = "streams" /\ number' = number
      /\ test' = get_parameters(test, send_parameters(req))
  BY DEF IInv, TypeOK, Exchange
<1>2. test' \in [Field -> Nat]
  BY <1>1, ExchangeLemma
<1>3. \A f \in Field \ Inherited : test'[f] = req[f]
  BY <1>1, ResetThenExchange DEF IInv, Clean
<1>4. mode = "RECEIVER" /\ listener = Plain
  BY <1>1 DEF IInv, Clean, MetOnPlainSocket
<1>5. ModesAreOpposite' /\ mode' \in {"SENDER", "RECEIVER", "BIDIRECTIONAL"}
  <2>1. mode' = GetMode(mode, send_parameters(req))
    BY DEF Exchange
  <2>2. mode' = IF req["bidirectional"] # 0 THEN "BIDIRECTIONAL"
                ELSE IF req["reverse"] # 0 THEN "SENDER" ELSE "RECEIVER"
    BY <1>1, <1>4, <2>1, ModeKeys DEF GetMode
  <2>3. CASE req["bidirectional"] # 0 /\ req["reverse"] # 0
    BY <1>1, <2>2, <2>3 DEF IInv, Accepts
  <2>4. CASE req["bidirectional"] # 0 /\ req["reverse"] = 0
    BY <1>1, <2>2, <2>4 DEF ModesAreOpposite, InTest
  <2>5. CASE req["bidirectional"] = 0
    BY <1>1, <2>2, <2>5 DEF ModesAreOpposite, InTest
  <2> QED
    BY <2>3, <2>4, <2>5
<1>6. SocketField \subseteq Field /\ SocketField \ {"multipath"} \subseteq Field \ Inherited
  BY DEF SocketField, Field, Inherited, AlwaysSent, SentIfChosen
<1>7. req["multipath"] # 0 => test'["multipath"] = req["multipath"]
  BY <1>1, ExchangeLemma, "multipath" \in Field DEF Field, SentIfChosen
<1>8. listener' = IF test'["protocol"] = 0 THEN iperf_tcp_listen(listener, test') ELSE listener
  BY DEF Exchange
<1>9. listener' \in [SocketField -> Nat]
  BY <1>2, <1>4, <1>6, <1>8 DEF iperf_tcp_listen, Plain
<1>10. SocketServesRequest'
  <2> SUFFICES ASSUME req["protocol"] = 0
               PROVE  /\ \A f \in SocketField \ {"multipath"} : listener'[f] = req[f]
                      /\ req["multipath"] # 0 => listener'["multipath"] = req["multipath"]
    BY <1>1 DEF SocketServesRequest
  <2>1. listener' = iperf_tcp_listen(listener, test')
    BY <1>3, <1>8, "protocol" \in Field \ Inherited DEF Field, Inherited, AlwaysSent
  <2>2. CASE \E f \in SocketField : test'[f] # 0
    BY <2>1, <2>2, <1>3, <1>6, <1>7, "multipath" \in SocketField
       DEF iperf_tcp_listen, SocketField
  <2>3. CASE \A f \in SocketField : test'[f] = 0
    <3>1. listener' = Plain
      BY <2>1, <2>3, <1>4 DEF iperf_tcp_listen
    <3>2. \A f \in SocketField : listener'[f] = test'[f]
      BY <3>1, <2>3 DEF Plain
    <3> QED
      BY <3>2, <1>3, <1>6, <1>7, "multipath" \in SocketField DEF SocketField
  <2> QED
    BY <2>2, <2>3
<1> QED
  BY <1>1, <1>2, <1>3, <1>5, <1>9, <1>10
     DEF IInv, TypeOK, Accepts, Clean, MetOnPlainSocket, ServerHasRequest, InTest

\* Every step preserves the invariant.
THEOREM SettingsNext == IInv /\ [Next]_vars => IInv'
<1> SUFFICES ASSUME IInv, [Next]_vars PROVE IInv'
  OBVIOUS
<1>f. ResetFields \subseteq Field
  BY DEF ResetFields, Field, AlwaysSent, SentIfChosen
<1>1. CASE Listen
  BY <1>1 DEF Listen, IInv, TypeOK, Accepts, Clean, MetOnPlainSocket, ServerHasRequest,
     ModesAreOpposite, SocketServesRequest, InTest, Plain
<1>2. CASE Request
  <2>1. number' = number + 1 /\ number' \in Nat
    BY <1>2 DEF Request, IInv, TypeOK
  <2>2. req' \in [Field -> Nat]
    BY <1>2, <2>1 DEF Request
  <2> QED
    BY <1>2, <2>1, <2>2 DEF Request, Accepted, IInv, TypeOK, Accepts, Clean, MetOnPlainSocket,
       ServerHasRequest, ModesAreOpposite, SocketServesRequest, InTest
<1>3. CASE Exchange
  BY <1>3, ExchangeStep
<1>4. CASE StreamsAccepted
  <2>1. listener' \in [SocketField -> Nat]
    BY <1>4 DEF StreamsAccepted, IInv, TypeOK, Plain
  <2> QED
    BY <1>4, <2>1 DEF StreamsAccepted, IInv, TypeOK, Accepts, Clean, MetOnPlainSocket,
       ServerHasRequest, ModesAreOpposite, SocketServesRequest, InTest
<1>5. CASE EndTest
  <2>1. test' \in [Field -> Nat] /\ \A f \in ResetFields : test'[f] = 0
    BY <1>5, <1>f DEF EndTest, IInv, TypeOK, iperf_reset_test
  <2>2. listener' \in [SocketField -> Nat]
    BY <1>5 DEF EndTest, Plain
  <2> QED
    BY <1>5, <2>1, <2>2 DEF EndTest, IInv, TypeOK, Accepts, Clean, MetOnPlainSocket,
       ServerHasRequest, ModesAreOpposite, SocketServesRequest, InTest
<1>6. CASE UNCHANGED vars
  BY <1>6 DEF vars, IInv, TypeOK, Accepts, Clean, MetOnPlainSocket, ServerHasRequest,
     ModesAreOpposite, SocketServesRequest, InTest
<1> QED
  BY <1>1, <1>2, <1>3, <1>4, <1>5, <1>6 DEF Next

\* The invariant holds in every reachable state.
LEMMA SettingsInvariant == Spec => []IInv
  BY SettingsInit, SettingsNext, PTL DEF Spec

\* get_parameters, iperf_reset_test and the socket's settings keep their types.
THEOREM SettingsTypeCorrect == Spec => []TypeOK
<1>1. IInv => TypeOK
  BY DEF IInv
<1> QED
  BY <1>1, SettingsInvariant, PTL

\* A test never runs with a setting of an earlier one, the inherited ones
\* excepted: the server has what its client asked for.
THEOREM TestsAreIndependent == Spec => []ServerHasRequest
<1>1. IInv => ServerHasRequest
  BY DEF IInv
<1> QED
  BY <1>1, SettingsInvariant, PTL

\* Client and server agree who sends, whatever the modes of earlier tests.
THEOREM ModesAgree == Spec => []ModesAreOpposite
<1>1. IInv => ModesAreOpposite
  BY DEF IInv
<1> QED
  BY <1>1, SettingsInvariant, PTL

\* iperf_tcp_listen gives the streams' socket what the client asked for.
THEOREM SocketHasRequest == Spec => []SocketServesRequest
<1>1. IInv => SocketServesRequest
  BY DEF IInv
<1> QED
  BY <1>1, SettingsInvariant, PTL

=============================================================================
