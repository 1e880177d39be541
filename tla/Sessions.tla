------------------------------ MODULE Sessions ------------------------------
(***************************************************************************)
(* What an iperf3 server promises its clients, without connections or      *)
(* messages: it serves one client at a time, it takes the results of no    *)
(* client but the one it serves, and a client reports a finished test only *)
(* when the server has taken its results.                                  *)
(***************************************************************************)
CONSTANTS Client, Nobody

VARIABLES
  serving,     \* the client the server works for, or Nobody
  reported,    \* the clients whose results the server has taken
  outcome      \* how each client's program ended

vars == <<serving, reported, outcome>>

Init ==
  /\ serving = Nobody
  /\ reported = {}
  /\ outcome = [c \in Client |-> "pending"]

Begin(c) ==
  /\ serving = Nobody
  /\ serving' = c
  /\ UNCHANGED <<reported, outcome>>

\* The server takes the results of the client it serves; when the answer
\* cannot be sent the session ends with it.
Report(c) ==
  /\ serving = c
  /\ reported' = reported \cup {c}
  /\ serving' \in {c, Nobody}
  /\ UNCHANGED outcome

End ==
  /\ serving # Nobody
  /\ serving' = Nobody
  /\ UNCHANGED <<reported, outcome>>

Succeed(c) ==
  /\ outcome[c] = "pending"
  /\ c \in reported
  /\ outcome' = [outcome EXCEPT ![c] = "done"]
  /\ UNCHANGED <<serving, reported>>

Fail(c) ==
  /\ outcome[c] = "pending"
  /\ outcome' = [outcome EXCEPT ![c] = "failed"]
  /\ UNCHANGED <<serving, reported>>

Next ==
  \/ End
  \/ \E c \in Client : Begin(c) \/ Report(c) \/ Succeed(c) \/ Fail(c)

Spec == Init /\ [][Next]_vars

=============================================================================
