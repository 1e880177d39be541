-------------------------------- MODULE Auth --------------------------------
(***************************************************************************)
(* Authorization of the clients of a server: the token that a client with  *)
(* credentials puts into its parameters (encode_auth_setting), and what    *)
(* the server makes of it (decode_auth_setting, check_authentication).     *)
(* The client and server are the two programs of Options, once both have   *)
(* accepted their command lines; the server serves MaxTests tests, one     *)
(* after the other, some of them for clients without credentials.          *)
(*                                                                         *)
(* RSA, Base64 and SHA-256 are external: a token is what was encrypted,    *)
(* and two hashes agree only for the same user and password.               *)
(***************************************************************************)
EXTENDS Options

CONSTANTS
  Credentials,   \* [user, password]: what a user types
  NotWords,      \* names and passwords that are empty or contain white space
  TooLong,       \* passwords that do not fit into one RSA message
  UsersFile,     \* lines of the users file: [kind, user, hash]
  Offsets,       \* by how many seconds a client's clock is ahead of the server's
  MaxClock,      \* bound: seconds of the server's clock
  MaxTests       \* bound: tests the server serves

\* Credentials are a name and a password; lines of the file have three parts.
ASSUME AuthAssumption ==
  /\ \A c \in Credentials : c = [user |-> c.user, password |-> c.password]
  /\ \A line \in UsersFile : line = [kind |-> line.kind, user |-> line.user, hash |-> line.hash]
  /\ Offsets \subseteq Int

VARIABLE auth    \* the test being set up, and the server's settings->authtoken

avars == <<argv, prog, auth>>

NoToken == [user |-> Empty, password |-> Empty, ts |-> 0]
Nobody == [user |-> Empty, password |-> Empty]

-----------------------------------------------------------------------------
PasswordHash(c) == <<"sha256", c.user, c.password>>

encode_auth_setting(c, ts) == [user |-> c.user, password |-> c.password, ts |-> ts]

\* sscanf with %s reads words: any other credentials do not come back.
decode_auth_setting(token) ==
  IF {token.user, token.password} \cap NotWords = {} THEN {token} ELSE {}

check_authentication(token, now, skew) ==
  /\ now - token.ts <= skew /\ now - token.ts >= -skew
  /\ \E line \in UsersFile :
       line.kind = "entry" /\ line.user = token.user /\ line.hash = PasswordHash(token)

Configured == {"rsa-private-key-path", "authorized-users-path"} \subseteq prog["server"].test.given

test_is_authorized(token, now) ==
  \/ ~Configured
  \/ /\ token # NoToken
     /\ \E t \in decode_auth_setting(token) :
          check_authentication(t, now, prog["server"].test.value["skew"])

-----------------------------------------------------------------------------
InitAuth ==
  auth = [state |-> "idle", client |-> Nobody, offset |-> 0, sent |-> 0, message |-> NoToken,
          authtoken |-> NoToken, now |-> 0, tests |-> 0]

Ready ==
  /\ \A p \in Prog : prog[p].result = "ok"
  /\ prog["client"].test.role = "c" /\ prog["server"].test.role = "s"

HasCredentials == {"username", "rsa-public-key-path"} \subseteq prog["client"].test.given

\* send_parameters: a client with username, password and key adds a token with
\* the time of its clock; a client whose credentials are too long gives up.
\* Clients without credentials may come at any time.
send_parameters(c, offset) ==
  /\ Ready /\ auth.state = "idle" /\ auth.tests < MaxTests
  /\ c # Nobody => HasCredentials
  /\ auth' =
       [auth EXCEPT
         !.tests = @ + 1, !.client = c, !.offset = offset, !.sent = auth.now,
         !.state = IF c.password \in TooLong THEN "failed" ELSE "parameters",
         !.message = IF c = Nobody THEN NoToken
                     ELSE encode_auth_setting(c, auth.now + offset)]
  /\ UNCHANGED <<argv, prog>>

\* The message takes its time.
Tick ==
  /\ auth.state = "parameters" /\ auth.now < MaxClock
  /\ auth' = [auth EXCEPT !.now = @ + 1]
  /\ UNCHANGED <<argv, prog>>

\* iperf_exchange_parameters of the server: get_parameters sets settings->authtoken
\* only when the message has a token.
iperf_exchange_parameters ==
  /\ auth.state = "parameters"
  /\ LET token == IF auth.message = NoToken THEN auth.authtoken ELSE auth.message
     IN  auth' = [auth EXCEPT
                   !.authtoken = token,
                   !.state = IF test_is_authorized(token, auth.now) THEN "accepted" ELSE "denied"]
  /\ UNCHANGED <<argv, prog>>

iperf_reset_test_wrong ==
  /\ auth.state \in {"accepted", "denied", "failed"}
  /\ auth' = [auth EXCEPT !.state = "idle"]
  /\ UNCHANGED <<argv, prog>>

\* The test is over, one way or the other, and the server is made ready for the next.
iperf_reset_test ==
  /\ auth.state \in {"accepted", "denied", "failed"}
  /\ auth' = [auth EXCEPT !.state = "idle", !.authtoken = NoToken]
  /\ UNCHANGED <<argv, prog>>

Init == InitOptions /\ InitAuth

Next ==
  \/ \E p \in Prog : \E o \in prog[p].rest : Parse(p, o) /\ UNCHANGED auth
  \/ \E p \in Prog, readable \in BOOLEAN : Finish(p, readable) /\ UNCHANGED auth
  \/ \E c \in Credentials \cup {Nobody}, offset \in Offsets : send_parameters(c, offset)
  \/ Tick
  \/ iperf_exchange_parameters
  \/ iperf_reset_test

Spec == Init /\ [][Next]_avars

-----------------------------------------------------------------------------
(* Properties *)

\* A server that was given a key and a users file accepts exactly the clients
\* whose own user and password are in the file and whose token is, by the two
\* clocks and the time on the way, within the threshold; never on the strength
\* of an earlier client's token.  Any other server accepts everybody.
AuthorizationIsExact ==
  auth.state \in {"accepted", "denied"} =>
    LET c == auth.client
        age == auth.now - auth.sent - auth.offset
        skew == prog["server"].test.value["skew"]
        listed == \E line \in UsersFile :
                    line = [kind |-> "entry", user |-> c.user, hash |-> PasswordHash(c)]
        given(f) == \E o \in argv["server"] : o.flag = f
        protected == given("rsa-private-key-path") /\ given("authorized-users-path")
    IN  auth.state = "accepted" <=>
          (protected => /\ c # Nobody /\ listed /\ {c.user, c.password} \cap NotWords = {}
                        /\ age \in -skew..skew)

=============================================================================
