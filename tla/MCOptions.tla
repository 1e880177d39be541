----------------------------- MODULE MCOptions ------------------------------
(***************************************************************************)
(* Command lines for TLC: families of options that interact, in every      *)
(* combination and order, every limit of a range, and the options of       *)
(* authorization for both programs at once.                                *)
(***************************************************************************)
EXTENDS Auth

AnOption(flag, n, suffix, slash, m) ==
  [flag |-> flag, n |-> n, suffix |-> suffix, slash |-> slash, m |-> m]
Plain(flags) == {AnOption(f, 0, "", FALSE, 0) : f \in flags}
Numbers(flag, ns) == {AnOption(flag, n, "", FALSE, 0) : n \in ns}
Units(flag, n, suffixes) == {AnOption(flag, n, x, FALSE, 0) : x \in suffixes}
Pairs(flag, n, ms) == {AnOption(flag, n, "", TRUE, m) : m \in ms}

\* The combinations that use each option at most once.
OneEach(options) ==
  {a \in SUBSET options : \A o1, o2 \in a : o1.flag = o2.flag => o1 = o2}

Client == Plain({"c"})
Server == Plain({"s"})

Directions ==
  OneEach(Plain({"c", "s", "R", "bidir", "D", "u"}) \cup Numbers("rcv-timeout", {100}))

Ends ==
  {Client \cup a : a \in OneEach(Plain({"u", "sctp"}) \cup Numbers("t", {0, 5})
                                 \cup Units("n", 2, {"K"}) \cup Numbers("k", {3})
                                 \cup Numbers("l", {-1, 15, 16, 65508}))}

Protocols ==
  {Client \cup a : a \in OneEach(Plain({"u", "sctp", "m", "R", "v"}) \cup Pairs("nstreams", 2, {1})
                                 \cup Units("l", 1, {"M"}) \cup Units("l", 3, {"G"})
                                 \cup Units("l", 4, {"G"}))}

Limits ==
  {Server \cup a : a \in OneEach(Plain({"1"}) \cup Numbers("i", {0, 1, 10, 600})
                                 \cup Pairs("server-bitrate-limit", 5, {0, 1, 25, 600, 601}))}

Boundaries ==
  Numbers("p", {0, 1, 65535, 65536}) \cup Numbers("cport", {0, 1, 65535, 65536})
  \cup Numbers("i", {0, 1, 600, 601}) \cup Numbers("t", {86400, 86401})
  \cup Numbers("P", {0, 128, 129}) \cup Units("w", 512, {"M"}) \cup Units("w", 513, {"M"})
  \cup Numbers("M", {9216, 9217}) \cup Numbers("S", {-1, 0, 255, 256})
  \cup Units("dscp", 0, {"af11", "cs7", "other"}) \cup Numbers("dscp", {255, 256})
  \cup Numbers("L", {0, 1, 1048575, 1048576}) \cup Numbers("O", {-1, 0, 60, 61})
  \cup Numbers("idle-timeout", {0, 1, 86400, 86401})
  \cup Numbers("rcv-timeout", {99, 100, 86400000, 86400001})
  \cup Pairs("A", 1024, {0, 1024, 1025}) \cup Numbers("A", {-1, 0})
  \cup Pairs("b", 1, {0, 1, 1000, 1001}) \cup Units("b", 1, {"K", "G"})
  \cup Pairs("server-bitrate-limit", 1, {0, 1, 600, 601})
  \cup Numbers("time-skew-threshold", {0, 1}) \cup Units("f", 0, {"k", "T", "a"})
  \cup Units("fq-rate", 1, {"M"}) \cup Plain({"4", "6", "N", "Z", "F", "h", "J", "T"})

ClientAuth ==
  {Client \cup a :
     a \in SUBSET (Plain({"username", "rsa-public-key-path"}) \cup Numbers("time-skew-threshold", {1}))}

ServerAuth ==
  {Server \cup a :
     a \in SUBSET (Plain({"rsa-private-key-path", "authorized-users-path", "username"})
                   \cup Numbers("time-skew-threshold", {1}))}

MCCommandLines ==
  {[client |-> a, server |-> {}] : a \in Directions \cup Ends \cup Protocols}
  \cup {[client |-> {}, server |-> a] : a \in Directions \cup Limits}
  \cup {[client |-> Client \cup {o}, server |-> Server \cup {o}] : o \in Boundaries}
  \cup {[client |-> a, server |-> b] : a \in ClientAuth, b \in ServerAuth}

User(u, p) == [user |-> u, password |-> p]
Line(kind, u, p) == [kind |-> kind, user |-> u, hash |-> PasswordHash(User(u, p))]

MCNotWords == {"", "two words"}
MCTooLong == {"a very long password"}
MCCredentials ==
  {User("mario", "pw"), User("mario", "wrong"), User("luigi", "two words"), User("luigi", ""),
   User("peach", "pw"), User("mario", "a very long password")}
MCUsersFile ==
  {Line("entry", "mario", "pw"), Line("entry", "luigi", "two words"), Line("entry", "luigi", ""),
   Line("comment", "peach", "pw")}
MCOffsets == {-11, -10, -1, 1, 10, 11}

=============================================================================
