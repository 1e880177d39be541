-------------------------- MODULE StreamRateProofs --------------------------
(***************************************************************************)
(* More proofs about module StreamData: what a stream may send, by its     *)
(* rate, by the limits of the test and by the file it sends; that its      *)
(* intervals add up, and what the ring of the bitrate limit holds.         *)
(***************************************************************************)
EXTENDS StreamDataProofs

-----------------------------------------------------------------------------
(* The throttle *)

LEMMA MulLemma ==
  ASSUME NEW a \in Nat, NEW b \in Nat, NEW c \in Nat, a <= b
  PROVE  c * a \in Nat /\ c * a <= c * b /\ c * (a + 1) = c * a + c
OBVIOUS

\* The blocks a stream that may send has sent since it was checked.
Slack(t, i) ==
  IF conf.burst = 0 \/ t.pc # "send" THEN 0
  ELSE IF i < t.next THEN conf.burst - t.multisend + 1 ELSE conf.burst - t.multisend

MayRun(t) == t.state = "TEST_RUNNING" /\ ~t.done

Bound(i) == Max({ghost.early[i], conf.rate * now})

ThrottleOK(sp, t, i, bound) ==
  /\ sp.bytes_sent <= bound + Block * Max({conf.burst, 1})
  /\ sp.green_light /\ MayRun(t) => sp.bytes_sent <= bound + Block * Slack(t, i)

\* Who has a file to send stops at its end; otherwise only the client's timer ends
\* the test, and the turn ends with it.
DoneInv ==
  LET t == test[conf.sender]
  IN  /\ t.state = "TEST_RUNNING" /\ t.done =>
           conf.file # 0 \/ (conf.sender = "c" /\ t.pc = "timers" /\ ~t.omitting)
      /\ t.state = "TEST_RUNNING" /\ t.pc = "send" /\ conf.burst # 0 => t.multisend \in 1..conf.burst

ThrottleInv ==
  conf.rate # 0 /\ now > 0 =>
    \A i \in Stream : ThrottleOK(stream[conf.sender][i], test[conf.sender], i, Bound(i))

LEMMA DoneInit == ASSUME Init PROVE DoneInv
<1>1. conf.sender \in Side
  BY ConfLemma DEF Init
<1>2. test[conf.sender] = NewTest
  BY <1>1 DEF Init
<1>3. ~NewTest.done /\ NewTest.pc = "select"
  BY DEF NewTest
<1> QED BY <1>2, <1>3 DEF DoneInv

SameCounts(t, u) ==
  /\ u.bytes_sent = t.bytes_sent /\ u.blocks_sent = t.blocks_sent
  /\ u.bytes_received = t.bytes_received /\ u.blocks_received = t.blocks_received

\* What a step does to the sender's side of the test.
SenderStep ==
  LET t == test[conf.sender]
      u == test'[conf.sender]
  IN  \/ u = t
      \/ /\ SameCounts(t, u) /\ u.omitting = t.omitting /\ u.state # "TEST_RUNNING"
         /\ \/ u.state # "TEST_END" /\ u.done = t.done
            \/ t.state = "TEST_RUNNING" /\ (conf.sender = "c" => TestIsDone)
      \/ /\ SameCounts(t, u) /\ u.omitting = t.omitting
         /\ u.state = t.state /\ u.done = t.done /\ t.pc = "select"
         /\ \/ u.pc = "timers"
            \/ u.pc = "send" /\ u.multisend = Multisend /\ u.next = 1 /\ stream' = stream
      \/ SendStep
      \/ /\ SkipFacts /\ u.state = t.state /\ u.pc = t.pc /\ u.multisend = t.multisend
         /\ u.done = t.done /\ u.next = conf.streams + 1
         /\ SameCounts(t, u) /\ u.omitting = t.omitting
      \/ /\ SendRound /\ u.state = t.state /\ u.done = t.done /\ u.next = 1
         /\ SameCounts(t, u) /\ u.omitting = t.omitting
         /\ IF t.active /\ t.multisend > 1 THEN u.pc = t.pc /\ u.multisend = t.multisend - 1
            ELSE u.pc = "timers"
      \/ /\ u.state = t.state /\ t.pc = "timers" /\ u.pc \in {"timers", "select"}
         /\ \/ /\ SameCounts(t, u) /\ u.done = t.done /\ u.omitting = t.omitting
               /\ t.done => conf.file # 0
               /\ conf.sender = "c" => ~TestIsDone
            \/ /\ OmitTimer(conf.sender) /\ u.done = t.done /\ ~u.omitting /\ u.pc = "timers"
               /\ u.bytes_sent = 0 /\ u.blocks_sent = 0 /\ u.bytes_received = t.bytes_received
               /\ u.blocks_received = t.blocks_received
            \/ /\ conf.sender = "c" /\ u.pc = "timers" /\ ~u.omitting
               /\ SameCounts(t, u) /\ u.omitting = t.omitting
               /\ conf.bytes = 0 /\ conf.blocks = 0

SendTest(i, o) ==
  LET t == test[conf.sender]
      u == test'[conf.sender]
  IN  /\ u.state = t.state /\ u.pc = t.pc /\ u.multisend = t.multisend
      /\ u.omitting = t.omitting /\ u.ready = t.ready
      /\ u.done <=> t.done \/ o.done
      /\ u.next = IF o.r = NET_SOFTERROR THEN conf.streams + 1 ELSE i + 1
      /\ u.bytes_sent = IF o.r = NET_SOFTERROR THEN t.bytes_sent ELSE t.bytes_sent + o.r
      /\ u.blocks_sent \in {t.blocks_sent, t.blocks_sent + 1}
      /\ o.r = NET_SOFTERROR => u.blocks_sent = t.blocks_sent
      /\ u.bytes_received = t.bytes_received /\ u.blocks_received = t.blocks_received

LEMMA SendTestLemma ==
  ASSUME TypeInv, NEW i, NEW o, NEW a, SendFacts(i, o, a)
  PROVE  SendTest(i, o)
<1> DEFINE t == test[conf.sender]
           u == test'[conf.sender]
           d == t.done \/ o.done
           n == IF o.r = NET_SOFTERROR THEN conf.streams + 1 ELSE i + 1
           v == IF o.r = NET_SOFTERROR THEN t.active ELSE TRUE
           b == IF o.r = NET_SOFTERROR THEN t.bytes_sent ELSE t.bytes_sent + o.r
           k == IF o.r # NET_SOFTERROR /\ a.pending_size = 0
                THEN t.blocks_sent + 1 ELSE t.blocks_sent
<1>1. conf.sender \in Side
  BY ConfLemma DEF TypeInv
<1>2. t \in TestRec /\ test \in [Side -> TestRec]
  BY <1>1, TestFields DEF TypeInv
<1>3. test' = [test EXCEPT ![conf.sender] = [t EXCEPT !.done = d, !.next = n, !.active = v,
                                                      !.bytes_sent = b, !.blocks_sent = k]]
  BY DEF SendFacts
<1> HIDE DEF d, n, v, b, k
<1>4. u = [t EXCEPT !.done = d, !.next = n, !.active = v, !.bytes_sent = b, !.blocks_sent = k]
  BY <1>1, <1>2, <1>3
<1>5. /\ u.state = t.state /\ u.pc = t.pc /\ u.multisend = t.multisend
      /\ u.omitting = t.omitting /\ u.ready = t.ready
      /\ u.done = d /\ u.next = n /\ u.bytes_sent = b /\ u.blocks_sent = k
      /\ u.bytes_received = t.bytes_received /\ u.blocks_received = t.blocks_received
  BY <1>2, <1>4 DEF TestRec
<1> QED BY <1>5 DEF SendTest, d, n, b, k

LEMMA OtherSide ==
  ASSUME TypeInv, NEW side \in Side, side # conf.sender, NEW u, test' = [test EXCEPT ![side] = u]
  PROVE  test'[conf.sender] = test[conf.sender]
<1>1. conf.sender \in Side
  BY ConfLemma DEF TypeInv
<1> QED BY <1>1 DEF TypeInv

LEMMA SenderStepLemma ==
  ASSUME TypeInv, DoneInv, [Next]_vars
  PROVE  SenderStep
<1> DEFINE t == test[conf.sender]
           u == test'[conf.sender]
<1>1. /\ conf.sender \in Side /\ Receiver \in Side /\ Receiver # conf.sender
      /\ "c" \in Side /\ "s" \in Side
  BY ConfLemma DEF TypeInv, Side
<1>2. t \in TestRec /\ test \in [Side -> TestRec]
  BY <1>1, TestFields DEF TypeInv
<1>3. CASE SendBegin
  <2>1. /\ t.state = "TEST_RUNNING" /\ t.pc = "select" /\ stream' = stream
        /\ u = [t EXCEPT !.pc = "send", !.multisend = Multisend,
                              !.ready = Writable, !.next = 1, !.active = FALSE]
    BY <1>1, <1>2, <1>3 DEF SendBegin, Running
  <2>2. /\ u.state = t.state /\ u.done = t.done /\ u.pc = "send" /\ u.multisend = Multisend
        /\ u.next = 1 /\ u.omitting = t.omitting /\ SameCounts(t, u)
    BY <1>2, <2>1 DEF TestRec, SameCounts
  <2> QED BY <2>1, <2>2 DEF SenderStep
<1>4. CASE SendOne
  <2>1. CASE SkipFacts
    <3>1. u = [t EXCEPT !.next = conf.streams + 1]
      BY <1>1, <1>2, <2>1 DEF SkipFacts
    <3>2. /\ u.state = t.state /\ u.pc = t.pc /\ u.multisend = t.multisend /\ u.done = t.done
          /\ u.next = conf.streams + 1 /\ u.omitting = t.omitting /\ SameCounts(t, u)
      BY <1>2, <3>1 DEF TestRec, SameCounts
    <3> QED BY <2>1, <3>2 DEF SenderStep
  <2>2. ASSUME NEW i, NEW o, NEW a, SendFacts(i, o, a) PROVE SenderStep
    BY <1>4, <2>2 DEF SendOne, SendStep, SenderStep
  <2> QED BY <1>4, <2>1, <2>2, SendLemma
<1>5. CASE SendRound
  <2> DEFINE more == t.active /\ t.multisend > 1
  <2>1. u = IF more THEN [t EXCEPT !.multisend = t.multisend - 1, !.next = 1, !.active = FALSE]
            ELSE [t EXCEPT !.pc = "timers", !.multisend = 0, !.ready = {}, !.next = 1,
                           !.active = FALSE]
    BY <1>1, <1>2, <1>5 DEF SendRound
  <2>2. /\ u.state = t.state /\ u.done = t.done /\ u.next = 1
        /\ u.omitting = t.omitting /\ SameCounts(t, u)
        /\ IF more THEN u.pc = t.pc /\ u.multisend = t.multisend - 1 ELSE u.pc = "timers"
    BY <1>2, <2>1 DEF TestRec, SameCounts
  <2> QED BY <1>5, <2>2 DEF SenderStep
<1>6. CASE Recv
  <2>1. PICK R, p : RecvFacts(R, p)
    BY <1>6, RecvLemma
  <2>2. PICK n \in Nat, k \in Nat :
           test' = [test EXCEPT ![Receiver] =
             [test[Receiver] EXCEPT !.bytes_received = n, !.blocks_received = k,
               !.pc = IF test[Receiver].state = "TEST_RUNNING" THEN "timers" ELSE "select"]]
    BY <2>1 DEF RecvFacts
  <2>3. u = t
    BY <1>1, <2>2, OtherSide
  <2> QED BY <2>3 DEF SenderStep
<1>7. ASSUME NEW side \in Side, NothingReady(side) PROVE SenderStep
  <2>1. /\ test' = [test EXCEPT ![side] = [test[side] EXCEPT !.pc = "timers"]]
        /\ test[side].pc = "select"
    BY <1>7 DEF NothingReady, Running
  <2>2. CASE side = conf.sender
    <3>1. u = [t EXCEPT !.pc = "timers"] /\ t.pc = "select"
      BY <1>2, <2>1, <2>2
    <3>2. /\ u.state = t.state /\ u.done = t.done /\ u.pc = "timers"
          /\ u.omitting = t.omitting /\ SameCounts(t, u)
      BY <1>2, <3>1 DEF TestRec, SameCounts
    <3> QED BY <3>1, <3>2 DEF SenderStep
  <2>3. CASE side # conf.sender
    BY <2>1, <2>3, OtherSide DEF SenderStep
  <2> QED BY <2>2, <2>3
<1>8. ASSUME test' = test PROVE SenderStep
  BY <1>8 DEF SenderStep
<1>9. ASSUME NEW side \in Side, OmitTimer(side) PROVE SenderStep
  <2>1. /\ test' = [test EXCEPT ![side] = [test[side] EXCEPT !.omitting = FALSE, !.bytes_sent = 0,
                                                             !.blocks_sent = 0]]
        /\ test[side].pc = "timers"
    BY <1>9 DEF OmitTimer, Running
  <2>2. CASE side = conf.sender
    <3>1. /\ u = [t EXCEPT !.omitting = FALSE, !.bytes_sent = 0, !.blocks_sent = 0]
          /\ t.pc = "timers"
      BY <1>2, <2>1, <2>2
    <3>2. /\ u.state = t.state /\ u.done = t.done /\ ~u.omitting /\ u.pc = "timers"
          /\ u.bytes_sent = 0 /\ u.blocks_sent = 0 /\ u.bytes_received = t.bytes_received
          /\ u.blocks_received = t.blocks_received
      BY <1>2, <3>1 DEF TestRec
    <3>3. OmitTimer(conf.sender)
      BY <1>9, <2>2
    <3> QED BY <3>1, <3>2, <3>3 DEF SenderStep
  <2>3. CASE side # conf.sender
    BY <2>1, <2>3, OtherSide DEF SenderStep
  <2> QED BY <2>2, <2>3
<1>10. CASE TestTimer
  <2>1. /\ test' = [test EXCEPT !["c"] = [test["c"] EXCEPT !.done = TRUE]]
        /\ test["c"].pc = "timers" /\ ~test["c"].omitting /\ conf.bytes = 0 /\ conf.blocks = 0
    BY <1>10 DEF TestTimer, Running
  <2>2. CASE conf.sender = "c"
    <3>1. u = [t EXCEPT !.done = TRUE] /\ t.pc = "timers" /\ ~t.omitting
      BY <1>1, <1>2, <2>1, <2>2
    <3>2. u.state = t.state /\ u.omitting = t.omitting /\ u.pc = "timers" /\ SameCounts(t, u)
      BY <1>2, <3>1 DEF TestRec, SameCounts
    <3> QED BY <2>1, <2>2, <3>1, <3>2 DEF SenderStep
  <2>3. CASE conf.sender # "c"
    BY <1>1, <2>1, <2>3, OtherSide DEF SenderStep
  <2> QED BY <2>2, <2>3
<1>11. ASSUME NEW side \in Side, EndOfTurn(side) PROVE SenderStep
  <2>1. CASE side = "c" /\ TestIsDone
    <3>1. test' = [test EXCEPT !["c"] = [test["c"] EXCEPT !.state = "TEST_END", !.done = TRUE,
                                                          !.pc = "select"]]
      BY <1>11, <2>1 DEF EndOfTurn
    <3>2. CASE conf.sender = "c"
      <4>1. u = [t EXCEPT !.state = "TEST_END", !.done = TRUE, !.pc = "select"]
        BY <1>1, <1>2, <3>1, <3>2
      <4>2. u.state # "TEST_RUNNING" /\ u.omitting = t.omitting /\ SameCounts(t, u)
        BY <1>2, <4>1 DEF TestRec, SameCounts
      <4>3. t.state = "TEST_RUNNING"
        BY <1>11, <2>1, <3>2 DEF EndOfTurn, Running
      <4> QED BY <2>1, <4>2, <4>3 DEF SenderStep
    <3>3. CASE conf.sender # "c"
      BY <1>1, <3>1, <3>3, OtherSide DEF SenderStep
    <3> QED BY <3>2, <3>3
  <2>2. CASE ~(side = "c" /\ TestIsDone)
    <3>1. /\ test' = [test EXCEPT ![side] = [test[side] EXCEPT !.pc = "select"]]
          /\ test[side].pc = "timers" /\ test[side].state = "TEST_RUNNING"
      BY <1>11, <2>2 DEF EndOfTurn, Running
    <3>2. CASE side = conf.sender
      <4>1. u = [t EXCEPT !.pc = "select"] /\ t.pc = "timers" /\ t.state = "TEST_RUNNING"
        BY <1>2, <3>1, <3>2
      <4>2. /\ u.state = t.state /\ u.omitting = t.omitting /\ u.done = t.done /\ u.pc = "select"
            /\ SameCounts(t, u)
        BY <1>2, <4>1 DEF TestRec, SameCounts
      <4>3. t.done => conf.file # 0
        <5> SUFFICES ASSUME t.done, conf.file = 0 PROVE FALSE
          OBVIOUS
        <5>1. conf.sender = "c" /\ ~t.omitting
          BY <4>1 DEF DoneInv
        <5>2. TestIsDone
          BY <5>1 DEF TestIsDone
        <5> QED BY <2>2, <3>2, <5>1, <5>2
      <4>4. conf.sender = "c" => ~TestIsDone
        BY <2>2, <3>2
      <4> QED BY <4>1, <4>2, <4>3, <4>4 DEF SenderStep
    <3>3. CASE side # conf.sender
      BY <3>1, <3>3, OtherSide DEF SenderStep
    <3> QED BY <3>2, <3>3
  <2> QED BY <2>1, <2>2
<1>12. CASE ServerEnds
  <2>1. test' = [test EXCEPT !["s"] = [test["s"] EXCEPT !.state = "TEST_END", !.done = TRUE]]
    BY <1>12 DEF ServerEnds
  <2>2. CASE conf.sender = "s"
    <3>1. u = [t EXCEPT !.state = "TEST_END", !.done = TRUE]
      BY <1>1, <1>2, <2>1, <2>2
    <3>2. u.state # "TEST_RUNNING" /\ u.omitting = t.omitting /\ SameCounts(t, u)
      BY <1>2, <3>1 DEF TestRec, SameCounts
    <3>3. t.state = "TEST_RUNNING"
      BY <1>12, <2>2 DEF ServerEnds, Running
    <3> QED BY <2>2, <3>2, <3>3 DEF SenderStep
  <2>3. CASE conf.sender # "s"
    BY <1>1, <2>1, <2>3, OtherSide DEF SenderStep
  <2> QED BY <2>2, <2>3
<1>13. CASE ExchangeResults
  <2>1. u = [t EXCEPT !.state = "DISPLAY_RESULTS"]
    BY <1>1, <1>13 DEF ExchangeResults
  <2>2. /\ u.state \in {"DISPLAY_RESULTS", "FAILED"} /\ u.omitting = t.omitting
        /\ u.done = t.done /\ SameCounts(t, u)
    BY <1>2, <2>1 DEF TestRec, SameCounts
  <2> QED BY <2>2 DEF SenderStep
<1>14. CASE TestFails
  <2>1. u = [t EXCEPT !.state = "FAILED", !.pc = "select"]
    BY <1>1, <1>14 DEF TestFails
  <2>2. /\ u.state \in {"DISPLAY_RESULTS", "FAILED"} /\ u.omitting = t.omitting
        /\ u.done = t.done /\ SameCounts(t, u)
    BY <1>2, <2>1 DEF TestRec, SameCounts
  <2> QED BY <2>2 DEF SenderStep
<1> QED
  BY <1>3, <1>4, <1>5, <1>6, <1>7, <1>8, <1>9, <1>10, <1>11, <1>12, <1>13, <1>14
  DEF Next, Send, Timer, StatsTimer, SendTimer, Tick, vars

LEMMA DoneNext ==
  ASSUME TypeInv, DoneInv, [Next]_vars
  PROVE  DoneInv'
<1> DEFINE t == test[conf.sender]
           u == test'[conf.sender]
<1>1. conf' = conf /\ conf.sender \in Side /\ conf.burst \in Nat
  BY StepLemma, ConfLemma DEF TypeInv
<1> SUFFICES ASSUME u.state = "TEST_RUNNING"
             PROVE  /\ u.done => conf.file # 0 \/ (conf.sender = "c" /\ u.pc = "timers" /\ ~u.omitting)
                    /\ u.pc = "send" /\ conf.burst # 0 => u.multisend \in 1..conf.burst
  BY <1>1 DEF DoneInv
<1>2. /\ t.state = "TEST_RUNNING" /\ t.done =>
           conf.file # 0 \/ (conf.sender = "c" /\ t.pc = "timers" /\ ~t.omitting)
      /\ t.state = "TEST_RUNNING" /\ t.pc = "send" /\ conf.burst # 0 => t.multisend \in 1..conf.burst
      /\ t.multisend \in Nat
  BY <1>1, TestFields DEF DoneInv
<1>3. SenderStep
  BY SenderStepLemma
<1>4. CASE SendStep
  <2>1. PICK i, o, a : SendFacts(i, o, a)
    BY <1>4 DEF SendStep
  <2>2. SendTest(i, o)
    BY <2>1, SendTestLemma
  <2>3. t.pc = "send" /\ t.state = "TEST_RUNNING" /\ (o.done => conf.file # 0)
    BY <2>1 DEF SendFacts, FileOK
  <2>4. u.done => t.done \/ o.done
    BY <2>2 DEF SendTest
  <2>5. u.pc = t.pc /\ u.multisend = t.multisend
    BY <2>2 DEF SendTest
  <2> QED BY <1>2, <2>3, <2>4, <2>5
<1>5. CASE u.pc = "send" /\ u.multisend = Multisend /\ t.pc = "select" /\ u.done = t.done
           /\ u.state = t.state
  BY <1>1, <1>2, <1>5 DEF Multisend
<1>6. CASE SendRound /\ u.state = t.state /\ u.done = t.done
           /\ IF t.active /\ t.multisend > 1 THEN u.pc = t.pc /\ u.multisend = t.multisend - 1
              ELSE u.pc = "timers"
  <2>1. t.pc = "send"
    BY <1>6 DEF SendRound, Running
  <2> QED BY <1>1, <1>2, <1>6, <2>1
<1>7. CASE SkipFacts /\ u.state = t.state /\ u.pc = t.pc /\ u.multisend = t.multisend
           /\ u.done = t.done
  <2>1. t.pc = "send"
    BY <1>7 DEF SkipFacts
  <2> QED BY <1>2, <1>7, <2>1
<1> QED BY <1>2, <1>3, <1>4, <1>5, <1>6, <1>7 DEF SenderStep

\* A stream that is not ahead of what it may send.
LEMMA ThrottleKept ==
  ASSUME conf \in Configs, NEW i \in Stream, NEW a \in StreamRec, NEW b \in StreamRec, NEW t, NEW u,
         NEW bound \in Nat, NEW bound2 \in Nat, bound <= bound2, ThrottleOK(b, t, i, bound),
         a.bytes_sent = b.bytes_sent, MayRun(u) => MayRun(t),
         a.green_light /\ MayRun(u) => b.green_light \/ b.bytes_sent <= bound2,
         MayRun(u) => /\ Slack(u, i) \in Nat /\ Slack(t, i) \in Nat
                      /\ Slack(t, i) <= Slack(u, i) \/ (a.green_light => b.bytes_sent <= bound2)
  PROVE  ThrottleOK(a, u, i, bound2)
<1> DEFINE K == Block * Max({conf.burst, 1})
<1>1. Block \in Nat /\ b.bytes_sent \in Nat /\ K \in Nat
  <2>1. Block \in Nat /\ conf.burst \in Nat
    BY ConfLemma
  <2>2. 1 \in Nat
    OBVIOUS
  <2>3. Max({conf.burst, 1}) \in Nat
    BY <2>1, <2>2, MaxLemma
  <2>4. K \in Nat
    BY <2>1, <2>3, MulLemma
  <2> QED BY <2>1, <2>4, StreamFields
<1>2. b.bytes_sent <= bound + K
  BY DEF ThrottleOK
<1> HIDE DEF K
<1>3. a.bytes_sent <= bound2 + K
  BY <1>1, <1>2
<1>4. ASSUME a.green_light, MayRun(u) PROVE a.bytes_sent <= bound2 + Block * Slack(u, i)
  <2> DEFINE x == Slack(t, i)
             y == Slack(u, i)
             X == Block * x
             Y == Block * y
  <2>1. x \in Nat /\ y \in Nat
    BY <1>4
  <2>2. X \in Nat /\ Y \in Nat /\ (x <= y => X <= Y)
    <3> HIDE DEF x, y
    <3> QED BY <1>1, <2>1, MulLemma
  <2>3. b.bytes_sent <= bound2 \/ (b.bytes_sent <= bound + X /\ x <= y)
    BY <1>4 DEF ThrottleOK
  <2> HIDE DEF X, Y, x, y
  <2>4. b.bytes_sent <= bound2 + Y
    BY <1>1, <2>2, <2>3
  <2> QED BY <2>4 DEF Y, y
<1> QED BY <1>3, <1>4 DEF ThrottleOK, K

LEMMA BoundLemma ==
  ASSUME TypeInv, NEW i \in Stream
  PROVE  /\ Bound(i) \in Nat /\ ghost.early[i] \in Nat /\ conf.rate * now \in Nat
         /\ ghost.early[i] <= Bound(i) /\ conf.rate * now <= Bound(i)
<1>1. ghost.early[i] \in Nat /\ conf.rate \in Nat /\ now \in Nat
  BY ConfLemma, DataAssumption DEF TypeInv, GhostRec
<1>2. conf.rate * now \in Nat
  BY <1>1, MulLemma
<1> DEFINE p == conf.rate * now
           e == ghost.early[i]
<1>3. p \in Nat /\ e \in Nat
  BY <1>1, <1>2
<1> HIDE DEF p, e
<1>4. Max({e, p}) \in Nat /\ e <= Max({e, p}) /\ p <= Max({e, p})
  BY <1>3, MaxLemma
<1> QED BY <1>3, <1>4 DEF Bound, p, e

LEMMA SlackLemma ==
  ASSUME conf \in Configs, NEW t \in TestRec, NEW i \in Stream, MayRun(t),
         t.pc = "send" /\ conf.burst # 0 => t.multisend \in 1..conf.burst
  PROVE  /\ Slack(t, i) \in Nat /\ Slack(t, i) <= conf.burst
         /\ i >= t.next => Slack(t, i) + 1 <= Max({conf.burst, 1}) /\ Slack(t, i) + 1 \in Nat
<1>1. conf.burst \in Nat /\ 1 \in Nat /\ t.next \in Nat /\ i \in Nat
  BY ConfLemma DEF TestRec
<1>2. conf.burst <= Max({conf.burst, 1}) /\ 1 <= Max({conf.burst, 1}) /\ Max({conf.burst, 1}) \in Nat
  BY <1>1, MaxLemma
<1> DEFINE M == Max({conf.burst, 1})
<1> HIDE DEF M
<1>3. conf.burst <= M /\ 1 <= M /\ M \in Nat
  BY <1>2 DEF M
<1>4. CASE conf.burst = 0 \/ t.pc # "send"
  <2>1. Slack(t, i) = 0
    BY <1>4 DEF Slack
  <2>2. Slack(t, i) \in Nat /\ Slack(t, i) <= conf.burst /\ Slack(t, i) + 1 <= M
        /\ Slack(t, i) + 1 \in Nat
    BY <1>1, <1>3, <2>1
  <2> QED BY <2>2 DEF M
<1>5. CASE ~(conf.burst = 0 \/ t.pc # "send")
  <2>1. t.multisend \in 1..conf.burst
    BY <1>5
  <2>2. Slack(t, i) = IF i < t.next THEN conf.burst - t.multisend + 1 ELSE conf.burst - t.multisend
    BY <1>5 DEF Slack
  <2>3. Slack(t, i) \in Nat /\ Slack(t, i) <= conf.burst
        /\ (i >= t.next => Slack(t, i) + 1 <= M /\ Slack(t, i) + 1 \in Nat)
    BY <1>1, <1>3, <2>1, <2>2
  <2> QED BY <2>3 DEF M
<1> QED BY <1>4, <1>5

LEMMA ThrottleBelow ==
  ASSUME conf \in Configs, NEW a \in StreamRec, NEW t, NEW i, NEW bound \in Nat,
         a.bytes_sent <= bound, MayRun(t) => Slack(t, i) \in Nat
  PROVE  ThrottleOK(a, t, i, bound)
<1>1. Block \in Nat /\ conf.burst \in Nat /\ 1 \in Nat /\ a.bytes_sent \in Nat
  BY ConfLemma, StreamFields
<1>2. Max({conf.burst, 1}) \in Nat
  BY <1>1, MaxLemma
<1>3. Block * Max({conf.burst, 1}) \in Nat
  BY <1>1, <1>2, MulLemma
<1>4. MayRun(t) => Block * Slack(t, i) \in Nat
  BY <1>1, MulLemma
<1> DEFINE X == Block * Max({conf.burst, 1})
           Y == Block * Slack(t, i)
<1> HIDE DEF X, Y
<1>5. a.bytes_sent <= bound + X /\ (MayRun(t) => a.bytes_sent <= bound + Y)
  BY <1>1, <1>3, <1>4 DEF X, Y
<1> QED BY <1>5 DEF ThrottleOK, X, Y

\* Only the clock moves the bound.
LEMMA ClockLemma ==
  ASSUME TypeInv, [Next]_vars, ~Tick
  PROVE  now' = now /\ ghost'.early = ghost.early
<1>1. now' = now
  BY DEF Next, Send, SendBegin, SendOne, SendRound, Recv, TestTimer, ServerEnds, ExchangeResults,
         TestFails, NothingReady, Timer, StatsTimer, OmitTimer, EndOfTurn, SendTimer, vars
<1>2. ghost'.early = ghost.early
  <2>1. \/ QuietStep \/ SendStep \/ GreenStep \/ RecvStep \/ ExchangeStep
        \/ \E side \in Side : CountStep(side) \/ ResetStep(side)
    BY StepLemma
  <2>2. CASE RecvStep
    BY <2>2 DEF RecvStep, RecvFacts
  <2> QED BY <2>1, <2>2 DEF QuietStep, SendStep, GreenStep, ExchangeStep, CountStep, ResetStep
<1> QED BY <1>1, <1>2

\* A burst ends with a check of every stream.
LEMMA RoundChecks ==
  ASSUME TypeInv, SendRound, NEW i \in Stream
  PROVE  LET t == test[conf.sender]
             a == stream'[conf.sender][i]
             b == stream[conf.sender][i]
         IN  IF (t.active /\ t.multisend > 1) \/ ThrottleEachSend THEN a = b
             ELSE a \in iperf_check_throttle(b, t.done)
<1> DEFINE side == conf.sender
           t == test[side]
           more == t.active /\ t.multisend > 1
<1>1. side \in Side /\ stream \in Streams
  BY ConfLemma DEF TypeInv, Streams
<1>2. CASE more \/ ThrottleEachSend
  BY <1>2 DEF SendRound
<1>3. CASE ~(more \/ ThrottleEachSend)
  <2>1. PICK g \in [Stream -> BOOLEAN] :
          LET checked(k) == [stream[side][k] EXCEPT !.green_light = g[k]]
          IN  /\ \A k \in Stream : checked(k) \in iperf_check_throttle(stream[side][k], t.done)
              /\ stream' = [stream EXCEPT ![side] = [k \in Stream |-> checked(k)]]
    BY <1>3 DEF SendRound
  <2> DEFINE new == [k \in Stream |-> [stream[side][k] EXCEPT !.green_light = g[k]]]
  <2>2. /\ \A k \in Stream : new[k] \in iperf_check_throttle(stream[side][k], t.done)
        /\ stream' = [stream EXCEPT ![side] = new]
    BY <2>1
  <2> HIDE DEF new
  <2>3. stream'[side] = new
    BY <1>1, <2>2 DEF Streams
  <2> QED BY <1>3, <2>2, <2>3
<1> QED BY <1>2, <1>3

LEMMA ThrottleNext ==
  ASSUME TypeInv, DoneInv, ThrottleInv, [Next]_vars
  PROVE  ThrottleInv'
<1> DEFINE t == test[conf.sender]
           u == test'[conf.sender]
<1>1. conf' = conf /\ TypeInv' /\ DoneInv' /\ TestOK
  BY StepLemma, TypeNext, DoneNext, TestLemma
<1>2. /\ Stream' = Stream /\ Receiver' = Receiver /\ Side' = Side
      /\ conf.sender \in Side /\ Receiver \in Side /\ Receiver # conf.sender
      /\ Block \in Nat /\ conf.burst \in Nat /\ conf \in Configs /\ Stream \subseteq Nat
      /\ conf.streams \in Nat
  BY <1>1, ConfLemma DEF Stream, Receiver, Other, Side, TypeInv
<1> SUFFICES ASSUME conf.rate # 0, now' > 0, NEW i \in Stream
             PROVE  ThrottleOK(stream'[conf.sender][i], u, i, Bound(i)')
  <2>1. \A i \in Stream : ThrottleOK(stream'[conf.sender][i], u, i, Bound(i)')
                            => ThrottleOK(stream[conf.sender][i], test[conf.sender], i, Bound(i))'
    BY <1>1 DEF ThrottleOK, MayRun, Slack
  <2> QED BY <1>1, <1>2, <2>1 DEF ThrottleInv
<1> DEFINE a == stream'[conf.sender][i]
           b == stream[conf.sender][i]
<1>3. /\ a \in StreamRec /\ b \in StreamRec /\ t \in TestRec /\ u \in TestRec
      /\ b.bytes_sent \in Nat /\ a.bytes_sent \in Nat /\ i \in Nat
  <2>1. a \in StreamRec /\ b \in StreamRec
    <3>1. stream' \in [Side' -> [Stream' -> StreamRec']] /\ StreamRec' = StreamRec
      BY <1>1 DEF TypeInv, StreamRec, Interval
    <3> QED BY <1>2, <3>1 DEF TypeInv
  <2>2. t \in TestRec /\ u \in TestRec
    BY <1>1, <1>2, TestFields DEF TestOK
  <2> QED BY <1>2, <2>1, <2>2, StreamFields
<1>4. /\ Bound(i) \in Nat /\ Bound(i)' \in Nat /\ ghost.early[i] <= Bound(i)
      /\ conf.rate * now <= Bound(i) /\ conf.rate * now \in Nat
      /\ ghost'.early[i] <= Bound(i)' /\ now \in Nat
  <2>1. /\ Bound(i) \in Nat /\ ghost.early[i] <= Bound(i) /\ conf.rate * now <= Bound(i)
        /\ conf.rate * now \in Nat
    BY BoundLemma
  <2>2. ghost'.early[i] \in Nat /\ conf.rate \in Nat /\ now' \in Nat /\ now \in Nat
    <3>1. ghost' \in GhostRec
      BY <1>1, <1>2 DEF TypeInv, GhostRec
    <3> QED BY <1>1, <3>1, ConfLemma, DataAssumption DEF TypeInv, GhostRec
  <2>3. conf.rate * now' \in Nat
    BY <2>2, MulLemma
  <2>4. Bound(i)' = Max({ghost'.early[i], conf.rate * now'})
    BY <1>1 DEF Bound
  <2>5. Max({ghost'.early[i], conf.rate * now'}) \in Nat
        /\ ghost'.early[i] <= Max({ghost'.early[i], conf.rate * now'})
    BY <2>2, <2>3, MaxLemma
  <2> QED BY <2>1, <2>2, <2>4, <2>5
<1>5. /\ MayRun(t) => Slack(t, i) \in Nat
      /\ MayRun(u) => Slack(u, i) \in Nat
      /\ MayRun(t) /\ i >= t.next =>
           Slack(t, i) + 1 <= Max({conf.burst, 1}) /\ Slack(t, i) + 1 \in Nat
  <2>1. MayRun(t) => (t.pc = "send" /\ conf.burst # 0 => t.multisend \in 1..conf.burst)
    BY DEF DoneInv, MayRun
  <2>2. MayRun(u) => (u.pc = "send" /\ conf.burst # 0 => u.multisend \in 1..conf.burst)
    BY <1>1 DEF DoneInv, MayRun
  <2> QED BY <1>2, <1>3, <2>1, <2>2, SlackLemma
<1>5a. ASSUME NEW bound \in Nat, bound <= Bound(i)', ThrottleOK(b, t, i, bound),
             a.bytes_sent = b.bytes_sent, MayRun(u) => MayRun(t),
             a.green_light /\ MayRun(u) => b.green_light \/ b.bytes_sent <= Bound(i)',
             MayRun(u) => Slack(t, i) <= Slack(u, i) \/ (a.green_light => b.bytes_sent <= Bound(i)')
      PROVE  ThrottleOK(a, u, i, Bound(i)')
  <2> DEFINE bound2 == Bound(i)'
             aa == a
             bb == b
             tt == t
             uu == u
  <2>1. /\ bound2 \in Nat /\ bound <= bound2 /\ ThrottleOK(bb, tt, i, bound)
        /\ aa.bytes_sent = bb.bytes_sent /\ (MayRun(uu) => MayRun(tt))
        /\ (aa.green_light /\ MayRun(uu) => bb.green_light \/ bb.bytes_sent <= bound2)
        /\ MayRun(uu) => /\ Slack(uu, i) \in Nat /\ Slack(tt, i) \in Nat
                         /\ Slack(tt, i) <= Slack(uu, i) \/ (aa.green_light => bb.bytes_sent <= bound2)
        /\ aa \in StreamRec /\ bb \in StreamRec /\ conf \in Configs
    BY <1>2, <1>3, <1>4, <1>5, <1>5a
  <2> HIDE DEF bound2, aa, bb, tt, uu
  <2>2. ThrottleOK(aa, uu, i, bound2)
    BY <1>5a, <2>1, ThrottleKept
  <2> QED BY <2>2 DEF bound2, aa, uu
<1>6. CASE Tick
  <2>1. now' = now + 1 /\ stream' = stream /\ test' = test
    BY <1>6 DEF Tick
  <2>2. CASE now = 0
    <3>1. ghost' = [ghost EXCEPT !.early = [k \in Stream |-> stream[conf.sender][k].bytes_sent]]
      BY <1>6, <2>2 DEF Tick
    <3>2. ghost \in GhostRec
      BY DEF TypeInv
    <3>3. ghost'.early = [k \in Stream |-> stream[conf.sender][k].bytes_sent]
      BY <3>1, <3>2 DEF GhostRec
    <3>4. a.bytes_sent = ghost'.early[i]
      BY <2>1, <3>3
    <3>5. a.bytes_sent <= Bound(i)'
      BY <1>4, <3>4
    <3> QED BY <1>2, <1>3, <1>4, <1>5, <3>5, ThrottleBelow
  <2>3. CASE now # 0
    <3>1. ghost' = ghost /\ now > 0
      BY <1>4, <1>6, <2>3 DEF Tick
    <3>2. ThrottleOK(b, t, i, Bound(i))
      BY <3>1 DEF ThrottleInv
    <3>3. Bound(i) <= Bound(i)'
      <4> DEFINE p == conf.rate * now
                 q == conf.rate * (now + 1)
                 e == ghost.early[i]
      <4>1. p <= q /\ q \in Nat /\ p \in Nat /\ e \in Nat
        <5>1. e \in Nat
          BY BoundLemma
        <5>2. conf.rate \in Nat /\ now \in Nat /\ now + 1 \in Nat /\ now <= now + 1 /\ now + 1 <= now + 1
          BY <1>2, <1>4, ConfLemma
        <5> DEFINE r == conf.rate
                   x == now
                   y == now + 1
        <5>3. r \in Nat /\ x \in Nat /\ y \in Nat /\ x <= y /\ y <= y
          BY <5>2
        <5>4. p = r * x /\ q = r * y
          OBVIOUS
        <5> HIDE DEF r, x, y, p, q
        <5>5. r * x \in Nat /\ r * x <= r * y /\ r * y \in Nat
          BY <5>3, MulLemma
        <5> QED BY <5>1, <5>4, <5>5
      <4>2. Bound(i) = Max({e, p}) /\ Bound(i)' = Max({e, q})
        BY <1>1, <2>1, <3>1 DEF Bound
      <4> HIDE DEF p, q, e
      <4>3. /\ Max({e, p}) = e \/ Max({e, p}) = p
            /\ e <= Max({e, q}) /\ q <= Max({e, q}) /\ Max({e, q}) \in Nat
        BY <4>1, MaxLemma
      <4> QED BY <4>1, <4>2, <4>3
    <3>4. a = b /\ u = t
      BY <2>1
    <3>5. MayRun(u) => Slack(t, i) <= Slack(u, i)
      BY <1>5, <3>4
    <3> QED BY <1>4, <1>5a, <3>2, <3>3, <3>4, <3>5
  <2> QED BY <2>2, <2>3
<1>7. CASE ~Tick
  <2>1. now' = now /\ ghost'.early = ghost.early
    BY <1>7, ClockLemma
  <2>2. Bound(i)' = Bound(i)
    BY <1>1, <2>1 DEF Bound
  <2>3. ThrottleOK(b, t, i, Bound(i)) /\ now # 0
    BY <1>4, <2>1 DEF ThrottleInv
  <2>4. SenderStep
    BY SenderStepLemma
  \* Steps that leave what the stream has sent and its light as they are.
  <2>5. ASSUME a.bytes_sent = b.bytes_sent, a.green_light = b.green_light,
               MayRun(u) => MayRun(t) /\ Slack(t, i) <= Slack(u, i)
        PROVE  ThrottleOK(a, u, i, Bound(i)')
    BY <1>4, <1>5a, <2>2, <2>3, <2>5
  <2>6. CASE SendStep
    <3>1. PICK k, o, x : SendFacts(k, o, x)
      BY <2>6 DEF SendStep
    <3> DEFINE r == IF o.r = NET_SOFTERROR THEN 0 ELSE o.r
    <3>2. SendTest(k, o) /\ SendEffect(k, x, r)
      BY <3>1, SendTestLemma, SendEffectLemma
    <3>3. /\ u.state = t.state /\ u.pc = t.pc /\ u.multisend = t.multisend
          /\ u.done <=> t.done \/ o.done
          /\ u.next = IF o.r = NET_SOFTERROR THEN conf.streams + 1 ELSE k + 1
      BY <3>2 DEF SendTest
    <3>4. /\ k \in Stream /\ k >= t.next /\ t.pc = "send" /\ t.state = "TEST_RUNNING"
          /\ stream[conf.sender][k].green_light /\ FileOK(k, stream[conf.sender][k], t.done, o)
          /\ IF ThrottleEachSend /\ o.r # NET_SOFTERROR
             THEN x \in iperf_check_throttle(o.sp, t.done \/ o.done) ELSE x = o.sp
          /\ SameButGreen(x, o.sp) /\ SentOK(k, stream[conf.sender][k], o.sp, o.r)
      BY <3>1 DEF SendFacts
    <3>5. /\ stream'[conf.sender][k] = x /\ r \in 0..Block /\ r \in Nat
          /\ \A j \in Stream : j # k => stream'[conf.sender][j] = stream[conf.sender][j]
          /\ x.bytes_sent = stream[conf.sender][k].bytes_sent + r
      BY <3>2 DEF SendEffect
    <3>6. MayRun(u) => MayRun(t) /\ ~o.done
      BY <3>3 DEF MayRun
    <3>7. MayRun(u) => Slack(t, i) <= Slack(u, i)
      <4>1. t.next \in Nat /\ k \in Nat /\ u.next > k /\ k <= conf.streams /\ t.multisend \in Nat
        BY <1>2, <1>3, <3>3, <3>4 DEF TestRec, Stream
      <4>2. i < t.next => i < u.next
        <5>1. u.next \in Nat
          BY <1>3 DEF TestRec
        <5> QED BY <1>3, <3>4, <4>1, <5>1
      <4> QED BY <1>2, <3>3, <4>1, <4>2 DEF Slack
    <3>8. CASE i # k
      BY <2>2, <2>5, <3>5, <3>6, <3>7, <3>8
    <3>9. CASE i = k /\ (r = 0 \/ t.done)
      <4>1. r = 0
        <5>1. t.done => conf.file # 0
          BY <3>4 DEF DoneInv
        <5>2. t.done => o.r = 0
          BY <3>4, <5>1 DEF FileOK
        <5> QED BY <3>9, <5>2
      <4>2. a.bytes_sent = b.bytes_sent /\ b.green_light
        BY <1>3, <3>4, <3>5, <3>9, <4>1
      <4> QED BY <1>4, <1>5a, <2>2, <2>3, <3>6, <3>7, <4>2
    <3>10. CASE i = k /\ r # 0 /\ ~t.done
      <4>1. a = x /\ b.green_light /\ MayRun(t) /\ a.bytes_sent = b.bytes_sent + r
            /\ o.r # NET_SOFTERROR
        BY <3>4, <3>5, <3>10 DEF MayRun
      <4> DEFINE S == Slack(t, i)
                 M == Max({conf.burst, 1})
                 X == Block * S
                 X1 == Block * (S + 1)
                 Y == Block * M
      <4>2. /\ S \in Nat /\ S + 1 <= M /\ S + 1 \in Nat /\ M \in Nat
            /\ b.bytes_sent <= Bound(i) + X
        <5>1. 1 \in Nat
          OBVIOUS
        <5>2. M \in Nat
          BY <1>2, <5>1, MaxLemma
        <5> QED BY <1>5, <2>3, <3>4, <3>10, <4>1, <5>2 DEF ThrottleOK
      <4>3. X \in Nat /\ X1 = X + Block /\ X1 <= Y /\ X1 \in Nat /\ Y \in Nat
        <5> HIDE DEF S, M
        <5> QED BY <1>2, <4>2, MulLemma
      <4> HIDE DEF S, M, X, X1, Y
      <4>4. a.bytes_sent <= Bound(i) + X1 /\ a.bytes_sent <= Bound(i) + Y
        BY <1>2, <1>3, <1>4, <3>5, <4>1, <4>2, <4>3
      <4>5. ASSUME a.green_light, MayRun(u) PROVE a.bytes_sent <= Bound(i) + Block * Slack(u, i)
        <5>1. CASE conf.burst = 0
          <6>1. ThrottleEachSend
            BY <5>1 DEF ThrottleEachSend
          <6>2. x \in iperf_check_throttle(o.sp, t.done \/ o.done) /\ (t.done \/ o.done) \in BOOLEAN
                /\ o.sp \in StreamRec
            BY <3>4, <4>1, <6>1 DEF SentOK
          <6>3. o.sp.bytes_sent < conf.rate * now
            <7>1. ~(t.done \/ o.done)
              BY <3>6, <4>1, <4>5 DEF MayRun
            <7> QED BY <2>3, <4>1, <4>5, <6>2, <7>1, ThrottleLemma
          <6>4. x.bytes_sent = o.sp.bytes_sent
            BY <3>4, <6>2, GreenFields
          <6>5. Slack(u, i) = 0 /\ Block * 0 = 0
            BY <1>2, <5>1 DEF Slack
          <6>6. a.bytes_sent <= Bound(i) + 0
            BY <1>3, <1>4, <4>1, <6>3, <6>4
          <6> QED BY <6>5, <6>6
        <5>2. CASE conf.burst # 0
          <6>1. Slack(u, i) = S + 1
            <7>1. t.next \in Nat /\ k \in Nat /\ u.next > k /\ k <= conf.streams /\ t.multisend \in Nat
              BY <1>2, <1>3, <3>3, <3>4 DEF TestRec, Stream
            <7>2. ~(i < t.next) /\ i < u.next /\ u.pc = "send" /\ t.pc = "send"
              BY <1>3, <3>3, <3>4, <3>10, <7>1
            <7> QED BY <1>2, <3>3, <5>2, <7>1, <7>2 DEF Slack, S
          <6> QED BY <4>4, <6>1 DEF X1
        <5> QED BY <5>1, <5>2
      <4> QED BY <2>2, <4>4, <4>5 DEF ThrottleOK, Y, M
    <3> QED BY <3>8, <3>9, <3>10
  <2>7. CASE SendRound
    <3> DEFINE more == t.active /\ t.multisend > 1
    <3>1. /\ u.state = t.state /\ u.done = t.done /\ u.next = 1
          /\ IF more THEN u.pc = t.pc /\ u.multisend = t.multisend - 1 ELSE u.pc = "timers"
      <4>1. u = IF more THEN [t EXCEPT !.multisend = t.multisend - 1, !.next = 1, !.active = FALSE]
                ELSE [t EXCEPT !.pc = "timers", !.multisend = 0, !.ready = {}, !.next = 1,
                               !.active = FALSE]
        BY <1>2, <2>7 DEF SendRound, TypeInv
      <4> QED BY <1>3, <4>1 DEF TestRec
    <3>2. IF more \/ ThrottleEachSend THEN a = b ELSE a \in iperf_check_throttle(b, t.done)
      BY <2>7, RoundChecks
    <3>3. MayRun(u) => MayRun(t)
      BY <3>1 DEF MayRun
    <3>4. CASE more \/ ThrottleEachSend
      <4>1. MayRun(u) => Slack(t, i) <= Slack(u, i)
        <5>1. CASE conf.burst = 0
          BY <5>1 DEF Slack
        <5>2. CASE conf.burst # 0
          <6>1. more /\ t.pc = "send" /\ t.multisend \in Nat
            BY <1>3, <2>7, <3>4, <5>2 DEF ThrottleEachSend, SendRound, Running, TestRec
          <6>2. u.pc = "send" /\ u.multisend = t.multisend - 1 /\ u.next = 1
            BY <3>1, <6>1
          <6>3. Slack(u, i) = conf.burst - (t.multisend - 1)
            <7>1. i >= 1
              BY DEF Stream
            <7> QED BY <1>3, <5>2, <6>2, <7>1 DEF Slack
          <6>4. Slack(t, i) <= conf.burst - t.multisend + 1
            BY <1>2, <5>2, <6>1 DEF Slack
          <6> QED BY <1>2, <6>1, <6>3, <6>4
        <5> QED BY <5>1, <5>2
      <4>2. a = b
        BY <3>2, <3>4
      <4> QED BY <2>2, <2>5, <3>3, <4>1, <4>2
    <3>5. CASE ~(more \/ ThrottleEachSend)
      <4>1. a \in iperf_check_throttle(b, t.done) /\ t.done \in BOOLEAN
        BY <1>3, <3>2, <3>5 DEF TestRec
      <4>2. /\ SameButGreen(a, b)
            /\ ~t.done /\ a.green_light => b.bytes_sent < conf.rate * now
        BY <1>3, <2>3, <4>1, ThrottleLemma
      <4>3. a.bytes_sent = b.bytes_sent
        BY <1>3, <4>2, GreenFields
      <4>4. a.green_light /\ MayRun(u) => b.bytes_sent <= Bound(i)
        BY <1>3, <1>4, <3>3, <4>2 DEF MayRun
      <4> QED BY <1>4, <1>5a, <2>2, <2>3, <3>3, <4>3, <4>4
    <3> QED BY <3>4, <3>5
  <2>8. CASE \E k \in Stream : SendTimer(k)
    <3>1. u = t /\ GreenFacts
      BY <2>8, SendTimerLemma DEF SendTimer
    <3>2. a = b \/ a \in iperf_check_throttle(b, t.done)
      BY <3>1 DEF GreenFacts
    <3>3. CASE a = b
      BY <1>5, <2>2, <2>5, <3>1, <3>3
    <3>4. CASE a \in iperf_check_throttle(b, t.done)
      <4>1. t.done \in BOOLEAN
        BY <1>3 DEF TestRec
      <4>2. /\ SameButGreen(a, b)
            /\ ~t.done /\ a.green_light => b.bytes_sent < conf.rate * now
        BY <1>3, <2>3, <3>4, <4>1, ThrottleLemma
      <4>3. a.bytes_sent = b.bytes_sent
        BY <1>3, <4>2, GreenFields
      <4>4. a.green_light /\ MayRun(u) => b.bytes_sent <= Bound(i)
        BY <1>3, <1>4, <3>1, <4>2 DEF MayRun
      <4> QED BY <1>4, <1>5a, <2>2, <2>3, <3>1, <4>3, <4>4
    <3> QED BY <3>2, <3>3, <3>4
  <2>9. CASE ~SendStep /\ ~SendRound /\ ~(\E k \in Stream : SendTimer(k))
    <3>1. a.bytes_sent = b.bytes_sent /\ a.green_light = b.green_light
      <4>1. \/ QuietStep \/ GreenStep \/ RecvStep \/ ExchangeStep
            \/ \E side \in Side : CountStep(side) \/ ResetStep(side)
        BY <2>9, StepLemma
      <4>2. CASE QuietStep
        BY <4>2 DEF QuietStep
      <4>3. CASE RecvStep
        BY <4>3 DEF RecvStep, RecvFacts
      <4>4. CASE ExchangeStep
        <5>1. SenderTold(a, b, stream[Receiver][i])
          BY <4>4 DEF ExchangeStep, ExchangeFacts
        <5> QED BY <5>1 DEF SenderTold
      <4>5. ASSUME NEW side \in Side, CountStep(side) \/ ResetStep(side)
            PROVE  a.bytes_sent = b.bytes_sent /\ a.green_light = b.green_light
        <5>1. CASE side = conf.sender
          <6>1. IsCounted(side, a, b) \/ IsReset(a, b)
            BY <4>5, <5>1 DEF CountStep, ResetStep, CountFacts, ResetFacts
          <6> QED BY <6>1 DEF IsCounted, IsReset
        <5>2. CASE side # conf.sender
          <6>1. conf.sender = Other(side)
            BY <1>2, <5>2, SideLemma
          <6>2. stream'[conf.sender] = stream[conf.sender]
            BY <4>5, <6>1 DEF CountStep, ResetStep, CountFacts, ResetFacts
          <6> QED BY <6>2
        <5> QED BY <5>1, <5>2
      <4>6. ~GreenStep
        BY <2>9 DEF GreenStep
      <4> QED BY <4>1, <4>2, <4>3, <4>4, <4>5, <4>6
    <3>2. MayRun(u) => MayRun(t)
      BY <1>1, <1>2, <2>4, <2>9 DEF SenderStep, MayRun, TestOK
    <3>3. MayRun(u) => Slack(t, i) <= Slack(u, i)
      <4> SUFFICES ASSUME MayRun(u) PROVE Slack(t, i) <= Slack(u, i)
        OBVIOUS
      <4>1. Slack(t, i) \in Nat /\ Slack(u, i) \in Nat
        BY <1>5, <3>2
      <4>2. CASE u = t \/ t.pc # "send"
        BY <4>1, <4>2 DEF Slack
      <4>3. CASE SkipFacts /\ u.pc = t.pc /\ u.multisend = t.multisend /\ u.next = conf.streams + 1
        <5>1. i < u.next /\ t.multisend \in Nat
          BY <1>2, <1>3, <4>3 DEF Stream, TestRec
        <5> QED BY <1>2, <4>3, <5>1 DEF Slack
      <4> QED BY <2>4, <2>9, <4>2, <4>3 DEF SenderStep, MayRun
    <3> QED BY <2>2, <2>5, <3>1, <3>2, <3>3
  <2> QED BY <2>6, <2>7, <2>8, <2>9
<1> QED BY <1>6, <1>7

\* A throttled stream is never ahead of its rate by more than one burst, or one
\* block if every send is checked (iperf_check_throttle).
THEOREM ThrottleTheorem == Spec => []ThrottleHolds
<1> DEFINE I == TypeInv /\ DoneInv /\ ThrottleInv
<1>1. Init => I
  <2>1. Init => ThrottleInv
    BY DEF Init, ThrottleInv
  <2> QED BY <2>1, TypeInit, DoneInit
<1>2. I /\ [Next]_vars => I'
  BY TypeNext, DoneNext, ThrottleNext
<1>3. I => ThrottleHolds
  BY DEF ThrottleInv, ThrottleOK, Bound, ThrottleHolds
<1> QED BY <1>1, <1>2, <1>3, PTL DEF Spec


-----------------------------------------------------------------------------
(* What a side has sent *)

\* The streams of the sender count what it sends, and only the omit timer takes
\* something off.
LEMMA SenderStreams ==
  ASSUME TypeInv, [Next]_vars, ~SendStep, ~OmitTimer(conf.sender), NEW i \in Stream
  PROVE  LET a == stream'[conf.sender][i]
             b == stream[conf.sender][i]
         IN  /\ a.bytes_sent = b.bytes_sent /\ a.bytes_sent_omit = b.bytes_sent_omit
             /\ a.diskfile_left = b.diskfile_left /\ net'[i].file = net[i].file
<1> DEFINE a == stream'[conf.sender][i]
           b == stream[conf.sender][i]
           Goal == /\ a.bytes_sent = b.bytes_sent /\ a.bytes_sent_omit = b.bytes_sent_omit
                   /\ a.diskfile_left = b.diskfile_left /\ net'[i].file = net[i].file
<1>1. \/ QuietStep \/ GreenStep \/ RecvStep \/ ExchangeStep
      \/ \E side \in Side : CountStep(side) \/ ResetStep(side)
  BY StepLemma
<1>2. conf.sender \in Side /\ b \in StreamRec
  BY ConfLemma DEF TypeInv
<1>3. CASE QuietStep
  BY <1>3 DEF QuietStep
<1>4. CASE GreenStep
  <2>1. SameButGreen(a, b) /\ net' = net
    BY <1>2, <1>4 DEF GreenStep, GreenFacts
  <2> QED BY <1>2, <2>1, GreenFields
<1>5. CASE RecvStep
  BY <1>5 DEF RecvStep, RecvFacts
<1>6. CASE ExchangeStep
  <2>1. SenderTold(a, b, stream[Receiver][i]) /\ net' = net
    BY <1>6 DEF ExchangeStep, ExchangeFacts
  <2> QED BY <2>1 DEF SenderTold
<1>7. ASSUME NEW side \in Side, CountStep(side) \/ ResetStep(side) PROVE Goal
  <2>1. CASE side = conf.sender
    <3>1. IsCounted(side, a, b) /\ net' = net
      BY <1>7, <2>1 DEF CountStep, ResetStep, CountFacts
    <3> QED BY <3>1 DEF IsCounted
  <2>2. CASE side # conf.sender
    <3>1. conf.sender = Other(side)
      BY <1>2, <2>2, SideLemma
    <3>2. stream'[conf.sender] = stream[conf.sender] /\ net' = net
      BY <1>7, <3>1 DEF CountStep, ResetStep, CountFacts, ResetFacts
    <3> QED BY <3>2
  <2> QED BY <2>1, <2>2
<1> QED BY <1>1, <1>3, <1>4, <1>5, <1>6, <1>7

\* What the omit timer of the sender does to a stream of it.
LEMMA SenderOmits ==
  ASSUME TypeInv, OmitTimer(conf.sender), NEW i \in Stream
  PROVE  LET a == stream'[conf.sender][i]
             b == stream[conf.sender][i]
         IN  /\ a.bytes_sent = b.bytes_sent /\ a.bytes_sent_omit = b.bytes_sent
             /\ a.diskfile_left = b.diskfile_left /\ net' = net
<1>1. conf.sender \in Side
  BY ConfLemma DEF TypeInv
<1>2. ResetFacts(conf.sender)
  BY <1>1, OmitLemma
<1>3. IsReset(stream'[conf.sender][i], stream[conf.sender][i]) /\ net' = net
  BY <1>2 DEF ResetFacts, OmitTimer
<1> QED BY <1>3 DEF IsReset

\* Stream is a finite set of natural numbers.
LEMMA StreamFinite == ASSUME conf \in Configs PROVE IsFiniteSet(Stream) /\ Stream \subseteq Nat
<1>1. conf.streams \in Nat /\ 1 \in Int
  BY ConfLemma
<1> QED BY <1>1, FS_Interval DEF Stream

SentInv ==
  /\ test[conf.sender].bytes_sent = SumFunction([i \in Stream |-> SumSent(conf.sender, i)])
  /\ test[conf.sender].bytes_received = 0 /\ test[conf.sender].blocks_received = 0

LEMMA SumSentType ==
  ASSUME TypeInv, NEW i \in Stream
  PROVE  /\ SumSent(conf.sender, i) \in Nat
         /\ SumSent(conf.sender, i) <= stream[conf.sender][i].bytes_sent
<1>1. conf.sender \in Side
  BY ConfLemma DEF TypeInv
<1>2. stream[conf.sender][i] \in StreamRec /\ SizesOK(stream[conf.sender][i])
  BY <1>1 DEF TypeInv
<1> QED BY <1>2, StreamFields DEF SumSent, SizesOK

LEMMA SentInit == ASSUME Init PROVE SentInv
<1>1. TypeInv /\ conf.sender \in Side /\ conf \in Configs
  BY ConfLemma, TypeInit DEF Init
<1>2. test[conf.sender] = NewTest /\ stream[conf.sender] = [i \in Stream |-> iperf_new_stream]
  BY <1>1 DEF Init
<1>3. \A i \in Stream : SumSent(conf.sender, i) = 0
  BY <1>2 DEF SumSent, iperf_new_stream
<1> DEFINE f == [i \in Stream |-> SumSent(conf.sender, i)]
<1>4. \A i \in Stream : f[i] = 0
  BY <1>3
<1>5. SumFunction(f) = SumFunctionOnSet(f, Stream)
  BY DEF SumFunction
<1> HIDE DEF f
<1>6. SumFunctionOnSet(f, Stream) = 0
  BY <1>1, <1>4, StreamFinite, SumZero
<1> QED BY <1>2, <1>5, <1>6 DEF SentInv, NewTest, f

LEMMA SentNext ==
  ASSUME TypeInv, DoneInv, SentInv, [Next]_vars
  PROVE  SentInv'
<1> DEFINE t == test[conf.sender]
           u == test'[conf.sender]
           f == [i \in Stream |-> SumSent(conf.sender, i)]
           g == [i \in Stream |-> stream'[conf.sender][i].bytes_sent
                                  - stream'[conf.sender][i].bytes_sent_omit]
<1>1. conf' = conf /\ TypeInv' /\ conf \in Configs /\ conf.sender \in Side
  BY StepLemma, TypeNext, ConfLemma DEF TypeInv
<1>2. IsFiniteSet(Stream) /\ Stream' = Stream
  BY <1>1, StreamFinite DEF Stream
<1>3. g = [i \in Stream |-> SumSent(conf.sender, i)]'
  BY <1>1, <1>2 DEF SumSent
<1>4. /\ SumFunction(f) = SumFunctionOnSet(f, Stream)
      /\ SumFunction(g) = SumFunctionOnSet(g, Stream)
  BY DEF SumFunction
<1>5. /\ \A i \in Stream : f[i] = SumSent(conf.sender, i) /\ f[i] \in Nat /\ f[i] \in Int
      /\ \A i \in Stream : g[i] = stream'[conf.sender][i].bytes_sent
                                  - stream'[conf.sender][i].bytes_sent_omit
  BY SumSentType
<1> SUFFICES /\ u.bytes_sent = SumFunctionOnSet(g, Stream)
             /\ u.bytes_received = 0 /\ u.blocks_received = 0
  BY <1>1, <1>3, <1>4 DEF SentInv
<1>6. /\ t.bytes_sent = SumFunctionOnSet(f, Stream)
      /\ t.bytes_received = 0 /\ t.blocks_received = 0
  BY <1>4 DEF SentInv
<1> HIDE DEF f, g
<1>7. CASE SendStep
  <2>1. PICK k, o, x : SendFacts(k, o, x)
    BY <1>7 DEF SendStep
  <2> DEFINE r == IF o.r = NET_SOFTERROR THEN 0 ELSE o.r
  <2>2. SendTest(k, o) /\ SendEffect(k, x, r)
    BY <2>1, SendTestLemma, SendEffectLemma
  <2> HIDE DEF r
  <2>3. /\ k \in Stream /\ r \in Nat /\ x \in StreamRec
        /\ stream'[conf.sender][k] = x
        /\ \A j \in Stream : j # k => stream'[conf.sender][j] = stream[conf.sender][j]
        /\ x.bytes_sent = stream[conf.sender][k].bytes_sent + r
        /\ x.bytes_sent_omit = stream[conf.sender][k].bytes_sent_omit
    BY <2>2 DEF SendEffect
  <2>4. stream[conf.sender][k] \in StreamRec
    BY <1>1, <2>3 DEF TypeInv
  <2>5. g[k] = f[k] + r
    <3>1. /\ stream[conf.sender][k].bytes_sent \in Nat
          /\ stream[conf.sender][k].bytes_sent_omit \in Nat
      BY <2>4, StreamFields
    <3>2. /\ g[k] = stream'[conf.sender][k].bytes_sent - stream'[conf.sender][k].bytes_sent_omit
          /\ f[k] = stream[conf.sender][k].bytes_sent - stream[conf.sender][k].bytes_sent_omit
      BY <1>5, <2>3 DEF SumSent
    <3> QED BY <2>3, <3>1, <3>2
  <2>6. \A j \in Stream \ {k} : f[j] \in Int /\ g[j] = f[j]
    BY <1>5, <2>3 DEF SumSent
  <2>7. SumFunctionOnSet(g, Stream) = SumFunctionOnSet(f, Stream) - f[k] + g[k]
    <3>1. f[k] \in Int /\ g[k] \in Int
      BY <1>5, <2>3, <2>5
    <3> QED BY <1>2, <2>3, <2>6, <3>1, SumUpdate
  <2>8. SumFunctionOnSet(f, Stream) \in Int
    BY <1>2, <1>5, SumType
  <2>9. u.bytes_sent = t.bytes_sent + r /\ u.bytes_received = 0 /\ u.blocks_received = 0
    BY <1>1, <1>6, <2>2, TestFields DEF SendTest, r
  <2> QED BY <1>5, <1>6, <2>3, <2>5, <2>7, <2>8, <2>9
<1>8. CASE ~SendStep /\ OmitTimer(conf.sender)
  <2>1. u.bytes_sent = 0 /\ u.bytes_received = 0 /\ u.blocks_received = 0
    <3>1. u = [t EXCEPT !.omitting = FALSE, !.bytes_sent = 0, !.blocks_sent = 0]
      BY <1>1, <1>8 DEF OmitTimer, TypeInv
    <3> QED BY <1>1, <1>6, <3>1, TestFields DEF TestRec
  <2>2. \A i \in Stream : g[i] = 0
    <3> SUFFICES ASSUME NEW i \in Stream PROVE g[i] = 0
      OBVIOUS
    <3>1. stream[conf.sender][i] \in StreamRec
      BY <1>1 DEF TypeInv
    <3>2. stream[conf.sender][i].bytes_sent \in Nat
      BY <3>1, StreamFields
    <3> QED BY <1>5, <1>8, <3>2, SenderOmits
  <2>3. SumFunctionOnSet(g, Stream) = 0
    BY <1>2, <2>2, SumZero
  <2> QED BY <2>1, <2>3
<1>9. CASE ~SendStep /\ ~OmitTimer(conf.sender)
  <2>1. \A i \in Stream : f[i] \in Int /\ f[i] = g[i]
    BY <1>5, <1>9, SenderStreams DEF SumSent
  <2>2. SumFunctionOnSet(f, Stream) = SumFunctionOnSet(g, Stream)
    BY <1>2, <2>1, SumEq
  <2>3. u.bytes_sent = t.bytes_sent /\ u.bytes_received = 0 /\ u.blocks_received = 0
    BY <1>6, <1>9, SenderStepLemma DEF SenderStep, SameCounts
  <2> QED BY <1>6, <2>2, <2>3
<1> QED BY <1>7, <1>8, <1>9


-----------------------------------------------------------------------------
(* The limits of a test *)

\* A count of what is sent, in units of which one send adds one, against its
\* limit: below it when a turn of the loop begins, checked before every send but
\* those of the last round.
Limited(t, n, most, unit) ==
  /\ n < most + unit * (conf.streams + 1)
  /\ t.state = "TEST_RUNNING" /\ t.pc = "select" => n < most
  /\ t.state = "TEST_RUNNING" /\ t.pc = "send" =>
       /\ t.next \in 1..conf.streams + 1
       /\ n < most + (IF t.multisend > 1 THEN unit ELSE unit * t.next)

LimitInv ==
  conf.sender = "c" =>
    LET t == test["c"]
    IN  /\ ~conf.omit => ~t.omitting
        /\ t.done /\ t.state = "TEST_RUNNING" /\ conf.file = 0 => conf.bytes = 0 /\ conf.blocks = 0
        /\ t.state = "TEST_END" /\ conf.file = 0 /\ conf.bytes # 0 => t.bytes_sent >= conf.bytes
        /\ ~conf.omit /\ conf.bytes # 0 => Limited(t, t.bytes_sent, conf.bytes, Block)
        /\ ~conf.omit /\ conf.blocks # 0 => Limited(t, t.blocks_sent, conf.blocks, 1)

LEMMA LimitInit == ASSUME Init PROVE LimitInv
<1>1. /\ "c" \in Side /\ conf \in Configs /\ conf.streams \in Nat /\ Block \in Nat
      /\ conf.bytes \in Nat /\ conf.blocks \in Nat
  BY ConfLemma DEF Init, Side
<1>2. test["c"] = NewTest
  BY <1>1 DEF Init
<1>3. /\ NewTest.state = "TEST_RUNNING" /\ NewTest.pc = "select" /\ ~NewTest.done
      /\ NewTest.omitting = conf.omit /\ NewTest.bytes_sent = 0 /\ NewTest.blocks_sent = 0
  BY DEF NewTest
<1>4. Block * (conf.streams + 1) \in Nat /\ 1 * (conf.streams + 1) \in Nat
  BY <1>1, MulLemma
<1> DEFINE p == Block * (conf.streams + 1)
           q == 1 * (conf.streams + 1)
<1> HIDE DEF p, q
<1>5. /\ conf.bytes # 0 => 0 < conf.bytes + p /\ 0 < conf.bytes
      /\ conf.blocks # 0 => 0 < conf.blocks + q /\ 0 < conf.blocks
  BY <1>1, <1>4 DEF p, q
<1>6. /\ conf.bytes # 0 => Limited(NewTest, 0, conf.bytes, Block)
      /\ conf.blocks # 0 => Limited(NewTest, 0, conf.blocks, 1)
  BY <1>3, <1>5 DEF Limited, p, q
<1> QED BY <1>2, <1>3, <1>6 DEF LimitInv

\* A count that stays within its limit because it is not touched.
LEMMA LimitedSame ==
  ASSUME TypeInv, DoneInv, [Next]_vars, SenderStep, conf.sender = "c", ~SendStep,
         ~OmitTimer(conf.sender), ~test["c"].omitting,
         NEW n \in Nat, NEW most \in Nat, NEW unit \in Nat, unit # 0,
         Limited(test["c"], n, most, unit), n < most \/ TestIsDone
  PROVE  Limited(test'["c"], n, most, unit)
<1> DEFINE t == test["c"]
           u == test'["c"]
<1>1. "c" \in Side /\ conf.streams \in Nat /\ conf.streams # 0 /\ conf \in Configs
  BY ConfLemma DEF TypeInv, Side
<1>2. t.next \in Nat /\ t.multisend \in Nat
  BY <1>1, TestFields
<1>3. n < most + unit * (conf.streams + 1)
  BY DEF Limited
<1>4. SenderStep
  OBVIOUS
<1>5. ASSUME u.state = "TEST_RUNNING", u.pc = "select" PROVE n < most
  <2>1. CASE u = t
    BY <1>5, <2>1 DEF Limited
  <2>2. CASE t.pc = "timers" /\ ~TestIsDone
    BY <2>2
  <2>3. t.pc = "send" /\ t.state = "TEST_RUNNING" => u.pc # "select" \/ u = t
    BY <1>4, <1>5 DEF SenderStep, SendRound, SkipFacts, Running
  <2> QED BY <1>4, <1>5, <2>1, <2>2, <2>3 DEF SenderStep, SendRound, SkipFacts, Running
<1>6. ASSUME u.state = "TEST_RUNNING", u.pc = "send"
      PROVE  /\ u.next \in 1..conf.streams + 1
             /\ n < most + (IF u.multisend > 1 THEN unit ELSE unit * u.next)
  <2>1. CASE u = t
    BY <1>6, <2>1 DEF Limited
  <2>2. CASE t.pc = "select" /\ u.state = t.state /\ u.next = 1
    <3>1. n < most
      BY <1>6, <2>2 DEF Limited
    <3> QED BY <1>1, <2>2, <3>1
  <2>3. CASE SkipFacts /\ u.state = t.state /\ u.pc = t.pc /\ u.multisend = t.multisend
             /\ u.next = conf.streams + 1
    <3>1. n < most + unit /\ u.multisend > 1
      BY <1>6, <2>3 DEF Limited, SkipFacts
    <3> QED BY <1>1, <2>3, <3>1
  <2>4. CASE u.state = t.state /\ u.next = 1 /\ u.pc = t.pc /\ t.multisend > 1
    <3>1. n < most + unit
      BY <1>6, <2>4 DEF Limited
    <3> QED BY <1>1, <2>4, <3>1
  <2> QED BY <1>4, <1>6, <2>1, <2>2, <2>3, <2>4 DEF SenderStep
<1> QED BY <1>3, <1>5, <1>6 DEF Limited

\* A count that a send takes one unit further at most.
LEMMA LimitedSend ==
  ASSUME conf \in Configs, NEW t \in TestRec, NEW u \in TestRec,
         NEW n \in Nat, NEW m \in Nat, NEW d \in Nat, NEW most \in Nat, NEW unit \in Nat,
         d <= unit, m = n + d, Limited(t, n, most, unit),
         t.state = "TEST_RUNNING", t.pc = "send", u.state = t.state, u.pc = t.pc,
         u.multisend = t.multisend, t.multisend > 1 => n < most,
         NEW k \in Stream, k >= t.next,
         u.next = k + 1 \/ (u.next = conf.streams + 1 /\ d = 0)
  PROVE  Limited(u, m, most, unit)
<1>1. /\ conf.streams \in Nat /\ conf.streams # 0 /\ k \in Nat /\ k <= conf.streams /\ k >= 1
      /\ t.next \in Nat /\ u.next \in Nat /\ t.multisend \in Nat
  BY ConfLemma, SMTT(60) DEF Stream, TestRec
<1>2. u.next \in 1..conf.streams + 1 /\ t.next \in Nat /\ u.next \in Nat
  BY <1>1
<1> DEFINE x == unit * t.next
           x1 == unit * (t.next + 1)
           y == unit * u.next
           z == unit * (conf.streams + 1)
           one == unit * 1
<1>3. x1 = x + unit /\ x \in Nat /\ x1 \in Nat /\ y \in Nat /\ z \in Nat /\ y <= z /\ unit <= z
  <2>1. u.next <= conf.streams + 1 /\ conf.streams + 1 \in Nat /\ 1 <= conf.streams + 1 /\ 1 \in Nat
        /\ t.next + 1 \in Nat
    BY <1>1, <1>2
  <2>2. x \in Nat /\ x1 = x + unit
    BY <1>1, MulLemma
  <2>3. y \in Nat /\ y <= z /\ z \in Nat /\ unit * 1 <= z
    BY <1>2, <2>1, MulLemma
  <2> QED BY <2>2, <2>3
<1>4. d # 0 => x1 <= y
  <2>1. d # 0 => t.next + 1 <= u.next
    BY <1>1
  <2> QED BY <1>1, <1>2, <2>1, MulLemma
<1>5. x <= y
  <2>1. t.next <= u.next
    BY <1>1
  <2> QED BY <1>1, <1>2, <2>1, MulLemma
<1> HIDE DEF x, x1, y, z
<1>6. n < most + (IF t.multisend > 1 THEN unit ELSE x)
  BY DEF Limited, x
<1>7. m < most + (IF t.multisend > 1 THEN unit ELSE y)
  <2>1. CASE t.multisend > 1
    BY <2>1
  <2>2. CASE ~(t.multisend > 1)
    BY <1>3, <1>4, <1>5, <1>6, <2>2
  <2> QED BY <2>1, <2>2
<1>8. m < most + z
  BY <1>3, <1>7
<1> QED BY <1>2, <1>7, <1>8 DEF Limited, y, z


LEMMA LimitNext ==
  ASSUME TypeInv, DoneInv, SentInv, LimitInv, [Next]_vars
  PROVE  LimitInv'
<1> SUFFICES ASSUME conf.sender = "c" PROVE LimitInv'
  <2>1. conf' = conf
    BY StepLemma
  <2> QED BY <2>1 DEF LimitInv
<1> DEFINE t == test["c"]
           u == test'["c"]
<1>1. conf' = conf /\ TypeInv' /\ SenderStep /\ TestOK
  BY StepLemma, TypeNext, SenderStepLemma, TestLemma
<1>2. /\ "c" \in Side /\ conf \in Configs /\ conf.bytes \in Nat /\ conf.blocks \in Nat
      /\ Block \in Nat /\ Block # 0 /\ (conf.bytes = 0 \/ conf.blocks = 0) /\ conf.file \in Nat
  BY ConfLemma DEF TypeInv, Side
<1>3. t \in TestRec /\ u \in TestRec /\ t.bytes_sent \in Nat /\ t.blocks_sent \in Nat
      /\ t.done \in BOOLEAN /\ t.omitting \in BOOLEAN
  BY <1>1, <1>2, TestFields DEF TestOK
<1>4. /\ ~conf.omit => ~t.omitting
      /\ t.done /\ t.state = "TEST_RUNNING" /\ conf.file = 0 => conf.bytes = 0 /\ conf.blocks = 0
      /\ t.state = "TEST_END" /\ conf.file = 0 /\ conf.bytes # 0 => t.bytes_sent >= conf.bytes
      /\ ~conf.omit /\ conf.bytes # 0 => Limited(t, t.bytes_sent, conf.bytes, Block)
      /\ ~conf.omit /\ conf.blocks # 0 => Limited(t, t.blocks_sent, conf.blocks, 1)
      /\ t.bytes_received = 0 /\ t.blocks_received = 0
  BY DEF LimitInv, SentInv
<1> SUFFICES /\ ~conf.omit => ~u.omitting
             /\ u.done /\ u.state = "TEST_RUNNING" /\ conf.file = 0 => conf.bytes = 0 /\ conf.blocks = 0
             /\ u.state = "TEST_END" /\ conf.file = 0 /\ conf.bytes # 0 => u.bytes_sent >= conf.bytes
             /\ ~conf.omit /\ conf.bytes # 0 => Limited(u, u.bytes_sent, conf.bytes, Block)
             /\ ~conf.omit /\ conf.blocks # 0 => Limited(u, u.blocks_sent, conf.blocks, 1)
  <2> DEFINE G(x) ==
        /\ ~conf.omit => ~x.omitting
        /\ x.done /\ x.state = "TEST_RUNNING" /\ conf.file = 0 => conf.bytes = 0 /\ conf.blocks = 0
        /\ x.state = "TEST_END" /\ conf.file = 0 /\ conf.bytes # 0 => x.bytes_sent >= conf.bytes
        /\ ~conf.omit /\ conf.bytes # 0 => Limited(x, x.bytes_sent, conf.bytes, Block)
        /\ ~conf.omit /\ conf.blocks # 0 => Limited(x, x.blocks_sent, conf.blocks, 1)
  <2>1. G(u)
    OBVIOUS
  <2>2. LimitInv' <=> G(u)
    BY <1>1 DEF LimitInv, Limited
  <2> QED BY <2>1, <2>2
<1>5. ~conf.omit => ~u.omitting
  BY <1>1, <1>2, <1>4 DEF TestOK
<1>6. CASE SendStep
  <2>1. PICK k, o, x : SendFacts(k, o, x)
    BY <1>6 DEF SendStep
  <2> DEFINE r == IF o.r = NET_SOFTERROR THEN 0 ELSE o.r
             b == u.blocks_sent - t.blocks_sent
  <2>2. SendTest(k, o) /\ SendEffect(k, x, r)
    BY <2>1, SendTestLemma, SendEffectLemma
  <2>3. /\ k \in Stream /\ k >= t.next /\ t.pc = "send" /\ t.state = "TEST_RUNNING"
        /\ ~(t.multisend > 1 /\ LimitReached("c")) /\ FileOK(k, stream["c"][k], t.done, o)
    BY <2>1 DEF SendFacts
  <2>4. r \in Nat /\ r <= Block
    BY <1>2, <2>2 DEF SendEffect
  <2>5. /\ u.state = t.state /\ u.pc = t.pc /\ u.multisend = t.multisend
        /\ u.done => t.done \/ o.done
        /\ u.next = k + 1 \/ (u.next = conf.streams + 1 /\ r = 0 /\ b = 0)
        /\ u.bytes_sent = t.bytes_sent + r /\ u.blocks_sent = t.blocks_sent + b
        /\ b \in {0, 1}
    BY <1>3, <2>2 DEF SendTest
  <2>6. o.done => conf.file # 0
    BY <2>3 DEF FileOK
  <2>7. /\ t.multisend > 1 /\ conf.bytes # 0 => t.bytes_sent < conf.bytes
        /\ t.multisend > 1 /\ conf.blocks # 0 => t.blocks_sent < conf.blocks
    BY <1>2, <1>3, <2>3 DEF LimitReached, SettingsBytes
  <2> HIDE DEF r, b
  <2>8. ASSUME ~conf.omit, conf.bytes # 0 PROVE Limited(u, u.bytes_sent, conf.bytes, Block)
    <3> DEFINE n == t.bytes_sent
               m == u.bytes_sent
               most == conf.bytes
    <3>1. n \in Nat /\ m \in Nat /\ m = n + r /\ Limited(t, n, most, Block)
          /\ (t.multisend > 1 => n < most) /\ most \in Nat
      BY <1>2, <1>3, <1>4, <2>4, <2>5, <2>7, <2>8
    <3>2. u.next = k + 1 \/ (u.next = conf.streams + 1 /\ r = 0)
      BY <2>5
    <3> HIDE DEF n, m, most
    <3>3. /\ u.state = t.state /\ u.pc = t.pc /\ u.multisend = t.multisend
      BY <2>5
    <3>4. Limited(u, m, most, Block)
      BY <1>2, <1>3, <2>3, <2>4, <3>1, <3>2, <3>3, LimitedSend
    <3> QED BY <3>4 DEF m, most
  <2>9. ASSUME ~conf.omit, conf.blocks # 0 PROVE Limited(u, u.blocks_sent, conf.blocks, 1)
    <3> DEFINE n == t.blocks_sent
               m == u.blocks_sent
               one == 1
    <3>1. n \in Nat /\ m \in Nat /\ m = n + b /\ Limited(t, n, conf.blocks, one)
          /\ (t.multisend > 1 => n < conf.blocks) /\ b \in Nat /\ b <= one /\ one \in Nat
      BY <1>3, <1>4, <2>5, <2>7, <2>9
    <3>2. u.next = k + 1 \/ (u.next = conf.streams + 1 /\ b = 0)
      BY <2>5
    <3> HIDE DEF n, m, one
    <3>3. Limited(u, m, conf.blocks, one)
      BY <1>2, <1>3, <2>3, <2>5, <3>1, <3>2, LimitedSend, ZenonT(60)
    <3> QED BY <3>3 DEF m, one
  <2> QED BY <1>4, <1>5, <2>3, <2>5, <2>6, <2>8, <2>9
<1>7. CASE ~SendStep /\ OmitTimer("c")
  <2>1. conf.omit
    BY <1>4, <1>7 DEF OmitTimer
  <2>2. u = [t EXCEPT !.omitting = FALSE, !.bytes_sent = 0, !.blocks_sent = 0]
        /\ t.state = "TEST_RUNNING"
    BY <1>2, <1>7 DEF OmitTimer, TypeInv, Running
  <2>3. u.state = "TEST_RUNNING" /\ u.done = t.done
    BY <1>3, <2>2 DEF TestRec
  <2> QED BY <1>4, <2>1, <2>2, <2>3
<1>8. CASE ~SendStep /\ ~OmitTimer("c")
  <2>1. SameCounts(t, u)
    BY <1>1, <1>8 DEF SenderStep, SameCounts
  <2>2. u.bytes_sent = t.bytes_sent /\ u.blocks_sent = t.blocks_sent
    BY <2>1 DEF SameCounts
  <2>3. ~t.omitting /\ conf.bytes # 0 => t.bytes_sent < conf.bytes \/ TestIsDone
    BY <1>2, <1>3 DEF TestIsDone
  <2>4. ~t.omitting /\ conf.blocks # 0 => t.blocks_sent < conf.blocks \/ TestIsDone
    BY <1>2, <1>3 DEF TestIsDone
  <2>5. ASSUME ~conf.omit, conf.bytes # 0 PROVE Limited(u, u.bytes_sent, conf.bytes, Block)
    <3> DEFINE n == t.bytes_sent
    <3>1. n \in Nat /\ Limited(t, n, conf.bytes, Block) /\ ~t.omitting
          /\ (n < conf.bytes \/ TestIsDone)
      BY <1>3, <1>4, <2>3, <2>5
    <3> HIDE DEF n
    <3>2. Limited(u, n, conf.bytes, Block)
      BY <1>1, <1>2, <1>8, <3>1, LimitedSame
    <3> QED BY <2>2, <3>2 DEF n
  <2>6. ASSUME ~conf.omit, conf.blocks # 0 PROVE Limited(u, u.blocks_sent, conf.blocks, 1)
    <3> DEFINE n == t.blocks_sent
               one == 1
    <3>1. n \in Nat /\ Limited(t, n, conf.blocks, one) /\ ~t.omitting
          /\ (n < conf.blocks \/ TestIsDone) /\ one \in Nat /\ one # 0
      BY <1>3, <1>4, <2>4, <2>6
    <3> HIDE DEF n, one
    <3>2. Limited(u, n, conf.blocks, one)
      BY <1>1, <1>2, <1>8, <3>1, LimitedSame
    <3> QED BY <2>2, <3>2 DEF n, one
  <2>7. u.done /\ u.state = "TEST_RUNNING" /\ conf.file = 0 => conf.bytes = 0 /\ conf.blocks = 0
    BY <1>1, <1>4, <1>8 DEF SenderStep
  <2>8. u.state = "TEST_END" /\ conf.file = 0 /\ conf.bytes # 0 => u.bytes_sent >= conf.bytes
    <3> SUFFICES ASSUME u.state = "TEST_END", conf.file = 0, conf.bytes # 0
                 PROVE  t.bytes_sent >= conf.bytes
      BY <2>2
    <3>1. CASE t.state = "TEST_END"
      BY <1>4, <3>1
    <3>2. CASE t.state # "TEST_END"
      <4>1. t.state = "TEST_RUNNING" /\ TestIsDone
        BY <1>1, <1>8, <3>2 DEF SenderStep, SkipFacts
      <4> QED BY <1>2, <1>3, <1>4, <4>1 DEF TestIsDone
    <3> QED BY <3>1, <3>2
  <2> QED BY <1>5, <2>5, <2>6, <2>7, <2>8
<1> QED BY <1>6, <1>7, <1>8

\* A client that has a number of bytes or blocks to send sends them, and at most
\* one round of iperf_send and one block more.
THEOREM LimitTheorem == Spec => []LimitIsKept
<1> DEFINE I == TypeInv /\ DoneInv /\ SentInv /\ LimitInv
<1>1. Init => I
  BY TypeInit, DoneInit, SentInit, LimitInit
<1>2. I /\ [Next]_vars => I'
  BY TypeNext, DoneNext, SentNext, LimitNext
<1>3. I => LimitIsKept
  <2> SUFFICES ASSUME TypeInv, SentInv, LimitInv, conf.sender = "c", conf.file = 0
               PROVE  LET sent == SumFunction([i \in Stream |-> SumSent("c", i)])
                          ended == test["c"].state = "TEST_END"
                      IN  /\ conf.bytes # 0 =>
                               /\ ended => sent >= conf.bytes
                               /\ ~conf.omit => sent < conf.bytes + (conf.streams + 1) * Block
                          /\ conf.blocks # 0 /\ ~conf.omit =>
                               test["c"].blocks_sent <= conf.blocks + conf.streams
    BY DEF LimitIsKept
  <2>1. test["c"].bytes_sent = SumFunction([i \in Stream |-> SumSent("c", i)])
    BY DEF SentInv
  <2>2. /\ conf.streams \in Nat /\ Block \in Nat /\ conf.blocks \in Nat /\ conf.bytes \in Nat
        /\ "c" \in Side
    BY ConfLemma DEF TypeInv, Side
  <2>3. test["c"].blocks_sent \in Nat
    BY <2>2, TestFields
  <2>4. conf.blocks # 0 /\ ~conf.omit => test["c"].blocks_sent < conf.blocks + 1 * (conf.streams + 1)
    BY DEF LimitInv, Limited
  <2>5. conf.blocks # 0 /\ ~conf.omit => test["c"].blocks_sent <= conf.blocks + conf.streams
    BY <2>2, <2>3, <2>4
  <2>6. conf.bytes # 0 /\ ~conf.omit => test["c"].bytes_sent < conf.bytes + Block * (conf.streams + 1)
    BY DEF LimitInv, Limited
  <2>7. Block * (conf.streams + 1) = (conf.streams + 1) * Block
    BY <2>2
  <2>8. conf.bytes # 0 /\ test["c"].state = "TEST_END" => test["c"].bytes_sent >= conf.bytes
    BY DEF LimitInv
  <2> QED BY <2>1, <2>5, <2>6, <2>7, <2>8
<1> QED BY <1>1, <1>2, <1>3, PTL DEF Spec

-----------------------------------------------------------------------------
(* A file *)

\* What was read of a file is sent or waits in the buffer.
FileInv ==
  conf.file # 0 /\ conf.proto = "tcp" /\ ~conf.zerocopy =>
    \A i \in Stream :
      LET sp == stream[conf.sender][i]
      IN  /\ sp.bytes_sent + sp.diskfile_left + net[i].file = conf.file
          /\ test["c"].done /\ conf.sender = "c" /\ conf.bytes > conf.file /\ conf.streams = 1
               => sp.bytes_sent = conf.file

LEMMA FileInit == ASSUME Init PROVE FileInv
<1>1. conf.sender \in Side /\ "c" \in Side /\ conf.file \in Nat
  BY ConfLemma DEF Init, Side
<1> SUFFICES ASSUME NEW i \in Stream
             PROVE  LET sp == stream[conf.sender][i]
                    IN  /\ sp.bytes_sent + sp.diskfile_left + net[i].file = conf.file
                        /\ ~test["c"].done
  BY DEF FileInv
<1>2. stream[conf.sender][i] = iperf_new_stream /\ net[i].file = conf.file /\ test["c"] = NewTest
  BY <1>1 DEF Init
<1>3. iperf_new_stream.bytes_sent = 0 /\ iperf_new_stream.diskfile_left = 0 /\ ~NewTest.done
  BY DEF iperf_new_stream, NewTest
<1> QED BY <1>1, <1>2, <1>3

LEMMA FileNext ==
  ASSUME TypeInv, DoneInv, SentInv, FileInv, [Next]_vars
  PROVE  FileInv'
<1>1. conf' = conf /\ TypeInv' /\ SenderStep
  BY StepLemma, TypeNext, SenderStepLemma
<1>2. /\ conf \in Configs /\ conf.file \in Nat /\ conf.sender \in Side /\ conf.bytes \in Nat
      /\ Stream' = Stream /\ "c" \in Side /\ (conf.bytes = 0 \/ conf.blocks = 0)
  BY <1>1, ConfLemma DEF TypeInv, Stream, Side
<1> DEFINE Last == conf.sender = "c" /\ conf.bytes > conf.file /\ conf.streams = 1
<1> SUFFICES ASSUME conf.file # 0, conf.proto = "tcp", ~conf.zerocopy, NEW i \in Stream
             PROVE  LET a == stream'[conf.sender][i]
                    IN  /\ a.bytes_sent + a.diskfile_left + net'[i].file = conf.file
                        /\ test'["c"].done /\ Last => a.bytes_sent = conf.file
  BY <1>1, <1>2 DEF FileInv
<1> DEFINE a == stream'[conf.sender][i]
           b == stream[conf.sender][i]
           t == test[conf.sender]
           u == test'[conf.sender]
<1>3. /\ b.bytes_sent \in Nat /\ b.diskfile_left \in Nat /\ net[i].file \in Nat
      /\ a.bytes_sent \in Nat /\ a.diskfile_left \in Nat /\ net'[i].file \in Nat
  <2>1. b \in StreamRec /\ SizesOK(b)
    BY <1>2 DEF TypeInv
  <2>2. a \in StreamRec /\ SizesOK(a)
    <3>1. /\ stream' \in [Side' -> [Stream' -> StreamRec']] /\ StreamRec' = StreamRec /\ Side' = Side
          /\ \A side \in Side', k \in Stream' : SizesOK(stream[side][k])'
      BY <1>1 DEF TypeInv, StreamRec, Interval, Side
    <3>2. SizesOK(stream[conf.sender][i])'
      BY <1>1, <1>2, <3>1
    <3> QED BY <1>1, <1>2, <3>1, <3>2 DEF SizesOK
  <2>3. net[i].file \in Nat /\ net'[i].file \in Nat
    <3>1. net' \in [Stream' -> NetRec']
      BY <1>1 DEF TypeInv
    <3> QED BY <1>2, <3>1, NetFields DEF NetRec
  <2> QED BY <1>2, <2>1, <2>2, <2>3, StreamFields DEF SizesOK
<1>4. /\ b.bytes_sent + b.diskfile_left + net[i].file = conf.file
      /\ test["c"].done /\ Last => b.bytes_sent = conf.file
  BY DEF FileInv
\* While the file is not sent the limit of the test is not reached.
<1>5. Last => t.bytes_sent <= conf.file
  <2> SUFFICES ASSUME Last PROVE t.bytes_sent <= conf.file
    OBVIOUS
  <2> DEFINE f == [k \in Stream |-> SumSent(conf.sender, k)]
  <2>1. Stream = {1} /\ i = 1
    BY <1>2 DEF Stream
  <2>2. f[1] = SumSent(conf.sender, 1) /\ f[1] \in Nat /\ f[1] <= b.bytes_sent
    BY <2>1, SumSentType
  <2>3. t.bytes_sent = SumFunctionOnSet(f, Stream)
    BY DEF SentInv, SumFunction
  <2> HIDE DEF f
  <2>4. SumFunctionOnSet(f, {1}) = f[1] + SumFunctionOnSet(f, {1} \ {1})
    <3>1. IsFiniteSet({1}) /\ (\A x \in {1} : f[x] \in Int) /\ 1 \in {1}
      BY <1>2, <2>1, <2>2, StreamFinite
    <3> QED BY <3>1, SumRemove
  <2>5. {1} \ {1} = {}
    OBVIOUS
  <2>6. t.bytes_sent = f[1]
    BY <2>1, <2>2, <2>3, <2>4, <2>5, SumEmpty
  <2> QED BY <1>2, <1>3, <1>4, <2>2, <2>6
<1>6. CASE SendStep
  <2>1. PICK k, o, x : SendFacts(k, o, x)
    BY <1>6 DEF SendStep
  <2> DEFINE r == IF o.r = NET_SOFTERROR THEN 0 ELSE o.r
  <2>2. SendTest(k, o) /\ SendEffect(k, x, r)
    BY <2>1, SendTestLemma, SendEffectLemma
  <2>3. FileOK(k, stream[conf.sender][k], t.done, o) /\ k \in Stream
    BY <2>1 DEF SendFacts
  <2>4. /\ stream'[conf.sender][k] = x /\ r \in Nat
        /\ \A j \in Stream : j # k => stream'[conf.sender][j] = stream[conf.sender][j]
        /\ \A j \in Stream : j # k => net'[j] = net[j]
        /\ x.bytes_sent = stream[conf.sender][k].bytes_sent + r
        /\ x.bytes_sent + x.diskfile_left + net'[k].file
             = stream[conf.sender][k].bytes_sent + stream[conf.sender][k].diskfile_left + net[k].file
    BY <2>2 DEF SendEffect
  <2> HIDE DEF r
  <2>5. a.bytes_sent + a.diskfile_left + net'[i].file = conf.file
    BY <1>4, <2>3, <2>4
  <2>6. a.bytes_sent >= b.bytes_sent
    BY <1>3, <2>4
  <2>7. ASSUME test'["c"].done, Last PROVE a.bytes_sent = conf.file
    <3>1. i = k
      BY <1>2, <2>3, <2>7 DEF Stream
    <3>2. t.done \/ o.done
      BY <2>2, <2>7 DEF SendTest
    <3>3. CASE t.done
      BY <1>2, <1>3, <1>4, <2>5, <2>6, <2>7, <3>3
    <3>4. CASE o.done /\ ~t.done
      <4>1. b.diskfile_left = 0 /\ net[i].file = 0
        BY <2>3, <3>1, <3>4 DEF FileOK
      <4> QED BY <1>2, <1>3, <1>4, <2>5, <2>6, <4>1
    <3> QED BY <3>2, <3>3, <3>4
  <2> QED BY <2>5, <2>7
<1>7. CASE ~SendStep
  <2>1. /\ a.bytes_sent = b.bytes_sent /\ a.diskfile_left = b.diskfile_left
        /\ net'[i].file = net[i].file
    BY <1>7, SenderStreams, SenderOmits
  <2>2. ASSUME Last, u.done, ~t.done PROVE FALSE
    <3>1. conf.bytes # 0 /\ conf.blocks = 0 /\ t.bytes_received = 0
      BY <1>2, <2>2 DEF SentInv
    <3>2. t.state = "TEST_RUNNING" /\ TestIsDone
      BY <1>1, <1>7, <2>2, <3>1 DEF SenderStep
    <3>3. t.bytes_sent >= conf.bytes
      BY <1>2, <2>2, <3>1, <3>2 DEF TestIsDone
    <3>4. t.bytes_sent \in Nat
      BY <1>2, TestFields
    <3> QED BY <1>2, <1>5, <2>2, <3>3, <3>4
  <2> QED BY <1>4, <2>1, <2>2
<1> QED BY <1>6, <1>7

\* Every byte of a file sent over TCP is sent once, and the end of the file ends
\* the test only when all of it is sent (diskfile_send).
THEOREM FileTheorem == Spec => []FileIsSentOnce
<1> DEFINE I == TypeInv /\ DoneInv /\ SentInv /\ FileInv
<1>1. Init => I
  BY TypeInit, DoneInit, SentInit, FileInit
<1>2. I /\ [Next]_vars => I'
  BY TypeNext, DoneNext, SentNext, FileNext
<1>3. I => FileIsSentOnce
  <2>1. TypeInv /\ conf.proto = "tcp" =>
          \A i \in Stream : stream[conf.sender][i].diskfile_left \in 0..Block
    BY ConfLemma DEF TypeInv, SizesOK
  <2> QED BY <2>1 DEF FileInv, FileIsSentOnce
<1> QED BY <1>1, <1>2, <1>3, PTL DEF Spec


-----------------------------------------------------------------------------
(* The intervals *)

Field(s, f) == [k \in DOMAIN s |-> s[k][f]]

\* The sum of a field over some intervals, before and after one more.
LEMMA FieldAppend ==
  ASSUME NEW s \in Seq(Interval), NEW e \in Interval, NEW f \in {"bytes", "packets", "errors"},
         NEW M \in SUBSET (1..Len(s))
  PROVE  /\ SumFunctionOnSet(Field(Append(s, e), f), M \cup {Len(s) + 1})
              = SumFunctionOnSet(Field(s, f), M) + e[f]
         /\ SumFunctionOnSet(Field(s, f), M) \in Int /\ e[f] \in Int
<1>1. Len(s) \in Nat /\ DOMAIN s = 1..Len(s) /\ DOMAIN Append(s, e) = 1..(Len(s) + 1)
  OBVIOUS
<1>2. /\ \A k \in 1..Len(s) : Append(s, e)[k] = s[k] /\ s[k] \in Interval
      /\ Append(s, e)[Len(s) + 1] = e
  OBVIOUS
<1>3. \A x \in Interval : x[f] \in Int
  <2>1. \A x \in Interval : x.bytes \in Nat /\ x.packets \in Int /\ x.errors \in Int
    BY DEF Interval
  <2> QED BY <2>1
<1>4. Len(s) + 1 \notin M /\ IsFiniteSet(M)
  <2>1. IsFiniteSet(1..Len(s))
    BY <1>1, FS_Interval
  <2>2. Len(s) + 1 \notin 1..Len(s)
    BY <1>1
  <2>3. IsFiniteSet(M)
    BY <2>1, FS_Subset
  <2> QED BY <2>2, <2>3
<1> DEFINE F == Field(s, f)
           G == Field(Append(s, e), f)
           n == Len(s) + 1
<1>5. \A k \in M : F[k] \in Int /\ G[k] = F[k]
  BY <1>1, <1>2, <1>3 DEF Field
<1>6. G[n] = e[f] /\ e[f] \in Int /\ G[n] \in Int
  BY <1>1, <1>2, <1>3 DEF Field
<1> HIDE DEF F, G, n
<1>7. n \notin M
  BY <1>4 DEF n
<1>8. SumFunctionOnSet(G, M \cup {n}) = SumFunctionOnSet(F, M) + G[n]
  <2>1. IsFiniteSet(M) /\ n \notin M /\ G[n] \in Int
    BY <1>4, <1>6, <1>7
  <2> DEFINE T == M \cup {n}
  <2>2. T = M \cup {n} /\ (\A k \in M : F[k] \in Int) /\ \A k \in M : G[k] = F[k]
    BY <1>5
  <2> HIDE DEF T
  <2>3. SumFunctionOnSet(G, T) = SumFunctionOnSet(F, M) + G[n]
    <3>1. IsFiniteSet(T) /\ n \in T /\ T \ {n} = M /\ \A k \in T : G[k] \in Int
      BY <1>5, <2>1, <2>2, FS_AddElement
    <3>2. SumFunctionOnSet(G, T) = G[n] + SumFunctionOnSet(G, T \ {n})
      BY <3>1, SumRemove
    <3>3. SumFunctionOnSet(G, T \ {n}) = SumFunctionOnSet(G, M)
      BY ONLY <3>1, Zenon
    <3>4. SumFunctionOnSet(F, M) = SumFunctionOnSet(G, M)
      BY <1>5, <2>1, SumEq
    <3>5. SumFunctionOnSet(F, M) \in Int
      BY <1>5, <2>1, SumType
    <3>6. G[n] \in Int
      BY <2>1
    <3> QED BY ONLY <3>2, <3>3, <3>4, <3>5, <3>6
  <2> QED BY <2>3 DEF T
<1>9. SumFunctionOnSet(F, M) \in Int
  BY <1>4, <1>5, SumType
<1> QED BY <1>6, <1>8, <1>9 DEF F, G, n

\* The intervals that are shown now: omitted ones while the test omits.
Match(s, omitting) == {k \in 1..Len(s) : s[k].omitted = omitting}

\* The intervals of a stream add up to its totals; s1 are those of the first.
StreamShown(side, t, s1, sp) ==
  /\ Len(sp.intervals) = Len(s1)
  /\ IF side = conf.sender THEN sp.received_this_interval = 0 /\ sp.bytes_received = 0
     ELSE sp.sent_this_interval = 0 /\ sp.bytes_sent = 0 /\ sp.bytes_sent_omit = 0
  /\ SumFunctionOnSet(Field(sp.intervals, "bytes"), Match(s1, t.omitting))
       + sp.sent_this_interval + sp.received_this_interval
       = sp.bytes_sent - sp.bytes_sent_omit + sp.bytes_received
  /\ SumFunctionOnSet(Field(sp.intervals, "packets"), 1..Len(s1)) = LastOf(sp, "packet_count")
  /\ SumFunctionOnSet(Field(sp.intervals, "errors"), 1..Len(s1)) = LastOf(sp, "cnt_error")
  /\ t.state = "TEST_END" => /\ LastOf(sp, "packet_count") = sp.packet_count
                             /\ LastOf(sp, "cnt_error") = sp.cnt_error

IntervalsOK(side, t, sps) ==
  t.state \in Active =>
    /\ t.omitting => \A k \in 1..Len(sps[1].intervals) : sps[1].intervals[k].omitted
    /\ \A i \in Stream : StreamShown(side, t, sps[1].intervals, sps[i])

IntervalsInv == \A side \in Side : IntervalsOK(side, test[side], stream[side])

LEMMA FieldType ==
  ASSUME NEW s \in Seq(Interval), NEW f \in {"bytes", "packets", "errors"},
         NEW M \in SUBSET (1..Len(s))
  PROVE  /\ SumFunctionOnSet(Field(s, f), M) \in Int /\ IsFiniteSet(M)
         /\ \A k \in M : Field(s, f)[k] \in Int /\ Field(s, f)[k] = s[k][f]
<1>1. Len(s) \in Nat /\ DOMAIN s = 1..Len(s)
  OBVIOUS
<1>2. IsFiniteSet(M)
  <2>1. IsFiniteSet(1..Len(s))
    BY <1>1, FS_Interval
  <2> QED BY <2>1, FS_Subset
<1>3. \A x \in Interval : x.bytes \in Nat /\ x.packets \in Int /\ x.errors \in Int
  BY DEF Interval
<1>4. \A k \in M : Field(s, f)[k] \in Int /\ Field(s, f)[k] = s[k][f]
  BY <1>1, <1>3 DEF Field
<1> QED BY <1>2, <1>4, SumType

LEMMA IntervalsInit == ASSUME Init PROVE IntervalsInv
<1> SUFFICES ASSUME NEW side \in Side PROVE IntervalsOK(side, test[side], stream[side])
  BY DEF IntervalsInv
<1>1. conf \in Configs /\ 1 \in Stream
  BY ConfLemma DEF Init, Stream
<1>2. test[side] = NewTest /\ \A i \in Stream : stream[side][i] = iperf_new_stream
  BY DEF Init
<1> DEFINE n == iperf_new_stream
<1>3. /\ n.intervals = <<>> /\ n.received_this_interval = 0 /\ n.bytes_received = 0
      /\ n.sent_this_interval = 0 /\ n.bytes_sent = 0 /\ n.bytes_sent_omit = 0
      /\ NewTest.state = "TEST_RUNNING"
  BY DEF iperf_new_stream, NewTest
<1> HIDE DEF n
<1>4. Len(n.intervals) = 0 /\ 1..Len(n.intervals) = {}
  BY <1>3
<1>5. \A o : Match(n.intervals, o) = {}
  BY <1>4 DEF Match
<1>6. LastOf(n, "packet_count") = 0 /\ LastOf(n, "cnt_error") = 0
  BY <1>3 DEF LastOf
<1>7. StreamShown(side, NewTest, n.intervals, n)
  <2>1. /\ SumFunctionOnSet(Field(n.intervals, "bytes"), Match(n.intervals, NewTest.omitting)) = 0
        /\ SumFunctionOnSet(Field(n.intervals, "packets"), 1..Len(n.intervals)) = 0
        /\ SumFunctionOnSet(Field(n.intervals, "errors"), 1..Len(n.intervals)) = 0
    BY <1>4, <1>5, SumEmpty, Zenon
  <2> QED BY <1>3, <1>6, <2>1 DEF StreamShown
<1> QED BY <1>1, <1>2, <1>4, <1>7 DEF IntervalsOK, n

\* More bytes in the interval and in the total.
LEMMA ShownMore ==
  ASSUME NEW side, NEW t, NEW u, NEW s1 \in Seq(Interval), NEW a \in StreamRec, NEW b \in StreamRec,
         NEW d \in Nat, StreamShown(side, t, s1, b), a.intervals = b.intervals,
         u.omitting = t.omitting,
         a.bytes_sent_omit = b.bytes_sent_omit,
         IF side = conf.sender
         THEN /\ a.received_this_interval = b.received_this_interval
              /\ a.bytes_received = b.bytes_received
              /\ a.sent_this_interval = b.sent_this_interval + d /\ a.bytes_sent = b.bytes_sent + d
         ELSE /\ a.sent_this_interval = b.sent_this_interval /\ a.bytes_sent = b.bytes_sent
              /\ a.received_this_interval = b.received_this_interval + d
              /\ a.bytes_received = b.bytes_received + d,
         u.state = "TEST_END" => /\ t.state = "TEST_END" /\ a.packet_count = b.packet_count
                                 /\ a.cnt_error = b.cnt_error
  PROVE  StreamShown(side, u, s1, a)
<1> DEFINE x == SumFunctionOnSet(Field(b.intervals, "bytes"), Match(s1, t.omitting))
<1>1. b.intervals \in Seq(Interval) /\ Len(b.intervals) = Len(s1)
  BY StreamFields DEF StreamShown
<1>2. Match(s1, t.omitting) \in SUBSET (1..Len(b.intervals))
  BY <1>1 DEF Match
<1>3. x \in Int
  BY <1>1, <1>2, FieldType
<1>4. /\ b.sent_this_interval \in Nat /\ b.received_this_interval \in Nat /\ b.bytes_sent \in Nat
      /\ b.bytes_sent_omit \in Nat /\ b.bytes_received \in Nat
  BY StreamFields
<1>5. x + b.sent_this_interval + b.received_this_interval
        = b.bytes_sent - b.bytes_sent_omit + b.bytes_received
  BY DEF StreamShown
<1>6. SumFunctionOnSet(Field(a.intervals, "bytes"), Match(s1, u.omitting)) = x
  OBVIOUS
<1> HIDE DEF x
<1>7. x + a.sent_this_interval + a.received_this_interval
        = a.bytes_sent - a.bytes_sent_omit + a.bytes_received
  <2> DEFINE p == b.sent_this_interval
             q == b.received_this_interval
             v == b.bytes_sent
             w == b.bytes_sent_omit
             y == b.bytes_received
  <2>1. /\ p \in Nat /\ q \in Nat /\ v \in Nat /\ w \in Nat /\ y \in Nat /\ d \in Nat /\ x \in Int
        /\ x + p + q = v - w + y
    BY <1>3, <1>4, <1>5
  <2>2. /\ a.bytes_sent_omit = w
        /\ \/ /\ a.received_this_interval = q /\ a.bytes_received = y
              /\ a.sent_this_interval = p + d /\ a.bytes_sent = v + d
           \/ /\ a.sent_this_interval = p /\ a.bytes_sent = v
              /\ a.received_this_interval = q + d /\ a.bytes_received = y + d
    OBVIOUS
  <2> HIDE DEF p, q, v, w, y
  <2>3. x + (p + d) + q = (v + d) - w + y /\ x + p + (q + d) = v - w + (y + d)
    BY ONLY <2>1
  <2> QED BY ONLY <2>2, <2>3
<1>8. IF side = conf.sender THEN a.received_this_interval = 0 /\ a.bytes_received = 0
      ELSE a.sent_this_interval = 0 /\ a.bytes_sent = 0 /\ a.bytes_sent_omit = 0
  BY DEF StreamShown
<1>9. /\ LastOf(a, "packet_count") = LastOf(b, "packet_count")
      /\ LastOf(a, "cnt_error") = LastOf(b, "cnt_error")
  BY DEF LastOf
<1> QED BY <1>6, <1>7, <1>8, <1>9 DEF StreamShown

\* An interval ends.
LEMMA ShownCount ==
  ASSUME NEW side, NEW u, test[side].omitting \in BOOLEAN, u.omitting = test[side].omitting,
         NEW c1 \in StreamRec, NEW b1 \in StreamRec, IsCounted(side, c1, b1),
         NEW a \in StreamRec, NEW b \in StreamRec, IsCounted(side, a, b),
         StreamShown(side, test[side], b1.intervals, b)
  PROVE  StreamShown(side, u, c1.intervals, a)
<1> DEFINE o == test[side].omitting
           s1 == b1.intervals
           z1 == c1.intervals
           n == Len(s1)
           e == [omitted |-> o,
                 bytes |-> IF side = conf.sender THEN b.sent_this_interval
                           ELSE b.received_this_interval,
                 packets |-> b.packet_count - LastOf(b, "packet_count"),
                 errors |-> b.cnt_error - LastOf(b, "cnt_error"),
                 packet_count |-> b.packet_count, cnt_error |-> b.cnt_error]
<1>1. /\ s1 \in Seq(Interval) /\ z1 \in Seq(Interval) /\ b.intervals \in Seq(Interval) /\ n \in Nat
      /\ b.packet_count \in Nat /\ b.cnt_error \in Nat /\ b.sent_this_interval \in Nat
      /\ b.received_this_interval \in Nat /\ b.bytes_sent \in Nat /\ b.bytes_sent_omit \in Nat
      /\ b.bytes_received \in Nat
  BY StreamFields
<1>2. LastOf(b, "packet_count") \in Nat /\ LastOf(b, "cnt_error") \in Nat
  BY LastLemma
<1>3. Len(z1) = n + 1 /\ Match(z1, o) = Match(s1, o) \cup {n + 1} /\ 1..Len(z1) = (1..n) \cup {n + 1}
  <2>1. PICK e1 : z1 = Append(s1, e1) /\ e1.omitted = o
    BY DEF IsCounted
  <2>2. Len(z1) = n + 1 /\ (\A k \in 1..n : z1[k] = s1[k]) /\ z1[n + 1] = e1
    BY <1>1, <2>1
  <2>3. 1..(n + 1) = (1..n) \cup {n + 1}
    <3>1. n \in Nat
      BY <1>1
    <3> HIDE DEF n
    <3> QED BY ONLY <3>1
  <2> HIDE DEF s1, z1, n, o
  <2> QED BY <1>1, <2>1, <2>2, <2>3 DEF Match, n
<1>4. /\ a.intervals = Append(b.intervals, e) /\ a.packet_count = b.packet_count
      /\ a.cnt_error = b.cnt_error /\ a.bytes_sent = b.bytes_sent
      /\ a.bytes_sent_omit = b.bytes_sent_omit /\ a.bytes_received = b.bytes_received
      /\ a.sent_this_interval = 0 /\ a.received_this_interval = 0
  BY DEF IsCounted
<1>5. /\ e \in Interval /\ e.packet_count = b.packet_count /\ e.cnt_error = b.cnt_error
      /\ e["packets"] = b.packet_count - LastOf(b, "packet_count")
      /\ e["errors"] = b.cnt_error - LastOf(b, "cnt_error")
      /\ e["bytes"] = IF side = conf.sender THEN b.sent_this_interval ELSE b.received_this_interval
  BY <1>1, <1>2 DEF Interval
<1> HIDE DEF e
<1>6. Len(b.intervals) = n /\ Match(s1, o) \in SUBSET (1..n) /\ 1..n \in SUBSET (1..n)
  BY DEF StreamShown, Match
<1>7. /\ LastOf(a, "packet_count") = b.packet_count /\ LastOf(a, "cnt_error") = b.cnt_error
      /\ Len(a.intervals) = n + 1
  <2>1. a.intervals # <<>> /\ Len(a.intervals) = n + 1 /\ a.intervals[n + 1] = e
    <3>1. \A s \in Seq(Interval), x \in Interval :
            Append(s, x) # <<>> /\ Len(Append(s, x)) = Len(s) + 1 /\ Append(s, x)[Len(s) + 1] = x
      OBVIOUS
    <3> HIDE DEF n
    <3> QED BY <1>1, <1>4, <1>5, <1>6, <3>1
  <2> QED BY <1>5, <2>1 DEF LastOf
<1> DEFINE old(f, M) == SumFunctionOnSet(Field(b.intervals, f), M)
           new(f, M) == SumFunctionOnSet(Field(a.intervals, f), M)
<1>8. /\ new("bytes", Match(s1, o) \cup {n + 1}) = old("bytes", Match(s1, o)) + e["bytes"]
      /\ new("packets", (1..n) \cup {n + 1}) = old("packets", 1..n) + e["packets"]
      /\ new("errors", (1..n) \cup {n + 1}) = old("errors", 1..n) + e["errors"]
      /\ old("bytes", Match(s1, o)) \in Int
  <2> DEFINE s == b.intervals
             M == Match(s1, o)
             N == 1..n
  <2>1. /\ s \in Seq(Interval) /\ e \in Interval /\ M \in SUBSET (1..Len(s)) /\ N \in SUBSET (1..Len(s))
        /\ a.intervals = Append(s, e) /\ Len(s) = n
    BY <1>1, <1>4, <1>5, <1>6
  <2>2. "bytes" \in {"bytes", "packets", "errors"} /\ "packets" \in {"bytes", "packets", "errors"}
        /\ "errors" \in {"bytes", "packets", "errors"}
    OBVIOUS
  <2> HIDE DEF s, M, N, n
  <2>3. /\ SumFunctionOnSet(Field(Append(s, e), "bytes"), M \cup {Len(s) + 1})
              = SumFunctionOnSet(Field(s, "bytes"), M) + e["bytes"]
        /\ SumFunctionOnSet(Field(Append(s, e), "packets"), N \cup {Len(s) + 1})
              = SumFunctionOnSet(Field(s, "packets"), N) + e["packets"]
        /\ SumFunctionOnSet(Field(Append(s, e), "errors"), N \cup {Len(s) + 1})
              = SumFunctionOnSet(Field(s, "errors"), N) + e["errors"]
        /\ SumFunctionOnSet(Field(s, "bytes"), M) \in Int
    BY <2>1, <2>2, FieldAppend
  <2> QED BY <2>1, <2>3 DEF s, M, N
<1>9. /\ old("packets", 1..n) = LastOf(b, "packet_count")
      /\ old("errors", 1..n) = LastOf(b, "cnt_error")
      /\ old("bytes", Match(s1, o)) + b.sent_this_interval + b.received_this_interval
           = b.bytes_sent - b.bytes_sent_omit + b.bytes_received
      /\ IF side = conf.sender THEN b.received_this_interval = 0 /\ b.bytes_received = 0
         ELSE b.sent_this_interval = 0 /\ b.bytes_sent = 0 /\ b.bytes_sent_omit = 0
  BY DEF StreamShown
<1> DEFINE X == old("bytes", Match(s1, o))
<1>10. /\ new("packets", 1..Len(z1)) = b.packet_count
       /\ new("errors", 1..Len(z1)) = b.cnt_error
  <2>1. /\ new("packets", (1..n) \cup {n + 1}) = b.packet_count
        /\ new("errors", (1..n) \cup {n + 1}) = b.cnt_error
    <3> HIDE DEF old, new
    <3> QED BY <1>1, <1>2, <1>5, <1>8, <1>9
  <2> HIDE DEF old, new, z1, n
  <2> QED BY <1>3, <2>1
<1>11. new("bytes", Match(z1, o)) + 0 + 0 = b.bytes_sent - b.bytes_sent_omit + b.bytes_received
  <2>1. new("bytes", Match(s1, o) \cup {n + 1}) + 0 + 0
          = b.bytes_sent - b.bytes_sent_omit + b.bytes_received
    <3> HIDE DEF old, new
    <3> QED BY <1>1, <1>5, <1>8, <1>9
  <2> HIDE DEF new, z1, n, s1, o
  <2> QED BY <1>3, <2>1
<1> QED BY <1>3, <1>4, <1>7, <1>9, <1>10, <1>11 DEF StreamShown

\* The omitted period ends.
LEMMA ShownReset ==
  ASSUME NEW side, NEW t, NEW u, NEW s1 \in Seq(Interval), \A k \in 1..Len(s1) : s1[k].omitted,
         u.omitting = FALSE, u.state # "TEST_END",
         NEW a \in StreamRec, NEW b \in StreamRec, IsReset(a, b), StreamShown(side, t, s1, b)
  PROVE  StreamShown(side, u, s1, a)
<1>1. Match(s1, u.omitting) = {}
  BY DEF Match
<1>2. SumFunctionOnSet(Field(a.intervals, "bytes"), Match(s1, u.omitting)) = 0
  BY <1>1, SumEmpty
<1>3. /\ a.intervals = b.intervals /\ a.bytes_sent = b.bytes_sent
      /\ a.bytes_sent_omit = b.bytes_sent /\ a.bytes_received = 0
      /\ a.sent_this_interval = 0 /\ a.received_this_interval = 0
  BY DEF IsReset
<1>4. b.bytes_sent \in Nat
  BY StreamFields
<1>5. /\ LastOf(a, "packet_count") = LastOf(b, "packet_count")
      /\ LastOf(a, "cnt_error") = LastOf(b, "cnt_error")
  BY <1>3 DEF LastOf
<1> QED BY <1>2, <1>3, <1>4, <1>5 DEF StreamShown


\* The steps that end the test of a side, and its omitted period.
LEMMA EndsLemma ==
  ASSUME TypeInv, NEW side \in Side
  PROVE  /\ Ends(side) => CountStep(side)
         /\ OmitTimer(side) => ResetStep(side) /\ ~test'[side].omitting /\ test[side].omitting
         /\ CountStep(side) => ~OmitTimer(side)
<1>1. "c" \in Side /\ "s" \in Side
  BY DEF Side
<1>2. ASSUME Ends(side) PROVE CountStep(side)
  <2>1. /\ stream' = StreamsOf(side, AddInterval) /\ net' = net /\ ghost' = ghost
        /\ test[side].state = "TEST_RUNNING"
    BY <1>2 DEF Ends, EndOfTurn, ServerEnds, iperf_stats_callback, Running
  <2>2. CountFacts(side)
    BY <2>1, CountLemma
  <2> QED BY <1>2, <2>1, <2>2 DEF CountStep
<1>3. ASSUME OmitTimer(side)
      PROVE  ResetStep(side) /\ ~test'[side].omitting /\ test[side].omitting
  <2>1. ResetFacts(side)
    BY <1>3, OmitLemma
  <2>2. /\ net' = net /\ ghost' = ghost /\ test[side].state = "TEST_RUNNING" /\ test[side].omitting
        /\ test' = [test EXCEPT ![side] = [test[side] EXCEPT !.omitting = FALSE, !.bytes_sent = 0,
                                                             !.blocks_sent = 0]]
    BY <1>3 DEF OmitTimer, Running
  <2>3. test[side] \in TestRec /\ test \in [Side -> TestRec]
    BY TestFields DEF TypeInv
  <2>4. ~test'[side].omitting
    BY <2>2, <2>3 DEF TestRec
  <2> QED BY <1>3, <2>1, <2>2, <2>4 DEF ResetStep
<1>4. ASSUME CountStep(side), OmitTimer(side) PROVE FALSE
  <2>1. ~test'[side].omitting /\ test[side].omitting
    BY <1>3, <1>4
  <2>2. StatsTimer(side) \/ Ends(side)
    BY <1>4 DEF CountStep
  <2>3. CASE StatsTimer(side)
    BY <2>1, <2>3 DEF StatsTimer
  <2>4. CASE side = "c" /\ EndOfTurn("c") /\ TestIsDone
    BY <2>1, <2>4 DEF TestIsDone
  <2>5. CASE side = "s" /\ ServerEnds
    <3>1. test["s"].pc = "select"
      BY <2>5 DEF ServerEnds, Running
    <3>2. test["s"].pc = "timers"
      BY <1>4, <2>5 DEF OmitTimer, Running
    <3> QED BY <3>1, <3>2
  <2> QED BY <2>2, <2>3, <2>4, <2>5 DEF Ends
<1> QED BY <1>2, <1>3, <1>4

LEMMA IntervalsNext ==
  ASSUME TypeInv, IntervalsInv, [Next]_vars
  PROVE  IntervalsInv'
<1>1. /\ conf' = conf /\ TypeInv' /\ TestOK
      /\ \/ QuietStep \/ SendStep \/ GreenStep \/ RecvStep \/ ExchangeStep
         \/ \E side \in Side : CountStep(side) \/ ResetStep(side)
  BY StepLemma, TypeNext, TestLemma
<1>2. /\ Stream' = Stream /\ 1 \in Stream /\ conf.sender \in Side /\ Receiver \in Side
      /\ Receiver # conf.sender /\ Side = {conf.sender, Receiver}
  BY <1>1, ConfLemma, SideLemma DEF Stream, TypeInv, Receiver
<1>3. stream \in Streams /\ stream' \in Streams
  <2>1. stream' \in [Side' -> [Stream' -> StreamRec']] /\ StreamRec' = StreamRec /\ Side' = Side
    BY <1>1 DEF TypeInv, StreamRec, Interval, Side
  <2> QED BY <1>2, <2>1 DEF TypeInv, Streams
<1> SUFFICES ASSUME NEW side \in Side PROVE IntervalsOK(side, test'[side], stream'[side])
  <2>1. \A side \in Side : IntervalsOK(side, test'[side], stream'[side])
                             => IntervalsOK(side, test[side], stream[side])'
    BY <1>1, <1>2 DEF IntervalsOK, StreamShown
  <2>2. Side' = Side
    BY DEF Side
  <2> QED BY <2>1, <2>2 DEF IntervalsInv
<1> DEFINE t == test[side]
           u == test'[side]
           s1 == stream[side][1].intervals
           z1 == stream'[side][1].intervals
<1> SUFFICES ASSUME u.state \in Active
             PROVE  /\ u.omitting => \A k \in 1..Len(z1) : z1[k].omitted
                    /\ \A i \in Stream : StreamShown(side, u, z1, stream'[side][i])
  BY DEF IntervalsOK
<1>4. /\ t.state \in Active /\ (u.omitting => t.omitting)
      /\ u.omitting = t.omitting \/ OmitTimer(side)
      /\ u.state = "TEST_END" => t.state = "TEST_END" \/ Ends(side)
  <2>1. /\ t.state \in Active /\ (u.omitting => t.omitting)
        /\ u.omitting = t.omitting \/ OmitTimer(side)
        /\ \/ u.state = t.state \/ (t.state = "TEST_RUNNING" /\ u.state = "TEST_END" /\ Ends(side))
           \/ ExchangeResults \/ TestFails
    BY <1>1 DEF TestOK
  <2>2. ExchangeResults \/ TestFails => u.state \notin Active
    <3>1. t \in TestRec
      BY TestFields
    <3>2. ExchangeResults \/ TestFails =>
            u = [t EXCEPT !.state = "DISPLAY_RESULTS"] \/ u = [t EXCEPT !.state = "FAILED", !.pc = "select"]
      BY DEF ExchangeResults, TestFails
    <3> QED BY <3>1, <3>2 DEF TestRec, Active
  <2> QED BY <2>1, <2>2
<1>5. /\ t.omitting => \A k \in 1..Len(s1) : s1[k].omitted
      /\ \A i \in Stream : StreamShown(side, t, s1, stream[side][i])
      /\ s1 \in Seq(Interval) /\ z1 \in Seq(Interval)
  <2>1. IntervalsOK(side, t, stream[side])
    BY DEF IntervalsInv
  <2>2. stream[side][1] \in StreamRec /\ stream'[side][1] \in StreamRec
    BY <1>2, <1>3 DEF Streams
  <2> QED BY <1>4, <2>1, <2>2, StreamFields DEF IntervalsOK
<1>6. t.omitting \in BOOLEAN /\ u.omitting \in BOOLEAN
  BY <1>1, TestFields DEF TestOK, TestRec
<1>7. CASE CountStep(side)
  <2>1. u.omitting = t.omitting
    BY <1>4, <1>7, EndsLemma
  <2>2. \A i \in Stream : IsCounted(side, stream'[side][i], stream[side][i])
    BY <1>7 DEF CountStep, CountFacts
  <2>3. ASSUME NEW i \in Stream PROVE StreamShown(side, u, z1, stream'[side][i])
    <3> DEFINE a == stream'[side][i]
               b == stream[side][i]
               c1 == stream'[side][1]
               b1 == stream[side][1]
    <3>1. /\ a \in StreamRec /\ b \in StreamRec /\ c1 \in StreamRec /\ b1 \in StreamRec
          /\ IsCounted(side, a, b) /\ IsCounted(side, c1, b1)
          /\ StreamShown(side, test[side], b1.intervals, b)
      BY <1>2, <1>3, <1>5, <2>2 DEF Streams
    <3> HIDE DEF a, b, c1, b1
    <3>2. StreamShown(side, u, c1.intervals, a)
      BY <1>6, <2>1, <3>1, ShownCount
    <3> QED BY <3>2 DEF a, c1
  <2>4. u.omitting => \A k \in 1..Len(z1) : z1[k].omitted
    <3> DEFINE b1 == stream[side][1]
               e == [omitted |-> t.omitting,
                     bytes |-> IF side = conf.sender THEN b1.sent_this_interval
                               ELSE b1.received_this_interval,
                     packets |-> b1.packet_count - LastOf(b1, "packet_count"),
                     errors |-> b1.cnt_error - LastOf(b1, "cnt_error"),
                     packet_count |-> b1.packet_count, cnt_error |-> b1.cnt_error]
    <3>1. z1 = Append(s1, e) /\ e.omitted = t.omitting
      <4>1. IsCounted(side, stream'[side][1], b1)
        BY <1>2, <2>2
      <4> QED BY <4>1 DEF IsCounted
    <3> HIDE DEF e, b1
    <3>2. Len(z1) = Len(s1) + 1 /\ (\A k \in 1..Len(s1) : z1[k] = s1[k]) /\ z1[Len(s1) + 1] = e
          /\ Len(s1) \in Nat
      BY <1>5, <3>1, SMTT(60)
    <3>3. \A k \in 1..Len(z1) : k \in 1..Len(s1) \/ k = Len(s1) + 1
      BY <3>2
    <3> QED BY <1>5, <2>1, <3>1, <3>2, <3>3
  <2> QED BY <2>3, <2>4
<1>8. CASE ~CountStep(side)
  <2>1. u.state = "TEST_END" => t.state = "TEST_END"
    BY <1>4, <1>8, EndsLemma
  \* Steps that leave the intervals as they are.
  <2>2. ASSUME z1 = s1, \A i \in Stream : StreamShown(side, u, s1, stream'[side][i])
        PROVE  /\ u.omitting => \A k \in 1..Len(z1) : z1[k].omitted
               /\ \A i \in Stream : StreamShown(side, u, z1, stream'[side][i])
    BY <1>4, <1>5, <2>2
  <2>3. CASE ResetStep(side)
    <3>1. /\ \A i \in Stream : IsReset(stream'[side][i], stream[side][i])
          /\ OmitTimer(side) /\ t.state = "TEST_RUNNING" /\ t.omitting
      BY <2>3 DEF ResetStep, ResetFacts
    <3>2. u.omitting = FALSE /\ u.state # "TEST_END"
      BY <1>6, <2>1, <3>1, EndsLemma
    <3>3. z1 = s1
      BY <1>2, <3>1 DEF IsReset
    <3>4. ASSUME NEW i \in Stream PROVE StreamShown(side, u, s1, stream'[side][i])
      <4> DEFINE a == stream'[side][i]
                 b == stream[side][i]
      <4>1. a \in StreamRec /\ b \in StreamRec /\ IsReset(a, b) /\ StreamShown(side, t, s1, b)
        BY <1>3, <1>5, <3>1 DEF Streams
      <4> HIDE DEF a, b
      <4>2. StreamShown(side, u, s1, a)
        BY <1>5, <3>1, <3>2, <4>1, ShownReset, ZenonT(60)
      <4> QED BY <4>2 DEF a
    <3> QED BY <2>2, <3>3, <3>4
  <2>4. CASE ~ResetStep(side)
    <3>1. u.omitting = t.omitting
      BY <1>4, <2>4, EndsLemma
    <3> SUFFICES ASSUME NEW i \in Stream
                 PROVE  /\ stream'[side][i].intervals = stream[side][i].intervals
                        /\ StreamShown(side, u, s1, stream'[side][i])
      BY <1>2, <2>2
    <3> DEFINE a == stream'[side][i]
               b == stream[side][i]
    <3>2. a \in StreamRec /\ b \in StreamRec /\ StreamShown(side, t, s1, b)
          /\ b.sent_this_interval \in Nat /\ b.received_this_interval \in Nat
          /\ b.bytes_sent \in Nat /\ b.bytes_received \in Nat
      BY <1>3, <1>5, StreamFields DEF Streams
    <3>3. ASSUME NEW d \in Nat, a.intervals = b.intervals, a.bytes_sent_omit = b.bytes_sent_omit,
                 IF side = conf.sender
                 THEN /\ a.received_this_interval = b.received_this_interval
                      /\ a.bytes_received = b.bytes_received
                      /\ a.sent_this_interval = b.sent_this_interval + d
                      /\ a.bytes_sent = b.bytes_sent + d
                 ELSE /\ a.sent_this_interval = b.sent_this_interval
                      /\ a.bytes_sent = b.bytes_sent
                      /\ a.received_this_interval = b.received_this_interval + d
                      /\ a.bytes_received = b.bytes_received + d,
                 \/ a.packet_count = b.packet_count /\ a.cnt_error = b.cnt_error
                 \/ t.state = "TEST_RUNNING"
          PROVE  StreamShown(side, u, s1, a) /\ a.intervals = b.intervals
      <4>1. u.state = "TEST_END" => /\ t.state = "TEST_END" /\ a.packet_count = b.packet_count
                                    /\ a.cnt_error = b.cnt_error
        BY <2>1, <3>3
      <4> DEFINE aa == a
                 bb == b
                 tt == t
                 uu == u
      <4>2. /\ aa \in StreamRec /\ bb \in StreamRec /\ StreamShown(side, tt, s1, bb)
            /\ aa.intervals = bb.intervals /\ uu.omitting = tt.omitting
            /\ aa.bytes_sent_omit = bb.bytes_sent_omit
            /\ IF side = conf.sender
               THEN /\ aa.received_this_interval = bb.received_this_interval
                    /\ aa.bytes_received = bb.bytes_received
                    /\ aa.sent_this_interval = bb.sent_this_interval + d
                    /\ aa.bytes_sent = bb.bytes_sent + d
               ELSE /\ aa.sent_this_interval = bb.sent_this_interval
                    /\ aa.bytes_sent = bb.bytes_sent
                    /\ aa.received_this_interval = bb.received_this_interval + d
                    /\ aa.bytes_received = bb.bytes_received + d
            /\ uu.state = "TEST_END" => /\ tt.state = "TEST_END" /\ aa.packet_count = bb.packet_count
                                        /\ aa.cnt_error = bb.cnt_error
        BY <3>1, <3>2, <3>3, <4>1
      <4> HIDE DEF aa, bb, tt, uu, s1
      <4>3. StreamShown(side, uu, s1, aa)
        BY <1>5, <3>3, <4>2, ShownMore, ZenonT(60)
      <4> QED BY <3>3, <4>3 DEF aa, uu
    <3>4. 0 \in Nat
      OBVIOUS
    <3>5. ASSUME a.intervals = b.intervals, a.bytes_sent_omit = b.bytes_sent_omit,
                 a.sent_this_interval = b.sent_this_interval, a.bytes_sent = b.bytes_sent,
                 a.received_this_interval = b.received_this_interval,
                 a.bytes_received = b.bytes_received, a.packet_count = b.packet_count,
                 a.cnt_error = b.cnt_error
          PROVE  StreamShown(side, u, s1, a) /\ a.intervals = b.intervals
      BY <3>2, <3>3, <3>4, <3>5
    <3>6. CASE QuietStep
      BY <3>5, <3>6 DEF QuietStep
    <3>7. CASE SendStep
      <4>1. PICK k, o, x : SendFacts(k, o, x)
        BY <3>7 DEF SendStep
      <4> DEFINE r == IF o.r = NET_SOFTERROR THEN 0 ELSE o.r
      <4>2. SendEffect(k, x, r)
        BY <4>1, SendEffectLemma
      <4> HIDE DEF r
      <4>3. CASE side = conf.sender /\ i = k
        <5>1. /\ a = x /\ r \in Nat /\ a.intervals = b.intervals
              /\ a.bytes_sent_omit = b.bytes_sent_omit
              /\ a.received_this_interval = b.received_this_interval
              /\ a.bytes_received = b.bytes_received
              /\ a.sent_this_interval = b.sent_this_interval + r /\ a.bytes_sent = b.bytes_sent + r
          BY <4>2, <4>3 DEF SendEffect
        <5>2. t.state = "TEST_RUNNING"
          BY <4>1, <4>3 DEF SendFacts
        <5> QED BY <3>3, <4>3, <5>1, <5>2
      <4>4. CASE ~(side = conf.sender /\ i = k)
        <5>1. a = b
          BY <1>2, <4>2, <4>4 DEF SendEffect
        <5> QED BY <3>5, <5>1
      <4> QED BY <4>3, <4>4
    <3>8. CASE GreenStep
      <4>1. SameButGreen(a, b)
        BY <3>8 DEF GreenStep, GreenFacts
      <4> QED BY <3>2, <3>5, <4>1, GreenFields
    <3>9. CASE RecvStep
      <4>1. PICK R, p : RecvFacts(R, p)
        BY <3>9 DEF RecvStep
      <4>2. CASE side = conf.sender \/ ~(i \in R /\ test[Receiver].state = "TEST_RUNNING")
        <5>1. a = b
          BY <1>2, <4>1, <4>2 DEF RecvFacts
        <5> QED BY <3>5, <5>1
      <4>3. CASE side # conf.sender /\ i \in R /\ test[Receiver].state = "TEST_RUNNING"
        <5>1. side = Receiver /\ t.state = "TEST_RUNNING"
          BY <1>2, <4>3
        <5>2. Block \in Nat /\ Min({net[i].bytes, Block}) \in Nat
          <6>1. Block \in Nat /\ net[i].bytes \in Nat
            BY ConfLemma, NetFields DEF TypeInv
          <6> QED BY <6>1, MinMaxLemma
        <5>3. PICK d \in Nat : /\ SameSender(a, b) /\ a.bytes_received = b.bytes_received + d
                               /\ a.received_this_interval = b.received_this_interval + d
          <6>1. CASE conf.proto = "udp"
            <7>1. IsDatagram(a, b, p[i])
              BY <4>1, <4>3, <5>1, <6>1 DEF RecvFacts
            <7> QED BY <5>2, <7>1 DEF IsDatagram
          <6>2. CASE conf.proto # "udp"
            <7>1. IsGot(a, b, Min({net[i].bytes, Block}))
              BY <4>1, <4>3, <5>1, <6>2 DEF RecvFacts
            <7> QED BY <5>2, <7>1 DEF IsGot
          <6> QED BY <6>1, <6>2
        <5>4. /\ a.intervals = b.intervals /\ a.bytes_sent_omit = b.bytes_sent_omit
              /\ a.sent_this_interval = b.sent_this_interval /\ a.bytes_sent = b.bytes_sent
          BY <5>3 DEF SameSender
        <5> QED BY <3>3, <4>3, <5>1, <5>3, <5>4
      <4> QED BY <4>2, <4>3
    <3>10. ~ExchangeStep
      <4>1. t \in TestRec
        BY TestFields
      <4>2. ExchangeResults => u = [t EXCEPT !.state = "DISPLAY_RESULTS"]
        BY DEF ExchangeResults
      <4>3. ExchangeResults => u.state = "DISPLAY_RESULTS"
        BY <4>1, <4>2 DEF TestRec
      <4> QED BY <4>3 DEF ExchangeStep, Active
    <3>11. ASSUME NEW x \in Side, CountStep(x) \/ ResetStep(x)
           PROVE  StreamShown(side, u, s1, a) /\ a.intervals = b.intervals
      <4>1. x # side
        BY <1>8, <2>4, <3>11
      <4>2. side = Other(x)
        BY <4>1, SideLemma
      <4>3. a = b
        BY <3>11, <4>2 DEF CountStep, ResetStep, CountFacts, ResetFacts
      <4> QED BY <3>5, <4>3
    <3> QED BY <1>1, <3>6, <3>7, <3>8, <3>9, <3>10, <3>11
  <2> QED BY <2>3, <2>4
<1> QED BY <1>7, <1>8


\* What a side shows adds up.
LEMMA IntervalsSafety == ASSUME TypeInv, IntervalsInv PROVE IntervalsAddUp
<1> SUFFICES ASSUME NEW side \in Side, test[side].state \in Active
             PROVE
    LET shown == {k \in Kept(side) : stream[side][1].intervals[k].omitted = test[side].omitting}
        rest(i) == stream[side][i].sent_this_interval + stream[side][i].received_this_interval
        total(i) == LET sp == stream[side][i]
                    IN  sp.bytes_sent - sp.bytes_sent_omit + sp.bytes_received
        bytes(i) == [k \in shown |-> print_interval_results(side, i, k).bytes]
        count(i, f) == SumFunction([k \in Intervals(side) |-> print_interval_results(side, i, k)[f]])
    IN  /\ \A i \in Stream : SumFunction(bytes(i)) + rest(i) = total(i)
        /\ SumFunction([k \in shown |-> iperf_print_intermediate(side, k).bytes])
             + SumFunction([i \in Stream |-> rest(i)]) = SumFunction([i \in Stream |-> total(i)])
        /\ test[side].state = "TEST_END" =>
             \A i \in Stream : /\ count(i, "packets") = stream[side][i].packet_count
                               /\ count(i, "lost") = stream[side][i].cnt_error
  BY DEF IntervalsAddUp, Active
<1> DEFINE s1 == stream[side][1].intervals
           o == test[side].omitting
           M == Match(s1, o)
           shown == {k \in Kept(side) : s1[k].omitted = o}
           rest(i) == stream[side][i].sent_this_interval + stream[side][i].received_this_interval
           total(i) == stream[side][i].bytes_sent - stream[side][i].bytes_sent_omit
                       + stream[side][i].bytes_received
           bytes(i) == [k \in shown |-> print_interval_results(side, i, k).bytes]
           count(i, f) == SumFunction([k \in Intervals(side) |-> print_interval_results(side, i, k)[f]])
           line == [k \in shown |-> iperf_print_intermediate(side, k).bytes]
           m == [i \in Stream |-> bytes(i)]
           rests == [i \in Stream |-> rest(i)]
           totals == [i \in Stream |-> total(i)]
<1>1. conf \in Configs /\ 1 \in Stream /\ IsFiniteSet(Stream)
  BY ConfLemma, StreamFinite DEF Stream, TypeInv
<1>2. ASSUME NEW i \in Stream
      PROVE  /\ stream[side][i] \in StreamRec /\ stream[side][i].intervals \in Seq(Interval)
             /\ StreamShown(side, test[side], s1, stream[side][i])
             /\ Len(stream[side][i].intervals) = Len(s1)
             /\ rest(i) \in Int /\ total(i) \in Int
  <2>1. stream[side][i] \in StreamRec
    BY DEF TypeInv
  <2>2. StreamShown(side, test[side], s1, stream[side][i])
    BY DEF IntervalsInv, IntervalsOK
  <2>3. Len(stream[side][i].intervals) = Len(s1)
    BY <2>2 DEF StreamShown
  <2>4. /\ stream[side][i].intervals \in Seq(Interval)
        /\ stream[side][i].sent_this_interval \in Nat
        /\ stream[side][i].received_this_interval \in Nat /\ stream[side][i].bytes_sent \in Nat
        /\ stream[side][i].bytes_sent_omit \in Nat /\ stream[side][i].bytes_received \in Nat
    BY <2>1, StreamFields
  <2>5. rest(i) \in Int
    BY <2>4
  <2>6. total(i) \in Int
    BY <2>4
  <2> HIDE DEF rest, total
  <2> QED BY <2>1, <2>2, <2>3, <2>4, <2>5, <2>6
<1>3. Intervals(side) = 1..Len(s1) /\ Len(s1) \in Nat /\ s1 \in Seq(Interval)
  BY <1>1, <1>2 DEF Intervals
<1>4. shown \in SUBSET M /\ M \in SUBSET (1..Len(s1))
  BY <1>3 DEF Kept, Match
<1>5. \A i \in Stream : \A k \in 1..Len(s1) :
        /\ print_interval_results(side, i, k).bytes = stream[side][i].intervals[k].bytes
        /\ print_interval_results(side, i, k)["bytes"] = stream[side][i].intervals[k].bytes
        /\ print_interval_results(side, i, k)["packets"] = stream[side][i].intervals[k].packets
        /\ print_interval_results(side, i, k)["lost"] = stream[side][i].intervals[k].errors
        /\ stream[side][i].intervals[k].bytes \in Nat
  <2> SUFFICES ASSUME NEW i \in Stream, NEW k \in 1..Len(s1)
               PROVE
        /\ print_interval_results(side, i, k).bytes = stream[side][i].intervals[k].bytes
        /\ print_interval_results(side, i, k)["bytes"] = stream[side][i].intervals[k].bytes
        /\ print_interval_results(side, i, k)["packets"] = stream[side][i].intervals[k].packets
        /\ print_interval_results(side, i, k)["lost"] = stream[side][i].intervals[k].errors
        /\ stream[side][i].intervals[k].bytes \in Nat
    OBVIOUS
  <2>1. stream[side][i].intervals[k] \in Interval
    BY <1>2
  <2> QED BY <2>1 DEF print_interval_results, Interval
<1>6. IsFiniteSet(shown) /\ IsFiniteSet(M)
  <2>1. IsFiniteSet(1..Len(s1))
    BY <1>3, FS_Interval
  <2> QED BY <1>4, <2>1, FS_Subset
<1>7. ASSUME NEW i \in Stream
      PROVE  /\ SumFunctionOnSet(bytes(i), shown) \in Int
             /\ SumFunctionOnSet(bytes(i), shown) + rest(i) = total(i)
             /\ SumFunction(bytes(i)) = SumFunctionOnSet(bytes(i), shown)
             /\ \A k \in shown : bytes(i)[k] = stream[side][i].intervals[k].bytes
                                 /\ bytes(i)[k] \in Int
  <2> DEFINE sp == stream[side][i]
             F == Field(sp.intervals, "bytes")
             B == bytes(i)
  <2>1. /\ SumFunctionOnSet(F, M) \in Int
        /\ \A k \in M : F[k] \in Int /\ F[k] = sp.intervals[k].bytes
    <3>1. "bytes" \in {"bytes", "packets", "errors"} /\ M \in SUBSET (1..Len(sp.intervals))
          /\ sp.intervals \in Seq(Interval)
      BY <1>2, <1>4
    <3> QED BY <3>1, FieldType
  <2>2. \A k \in M \ shown : F[k] = 0
    <3> SUFFICES ASSUME NEW k \in M, k \notin shown PROVE sp.intervals[k].bytes = 0
      BY <2>1
    <3>1. k \in Intervals(side) /\ s1[k].omitted = o
      BY <1>3, <1>4 DEF Match
    <3>2. ~(sp.intervals[k].bytes > 0)
      BY <3>1 DEF Kept
    <3> QED BY <1>3, <1>5, <3>1, <3>2
  <2>3. \A k \in shown : /\ B[k] = sp.intervals[k].bytes /\ B[k] = F[k] /\ B[k] \in Int
                         /\ F[k] \in Int
    BY <1>4, <1>5, <2>1
  <2>4. SumFunction(B) = SumFunctionOnSet(B, shown)
    BY DEF SumFunction
  <2> HIDE DEF F, B, M, shown
  <2>5. SumFunctionOnSet(F, M) = SumFunctionOnSet(F, shown)
    BY <1>4, <1>6, <2>1, <2>2, SumSubset
  <2>6. SumFunctionOnSet(B, shown) = SumFunctionOnSet(F, shown)
    BY <1>6, <2>3, SumEq
  <2>7. SumFunctionOnSet(F, M) + sp.sent_this_interval + sp.received_this_interval = total(i)
    BY <1>2 DEF StreamShown, F, M
  <2>8. SumFunctionOnSet(B, shown) + rest(i) = total(i)
    <3>1. sp.sent_this_interval \in Nat /\ sp.received_this_interval \in Nat
      BY <1>2, StreamFields
    <3> QED BY <2>1, <2>5, <2>6, <2>7, <3>1
  <2> QED BY <2>1, <2>3, <2>4, <2>5, <2>6, <2>8 DEF B
<1>8. SumFunction(line) + SumFunction(rests) = SumFunction(totals)
  <2> DEFINE r == [i \in Stream |-> SumFunctionOnSet(m[i], shown)]
  <2>1. m \in [Stream -> [shown -> Int]]
    <3>1. \A i \in Stream : bytes(i) \in [shown -> Int]
      BY <1>7
    <3> HIDE DEF bytes
    <3> QED BY <3>1
  <2>2. \A i \in Stream : r[i] = SumFunctionOnSet(m[i], shown) /\ m[i] = bytes(i)
    OBVIOUS
  <2>3. \A k \in shown : line[k] = SumFunctionOnSet([i \in Stream |-> m[i][k]], Stream)
    <3> SUFFICES ASSUME NEW k \in shown
                 PROVE  line[k] = SumFunctionOnSet([i \in Stream |-> m[i][k]], Stream)
      OBVIOUS
    <3> DEFINE v == [i \in Stream |-> print_interval_results(side, i, k)["bytes"]]
    <3>1. line[k] = SumFunction(v)
      BY DEF iperf_print_intermediate
    <3>2. SumFunction(v) = SumFunctionOnSet(v, Stream)
      BY DEF SumFunction
    <3>3. \A i \in Stream : m[i][k] = print_interval_results(side, i, k)["bytes"]
      BY <1>4, <1>5
    <3>4. v = [i \in Stream |-> m[i][k]]
      BY <3>3
    <3> QED BY <3>1, <3>2, <3>4
  <2>4. /\ SumFunction(line) = SumFunctionOnSet(line, shown)
        /\ SumFunction(rests) = SumFunctionOnSet(rests, Stream)
        /\ SumFunction(totals) = SumFunctionOnSet(totals, Stream)
    BY DEF SumFunction
  <2>5. \A i \in Stream : /\ r[i] \in Int /\ rests[i] \in Int /\ totals[i] \in Int
                          /\ totals[i] = r[i] + rests[i]
    <3>1. \A i \in Stream : rests[i] = rest(i) /\ totals[i] = total(i)
      OBVIOUS
    <3> HIDE DEF rests, totals, rest, total, bytes, shown, r, m
    <3> QED BY <1>2, <1>7, <2>2, <3>1
  <2> HIDE DEF r, m, line, rests, totals, shown
  <2>6. SumFunctionOnSet(r, Stream) = SumFunctionOnSet(line, shown)
    <3> DEFINE S == Stream
    <3>1. IsFiniteSet(S) /\ IsFiniteSet(shown)
      BY <1>1, <1>6
    <3>2. \A x \in S : r[x] = SumFunctionOnSet(m[x], shown)
      BY <2>2
    <3>3. m \in [S -> [shown -> Int]]
      BY <2>1
    <3> DEFINE w == [y \in shown |-> [x \in S |-> m[x][y]]]
    <3>4. /\ \A y \in shown : line[y] = SumFunctionOnSet(w[y], S)
          /\ \A y \in shown : \A x \in S : w[y][x] = m[x][y]
      BY <2>3
    <3>5. SumFunctionOnSet(r, S) = SumFunctionOnSet(line, shown)
      <4> HIDE DEF S, w
      <4> QED BY <3>1, <3>2, <3>3, <3>4, SumSwap, SMTT(60)
    <3> QED BY <3>5
  <2>7. SumFunctionOnSet(totals, Stream) = SumFunctionOnSet(r, Stream) + SumFunctionOnSet(rests, Stream)
    BY <1>1, <2>5, SumPlus
  <2> QED BY <2>4, <2>6, <2>7
<1>9. ASSUME NEW i \in Stream, test[side].state = "TEST_END"
      PROVE  /\ count(i, "packets") = stream[side][i].packet_count
             /\ count(i, "lost") = stream[side][i].cnt_error
  <2> DEFINE sp == stream[side][i]
             N == 1..Len(s1)
             P == Field(sp.intervals, "packets")
             E == Field(sp.intervals, "errors")
             p == [k \in Intervals(side) |-> print_interval_results(side, i, k)["packets"]]
             e == [k \in Intervals(side) |-> print_interval_results(side, i, k)["lost"]]
  <2>1. N \in SUBSET (1..Len(sp.intervals)) /\ sp.intervals \in Seq(Interval) /\ IsFiniteSet(N)
    <3>1. IsFiniteSet(1..Len(s1))
      BY <1>3, FS_Interval
    <3> QED BY <1>2, <3>1
  <2>2. /\ "packets" \in {"bytes", "packets", "errors"}
        /\ "errors" \in {"bytes", "packets", "errors"}
    OBVIOUS
  <2>3. /\ \A k \in N : P[k] \in Int /\ P[k] = sp.intervals[k]["packets"]
        /\ \A k \in N : E[k] \in Int /\ E[k] = sp.intervals[k]["errors"]
    BY <2>1, <2>2, FieldType
  <2>4. /\ \A k \in N : P[k] \in Int /\ P[k] = p[k]
        /\ \A k \in N : E[k] \in Int /\ E[k] = e[k]
    BY <1>3, <1>5, <2>3
  <2>5. count(i, "packets") = SumFunctionOnSet(p, N) /\ count(i, "lost") = SumFunctionOnSet(e, N)
    BY <1>3 DEF SumFunction
  <2> HIDE DEF P, E, p, e, N
  <2>6. SumFunctionOnSet(P, N) = SumFunctionOnSet(p, N) /\ SumFunctionOnSet(E, N) = SumFunctionOnSet(e, N)
    BY <2>1, <2>4, SumEq
  <2>7. SumFunctionOnSet(P, N) = sp.packet_count /\ SumFunctionOnSet(E, N) = sp.cnt_error
    BY <1>2, <1>9 DEF StreamShown, P, E, N
  <2> QED BY <2>5, <2>6, <2>7
<1> QED BY <1>7, <1>8, <1>9

\* No byte is shown in two intervals or in none (iperf_stats_callback, iperf_reset_stats,
\* iperf_print_intermediate).
THEOREM IntervalsTheorem == Spec => []IntervalsAddUp
<1> DEFINE I == TypeInv /\ IntervalsInv
<1>1. Init => I
  BY TypeInit, IntervalsInit
<1>2. I /\ [Next]_vars => I'
  BY TypeNext, IntervalsNext
<1>3. I => IntervalsAddUp
  BY IntervalsSafety
<1> QED BY <1>1, <1>2, <1>3, PTL DEF Spec


-----------------------------------------------------------------------------
(* The server's bitrate limit *)

\* What w intervals in a row, up to the n-th, add up to; V[k] is that of the k-th.
Window(V, w, n) == SumFunctionOnSet(V, (n - w + 1)..n)

\* The ring holds the last w intervals: which one is in slot j.
Slot(l, w, j) == IF j <= l.index THEN l.count - l.index + j ELSE l.count - l.index + j - w

RingOK(l, w, V) ==
  /\ l.ring \in [0..w -> Int] /\ l.index \in 0..(w - 1) /\ l.count \in Nat
  /\ l.exceeded \in BOOLEAN
  /\ \A j \in 0..(w - 1) : l.ring[j] = V[Slot(l, w, j)]
  /\ SumFunctionOnSet(l.ring, 0..(w - 1)) = Window(V, w, l.count)
  /\ l.exceeded <=> \E k \in w..l.count : Window(V, w, k) \div w > conf.limit

\* A window depends on its intervals only.
LEMMA WindowEq ==
  ASSUME NEW w \in Nat, NEW n \in Int, NEW V, NEW W,
         \A k \in Int : k <= n => V[k] \in Int /\ W[k] = V[k]
  PROVE  Window(W, w, n) = Window(V, w, n) /\ Window(V, w, n) \in Int
<1> DEFINE S == (n - w + 1)..n
<1>1. IsFiniteSet(S)
  BY FS_Interval
<1>2. \A k \in S : V[k] \in Int /\ W[k] \in Int /\ V[k] = W[k]
  OBVIOUS
<1> HIDE DEF S
<1>3. SumFunctionOnSet(V, S) = SumFunctionOnSet(W, S)
  BY <1>1, <1>2, SumEq
<1>4. SumFunctionOnSet(V, S) \in Int
  BY <1>1, <1>2, SumType
<1> QED BY <1>3, <1>4 DEF Window, S

\* The window moves by one interval.
LEMMA WindowMoves ==
  ASSUME NEW w \in Nat, w >= 1, NEW n \in Int, NEW V, \A k \in Int : V[k] \in Int
  PROVE  Window(V, w, n + 1) = Window(V, w, n) - V[n - w + 1] + V[n + 1]
<1> DEFINE a == n - w + 1
           b == n + 1
           A == a..n
           B == (b - w + 1)..b
           U == a..b
<1>1. a \in Int /\ b \in Int /\ IsFiniteSet(U) /\ IsFiniteSet(A) /\ IsFiniteSet(B)
  BY FS_Interval
<1>2. a \in U /\ b \in U /\ U \ {b} = A /\ U \ {a} = B
  OBVIOUS
<1>3. (\A k \in U : V[k] \in Int) /\ (\A k \in A : V[k] \in Int) /\ \A k \in B : V[k] \in Int
  OBVIOUS
<1>4. V[a] \in Int /\ V[b] \in Int
  BY <1>1
<1> HIDE DEF a, b, A, B, U
<1>5. SumFunctionOnSet(V, U) = V[b] + SumFunctionOnSet(V, A)
  <2>1. SumFunctionOnSet(V, U) = V[b] + SumFunctionOnSet(V, U \ {b})
    BY <1>1, <1>2, <1>3, SumRemove
  <2> QED BY ONLY <1>2, <2>1, Zenon
<1>6. SumFunctionOnSet(V, U) = V[a] + SumFunctionOnSet(V, B)
  <2>1. SumFunctionOnSet(V, U) = V[a] + SumFunctionOnSet(V, U \ {a})
    BY <1>1, <1>2, <1>3, SumRemove
  <2> QED BY ONLY <1>2, <2>1, Zenon
<1>7. SumFunctionOnSet(V, A) \in Int /\ SumFunctionOnSet(V, B) \in Int
  BY <1>1, <1>3, SumType
<1>8. SumFunctionOnSet(V, B) = SumFunctionOnSet(V, A) - V[a] + V[b]
  BY ONLY <1>4, <1>5, <1>6, <1>7
<1> QED BY <1>8 DEF Window, a, b, A, B

\* More intervals change nothing as long as the ring does not see them.
LEMMA RingSame ==
  ASSUME NEW w \in Nat, NEW l, NEW V, NEW W, RingOK(l, w, V),
         \A k \in Int : k <= l.count => V[k] \in Int /\ W[k] = V[k]
  PROVE  RingOK(l, w, W)
<1>1. l.count \in Nat /\ l.index \in 0..(w - 1) /\ l.exceeded \in BOOLEAN
  BY DEF RingOK
<1>2. \A j \in 0..(w - 1) : Slot(l, w, j) \in Int /\ Slot(l, w, j) <= l.count
  BY <1>1 DEF Slot
<1>3. \A k \in Int : k <= l.count => Window(W, w, k) = Window(V, w, k)
  <2> SUFFICES ASSUME NEW k \in Int, k <= l.count PROVE Window(W, w, k) = Window(V, w, k)
    OBVIOUS
  <2>1. \A x \in Int : x <= k => V[x] \in Int /\ W[x] = V[x]
    BY <1>1
  <2> QED BY <2>1, WindowEq
<1>4. \A j \in 0..(w - 1) : l.ring[j] = W[Slot(l, w, j)]
  BY <1>2 DEF RingOK
<1>5. SumFunctionOnSet(l.ring, 0..(w - 1)) = Window(W, w, l.count)
  BY <1>1, <1>3 DEF RingOK
<1>6. (\E k \in w..l.count : Window(W, w, k) \div w > conf.limit)
        <=> \E k \in w..l.count : Window(V, w, k) \div w > conf.limit
  <2>1. \A k \in w..l.count : Window(W, w, k) = Window(V, w, k)
    BY <1>1, <1>3
  <2> QED BY <2>1
<1> QED BY <1>4, <1>5, <1>6 DEF RingOK

\* One interval more.
LEMMA RingStep ==
  ASSUME NEW w \in Nat, w = conf.window, conf.limit # 0, NEW l, NEW V, \A k \in Int : V[k] \in Int,
         RingOK(l, w, V), NEW bytes, bytes = V[l.count + 1], NEW d, ~d
  PROVE  RingOK(iperf_check_total_rate(l, bytes, d), w, V)
         /\ iperf_check_total_rate(l, bytes, d).count = l.count + 1
<1> DEFINE n == l.count
           x == IF l.index + 1 >= w THEN 0 ELSE l.index + 1
           ring == [l.ring EXCEPT ![x] = bytes]
           total == SumFunctionOnSet(ring, 0..(w - 1))
           over == n + 1 >= w /\ total \div w > conf.limit
           m == [ring |-> ring, index |-> x, count |-> n + 1, exceeded |-> l.exceeded \/ over]
           S == 0..(w - 1)
<1>1. iperf_check_total_rate(l, bytes, d) = m
  BY DEF iperf_check_total_rate
<1>2. /\ n \in Nat /\ l.index \in 0..(w - 1) /\ l.ring \in [0..w -> Int] /\ l.exceeded \in BOOLEAN
      /\ \A j \in S : l.ring[j] = V[Slot(l, w, j)]
      /\ SumFunctionOnSet(l.ring, S) = Window(V, w, n)
      /\ l.exceeded <=> \E k \in w..n : Window(V, w, k) \div w > conf.limit
  BY DEF RingOK
<1>3. x \in 0..(w - 1) /\ x \in 0..w /\ w >= 1 /\ bytes \in Int /\ V[n + 1] = bytes
  BY <1>2, SMTT(60)
<1>4. ring \in [0..w -> Int] /\ ring[x] = bytes /\ \A j \in S : j # x => ring[j] = l.ring[j]
  BY <1>2, <1>3, SMTT(60)
<1>5. m.ring = ring /\ m.index = x /\ m.count = n + 1 /\ (m.exceeded <=> l.exceeded \/ over)
      /\ m.exceeded \in BOOLEAN
  OBVIOUS
<1>6. /\ Slot(m, w, x) = n + 1 /\ Slot(l, w, x) = n - w + 1
      /\ \A j \in S : j # x => Slot(m, w, j) = Slot(l, w, j)
  <2> DEFINE y == l.index
  <2>1. /\ y \in 0..(w - 1) /\ x \in 0..(w - 1) /\ n \in Nat
        /\ IF y + 1 >= w THEN x = 0 ELSE x = y + 1
    BY <1>2, <1>3
  <2> HIDE DEF m
  <2>2. /\ \A j \in S : Slot(m, w, j) = IF j <= x THEN n + 1 - x + j ELSE n + 1 - x + j - w
        /\ \A j \in S : Slot(l, w, j) = IF j <= y THEN n - y + j ELSE n - y + j - w
    <3>1. m.index = x /\ m.count = n + 1 /\ l.count = n /\ l.index = y
      BY <1>5
    <3> HIDE DEF x, n, y, S
    <3> QED BY <2>1, <3>1 DEF Slot
  <2>3. x \in S /\ S = 0..(w - 1)
    BY <1>3
  <2> HIDE DEF n, x, y, S
  <2>4. Slot(m, w, x) = n + 1
    BY <2>1, <2>2, <2>3
  <2>5. Slot(l, w, x) = n - w + 1
    <3>1. Slot(l, w, x) = IF x <= y THEN n - y + x ELSE n - y + x - w
      BY <2>2, <2>3
    <3>2. (IF x <= y THEN n - y + x ELSE n - y + x - w) = n - w + 1
      BY <2>1
    <3> QED BY <3>1, <3>2
  <2>6. ASSUME NEW j \in S, j # x PROVE Slot(m, w, j) = Slot(l, w, j)
    <3>1. /\ Slot(m, w, j) = IF j <= x THEN n + 1 - x + j ELSE n + 1 - x + j - w
          /\ Slot(l, w, j) = IF j <= y THEN n - y + j ELSE n - y + j - w
      BY <2>2
    <3>2. j \in 0..(w - 1)
      BY <2>3
    <3>3. (IF j <= x THEN n + 1 - x + j ELSE n + 1 - x + j - w)
            = IF j <= y THEN n - y + j ELSE n - y + j - w
      BY <2>1, <2>6, <3>2
    <3> QED BY <3>1, <3>3
  <2> QED BY <2>4, <2>5, <2>6
<1>7. IsFiniteSet(S) /\ \A j \in S : l.ring[j] \in Int
  <2>1. 0 \in Int /\ w - 1 \in Int
    OBVIOUS
  <2>2. IsFiniteSet(S)
    BY <2>1, FS_Interval
  <2>3. l.ring \in [0..w -> Int] /\ \A j \in S : j \in 0..w
    BY <1>2
  <2> HIDE DEF S
  <2>4. \A j \in S : l.ring[j] \in Int
    BY <2>3
  <2> QED BY <2>2, <2>4
<1> HIDE DEF m, ring, total, over, x, S
<1>8. \A j \in S : m.ring[j] = V[Slot(m, w, j)]
  BY <1>2, <1>3, <1>4, <1>5, <1>6
<1>9. x \in S /\ l.ring[x] = V[n - w + 1]
  BY <1>2, <1>3, <1>6 DEF S
<1>10. SumFunctionOnSet(ring, S) = SumFunctionOnSet(l.ring, S) - l.ring[x] + ring[x]
  <2> DEFINE f == l.ring
  <2>1. f[x] \in Int /\ ring[x] \in Int /\ \A y \in S \ {x} : f[y] \in Int /\ ring[y] = f[y]
    BY <1>3, <1>4, <1>7, <1>9
  <2> HIDE DEF f
  <2>2. SumFunctionOnSet(ring, S) = SumFunctionOnSet(f, S) - f[x] + ring[x]
    BY <1>7, <1>9, <2>1, SumUpdate
  <2> QED BY <2>2 DEF f
<1>11. Window(V, w, n + 1) = Window(V, w, n) - V[n - w + 1] + V[n + 1]
  <2>1. w \in Nat /\ w >= 1 /\ n \in Int /\ \A k \in Int : V[k] \in Int
    BY <1>2, <1>3
  <2> HIDE DEF n
  <2> QED BY ONLY <2>1, WindowMoves
<1>12. total = SumFunctionOnSet(ring, S)
  BY DEF total, S
<1>13. total = Window(V, w, n + 1)
  BY <1>2, <1>3, <1>4, <1>9, <1>10, <1>11, <1>12
<1>14. m.exceeded <=> \E k \in w..(n + 1) : Window(V, w, k) \div w > conf.limit
  <2> DEFINE Over(k) == Window(V, w, k) \div w > conf.limit
  <2>1. over <=> n + 1 >= w /\ Over(n + 1)
    BY <1>13 DEF over
  <2>2. l.exceeded <=> \E k \in w..n : Over(k)
    BY <1>2
  <2> HIDE DEF Over
  <2>3. m.exceeded <=> \E k \in w..(n + 1) : Over(k)
    <3>1. /\ \A k \in w..(n + 1) : k \in w..n \/ (k = n + 1 /\ n + 1 >= w)
          /\ \A k \in w..n : k \in w..(n + 1)
          /\ n + 1 >= w => n + 1 \in w..(n + 1)
      BY <1>2
    <3> HIDE DEF n
    <3> QED BY ONLY <1>5, <2>1, <2>2, <3>1, Zenon
  <2> QED BY <2>3 DEF Over
<1>15. m.ring \in [0..w -> Int] /\ m.index \in 0..(w - 1) /\ m.count \in Nat /\ m.exceeded \in BOOLEAN
  BY <1>2, <1>3, <1>4, <1>5
<1>16. SumFunctionOnSet(m.ring, 0..(w - 1)) = Window(V, w, m.count)
  BY <1>5, <1>12, <1>13 DEF S
<1>17. \A j \in 0..(w - 1) : m.ring[j] = V[Slot(m, w, j)]
  BY <1>8 DEF S
<1>18. m.exceeded <=> \E k \in w..m.count : Window(V, w, k) \div w > conf.limit
  BY <1>5, <1>14
<1>19. RingOK(m, w, V)
  BY <1>15, <1>16, <1>17, <1>18 DEF RingOK
<1> QED BY <1>1, <1>5, <1>19

\* What the server does to the ring and to its intervals.
ServerStep ==
  \/ limit' = limit /\ \A i \in Stream : stream'["s"][i].intervals = stream["s"][i].intervals
  \/ /\ CountFacts("s") /\ test["s"].state \in Active
     /\ \E d \in BOOLEAN : /\ limit' = iperf_check_total_rate(limit, IntervalBytes("s"), d)
                           /\ (d \/ ~test["s"].done) /\ (d => test'["s"].done)

LEMMA ServerStepLemma ==
  ASSUME TypeInv, [Next]_vars
  PROVE  ServerStep
<1>1. /\ "s" \in Side /\ test["s"].done \in BOOLEAN /\ "c" # "s" /\ test \in [Side -> TestRec]
      /\ conf.sender \in Side /\ Receiver \in Side /\ Side = {conf.sender, Receiver}
  BY TestFields, ConfLemma, SideLemma DEF TypeInv, Side, Receiver
<1>2. TestOK /\ conf' = conf
  BY TestLemma, StepLemma
<1>3. CASE StatsTimer("s")
  <2>1. /\ stream' = StreamsOf("s", AddInterval) /\ test["s"].state = "TEST_RUNNING"
        /\ limit' = iperf_check_total_rate(limit, IntervalBytes("s"), test["s"].done)
    BY <1>3 DEF StatsTimer, iperf_stats_callback, Running
  <2>2. CountFacts("s")
    BY <1>1, <2>1, CountLemma
  <2>3. test["s"].done => test'["s"].done
    BY <1>1, <1>2 DEF TestOK
  <2> QED BY <1>1, <2>1, <2>2, <2>3 DEF ServerStep, Active
<1>4. CASE ServerEnds
  <2>1. /\ stream' = StreamsOf("s", AddInterval) /\ test["s"].state = "TEST_RUNNING"
        /\ limit' = iperf_check_total_rate(limit, IntervalBytes("s"), TRUE)
        /\ test' = [test EXCEPT !["s"] = [test["s"] EXCEPT !.state = "TEST_END", !.done = TRUE]]
    BY <1>4 DEF ServerEnds, iperf_stats_callback, Running
  <2>2. CountFacts("s")
    BY <1>1, <2>1, CountLemma
  <2>3. test'["s"].done
    BY <1>1, <2>1 DEF TestRec
  <2> QED BY <2>1, <2>2, <2>3 DEF ServerStep, Active
<1>5. CASE ~StatsTimer("s") /\ ~ServerEnds
  <2>1. limit' = limit
    <3>1. ASSUME NEW side \in Side, StatsTimer(side) PROVE limit' = limit
      BY <1>5, <3>1 DEF StatsTimer, iperf_stats_callback
    <3>2. ASSUME NEW side \in Side, EndOfTurn(side) PROVE limit' = limit
      BY <3>2 DEF EndOfTurn, iperf_stats_callback
    <3>3. ASSUME NEW side \in Side, OmitTimer(side) \/ NothingReady(side) PROVE limit' = limit
      BY <3>3 DEF OmitTimer, NothingReady
    <3>4. ASSUME NEW i \in Stream, SendTimer(i) PROVE limit' = limit
      BY <3>4 DEF SendTimer
    <3>5. SendBegin \/ SendOne \/ SendRound \/ Recv => limit' = limit
      BY DEF SendBegin, SendOne, SendRound, Recv
    <3>6. TestTimer \/ ExchangeResults \/ TestFails \/ Tick => limit' = limit
      BY DEF TestTimer, ExchangeResults, TestFails, Tick
    <3> QED BY <1>5, <3>1, <3>2, <3>3, <3>4, <3>5, <3>6 DEF Next, vars, Send, Timer
  <2>2. ASSUME NEW i \in Stream PROVE stream'["s"][i].intervals = stream["s"][i].intervals
    <3> DEFINE a == stream'["s"][i]
               b == stream["s"][i]
    <3>1. b \in StreamRec
      BY <1>1 DEF TypeInv
    <3>2. CASE QuietStep
      BY <3>2 DEF QuietStep
    <3>3. CASE SendStep
      <4>1. PICK k, o, x : SendFacts(k, o, x)
        BY <3>3 DEF SendStep
      <4>2. SendEffect(k, x, IF o.r = NET_SOFTERROR THEN 0 ELSE o.r)
        BY <4>1, SendEffectLemma
      <4> QED BY <1>1, <4>2 DEF SendEffect
    <3>4. CASE GreenStep
      <4>1. SameButGreen(a, b)
        BY <1>1, <3>4 DEF GreenStep, GreenFacts
      <4> QED BY <3>1, <4>1, GreenFields
    <3>5. CASE RecvStep
      <4>1. PICK R, p : RecvFacts(R, p)
        BY <3>5 DEF RecvStep
      <4>2. a = b \/ IsDatagram(a, b, p[i]) \/ IsGot(a, b, Min({net[i].bytes, Block}))
        BY <1>1, <4>1 DEF RecvFacts
      <4> QED BY <4>2 DEF IsDatagram, IsGot, SameSender
    <3>6. CASE ExchangeStep
      <4>1. \/ SenderTold(a, b, stream[Receiver][i]) \/ ReceiverTold(a, b, stream[conf.sender][i])
        BY <1>1, <3>6 DEF ExchangeStep, ExchangeFacts
      <4> QED BY <4>1 DEF SenderTold, ReceiverTold
    <3>7. ASSUME NEW side \in Side, CountStep(side) \/ ResetStep(side) PROVE a.intervals = b.intervals
      <4>1. CASE side = "s"
        <5>1. IsReset(a, b)
          BY <1>1, <1>5, <3>7, <4>1 DEF CountStep, Ends, ResetStep, ResetFacts
        <5> QED BY <5>1 DEF IsReset
      <4>2. CASE side # "s"
        <5>1. Other(side) = "s"
          BY <1>1, <4>2, SideLemma
        <5>2. a = b
          BY <3>7, <5>1 DEF CountStep, ResetStep, CountFacts, ResetFacts
        <5> QED BY <5>2
      <4> QED BY <4>1, <4>2
    <3> QED BY <3>2, <3>3, <3>4, <3>5, <3>6, <3>7, StepLemma
  <2> QED BY <2>1, <2>2 DEF ServerStep
<1> QED BY <1>3, <1>4, <1>5

\* What all streams of the server carried in each interval.
IntervalTotals(sps) ==
  [k \in Int |-> IF k \in 1..Len(sps[1].intervals)
                 THEN SumFunction([i \in Stream |-> sps[i].intervals[k].bytes]) ELSE 0]

\* The streams of a side have the same intervals.
SameLength(sps) == \A i \in Stream : Len(sps[i].intervals) = Len(sps[1].intervals)

\* The ring has seen every interval, the ones after the end of the test excepted.
RingInv ==
  conf.limit # 0 =>
    LET sps == stream["s"]
    IN  /\ RingOK(limit, conf.window, IntervalTotals(sps)) /\ SameLength(sps)
        /\ limit.count <= Len(sps[1].intervals)
        /\ test["s"].done \/ limit.count = Len(sps[1].intervals)

LEMMA TotalsType ==
  ASSUME conf \in Configs, NEW sps \in [Stream -> StreamRec], SameLength(sps), NEW k \in Int
  PROVE  /\ IntervalTotals(sps)[k] \in Int
         /\ k \in 1..Len(sps[1].intervals) =>
              /\ \A i \in Stream : sps[i].intervals[k].bytes \in Int
              /\ IntervalTotals(sps)[k] = SumFunction([i \in Stream |-> sps[i].intervals[k].bytes])
         /\ k \notin 1..Len(sps[1].intervals) => IntervalTotals(sps)[k] = 0
<1>1. 1 \in Stream /\ IsFiniteSet(Stream)
  BY ConfLemma, StreamFinite DEF Stream
<1>2. CASE k \notin 1..Len(sps[1].intervals)
  BY <1>2 DEF IntervalTotals
<1>3. CASE k \in 1..Len(sps[1].intervals)
  <2> DEFINE f == [i \in Stream |-> sps[i].intervals[k].bytes]
  <2>1. ASSUME NEW i \in Stream PROVE sps[i].intervals[k].bytes \in Int
    <3>1. sps[i].intervals \in Seq(Interval) /\ Len(sps[i].intervals) = Len(sps[1].intervals)
      BY StreamFields DEF SameLength
    <3>2. sps[i].intervals[k] \in Interval
      BY <1>3, <3>1
    <3> QED BY <3>2 DEF Interval
  <2>2. IntervalTotals(sps)[k] = SumFunction(f)
    BY <1>3 DEF IntervalTotals
  <2>3. SumFunction(f) = SumFunctionOnSet(f, Stream) /\ \A i \in Stream : f[i] \in Int
    BY <2>1 DEF SumFunction
  <2>4. SumFunctionOnSet(f, Stream) \in Int
    <3> HIDE DEF f
    <3> QED BY <1>1, <2>3, SumType
  <2> QED BY <1>3, <2>1, <2>2, <2>3, <2>4
<1> QED BY <1>2, <1>3

LEMMA RingInit == ASSUME Init PROVE RingInv
<1> SUFFICES ASSUME conf.limit # 0
             PROVE  /\ RingOK(limit, conf.window, IntervalTotals(stream["s"])) /\ SameLength(stream["s"])
                    /\ limit.count <= Len(stream["s"][1].intervals)
                    /\ limit.count = Len(stream["s"][1].intervals)
  BY DEF RingInv
<1> DEFINE sps == stream["s"]
           w == conf.window
           V == IntervalTotals(sps)
<1>1. conf \in Configs /\ w \in Nat /\ w >= 1 /\ 1 \in Stream
  <2>1. conf \in Configs
    BY DEF Init
  <2> QED BY <2>1, ConfLemma, DataAssumption DEF Stream
<1>2. Max({w, 1}) = w
  <2> HIDE DEF w
  <2>1. Max({w, 1}) = IF w >= 1 THEN w ELSE 1
    BY <1>1, MinMaxLemma
  <2> QED BY <1>1, <2>1
<1>3. \A i \in Stream : sps[i] = iperf_new_stream
  BY DEF Init, Side
<1>4. iperf_new_stream.intervals = <<>>
  BY DEF iperf_new_stream
<1>5. \A i \in Stream : Len(sps[i].intervals) = 0
  BY <1>3, <1>4
<1>6. \A k \in Int : V[k] = 0
  <2>1. 1..Len(sps[1].intervals) = {}
    BY <1>1, <1>5
  <2> QED BY <2>1 DEF IntervalTotals
<1>7. /\ limit.ring = [k \in 0..w |-> 0] /\ limit.index = 0 /\ limit.count = 0
      /\ limit.exceeded = FALSE
  BY <1>2 DEF Init
<1> HIDE DEF V, w, sps
<1>8. SumFunctionOnSet(limit.ring, 0..(w - 1)) = 0
  <2>1. 0 \in Int /\ w - 1 \in Int
    BY <1>1
  <2>2. IsFiniteSet(0..(w - 1))
    BY <2>1, FS_Interval
  <2> DEFINE r == limit.ring
             S == 0..(w - 1)
  <2>3. \A x \in S : r[x] = 0
    BY <1>1, <1>7
  <2>4. IsFiniteSet(S)
    BY <2>2
  <2> HIDE DEF r, S
  <2>5. SumFunctionOnSet(r, S) = 0
    BY <2>3, <2>4, SumZero
  <2> QED BY <2>5 DEF r, S
<1>9. Window(V, w, limit.count) = 0
  <2> DEFINE S == (limit.count - w + 1)..limit.count
  <2>1. IsFiniteSet(S)
    <3>1. limit.count - w + 1 \in Int /\ limit.count \in Int
      BY <1>1, <1>7
    <3> QED BY <3>1, FS_Interval
  <2>2. \A x \in S : V[x] = 0
    BY <1>1, <1>6, <1>7
  <2> HIDE DEF S
  <2>3. SumFunctionOnSet(V, S) = 0
    BY <2>1, <2>2, SumZero
  <2> QED BY <2>3 DEF Window, S
<1>10. w..limit.count = {}
  BY <1>1, <1>7
<1>11. \A j \in 0..(w - 1) : limit.ring[j] = V[Slot(limit, w, j)]
  <2> SUFFICES ASSUME NEW j \in 0..(w - 1) PROVE limit.ring[j] = V[Slot(limit, w, j)]
    OBVIOUS
  <2>1. Slot(limit, w, j) \in Int
    BY <1>1, <1>7 DEF Slot
  <2>2. limit.ring[j] = 0
    BY <1>1, <1>7
  <2> QED BY <1>6, <2>1, <2>2
<1>12. /\ limit.ring \in [0..w -> Int] /\ limit.index \in 0..(w - 1) /\ limit.count \in Nat
       /\ limit.exceeded \in BOOLEAN
  <2>1. limit.ring \in [0..w -> Int]
    BY <1>7
  <2>2. limit.index \in 0..(w - 1) /\ limit.count \in Nat
    BY <1>1, <1>7
  <2>3. limit.exceeded \in BOOLEAN
    BY <1>7
  <2> QED BY <2>1, <2>2, <2>3
<1>13. limit.exceeded <=> \E k \in w..limit.count : Window(V, w, k) \div w > conf.limit
  BY <1>7, <1>10
<1>14. RingOK(limit, w, V)
  BY <1>8, <1>9, <1>11, <1>12, <1>13 DEF RingOK
<1>15. SameLength(sps) /\ limit.count = Len(sps[1].intervals) /\ limit.count <= Len(sps[1].intervals)
  BY <1>1, <1>5, <1>7 DEF SameLength
<1> QED BY <1>14, <1>15 DEF sps, w, V

\* The server counts an interval: what the others carried stays, and the new one
\* carried what the ring is told.
LEMMA TotalsCount ==
  ASSUME TypeInv, IntervalsInv, CountFacts("s"), test["s"].state \in Active, SameLength(stream["s"])
  PROVE  LET n == Len(stream["s"][1].intervals)
             V == IntervalTotals(stream["s"])
             W == IntervalTotals(stream'["s"])
         IN  /\ n \in Nat /\ Len(stream'["s"][1].intervals) = n + 1 /\ SameLength(stream'["s"])
             /\ \A k \in Int : V[k] \in Int /\ W[k] \in Int /\ (k <= n => W[k] = V[k])
             /\ W[n + 1] = IntervalBytes("s")
<1> DEFINE sps == stream["s"]
           new == stream'["s"]
           n == Len(sps[1].intervals)
           V == IntervalTotals(sps)
           W == IntervalTotals(new)
<1>1. conf \in Configs /\ "s" \in Side /\ 1 \in Stream /\ sps \in [Stream -> StreamRec]
      /\ new \in [Stream -> StreamRec]
  BY ConfLemma, SMTT(60) DEF TypeInv, Side, Stream, CountFacts, Streams
<1>2. ASSUME NEW i \in Stream
      PROVE  /\ sps[i].intervals \in Seq(Interval) /\ Len(sps[i].intervals) = n /\ n \in Nat
             /\ Len(new[i].intervals) = n + 1
             /\ \A k \in 1..n : new[i].intervals[k] = sps[i].intervals[k]
             /\ new[i].intervals[n + 1].bytes = sps[i].sent_this_interval + sps[i].received_this_interval
  <2> DEFINE b == sps[i]
             e == [omitted |-> test["s"].omitting,
                   bytes |-> IF "s" = conf.sender THEN b.sent_this_interval
                             ELSE b.received_this_interval,
                   packets |-> b.packet_count - LastOf(b, "packet_count"),
                   errors |-> b.cnt_error - LastOf(b, "cnt_error"),
                   packet_count |-> b.packet_count, cnt_error |-> b.cnt_error]
             s == b.intervals
  <2>1. /\ s \in Seq(Interval) /\ b.sent_this_interval \in Nat /\ b.received_this_interval \in Nat
    BY <1>1, StreamFields
  <2>2. Len(s) = n
    BY DEF SameLength
  <2>3. new[i].intervals = Append(s, e)
    BY DEF CountFacts, IsCounted
  <2>4. StreamShown("s", test["s"], sps[1].intervals, b)
    BY <1>1 DEF IntervalsInv, IntervalsOK
  <2>5. e.bytes = b.sent_this_interval + b.received_this_interval
    <3>1. IF "s" = conf.sender THEN b.received_this_interval = 0 ELSE b.sent_this_interval = 0
      BY <2>4 DEF StreamShown
    <3>2. e.bytes = IF "s" = conf.sender THEN b.sent_this_interval ELSE b.received_this_interval
      OBVIOUS
    <3> HIDE DEF e
    <3> QED BY <2>1, <3>1, <3>2
  <2> HIDE DEF e, s, n, new
  <2>6. /\ Len(s) \in Nat /\ Len(Append(s, e)) = Len(s) + 1 /\ Append(s, e)[Len(s) + 1] = e
        /\ \A k \in 1..Len(s) : Append(s, e)[k] = s[k]
    BY <2>1
  <2> QED BY <2>1, <2>2, <2>3, <2>5, <2>6 DEF s
<1>3. n \in Nat /\ Len(new[1].intervals) = n + 1 /\ SameLength(new)
  BY <1>1, <1>2 DEF SameLength
<1>4. ASSUME NEW k \in Int PROVE V[k] \in Int /\ W[k] \in Int
  BY <1>1, <1>3, TotalsType
<1>5. ASSUME NEW k \in Int, k <= n PROVE W[k] = V[k]
  <2>1. CASE k \in 1..n
    <3>1. V[k] = SumFunction([i \in Stream |-> sps[i].intervals[k].bytes])
      BY <2>1 DEF IntervalTotals
    <3>2. W[k] = SumFunction([i \in Stream |-> new[i].intervals[k].bytes])
      BY <1>3, <2>1 DEF IntervalTotals
    <3>3. \A i \in Stream : new[i].intervals[k].bytes = sps[i].intervals[k].bytes
      BY <1>2, <2>1
    <3>4. [i \in Stream |-> sps[i].intervals[k].bytes] = [i \in Stream |-> new[i].intervals[k].bytes]
      BY <3>3
    <3> QED BY ONLY <3>1, <3>2, <3>4, Zenon
  <2>2. CASE k \notin 1..n
    <3>1. k \notin 1..(n + 1)
      BY <1>3, <1>5, <2>2
    <3> QED BY <1>3, <2>2, <3>1 DEF IntervalTotals
  <2> QED BY <2>1, <2>2
<1>6. W[n + 1] = IntervalBytes("s")
  <2>1. n + 1 \in Int /\ n + 1 \in 1..(n + 1)
    BY <1>3
  <2>2. W[n + 1] = SumFunction([i \in Stream |-> new[i].intervals[n + 1].bytes])
    BY <1>3, <2>1 DEF IntervalTotals
  <2>3. [i \in Stream |-> new[i].intervals[n + 1].bytes]
          = [i \in Stream |-> sps[i].sent_this_interval + sps[i].received_this_interval]
    BY <1>2
  <2>4. IntervalBytes("s")
          = SumFunction([i \in Stream |-> sps[i].sent_this_interval + sps[i].received_this_interval])
    BY DEF IntervalBytes
  <2> QED BY ONLY <2>2, <2>3, <2>4, Zenon
<1> QED BY <1>3, <1>4, <1>5, <1>6

LEMMA RingNext ==
  ASSUME TypeInv, IntervalsInv, RingInv, [Next]_vars
  PROVE  RingInv'
<1>1. conf' = conf /\ Stream' = Stream /\ TestOK /\ ServerStep
  BY StepLemma, TestLemma, ServerStepLemma DEF Stream
<1> DEFINE sps == stream["s"]
           new == stream'["s"]
           w == conf.window
           n == Len(sps[1].intervals)
           V == IntervalTotals(sps)
           W == IntervalTotals(new)
<1> SUFFICES ASSUME conf.limit # 0
             PROVE  /\ RingOK(limit', w, W) /\ SameLength(new)
                    /\ limit'.count <= Len(new[1].intervals)
                    /\ test'["s"].done \/ limit'.count = Len(new[1].intervals)
  <2>1. RingInv' <=> (conf'.limit # 0 =>
          /\ RingOK(limit', w, W) /\ SameLength(new)
          /\ limit'.count <= Len(new[1].intervals)
          /\ test'["s"].done \/ limit'.count = Len(new[1].intervals))
    BY <1>1, SMTT(60) DEF RingInv, RingOK, IntervalTotals, SameLength
  <2> QED BY <1>1, <2>1
<1>2. conf \in Configs /\ "s" \in Side /\ 1 \in Stream /\ w \in Nat /\ sps \in [Stream -> StreamRec]
  BY ConfLemma DEF TypeInv, Side, Stream
<1>3. /\ RingOK(limit, w, V) /\ SameLength(sps) /\ limit.count <= n
      /\ test["s"].done \/ limit.count = n
  BY DEF RingInv
<1>4. test["s"].done => test'["s"].done
  BY <1>1, <1>2 DEF TestOK
<1>5. \A k \in Int : V[k] \in Int
  BY <1>2, <1>3, TotalsType
<1>6. limit.count \in Nat
  BY <1>3 DEF RingOK
<1>7. CASE limit' = limit /\ \A i \in Stream : new[i].intervals = sps[i].intervals
  <2>1. SameLength(new) /\ Len(new[1].intervals) = n
    BY <1>2, <1>3, <1>7 DEF SameLength
  <2>2. W = V
    <3>1. \A k \in Int : [i \in Stream |-> sps[i].intervals[k].bytes]
                           = [i \in Stream |-> new[i].intervals[k].bytes]
      BY <1>7
    <3>2. \A k \in Int : W[k] = V[k]
      <4> SUFFICES ASSUME NEW k \in Int PROVE W[k] = V[k]
        OBVIOUS
      <4>1. CASE k \in 1..n
        <5>1. /\ V[k] = SumFunction([i \in Stream |-> sps[i].intervals[k].bytes])
              /\ W[k] = SumFunction([i \in Stream |-> new[i].intervals[k].bytes])
          BY <2>1, <4>1 DEF IntervalTotals
        <5>2. [i \in Stream |-> sps[i].intervals[k].bytes]
                = [i \in Stream |-> new[i].intervals[k].bytes]
          BY <3>1
        <5> QED BY ONLY <5>1, <5>2, Zenon
      <4>2. CASE k \notin 1..n
        BY <2>1, <4>2 DEF IntervalTotals
      <4> QED BY <4>1, <4>2
    <3>3. V = [k \in Int |-> V[k]] /\ W = [k \in Int |-> W[k]]
      BY DEF IntervalTotals
    <3> HIDE DEF V, W
    <3> QED BY <3>2, <3>3
  <2> HIDE DEF V, W
  <2> QED BY <1>3, <1>4, <1>7, <2>1, <2>2
<1>8. ASSUME NEW d \in BOOLEAN, CountFacts("s"), test["s"].state \in Active,
             limit' = iperf_check_total_rate(limit, IntervalBytes("s"), d),
             d \/ ~test["s"].done, d => test'["s"].done
      PROVE  /\ RingOK(limit', w, W) /\ SameLength(new)
             /\ limit'.count <= Len(new[1].intervals)
             /\ test'["s"].done \/ limit'.count = Len(new[1].intervals)
  <2> DEFINE bytes == IntervalBytes("s")
  <2>1. /\ n \in Nat /\ Len(new[1].intervals) = n + 1 /\ SameLength(new)
        /\ \A k \in Int : V[k] \in Int /\ W[k] \in Int /\ (k <= n => W[k] = V[k])
        /\ W[n + 1] = bytes
    BY <1>3, <1>8, TotalsCount
  <2> HIDE DEF V, W, n, new, w, bytes
  <2>2. \A k \in Int : k <= limit.count => V[k] \in Int /\ W[k] = V[k]
    BY <1>3, <1>6, <2>1
  <2>3. RingOK(limit, w, W)
    BY <1>2, <1>3, <2>2, RingSame
  <2>4. CASE d
    <3>1. limit' = limit
      BY <1>8, <2>4 DEF iperf_check_total_rate
    <3>2. RingOK(limit', w, W)
      BY <2>3, <3>1
    <3>3. limit'.count <= n + 1
      BY <1>3, <1>6, <2>1, <3>1
    <3>4. test'["s"].done
      BY <1>8, <2>4
    <3> QED BY <2>1, <3>2, <3>3, <3>4
  <2>5. CASE ~d
    <3>1. limit.count = n /\ bytes = W[limit.count + 1] /\ w = conf.window
      BY <1>3, <1>8, <2>1, <2>5 DEF w
    <3>2. \A k \in Int : W[k] \in Int
      BY <2>1
    <3> DEFINE m == iperf_check_total_rate(limit, bytes, d)
    <3>3. RingOK(m, w, W) /\ m.count = limit.count + 1
      BY <1>2, <2>3, <2>5, <3>1, <3>2, RingStep
    <3>4. limit' = m
      BY <1>8 DEF bytes
    <3> HIDE DEF m
    <3> QED BY <2>1, <3>1, <3>3, <3>4
  <2> QED BY <2>4, <2>5
<1> QED BY <1>1, <1>7, <1>8 DEF ServerStep

LEMMA RingSafety == ASSUME TypeInv, RingInv PROVE LimitIsMovingAverage
<1> DEFINE sps == stream["s"]
           w == conf.window
           V == IntervalTotals(sps)
           N == Len(sps[1].intervals)
           total(k) == SumFunction([i \in Stream |-> sps[i].intervals[k].bytes])
           window(n) == SumFunction([k \in (n - w + 1)..n |-> total(k)])
<1> SUFFICES ASSUME conf.limit # 0
             PROVE  limit.exceeded <=> \E k \in w..limit.count : window(k) \div w > conf.limit
  BY DEF LimitIsMovingAverage
<1>1. conf \in Configs /\ "s" \in Side /\ 1 \in Stream /\ w \in Nat /\ sps \in [Stream -> StreamRec]
  BY ConfLemma DEF TypeInv, Side, Stream
<1>2. RingOK(limit, w, V) /\ SameLength(sps) /\ limit.count <= N
  BY DEF RingInv
<1>3. limit.count \in Nat /\ N \in Nat
  <2>1. sps[1].intervals \in Seq(Interval)
    BY <1>1, StreamFields
  <2> QED BY <1>2, <2>1 DEF RingOK
<1>4. ASSUME NEW k \in w..limit.count PROVE window(k) = Window(V, w, k)
  <2> DEFINE S == (k - w + 1)..k
             f == [j \in S |-> total(j)]
  <2>1. IsFiniteSet(S)
    <3>1. k - w + 1 \in Int /\ k \in Int
      BY <1>1, <1>3
    <3> QED BY <3>1, FS_Interval
  <2>2. \A j \in S : j \in Int /\ j \in 1..N
    BY <1>1, <1>2, <1>3
  <2>3. ASSUME NEW j \in S PROVE f[j] = V[j] /\ V[j] \in Int
    <3>1. V[j] \in Int /\ V[j] = total(j)
      BY <1>1, <1>2, <2>2, TotalsType
    <3> HIDE DEF total, V
    <3> QED BY <3>1
  <2>4. window(k) = SumFunctionOnSet(f, S)
    BY DEF SumFunction
  <2> HIDE DEF f, S, V, window
  <2>5. SumFunctionOnSet(f, S) = SumFunctionOnSet(V, S)
    BY <2>1, <2>3, SumEq
  <2> QED BY <2>4, <2>5 DEF Window, S
<1> HIDE DEF window, V
<1>5. limit.exceeded <=> \E k \in w..limit.count : Window(V, w, k) \div w > conf.limit
  BY <1>2 DEF RingOK
<1> QED BY ONLY <1>4, <1>5, Zenon

\* The server's limit is that on a moving average: the ring of intervals forgets none
\* and counts none twice (iperf_check_total_rate, iperf_stats_callback).
THEOREM MovingAverageTheorem == Spec => []LimitIsMovingAverage
<1> DEFINE I == TypeInv /\ IntervalsInv /\ RingInv
<1>1. Init => I
  BY TypeInit, IntervalsInit, RingInit
<1>2. I /\ [Next]_vars => I'
  BY TypeNext, IntervalsNext, RingNext
<1>3. I => LimitIsMovingAverage
  BY RingSafety
<1> QED BY <1>1, <1>2, <1>3, PTL DEF Spec

=============================================================================
