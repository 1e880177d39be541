----------------------------- MODULE StreamData -----------------------------
(***************************************************************************)
(* The data of one test in one direction: iperf_send with its throttle and *)
(* its limits, iperf_recv, the loss counters of UDP, the omit period, the  *)
(* interval statistics, the server's bitrate limit and the results that    *)
(* both sides exchange at the end.                                         *)
(*                                                                         *)
(* Side "c" is the client and "s" the server; conf.sender says which sends.*)
(* Both run the same loop: select, send or receive, timers, end of test.   *)
(* iperf_send takes one step per call of snd, because the peer drains the  *)
(* connections meanwhile.  Which timer is due when is left open (module    *)
(* Timers); time matters for the throttle only.                            *)
(*                                                                         *)
(* Jitter, CPU times and TCP_INFO are floating point or operating system   *)
(* data that no decision depends on, and are left out.  An operator whose  *)
(* name ends in _wrong is a mistake the definition after it could have had.*)
(***************************************************************************)
EXTENDS Integers, Sequences, FiniteSets, FiniteSetsExt, Functions

CONSTANTS
  Configs,        \* the tests that are run, each with two bounds: maxPackets, the
                  \* blocks a stream sends, and maxIntervals, before the last one
  Block,          \* settings->blksize
  SocketBuffer,   \* bytes a connection holds
  MaxDuplicates,  \* bound: datagrams the network duplicates
  MaxTime         \* bound: ticks of a throttled test

ASSUME DataAssumption ==
  /\ {Block, SocketBuffer} \subseteq Nat \ {0}
  /\ {MaxDuplicates, MaxTime} \subseteq Nat

\* Settings are unsigned; a test ends on bytes or on blocks, not on both
\* (iperf_parse_arguments); the window of a bitrate limit is at least one interval.
ASSUME ConfigsAssumption ==
  \A c \in Configs :
    /\ c.proto \in {"tcp", "udp", "sctp"} /\ c.sender \in {"c", "s"} /\ c.streams \in Nat \ {0}
    /\ {c.omit, c.zerocopy, c.errors} \subseteq BOOLEAN
    /\ {c.rate, c.burst, c.multisend, c.bytes, c.stale, c.blocks, c.file, c.limit, c.window,
        c.maxPackets, c.maxIntervals} \subseteq Nat
    /\ c.bytes = 0 \/ c.blocks = 0
    /\ c.limit # 0 => c.window # 0

VARIABLES
  conf,     \* the settings of this test
  now,      \* time since iperf_init_test
  test,     \* struct iperf_test of each side
  stream,   \* struct iperf_stream of each side and stream
  net,      \* the network, and the files that are sent
  limit,    \* the server's bitrate limit and its ring of intervals
  ghost     \* what really happened; no code reads it

vars == <<conf, now, test, stream, net, limit, ghost>>

Side == {"c", "s"}
Other(side) == IF side = "c" THEN "s" ELSE "c"
Receiver == Other(conf.sender)
Stream == 1..conf.streams

\* A stream as iperf_new_stream makes it; green_light is from
\* iperf_create_send_timers.
iperf_new_stream ==
  [green_light |-> TRUE, pending_size |-> 0, diskfile_left |-> 0,
   packet_count |-> 0, peer_packet_count |-> 0, omitted_packet_count |-> 0,
   cnt_error |-> 0, omitted_cnt_error |-> 0,
   outoforder |-> 0, omitted_outoforder |-> 0,
   bytes_sent |-> 0, bytes_sent_omit |-> 0, bytes_received |-> 0,
   sent_this_interval |-> 0, received_this_interval |-> 0, intervals |-> <<>>]

\* iperf_add_stream: the second stream has number 3.
StreamId(i) == IF i = 1 THEN 1 ELSE i + 1

\* The server's number of bytes is left from the test before if the client
\* does not send one.
SettingsBytes(side) ==
  IF side = "c" \/ conf.bytes # 0 THEN conf.bytes ELSE conf.stale

-----------------------------------------------------------------------------
(* Sending.  A result is the stream, what is done with the network, and r, *)
(* the bytes sent, or NET_SOFTERROR.                                       *)

NET_SOFTERROR == -1

NewTest ==
  [state |-> "TEST_RUNNING", done |-> FALSE, omitting |-> conf.omit,
   bytes_sent |-> 0, blocks_sent |-> 0, bytes_received |-> 0,
   blocks_received |-> 0, pc |-> "select", multisend |-> 0, ready |-> {},
   next |-> 1, active |-> FALSE]

\* Nwrite on a non-blocking connection: what fits into the socket's buffer.
Room(i) == SocketBuffer - net[i].bytes

Sent(sp, r) == [sp EXCEPT !.bytes_sent = @ + r, !.sent_this_interval = @ + r]

\* The rest of a block that was cut short goes first.  Nsendfile (zerocopy)
\* says NET_SOFTERROR where Nwrite says 0.
iperf_tcp_send(i, sp) ==
  LET size == IF sp.pending_size = 0 THEN Block ELSE sp.pending_size
      r == Min({size, Room(i)})
  IN  IF r = 0 /\ conf.zerocopy
      THEN {[sp |-> [sp EXCEPT !.pending_size = size], r |-> NET_SOFTERROR]}
      ELSE {[sp |-> Sent([sp EXCEPT !.pending_size = size - r], r), r |-> r]}

iperf_sctp_send(i, sp) ==
  LET r == Min({Block, Room(i)}) IN {[sp |-> Sent(sp, r), r |-> r]}

\* The packet number is used up even if the packet cannot be sent (ENOBUFS).
iperf_udp_send(sp) ==
  LET numbered == [sp EXCEPT !.packet_count = @ + 1]
  IN  {[sp |-> Sent(numbered, Block), r |-> Block],
       [sp |-> numbered, r |-> NET_SOFTERROR]}

protocol_send(i, sp) ==
  CASE conf.proto = "tcp" -> iperf_tcp_send(i, sp)
    [] conf.proto = "sctp" -> iperf_sctp_send(i, sp)
    [] conf.proto = "udp" -> iperf_udp_send(sp)

\* sp->snd without -F: done and read are of diskfile_send only.
PlainSend(i, sp) ==
  {[sp |-> o.sp, r |-> o.r, read |-> 0, done |-> FALSE] : o \in protocol_send(i, sp)}

\* What diskfile_send has in its buffer after it has read the file.
FileRead(i, sp, done) ==
  IF sp.diskfile_left < Block /\ ~done
  THEN Min({net[i].file, Block - sp.diskfile_left}) ELSE 0

diskfile_send_wrong(i, sp, done) ==
  LET read == FileRead(i, sp, done)
      left == sp.diskfile_left + read
  IN  IF done \/ left = 0
      THEN {[sp |-> sp, r |-> 0, read |-> read, done |-> TRUE]}
      ELSE {[sp |-> [o.sp EXCEPT !.diskfile_left = left - o.r],
             r |-> o.r, read |-> read, done |-> FALSE] : o \in protocol_send(i, sp)}

\* Fills the buffer from the file, sends it, and keeps what was not sent.  At
\* the end of the file the block is made shorter (pending_size); with nothing
\* left the test is done.
diskfile_send(i, sp, done) ==
  LET read == FileRead(i, sp, done)
      left == sp.diskfile_left + read
      refilled == sp.diskfile_left < Block /\ ~done
      sp1 == IF refilled /\ left # Block THEN [sp EXCEPT !.pending_size = left] ELSE sp
  IN  IF done \/ left = 0
      THEN {[sp |-> sp1, r |-> 0, read |-> read, done |-> TRUE]}
      ELSE {[sp |-> IF o.r = NET_SOFTERROR THEN o.sp
                    ELSE [o.sp EXCEPT !.diskfile_left = left - o.r],
             r |-> o.r, read |-> read, done |-> FALSE] : o \in protocol_send(i, sp1)}

snd(i, sp, done) ==
  IF conf.file = 0 THEN PlainSend(i, sp) ELSE diskfile_send(i, sp, done)

\* The average rate since the start is below settings->rate.  At time 0 the
\* quotient is infinite or not a number, and its conversion to an integer
\* undefined: either outcome.
BelowRate_wrong(sp) == {sp.bytes_sent - sp.bytes_sent_omit < conf.rate * now}

BelowRate(sp) == {g \in BOOLEAN : now # 0 => (g <=> sp.bytes_sent < conf.rate * now)}

\* The streams iperf_check_throttle can make of sp.
iperf_check_throttle(sp, done) ==
  IF done \/ conf.rate = 0 THEN {sp}
  ELSE {[sp EXCEPT !.green_light = g] : g \in BelowRate(sp)}

Multisend ==
  IF conf.burst # 0 THEN conf.burst ELSE IF conf.rate = 0 THEN conf.multisend ELSE 1

\* iperf_send's no_throttle_check, which says that it is checked per send.
ThrottleEachSend == conf.rate # 0 /\ conf.burst = 0

\* Enough sent: only looked at while more than one round is left.
LimitReached(side) ==
  \/ SettingsBytes(side) # 0 /\ test[side].bytes_sent >= SettingsBytes(side)
  \/ conf.blocks # 0 /\ test[side].blocks_sent >= conf.blocks

-----------------------------------------------------------------------------
(* Receiving.  A result is the stream and r. *)

Got(sp, r) == [sp EXCEPT !.bytes_received = @ + r, !.received_this_interval = @ + r]

\* Also iperf_sctp_recv: data counts only while the test runs.
iperf_tcp_recv(sp, r, state) == IF state = "TEST_RUNNING" THEN Got(sp, r) ELSE sp

iperf_udp_recv_wrong(sp, p, state) ==
  IF state # "TEST_RUNNING" THEN sp
  ELSE IF p > sp.packet_count
  THEN [Got(sp, Block) EXCEPT !.cnt_error = @ + (p - sp.packet_count), !.packet_count = p]
  ELSE [Got(sp, Block) EXCEPT !.outoforder = @ + 1, !.cnt_error = Max({@ - 1, 0})]

iperf_udp_recv_wrong2(sp, p, state) ==
  IF state # "TEST_RUNNING" THEN sp
  ELSE IF p >= sp.packet_count + 1
  THEN [Got(sp, Block) EXCEPT !.cnt_error = @ + (p - 1 - sp.packet_count),
                              !.packet_count = p]
  ELSE [Got(sp, Block) EXCEPT !.outoforder = @ + 1, !.cnt_error = @ - 1]

\* A gap in the packet numbers counts as loss; a number that is not new is
\* taken for one of those, come late, even if it is a duplicate.
iperf_udp_recv(sp, p, state) ==
  IF state # "TEST_RUNNING" THEN sp
  ELSE IF p >= sp.packet_count + 1
  THEN [Got(sp, Block) EXCEPT !.cnt_error = @ + (p - 1 - sp.packet_count),
                              !.packet_count = p]
  ELSE [Got(sp, Block) EXCEPT !.outoforder = @ + 1,
                              !.cnt_error = IF @ > 0 THEN @ - 1 ELSE @]

-----------------------------------------------------------------------------
(* Statistics *)

ResetStream_wrong(sp) ==
  [sp EXCEPT !.omitted_packet_count = sp.packet_count,
             !.bytes_sent_omit = sp.bytes_sent, !.bytes_received = 0]

\* iperf_reset_stats, for one stream.
ResetStream(sp) ==
  [sp EXCEPT !.omitted_packet_count = sp.packet_count,
             !.omitted_cnt_error = sp.cnt_error,
             !.omitted_outoforder = sp.outoforder,
             !.bytes_sent_omit = sp.bytes_sent, !.bytes_received = 0,
             !.sent_this_interval = 0, !.received_this_interval = 0]

\* iperf_stats_callback, for one stream: packets, errors and outoforder are
\* the differences to the totals of the interval before.
AddInterval(side, sp) ==
  LET irp == sp.intervals
      old(f) == IF irp = <<>> THEN 0 ELSE irp[Len(irp)][f]
      interval == [omitted |-> test[side].omitting,
                   bytes |-> IF side = conf.sender THEN sp.sent_this_interval
                             ELSE sp.received_this_interval,
                   packets |-> sp.packet_count - old("packet_count"),
                   errors |-> sp.cnt_error - old("cnt_error"),
                   packet_count |-> sp.packet_count, cnt_error |-> sp.cnt_error]
  IN  [sp EXCEPT !.intervals = Append(@, interval),
                 !.sent_this_interval = 0, !.received_this_interval = 0]

StreamsOf(side, Op(_, _)) ==
  [stream EXCEPT ![side] = [i \in Stream |-> Op(side, @[i])]]

IntervalBytes(side) ==
  SumFunction([i \in Stream |-> stream[side][i].sent_this_interval
                               + stream[side][i].received_this_interval])

iperf_check_total_rate_wrong(l, bytes, done) ==
  IF done \/ conf.limit = 0 THEN l
  ELSE LET index == IF l.index + 1 > conf.window THEN 0 ELSE l.index + 1
           ring == [l.ring EXCEPT ![index] = bytes]
           total == SumFunctionOnSet(ring, 0..conf.window - 1)
       IN  [ring |-> ring, index |-> index, count |-> l.count + 1,
            exceeded |-> l.exceeded \/ (/\ l.count + 1 >= conf.window
                                       /\ total \div conf.window > conf.limit)]

\* The interval goes into the ring; once the ring is full its average is
\* compared with the limit.
iperf_check_total_rate(l, bytes, done) ==
  IF done \/ conf.limit = 0 THEN l
  ELSE LET index == IF l.index + 1 >= conf.window THEN 0 ELSE l.index + 1
           ring == [l.ring EXCEPT ![index] = bytes]
           total == SumFunctionOnSet(ring, 0..conf.window - 1)
       IN  [ring |-> ring, index |-> index, count |-> l.count + 1,
            exceeded |-> l.exceeded \/ (/\ l.count + 1 >= conf.window
                                       /\ total \div conf.window > conf.limit)]

\* Only the server looks at the limit.
iperf_stats_callback(side, done) ==
  /\ stream' = StreamsOf(side, AddInterval)
  /\ limit' = IF side = "s" THEN iperf_check_total_rate(limit, IntervalBytes("s"), done)
              ELSE limit

send_results(side, sps) ==
  [id \in {StreamId(i) : i \in Stream} |->
     LET sp == sps[CHOOSE i \in Stream : StreamId(i) = id]
     IN  [bytes |-> IF side = conf.sender THEN sp.bytes_sent - sp.bytes_sent_omit
                    ELSE sp.bytes_received,
          errors |-> sp.cnt_error, packets |-> sp.packet_count]]

get_results_wrong(side, sps, j) ==
  [i \in Stream |->
     [sps[i] EXCEPT !.peer_packet_count = j[StreamId(i)].packets,
                    !.bytes_received = j[StreamId(i)].bytes]]

\* The sender stores what was received, the receiver what was sent.
get_results(side, sps, j) ==
  [i \in Stream |->
     LET r == j[StreamId(i)]
     IN  IF side = conf.sender
         THEN [sps[i] EXCEPT !.cnt_error = r.errors, !.peer_packet_count = r.packets,
                             !.bytes_received = r.bytes]
         ELSE [sps[i] EXCEPT !.peer_packet_count = r.packets, !.bytes_sent = r.bytes]]

-----------------------------------------------------------------------------
Init ==
  /\ conf \in Configs
  /\ now = 0
  /\ test = [side \in Side |-> NewTest]
  /\ stream = [side \in Side |-> [i \in Stream |-> iperf_new_stream]]
  /\ net = [i \in Stream |-> [bytes |-> 0, fly |-> {}, file |-> conf.file]]
  /\ limit = [ring |-> [k \in 0..Max({conf.window, 1}) |-> 0], index |-> 0, count |-> 0,
              exceeded |-> FALSE]
  /\ ghost = [got |-> [i \in Stream |-> {}], dup |-> [i \in Stream |-> 0],
              copies |-> 0, early |-> [i \in Stream |-> 0]]

Running(side, pc) == test[side].state = "TEST_RUNNING" /\ test[side].pc = pc

\* The bound on what an unlimited stream sends, after the omitted period.
MayStillSend(sp) ==
  /\ sp.bytes_sent - sp.bytes_sent_omit < conf.maxPackets * Block
  /\ sp.packet_count < conf.maxPackets

\* The streams that select() finds writable.
Writable ==
  {i \in Stream : LET sp == stream[conf.sender][i]
                  IN  sp.green_light /\ Room(i) > 0 /\ MayStillSend(sp)}

SendBegin ==
  LET side == conf.sender
  IN  /\ Running(side, "select") /\ Writable # {} /\ ~limit.exceeded
      /\ test' = [test EXCEPT ![side].pc = "send", ![side].multisend = Multisend,
                              ![side].ready = Writable, ![side].next = 1,
                              ![side].active = FALSE]
      /\ UNCHANGED <<conf, now, stream, net, limit, ghost>>

\* The streams this round of iperf_send has still to visit.
ToVisit(t) ==
  {i \in t.ready : /\ i >= t.next /\ stream[conf.sender][i].green_light
                   /\ MayStillSend(stream[conf.sender][i])}

\* One call of sp->snd, and what iperf_send does with its result.
SendOne ==
  LET side == conf.sender
      t == test[side]
  IN  /\ Running(side, "send") /\ ToVisit(t) # {}
      /\ LET i == Min(ToVisit(t))
         IN  IF t.multisend > 1 /\ LimitReached(side)
             THEN /\ test' = [test EXCEPT ![side].next = conf.streams + 1]
                  /\ UNCHANGED <<stream, net>>
             ELSE \E o \in snd(i, stream[side][i], t.done) :
               \E sp \in IF ThrottleEachSend /\ o.r # NET_SOFTERROR
                         THEN iperf_check_throttle(o.sp, t.done \/ o.done) ELSE {o.sp} :
                 /\ stream' = [stream EXCEPT ![side][i] = sp]
                 /\ net' = [net EXCEPT ![i].file = @ - o.read,
                              ![i].bytes = IF conf.proto = "udp" \/ o.r = NET_SOFTERROR THEN @ ELSE @ + o.r,
                              ![i].fly = IF conf.proto = "udp" /\ o.r > 0
                                         THEN @ \cup {sp.packet_count} ELSE @]
                 /\ test' = [test EXCEPT ![side] =
                      IF o.r = NET_SOFTERROR THEN [t EXCEPT !.next = conf.streams + 1, !.done = @ \/ o.done]
                      ELSE [t EXCEPT !.next = i + 1, !.active = TRUE, !.done = @ \/ o.done,
                              !.bytes_sent = @ + o.r,
                              !.blocks_sent = IF sp.pending_size = 0 THEN @ + 1 ELSE @]]
      /\ UNCHANGED <<conf, now, limit, ghost>>

\* The next round of iperf_send, or its end with the throttle check of all.
SendRound ==
  LET side == conf.sender
      t == test[side]
      more == t.active /\ t.multisend > 1
  IN  /\ Running(side, "send") /\ ToVisit(t) = {}
      /\ test' = [test EXCEPT ![side] =
           IF more THEN [t EXCEPT !.multisend = @ - 1, !.next = 1, !.active = FALSE]
           ELSE [t EXCEPT !.pc = "timers", !.multisend = 0, !.ready = {}, !.next = 1,
                          !.active = FALSE]]
      /\ IF more \/ ThrottleEachSend THEN UNCHANGED stream
         ELSE \E g \in [Stream -> BOOLEAN] :
                LET checked(i) == [stream[side][i] EXCEPT !.green_light = g[i]]
                IN  /\ \A i \in Stream :
                         checked(i) \in iperf_check_throttle(stream[side][i], t.done)
                    /\ stream' = [stream EXCEPT ![side] = [i \in Stream |-> checked(i)]]
      /\ UNCHANGED <<conf, now, net, limit, ghost>>

\* iperf_recv on the streams that have data.  A datagram that is received and
\* stays on its way is a duplicate, one that is never received is lost.
Recv ==
  LET side == Receiver
      t == test[side]
      udp == conf.proto = "udp"
      Size(i) == IF udp THEN Block ELSE Min({net[i].bytes, Block})
  IN  /\ t.pc = "select" /\ ~limit.exceeded
      /\ t.state = "TEST_RUNNING" \/ (side = "c" /\ t.state = "TEST_END")
      /\ \E R \in SUBSET {i \in Stream : net[i].bytes > 0 \/ net[i].fly # {}} \ {{}} :
         \E p \in [R -> UNION {net[i].fly : i \in Stream} \cup {0}], kept \in SUBSET R :
           /\ \A i \in R : p[i] \in IF udp THEN net[i].fly ELSE {0}
           /\ kept # {} => udp
           /\ ghost.copies + Cardinality(kept) <= MaxDuplicates
           /\ stream' = [stream EXCEPT ![side] = [i \in Stream |->
                IF i \notin R THEN @[i]
                ELSE IF udp THEN iperf_udp_recv(@[i], p[i], t.state)
                ELSE iperf_tcp_recv(@[i], Size(i), t.state)]]
           /\ net' = [i \in Stream |-> IF i \notin R THEN net[i]
                ELSE IF ~udp THEN [net[i] EXCEPT !.bytes = @ - Size(i)]
                ELSE IF i \in kept THEN net[i] ELSE [net[i] EXCEPT !.fly = @ \ {p[i]}]]
           /\ test' = [test EXCEPT ![side].bytes_received = @ + SumFunction([i \in R |-> Size(i)]),
                                   ![side].blocks_received = @ + Cardinality(R),
                                   ![side].pc = IF t.state = "TEST_RUNNING" THEN "timers" ELSE @]
           /\ LET new == IF udp /\ t.state = "TEST_RUNNING" THEN R ELSE {}
              IN  ghost' = [ghost EXCEPT
                    !.copies = @ + Cardinality(kept),
                    !.got = [i \in Stream |-> IF i \in new THEN @[i] \cup {p[i]} ELSE @[i]],
                    !.dup = [i \in Stream |->
                      IF i \in new /\ p[i] \in ghost.got[i] THEN @[i] + 1 ELSE @[i]]]
      /\ UNCHANGED <<conf, now, limit>>

\* select() reports no stream: a timeout, or nothing that concerns the data.
NothingReady(side) ==
  /\ Running(side, "select") /\ ~limit.exceeded
  /\ side = conf.sender => Writable = {}
  /\ test' = [test EXCEPT ![side].pc = "timers"]
  /\ UNCHANGED <<conf, now, stream, net, limit, ghost>>

\* stats_timer.
StatsTimer(side) ==
  /\ Running(side, "timers") /\ Len(stream[side][1].intervals) < conf.maxIntervals
  /\ iperf_stats_callback(side, test[side].done)
  /\ UNCHANGED <<conf, now, test, net, ghost>>

OmitTimer_wrong(side) ==
  /\ Running(side, "timers") /\ test[side].omitting
  /\ test' = [test EXCEPT ![side].omitting = FALSE]
  /\ stream' = StreamsOf(side, LAMBDA s, sp : ResetStream(sp))
  /\ UNCHANGED <<conf, now, net, limit, ghost>>

\* client_omit_timer_proc, server_omit_timer_proc: iperf_reset_stats leaves
\* what the test has received as it is.
OmitTimer(side) ==
  /\ Running(side, "timers") /\ test[side].omitting
  /\ test' = [test EXCEPT ![side].omitting = FALSE, ![side].bytes_sent = 0,
                          ![side].blocks_sent = 0]
  /\ stream' = StreamsOf(side, LAMBDA s, sp : ResetStream(sp))
  /\ UNCHANGED <<conf, now, net, limit, ghost>>

\* send_timer_proc.
SendTimer(i) ==
  LET side == conf.sender
  IN  /\ Running(side, "timers") /\ conf.rate # 0
      /\ \E sp \in iperf_check_throttle(stream[side][i], test[side].done) :
           stream' = [stream EXCEPT ![side][i] = sp]
      /\ UNCHANGED <<conf, now, test, net, limit, ghost>>

\* test_timer_proc: there is one in a test without another end condition.  It
\* is due after the omit timer, and tmr_run keeps that order.
TestTimer ==
  /\ Running("c", "timers") /\ ~test["c"].done /\ ~test["c"].omitting
  /\ conf.bytes = 0 /\ conf.blocks = 0
  /\ test' = [test EXCEPT !["c"].done = TRUE]
  /\ UNCHANGED <<conf, now, stream, net, limit, ghost>>

TestIsDone_wrong ==
  LET t == test["c"]
  IN  /\ ~t.omitting
      /\ \/ t.done
         \/ conf.bytes # 0 /\ t.bytes_sent >= conf.bytes
         \/ conf.blocks # 0 /\ t.blocks_sent >= conf.blocks

\* The client's condition for the end of the test.
TestIsDone ==
  LET t == test["c"]
  IN  /\ ~t.omitting
      /\ \/ t.done
         \/ conf.bytes # 0 /\ (t.bytes_sent >= conf.bytes \/ t.bytes_received >= conf.bytes)
         \/ conf.blocks # 0 /\ (t.blocks_sent >= conf.blocks \/ t.blocks_received >= conf.blocks)

\* The end of a turn of the loop: the client may find that the test is done.
EndOfTurn(side) ==
  /\ Running(side, "timers")
  /\ IF side = "c" /\ TestIsDone
     THEN /\ test' = [test EXCEPT !["c"].state = "TEST_END", !["c"].done = TRUE,
                                  !["c"].pc = "select"]
          /\ iperf_stats_callback("c", TRUE)
     ELSE test' = [test EXCEPT ![side].pc = "select"] /\ UNCHANGED <<stream, limit>>
  /\ UNCHANGED <<conf, now, net, ghost>>

\* iperf_handle_message_server reads TEST_END.
ServerEnds ==
  /\ Running("s", "select") /\ ~limit.exceeded /\ test["c"].state = "TEST_END"
  /\ test' = [test EXCEPT !["s"].state = "TEST_END", !["s"].done = TRUE]
  /\ iperf_stats_callback("s", TRUE)
  /\ UNCHANGED <<conf, now, net, ghost>>

\* iperf_exchange_results: the client sends first; the server answers after
\* it has stored the client's.
ExchangeResults ==
  /\ \A side \in Side : test[side].state = "TEST_END"
  /\ LET s == get_results("s", stream["s"], send_results("c", stream["c"]))
         c == get_results("c", stream["c"], send_results("s", s))
     IN  stream' = [stream EXCEPT !["s"] = s, !["c"] = c]
  /\ test' = [side \in Side |-> [test[side] EXCEPT !.state = "DISPLAY_RESULTS"]]
  /\ UNCHANGED <<conf, now, net, limit, ghost>>

\* A hard error of a socket, or the server finds its bitrate limit exceeded:
\* the test is over, which the peer learns from the control connection.
TestFails ==
  /\ \/ Running("s", "select") /\ limit.exceeded
     \/ conf.errors /\ \E side \in Side : Running(side, "send") \/ Running(side, "select")
  /\ test' = [side \in Side |-> [test[side] EXCEPT !.state = "FAILED", !.pc = "select"]]
  /\ UNCHANGED <<conf, now, stream, net, limit, ghost>>

Tick ==
  /\ conf.rate # 0 /\ now < MaxTime
  /\ now' = now + 1
  /\ ghost' = IF now > 0 THEN ghost
              ELSE [ghost EXCEPT !.early = [i \in Stream |-> stream[conf.sender][i].bytes_sent]]
  /\ UNCHANGED <<conf, test, stream, net, limit>>

Send == SendBegin \/ SendOne \/ SendRound
Timer(side) == StatsTimer(side) \/ OmitTimer(side)

Next ==
  \/ Send \/ Recv \/ TestTimer \/ ServerEnds \/ ExchangeResults \/ TestFails \/ Tick
  \/ \E side \in Side : NothingReady(side) \/ Timer(side) \/ EndOfTurn(side)
  \/ \E i \in Stream : SendTimer(i)

Spec == Init /\ [][Next]_vars

\* Every process goes on; what is sent on a connection arrives, and select()
\* reports it in every turn until it is read, or nothing when its timeout is
\* over; timers run when they are due.
Fairness ==
  /\ WF_vars(Send) /\ SF_vars(Recv) /\ SF_vars(ServerEnds) /\ WF_vars(ExchangeResults)
  /\ \A side \in Side : /\ WF_vars(EndOfTurn(side)) /\ WF_vars(NothingReady(side))
                        /\ SF_vars(OmitTimer(side))
  /\ SF_vars(TestTimer) /\ WF_vars(TestFails)

FairSpec == Spec /\ Fairness

-----------------------------------------------------------------------------
(* Properties *)

\* The type invariant.
TypeOK ==
  /\ conf \in Configs /\ now \in 0..MaxTime
  /\ \A side \in Side :
       /\ test[side].state \in {"TEST_RUNNING", "TEST_END", "DISPLAY_RESULTS", "FAILED"}
       /\ test[side].pc \in {"select", "send", "timers"}
       /\ test[side].multisend \in Nat /\ test[side].ready \subseteq Stream
       /\ \A i \in Stream :
            LET sp == stream[side][i]
            IN  /\ sp.green_light \in BOOLEAN
                /\ conf.proto = "tcp" => sp.pending_size \in 0..Block
                /\ {sp.packet_count, sp.cnt_error, sp.outoforder, sp.bytes_sent,
                    sp.bytes_received} \subseteq Nat
  /\ \A i \in Stream : net[i].bytes \in 0..SocketBuffer

\* The loss counter of a UDP receiver is the number of packets missing among
\* those up to the highest, and duplicates can only make it too small, each by
\* one, whatever the network loses, reorders and repeats.
LossCounterIsExact ==
  conf.proto = "udp" =>
    \A i \in Stream :
      LET sp == stream[Receiver][i]
          missing == Cardinality((1..sp.packet_count) \ ghost.got[i])
      IN  sp.cnt_error <= missing /\ missing <= sp.cnt_error + ghost.dup[i]

\* Every side shows its intervals as they end.
Intervals(side) == DOMAIN stream[side][1].intervals

\* print_interval_results: the line of a stream.
print_interval_results(side, i, k) ==
  LET irp == stream[side][i].intervals[k]
  IN  [bytes |-> irp.bytes, packets |-> irp.packets, lost |-> irp.errors]

\* iperf_print_intermediate: the intervals that are surely shown, since only a
\* short one without a byte on any stream is passed over,
Kept(side) == {k \in Intervals(side) : \E i \in Stream : stream[side][i].intervals[k].bytes > 0}

\* and the line of all streams.
iperf_print_intermediate(side, k) ==
  [f \in {"bytes", "packets", "lost"} |->
     SumFunction([i \in Stream |-> print_interval_results(side, i, k)[f]])]

\* The intervals that a side has shown add up to its totals, stream by stream
\* and in the sum, with and without an omitted period, also for the last,
\* shorter interval: no byte is shown in two intervals or in none.
IntervalsAddUp ==
  \A side \in Side : test[side].state \in {"TEST_RUNNING", "TEST_END"} =>
    LET shown == {k \in Kept(side) : stream[side][1].intervals[k].omitted = test[side].omitting}
        rest(i) == stream[side][i].sent_this_interval + stream[side][i].received_this_interval
        total(i) == LET sp == stream[side][i]
                    IN  sp.bytes_sent - sp.bytes_sent_omit + sp.bytes_received
        bytes(i) == [k \in shown |-> print_interval_results(side, i, k).bytes]
        count(i, f) == SumFunction([k \in Intervals(side) |-> print_interval_results(side, i, k)[f]])
    IN  /\ \A i \in Stream : SumFunction(bytes(i)) + rest(i) = total(i)
        /\ SumFunction([k \in shown |-> iperf_print_intermediate(side, k).bytes])
             + SumFunction([i \in Stream |-> rest(i)]) = SumFunction([i \in Stream |-> total(i)])
        /\ test[side].state = "TEST_END" =>
             \A i \in Stream : /\ count(i, "packets") = stream[side][i].packet_count
                               /\ count(i, "lost") = stream[side][i].cnt_error

\* iperf_print_results: what a side shows of a stream.
Report(side, i) ==
  LET sp == stream[side][i]
      sending == side = conf.sender
      sent == IF sending THEN sp.packet_count ELSE sp.peer_packet_count
      received == IF sending THEN sp.peer_packet_count ELSE sp.packet_count
  IN  [bytes_sent |-> sp.bytes_sent - sp.bytes_sent_omit,
       bytes_received |-> sp.bytes_received,
       sender_packets |-> sent - sp.omitted_packet_count,
       receiver_packets |-> received - sp.omitted_packet_count,
       lost |-> sp.cnt_error - sp.omitted_cnt_error]

\* and of all its streams.
Totals(side) ==
  [f \in {"bytes_sent", "bytes_received", "sender_packets", "receiver_packets", "lost"} |->
     SumFunction([i \in Stream |-> Report(side, i)[f]])]

\* Both sides report the same bytes for the same test, with or without an
\* omitted period; without one also the same packets and losses.
ReportsAgree ==
  (\A side \in Side : test[side].state = "DISPLAY_RESULTS") =>
    LET Same(f) == /\ Totals("c")[f] = Totals("s")[f]
                   /\ \A i \in Stream : Report("c", i)[f] = Report("s", i)[f]
    IN  /\ Same("bytes_sent") /\ Same("bytes_received")
        /\ ~conf.omit => Same("sender_packets") /\ Same("receiver_packets") /\ Same("lost")

\* A loss of more than 100 % is never shown: neither by the receiver, for an
\* interval, although late packets lower the loss of a later one, or at the end,
\* where the omitted counters are taken together; nor by anybody at the end if
\* nothing is omitted.
LossIsAFraction ==
  /\ \A side \in Side, i \in Stream :
       (side = Receiver \/ (~conf.omit /\ test[side].state = "DISPLAY_RESULTS")) =>
         LET r == Report(side, i)
         IN  r.lost <= IF side = Receiver THEN r.receiver_packets
                       ELSE Min({r.sender_packets, r.receiver_packets})
  /\ \A i \in Stream : \A k \in DOMAIN stream[Receiver][i].intervals :
       LET v == print_interval_results(Receiver, i, k) IN v.lost <= v.packets

\* A throttled stream is never ahead of its rate by more than what is sent
\* between two checks, except for what it sent in the instant the test began,
\* when the check divides by zero; the omit period does not reset this.
ThrottleHolds ==
  conf.rate # 0 /\ now > 0 =>
    \A i \in Stream :
      stream[conf.sender][i].bytes_sent <=
        Max({ghost.early[i], conf.rate * now}) + Block * Max({conf.burst, 1})

SumSent(side, i) == stream[side][i].bytes_sent - stream[side][i].bytes_sent_omit

\* A client that sends a number of bytes (-n) or blocks (-k) sends at least
\* these, after the omitted period, and at most one more block per stream and
\* one: the limit is not looked at in the last round of iperf_send.
LimitIsKept ==
  conf.sender = "c" /\ conf.file = 0 =>
    LET sent == SumFunction([i \in Stream |-> SumSent("c", i)])
        ended == test["c"].state = "TEST_END"
    IN  /\ conf.bytes # 0 =>
             /\ ended => sent >= conf.bytes
             /\ ~conf.omit => sent < conf.bytes + (conf.streams + 1) * Block
        /\ conf.blocks # 0 /\ ~conf.omit => test["c"].blocks_sent <= conf.blocks + conf.streams

\* The ring finds the limit exceeded exactly if the average over some window of
\* consecutive intervals of this test is above it.
LimitIsMovingAverage ==
  conf.limit # 0 =>
    LET total(k) == SumFunction([i \in Stream |-> stream["s"][i].intervals[k].bytes])
        window(n) == SumFunction([k \in (n - conf.window + 1)..n |-> total(k)])
    IN  limit.exceeded <=>
          \E k \in conf.window..limit.count : window(k) \div conf.window > conf.limit

\* Every byte of a file sent over TCP is sent once: what was read is sent or
\* waits in the buffer, and the end of the file ends a test that nothing else
\* ends only when the buffer is empty.  With zerocopy what was read is forgotten
\* when the connection is full: diskfile_send returns before it stores it.
FileIsSentOnce ==
  conf.file # 0 /\ conf.proto = "tcp" /\ ~conf.zerocopy =>
    \A i \in Stream :
      LET sp == stream[conf.sender][i]
      IN  test[conf.sender].state \in {"TEST_RUNNING", "TEST_END"} =>
            /\ sp.diskfile_left \in 0..Block
            /\ sp.bytes_sent + sp.diskfile_left + net[i].file = conf.file
            /\ test["c"].done /\ conf.sender = "c" /\ conf.bytes > conf.file /\ conf.streams = 1
                 => sp.bytes_sent = conf.file

\* A test on bytes or blocks over a connection ends, also if the server sends
\* and stops at the limit by itself, and so does one on time with a server that
\* stops at a limit left from the test before.
TestEnds ==
  conf.proto = "tcp" /\ conf.rate = 0 ~>
    \A side \in Side : test[side].state \in {"DISPLAY_RESULTS", "FAILED"}

=============================================================================
