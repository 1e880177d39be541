# A TLA+ verification of iperf3 with MPTCP

The repository measures Multipath TCP with a modified iperf3 (`iperf/`), driven by
shell scripts (`scripts/`) and plotted by Python scripts (`utils/`).  The program
logic is iperf3's, so these modules model iperf3: one server process that serves
tests one after the other, and client processes that each run one test.  File names
below are relative to `src/iperf/src/`.

## The system

| part | state it keeps | operations | module |
|---|---|---|---|
| timer package (`timer.c`) | the sorted list `timers`, the free list `free_timers` | create, reset, cancel, run, timeout | `Timers` |
| timers of a test (`iperf_client_api.c`, `iperf_server_api.c`, `iperf_api.c`) | `test->timer`, `stats_timer`, `reporter_timer`, `omit_timer`, `sp->send_timer`, `done`, `omitting` | `create_*_timers`, the `*_timer_proc` functions, `cleanup_server`, `iperf_reset_test` | `Timers` |
| server loop (`iperf_run_server`, `main.c`) | `state`, `ctrl_sck`, `listener`, `streams`, `mode`, `done` | accept, messages, streams, timeouts, cleanup, one-off | `Control` |
| client loop (`iperf_run_client`) | `state`, `ctrl_sck`, streams | connect, messages, streams, end of test | `Control` |
| TCP connections (`net.c`, `iperf_tcp.c`) | sockets, backlog | dial, announce, accept, `Nread`, `Nwrite` | `Control` |
| test settings (`iperf_api.c`) | `struct iperf_test`, `struct iperf_settings` of the server | `send_parameters`, `get_parameters`, `iperf_reset_test`, `iperf_tcp_listen` | `Settings` |
| setting up streams (`iperf_tcp.c`, `iperf_udp.c`, `iperf_sctp.c`, `iperf_new_stream`) | the server's descriptors, `read_set`, `prot_listener`, buffer sizes, addresses | listen, accept, connect, the UDP handshake, bindx, cleanup | `StreamSetup` |
| stream data (`iperf_api.c` and the protocols' send and receive functions) | counters per stream and per test, `green_light`, `pending_size`, the file's buffer | `iperf_send`, `iperf_recv`, throttle, end conditions, omit period, `diskfile_send` | `StreamData` |
| statistics and results | intervals per stream, the peer's counters | `iperf_stats_callback`, `iperf_reset_stats`, `send_results`, `get_results`, the reports | `StreamData` |
| bitrate limit (`iperf_check_total_rate`) | a ring of interval totals | add, average | `StreamData` |
| command line (`iperf_parse_arguments`, `units.c`, `dscp.c`) | flags, `struct iperf_test` | one case per option, checks at the end | `Options` |
| authentication (`iperf_auth.c`) | `settings->authtoken`, keys, users file | encode, decode, check | `Auth` |
| locale, error texts, utilities, cJSON, build, scripts | | | not modelled (reasons in `PROJECT.json`) |

How they interact.  Each process is one thread around `select()`.  Client and server
share a control connection, on which they exchange single state bytes
(`iperf_api.h`), a cookie, JSON parameters and JSON results, and one data connection
per stream.  The server's only listening socket takes both kinds of connection, and
what a connection is follows from the server's state when it accepts it.  The loops
call `tmr_run`; its procs end tests, free streams and reset other timers.  The
server keeps one `struct iperf_test` for all its tests.

What is hard about it: connections of several clients and of ended tests that arrive
in any state; processes that die, hang or are interrupted between two messages;
blocking reads outside `select()`; sides that must pair their streams by counting
`accept()`s; timer procs that cancel timers while the list is walked; settings left
from the test before; datagrams that are lost, repeated and overtaken, both when
streams are set up and when they carry data; sockets that change their role under the
same number; counters that one timer resets while another sums them up; options
whose meaning depends on others; datagrams of nobody's test that arrive in the middle of
one.  `PROJECT.json` lists each of these at its line under "hazards".

What makes each part correct:
- timers: the list is sorted, `select()` never sleeps past a timer, no pointer to a
  cancelled timer is kept or run, nothing is scheduled between tests, and a test
  with a duration ends;
- control: one client is served at a time and gets an orderly end; streams are
  paired; every client ends and the server becomes free again whoever dies; a
  one-off server serves exactly one test;
- settings: a test has the settings of its client and of nobody else;
- setting up streams: it ends, with all streams paired or with an error; only open
  descriptors are watched, and only failures cost descriptors;
- stream data: counters say what happened, intervals add up to totals, the reports of
  both sides agree, and limits on rate, bytes, blocks and bitrate are kept;
- command line: order does not matter, and what is accepted is usable;
- authentication: exactly the right clients are accepted.

## Modules

**`Timers`** (with **`TimersProofs`**).  `timer.c`'s operations are the operators
`list_add`, `list_remove`, `list_resort`, `tmr_create`, `tmr_reset`, `tmr_cancel`,
`tmr_timeout` on a record `q` that holds both lists (as sequences), the fields of
every `Timer` and the pointers to them (`q.handle`, one per role).  `tmr_run` is a loop
over actions: `RunBegin` reads the clock, each `Run...` action runs one proc
completely and reschedules or cancels its timer, `RunEnd` leaves the loop.
Only `server_timer_proc` takes several steps (`RunServerTimer`, `FreeStream`,
`ServerTimerReturn`), with `tmr_run`'s saved `next` in the variable `nxt`.  The
constant `Side` selects the client's or the server's variant.  Running a cancelled
timer leads to `pc = "undefined"`, from which nothing is claimed.  The monotonic
clock ticks between any two steps, so a process can be arbitrarily late within
`MaxTime`.

**`Control`** (with **`ControlProofs`** and **`PairingProofs`**).  `net` has a queue of
messages per direction and connection, the state of each end (`open`, `closed`, or
`reset` if it was closed with unread input), the backlog and the listening socket.  `srv` and `cli` are the two kinds of process.
Every place where a process blocks (select, a cookie, parameters, results, a stream's
cookie) is a value of `pc`; what happens between two such places is one action.  The
operators `cleanup_server` and `iperf_set_send_state` are the code's functions;
`cleanup_server` includes the return from `iperf_run_server`, main's
`iperf_reset_test` and the decision of the one-off loop (`Leaves`).  A write to a peer
that is gone may succeed or fail.  Test data is abstracted: a stream is open or not.
Constants choose which faults a run has: `Killed`, `Silent` (stopped without closing
anything), `Stray` (dies between `connect()` and the cookie), `Interrupted`
(SIGTERM), `Unauthorized`.

**`Sessions`** is the abstract specification of the server: it serves one client at a
time, takes the results of no other, and a client reports success only if the server
has its results.  `Control` implements it under the mapping `serving` = the owner
of `ctrl_sck` and `outcome` = how a client's program ended (`ServesOneAtATime`).

**`Settings`** (with **`SettingsProofs`**).  Consecutive tests of one server.  A setting
has the number of the test whose client chose it, or 0 for the default, so that a
stale value is recognisable.  `send_parameters` sends a setting only if it is chosen,
`get_parameters` stores what it finds, `iperf_reset_test` resets exactly the fields
that the function assigns (`ResetFields`), and `iperf_tcp_listen` makes the listening
socket.  `ServerHasRequest` does not read `ResetFields`: it is about every setting that is
sent but the eight of `Inherited`, which are written out, so it notices a field that
`iperf_reset_test` forgets.  `len` and `pacing_timer` count as always sent, because the program's defaults
for them are not 0 (an explicit `--pacing-timer 0` is not modelled).

**`StreamSetup`** (run by `MCStreamSetup`; with **`StreamSetupProofs`**).  The server's descriptors are explicit: `fds` has
the kind, peer, buffer and input queue of each, and the lowest free number is the next.
UDP streams are set up as `iperf_udp_accept` does it, with the steps in the order of
`AcceptStep` (the old socket is connected, the new one opened, the reply sent), against
a network that delivers, loses and repeats hellos.  SCTP and TCP connections queue at
the listening socket, those of strangers too, which are turned away by their cookie.  A
UDP hello has none: a `Stranger`'s datagram, from another program or from a test that is
over, becomes a stream whose peer is `Foreign`.  `Restart` is the return from
`iperf_run_server` with `cleanup_server`, `iperf_reset_test` and the next
`iperf_server_listen`; whatever is still open then was leaked.  Each failing system
call counts against `MaxFailures`.  The control connection is `Control`'s: here each
side just learns that the other is gone.  Socket buffers are numbers of blocks.
`FdsAssumption` says that the descriptors suffice for every test and everything that
can leak, so that the bound `Fds` cuts nothing off: a process that runs out of
descriptors is a system call that fails.

**`StreamData`** (run by `MCStreamData`; with **`StreamDataProofs`** and
**`StreamRateProofs`**).  One direction of one test.  `conf` holds the
settings, which are chosen in `Init`.  Each side runs the same loop, with `pc` at
`select`, `send` or `timers`; `iperf_send` is `SendBegin`, one `SendOne` per call of
`sp->snd` and `SendRound`, so that the receiver drains the connections in between.  A
connection holds `SocketBuffer` bytes, so blocks are cut; a datagram is its number.
Timer procs are actions that may run whenever the process is at `timers`: when they
are due is `Timers`' subject.  The reporter timer has the interval of the stats timer
and runs after it, so each interval is shown when it is made.  `ghost` records which
packets arrived and how many were duplicates.  Time advances in throttled tests only.

**`Options`** (with **`AuthProofs`**) reads two command lines, one option per step in any order, as sets of
records (flag, number, unit, second number).  A field that is given twice (`-u --sctp`,
`-b` with `--nstreams`, `-S` with `--dscp`, an option repeated) has the last value, so
`OptionOrderIsIrrelevant` is about command lines that give each once (`TypedOnce`).
The text of an argument is abstracted
to these parts; `unit_atoi` and `parse_qos` compute with them, and `IntOf` truncates to
32 bits.  The build is the one for Linux with SCTP, OpenSSL and all socket options.
**`Auth`** extends it: once both programs have started, the server serves `MaxTests`
clients, with the credentials of the command line or without any, whose clocks are
ahead or behind and whose parameters take time.  `MCOptions` has the families of
options that interact, every limit of every range, and both programs' options of
authorization at once.

An operator `X_wrong` next to `X` is a plausible mistake in the code of `X`.  It is used
by no specification; replacing `X` by it makes the property named in `PROJECT.json`
fail, which shows that the property depends on that code.

## Runs

| run | what it checks | states |
|---|---|---|
| `timers_client` | two paced streams: `SelectWakesInTime`, `HandlesAreScheduled`, `CancelledTimersDoNotRun`, and that the test timer ends the test (`TestTimerExpires`) | 6 thousand |
| `timers_server` | a sending server over consecutive tests: a timer has the interval of its kind also in a struct that is used again (`TypeOK`), `HandlesAreScheduled`, `NothingScheduledBetweenTests` | 72 thousand |
| `control` | two clients of any modes with kills, hangs, interrupts, timeouts: `StreamsArePaired`, `TestRunsOnAllStreams`, no forgotten client (`IdleServerHoldsNobody`), refinement of `Sessions` (`ServesOneAtATime`) | 526 thousand |
| `control_live` | every client ends (`ClientsFinish`), the server becomes free (`ServerBecomesFree`) | 92 thousand |
| `control_one_off` | three clients, one rejected, one dying: one test is served (`OneOffServesOneTest`), then the server ends (`OneOffServerEnds`) | 18 thousand |
| `settings` | two tests with up to two settings each: no setting but the inherited ones leaks (`ServerHasRequest`, `ModesAreOpposite`, `SocketServesRequest`) | 70 thousand |
| `stream_setup` | ten kinds of tests, two in a row, with faults: `SelectIsValid`, `HelloIsHeard`, `StreamsArePaired`, `LeaksAreFailures`, `SocketsAreAsAsked`, `SetupEnds` | 78 thousand |
| `stream_data` | fifteen kinds of tests: `LossCounterIsExact`, `LossIsAFraction` (UDP counters), `IntervalsAddUp`, `ReportsAgree`, `ThrottleHolds` (`-b`), `LimitIsKept` (`-n`, `-k`), `LimitIsMovingAverage` (the server's bitrate limit), `FileIsSentOnce` (`-F`), `TestEnds` | 115 thousand |
| `options` | 1004 pairs of command lines in every order, then up to two clients: `OptionOrderIsIrrelevant`, `SettingsAreUsable`, `AuthorizationIsExact` | 121 thousand |

Three runs state what a comment of the program says and end in a counterexample:

| run | comment | what happens |
|---|---|---|
| `timers_server_sending` | `timer.h`: `tmr_cancel` deschedules a timer | `server_timer_proc` frees a stream whose send timer `tmr_run` holds as `next`; it is run with freed data (`CancelledTimersDoNotRun`) |
| `settings_multipath` | `iperf_tcp.c`: data connections "have all the correct parameters" | `multipath` is not reset, so every test after an MPTCP test gets an MPTCP listener (`SocketIsAsRequested`) |
| `control_silent` | `iperf_server_api.c`: a stuck test "should be forced to end" | a client that stops after TEST_END leaves the server in a blocking read (`StuckTestEnds`) |

For a measurement campaign `settings_multipath` matters most: a plain TCP baseline
that is measured with the server that served an MPTCP test before does not use a
plain TCP listener.  The repository's scripts start a server per experiment.

**Bounds.**  Timers: intervals of 1 or 2 ticks make the test, omit, stats, reporter and
send timers coincide and pass each other within 5 ticks; more ticks repeat the
pattern of the periodic timers.  `MaxStart` keeps the creation of timers early enough
for the test to end before `MaxTime`, which is what makes the liveness property
meaningful under a bounded clock.  Control: two clients are enough for every
interleaving of a session with an intruder and with a session that follows it; one
stream per direction gives two streams in a bidirectional test, the case in which the
order of `accept()` matters.  Three clients are used where the order of a rejected,
an aborted and a finished test matters.  Settings: two tests show any leak from one
test to the next, two settings any pair that excludes each other.  StreamSetup: two
streams per test, since each step of a set-up depends on the one before only; two
tests and two failures show what a failed set-up leaves to the next and that losses
add up; two repeated datagrams can both be of one stream or of two, and what strangers
send counts as well (`MaxDuplicates`), so that both streams, or one of them, can be
strangers'.  StreamData: a
block of 2 bytes and connections of 3 cut blocks in the middle; three packets with a
duplicate give every order of loss, late arrival and repetition around the end of the
omit period; each `conf` has its own `maxPackets` and `maxIntervals`, the latter one more
than the window where the ring has to wrap.  Options: options of different
families are independent, since no check reads fields of two of them; two clients in a
row show a token that is left over.

**Deadlock** is not checked: a client's program ends, a bounded clock stops, and a
server without an idle timeout waits for ever.

**Fairness.**  `Timers`: the clock ticks, and the process is scheduled; `tmr_timeout` keeps
`select()` from sleeping for ever.  `Control`: a process that can go on does
(`ServerStep`, `ClientStep`): reads that have data or an end of file return, `select()`
reports them, and each branch of the loop handles what is reported.  The server's
test timer exists in every test with a duration and is fair; the receive timeouts are
fair only while nothing arrives.  `StreamSetup`: both processes go on, which includes
the 30 seconds of `SO_RCVTIMEO`; the network is not fair.  `StreamData`: both loops turn,
TCP delivers, and `select()` reports in every turn what can be read, so `Recv`,
`ServerEnds` and the timers that end the omit period and the test are strongly fair;
datagrams are not.  Nothing is assumed of faults, interrupts, the bitrate limit or the
idle timeout.

## Proofs

`TimersProofs` proves for every set of timers and streams, every choice of
intervals and both sides: `TypeOK`, which includes that each scheduled timer has the
interval and the periodicity of its kind (`KindsFit`), `ListIsSorted`, `SelectWakesInTime`,
`HandlesAreScheduled` and `NothingScheduledBetweenTests`.  Assumed are the module's
named ASSUMEs only (the constants are natural numbers, `NoTimer` is no timer).  The
inductive invariant says of the lists that they are sorted, disjoint and without
repetition, of every pointer that it is NULL or points to a scheduled timer of its
role, of every scheduled timer that it is pointed to, and, depending on `pc`, which
pointers are still to be created or already cancelled.  It is needed because
sortedness alone does not survive `list_resort`: that a timer occurs once is what
makes removing it and adding it again a permutation.  The lemmas go from sequences
(`InsertAtLemma`, `RemoveAtLemma`) over the list operations (`ListAddLemma`,
`ListRemoveLemma`, `ResortLemma`, `CancelLemma`) to pointers (`CancelHandleLemma`,
`CreateHandleLemma`), and `NextIInv` has one step per action.  `KindsFit` is kept on top of
it (`NextFits`): only `tmr_create` writes these fields, and all of them, while the other
operations leave what is still scheduled as it was (`SameStructs`).

`CancelledTimersDoNotRun` is proved for a client, and for a server that sends on no stream at
a target rate, as in an upload (`NoStreamIsFreed == Side = "c" \/ Stream = {}`); otherwise it is false, which is what
the run `timers_server_sending` shows.  The invariant it needs, `WalkIsScheduled`, is
that the timer `tmr_run` looks at, and the one it saved before `server_timer_proc`, are on
the list.  The next timer is not the one whose proc runs (`NextIsOtherLemma`), so it stays there
when that one is moved or cancelled (`NextStaysLemma`).

`SettingsProofs` proves for any number of tests and of chosen settings: `TypeOK`,
`ServerHasRequest`, `ModesAreOpposite` and `SocketServesRequest`.  The inductive
invariant adds what holds between tests: before `get_parameters` every field that is
reset is at its default, the mode is RECEIVER and the socket is plain.
`NoFieldIsForgotten` compares the reset fields with those the property speaks of.

`AuthProofs` proves `SettingsAreUsable` for every set of command lines and
`AuthorizationIsExact` for every users file, all credentials, clocks and numbers of
tests.  `OptionsInv` says of a command line that is read in part what the options read
so far, in any order, have made of `struct iperf_test`; `TokenInv` that a token is the
present client's and that the server keeps none between tests.

`OrderTheorem` proves `OptionOrderIsIrrelevant` for every set of options.  `Meant(t, O)` says
field by field what a set `O` of options makes of `struct iperf_test`, with no mention of an
order; `TurnLemma` shows that a turn of the loop takes `Meant` from the options read to
those with one more, and `AgreeLemma` that two tests that are `Meant` by the same options are
equal.  One field does depend on the order, `sender_has_retransmits` of a server with
`--bidir`: that command line is refused in any order (`RefusedLemma`).  The property compares
with a fold over the options; that the fold also comes to what is `Meant` is shown by
constructing the recursive function that `FoldSet` chooses, subset by subset
(`FoldExists`, `SubsetInduction`), so it needs that a command line is finite, which
`OptionsAssumption` says.

`StreamDataProofs` and `StreamRateProofs` prove all invariants of `StreamData` for every
set of tests, number of streams, block size and buffer size, and for unbounded numbers
of packets, duplicates and intervals (the bounds of the runs are constants too).
- `TypeInv` is the type invariant with the buffers' sizes.  `LossInv` adds what is on the
  way: the receiver's loss counter is below the number of packets really missing by at
  most the number of duplicates (`LossCounterIsExact`).
- `ResultInv`: no interval has more losses than packets, and when the reports are shown
  each side knows what the other counted (`LossIsAFraction`, `ReportsAgree`).
- `ThrottleInv` with `DoneInv` bounds what a green light still allows to be sent in the rest
  of a turn (`ThrottleHolds`).  `LimitInv` with `SentInv` bounds bytes or blocks at each place
  of the loop by the sends that are left in the round (`LimitIsKept`).
- `FileInv` accounts for a file's bytes (`FileIsSentOnce`).
- `IntervalsInv` has the sums while the test still runs, with what is counted since the
  last interval (`IntervalsAddUp`).  `RingInv` says which totals the ring holds, however
  often it has wrapped (`LimitIsMovingAverage`).

They rest on the first part of `StreamDataProofs`: what the sum of a function over a finite
set is when an element is added, changed or taken, for any set.  The prover has no induction over data;
these lemmas take the smallest counterexample instead, which exists because `<` on the
natural numbers is well founded.

`ControlProofs` proves for any number of clients and of streams, and any faults:
`TypeOK`, `IdleServerHoldsNobody`, `OneOffServesOneTest`, and that `Control` implements
`Sessions` (`ServesOneAtATime`).  None of these is inductive.  The invariant `Inv` says where
the server is and what it holds there (`PcInv`); that a connection is in one place, the
backlog, `ctrl_sck` or the pending stream, and in none before it is made (`PlaceInv`,
`FutureInv`); that only cookies come on data connections (`DataInv`); that a client is
asked for streams once, so that it makes no connection twice (`OnceInv`); that a control
connection open at both ends waits or is served (`HeldInv`); that who is told to show
results has reported them (`ReportInv`); and where a one-off server can be once it has
results (`OneOffInv`).  The proof does not go through the actions for each part.
`SrvStep` and `CliStep` say what all steps of the server and of a client have in common;
`ServerLemma` and `ClientLemma` show it for every action, `ServerKeeps` and `ClientKeeps`
derive the invariant from it, and `SessionsTheorem` the refinement.

`PairingProofs` proves `StreamsArePaired` and `TestRunsOnAllStreams` of `Control`, for any
number of clients and of streams and all other faults, under the condition that no
client dies between `connect()` and its cookie (`Stray = {}`, as in the run `control`).
Without it they are false: `iperf_tcp_accept` then compares an uninitialized buffer with
the test's cookie and may take the connection as a stream.  `PairInv`, on top of
`ControlProofs`' `Inv`, says that
- the cookie of every connection the server has yet to read one from is there or on its
  way, so that it reads no end of file in its place (`CookieInv`);
- a client makes its data connections one after the other, once it was asked to, and
  nothing is written on a connection that is not made (`MadeInv`, `EmptyInv`);
- the server's test is its client's, its streams are that client's connections in order,
  and while it collects them the others wait in order and none is lost (`ServedInv`);
- the server's state fits the place of its loop (`StateInv`), and a client that runs, or
  was told to, has made all its connections and the server has taken them (`RunsInv`).

The order in which connections wait is what makes the pairing inductive: nothing in
`iperf_tcp_accept` looks at which of a client's connections it takes.  `ServerPairs`
derives what every step of the server keeps from `SrvStep`; for the rest each action has
its lemma.  `ClientMore` does for a client's steps what `CliStep` leaves out.

`StreamSetupProofs` proves all invariants of `StreamSetup` for every set of tests, any
number of streams, tests, failures and repeated datagrams: `TypeOK`, `SelectIsValid`,
`HelloIsHeard`, `StreamsArePaired`, `LeaksAreFailures` and `SocketsAreAsAsked`.  They follow
from one invariant, `Inv`, because the parts need each other:
- every open descriptor is leaked, owned by `struct iperf_test` or being accepted
  (`Accounted`), `read_set` has open ones only, and at most two are leaked per failure
  (`LeakInv`).  With `FdsAssumption` this gives room for the next socket (`RoomLemma`);
- between tests the listening socket is the lowest descriptor that is not leaked
  (`Resting`), so the one that replaces it gets its number.  `iperf_sctp_listen` depends on
  that: it closes the listening socket without taking it out of `read_set`;
- while streams are collected, the k-th has the peer k, or a stranger's stream is among the
  first k and those of the client are in order (`IsPaired`, in `Has`), and the UDP socket that
  is listening has not been connected, or is the one `iperf_udp_accept` is about to replace
  (`Collecting`);
- what waits for the server: on a UDP socket, strangers' datagrams and hellos of the
  client's next stream, however often they were repeated, as long as no socket is connected
  to that stream (`HelloQueue`, `Waits`), and on a TCP or SCTP socket the connections not yet
  accepted in the order they were made (`ConnectionQueue`);
- a UDP client has a buffer for a block, and every stream it has, and every one a reply is
  on its way for, has a socket at the server (`ClientInv`, `Greetings`, `Met`).

With strangers the server's number of streams says nothing about the client's any more.
What replaces it is `Met`: a hello that is repeated after its stream was accepted goes to
the socket connected to the client, and so is never taken for a new one.

`SetupEnds` stays with TLC.

All proofs assume only the named ASSUMEs of the modules, which the runs evaluate; those
of `PairingProofs` also that `Stray` is empty, and `CancelledTimersDoNotRunHere` that
`NoStreamIsFreed`.

Every safety invariant that a passing run checks, and the refinement of `Sessions`, is
also proved.  Only model-checked are the liveness properties (`TestTimerExpires`,
`ClientsFinish`, `ServerBecomesFree`, `OneOffServerEnds`, `SetupEnds`, `TestEnds`), since liveness
under fairness is outside what the prover handles, and that the three comments
are false, which is shown by a counterexample each.

## Divergences

Met while modelling, beyond the runs that end in a counterexample.  The models have
the code's behaviour; the properties say what holds in spite of it.

- A rejected client that has already closed its connection makes the write of the
  rejection fail with another error than IEAUTHTEST, and a one-off server ends
  (`iperf_api.c:1908`), although `main.c:169` says "Authentication failure doesn't count
  for 1-off test".
- When a connection ends before its cookie, `iperf_tcp_accept` compares an uninitialized
  buffer with the test's cookie, which is sent "for verification" (`iperf_tcp.c:134`, 644).
- `--nstreams` runs on into the case of `-b` (`iperf_api.c:1125-1133`): its number becomes
  the bitrate as well.
- The window of the bitrate limit can be up to 600 entries with `-i 0.1`, and its ring has
  60; with `-i 0` the quotient is infinite (`iperf_api.c:1595-1600`, 2583).
  `SettingsAreUsable` claims the window for `-i 1` and more.
- `-l` is stored in an int: `-l 4G` becomes the default, and `-u -l 3G` a negative size that
  is accepted (`iperf_api.c:1182`, 1558); so is a negative number.  `SettingsAreUsable` excepts
  both.  `-t` and `-P` accept negative numbers.
- `iperf_reset_test` leaves eight settings that a client sends only if it has chosen them:
  multipath, num, blockcount, fqrate, flowlabel, congestion, get_server_output and
  repeating_payload (`iperf_api.c:2917-2997`).  `ServerHasRequest` excepts them.
- Users or passwords with white space, and empty passwords, can be put into the users
  file but never authenticate, as `decode_auth_setting` reads words.  A line of that file
  that ends with its comma is not skipped (`iperf_auth.c:97-100`); such files are not
  modelled.
- With `-O`, a UDP client that sends reports the losses of the omitted period as well:
  `send_results` sends `cnt_error` unadjusted.  `ReportsAgree` claims packets and losses
  without `-O` only.  The first interval after the omitted period has the packets, not
  the bytes, of the interval it cut short.
- The losses of an interval can be negative when packets of an earlier one arrive late.
- `iperf_reset_stats` leaves `test->bytes_received`: a reverse test with `-n` and `-O` ends
  early by what was received while omitting.
- `-n` and `-k` overshoot by up to a block per stream and one (`iperf_api.c:1732`).
- A short last block of a file that is sent in two parts is shifted by the wrong
  distance (`iperf_api.c:4271`); and over UDP `diskfile_send` always sends whole blocks.
  With zerocopy what was read of the file is forgotten when the connection is full.
  `FileIsSentOnce` counts bytes over TCP without zerocopy.
- In a bidirectional test every writable stream refreshes `last_receive_time`
  (`iperf_server_api.c:545`), so the receive timeout does not notice that nothing arrives.
- A repeated hello or reply of a UDP stream is read as data by the side that gets it.
- `iperf_udp_accept` is to "grab the UDP packet sent by the client" (`iperf_udp.c:380`), but
  takes the first datagram whoever sent it, and compares nothing in it with the test.
  After a stranger's the server has all its streams before the client has: the test
  starts on those, or the client waits for a reply until its 30 seconds are over.
  `StreamsArePaired` and `HelloIsHeard` state what is left of them then.
- A failure of `accept`'s successors leaves one or two descriptors open
  (`iperf_tcp.c:134`, `iperf_api.c:4006-4066`); `LeaksAreFailures` bounds them.

## Not modelled

The JSON syntax (vendored cJSON) and the texts of reports, errors and locale; jitter,
CPU times, bandwidths and TCP_INFO, which are floating point or the operating
system's and on which no decision depends; the contents of blocks and files;
cryptography; socket options beyond their names; daemon mode, log and pid files; the
`scripts/` and `utils/` directories, which are straight-line.  Failures of `malloc` outside
the timers, of `setsockopt` and of log files end a test or a process through the same
paths as the modelled errors.  `packet_count`, `cnt_error` and `diskfile_left` are C ints, but
natural numbers here, and do not wrap around.  The unit T of `units.c` (10^12 or 2^40) is
left out, its multiples being beyond the checker's integers.
`StreamData` has one direction: the two directions of a bidirectional test share only
the loop and the end of the test.

## Plan

1. The arithmetic of `iperf_time.c` against a reference definition.
2. Both directions of a bidirectional test together with the receive timeout.
