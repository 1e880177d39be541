------------------------------- MODULE Timers -------------------------------
(***************************************************************************)
(* The timer package (timer.c) together with the timers one iperf3 process *)
(* creates, resets, runs and cancels around a test (the *_timer_proc and   *)
(* create_*_timers functions of iperf_client_api.c, iperf_server_api.c and *)
(* iperf_api.c).                                                           *)
(*                                                                         *)
(* The doubly linked lists are sequences: `timers' is q.list, `free_timers'*)
(* is q.free (most recently cancelled first), and t->next is the successor *)
(* of t.  A time is a natural number of ticks.  The process is single      *)
(* threaded: pc says where it is, and only the clock moves by itself.      *)
(*                                                                         *)
(* An operator whose name ends in _wrong is a mistake the operator after it*)
(* could have had; each is caught by one of the properties at the end.     *)
(***************************************************************************)
EXTENDS Integers, SequencesExt

CONSTANTS
  Timer,            \* Timer structs malloc() can return
  NoTimer,          \* the NULL Timer*
  Stream,           \* the sending streams of a test with a target rate
  Side,             \* "c" for the client, "s" for the server
  Duration, Omit, StatsInterval, ReporterInterval, Grace, PacingTimer,
  MaxStart,         \* bound: no timer of a test is created later
  MaxTime           \* bound on the clock

TestRole == {"timer", "stats", "reporter", "omit"}

\* The pointers a process holds: the four of struct iperf_test, and
\* sp->send_timer of each stream.
Role == TestRole \cup Stream

ASSUME SideAssumption == Side \in {"c", "s"}

ASSUME TimerAssumption ==
  /\ NoTimer \notin Timer
  /\ Stream \cap TestRole = {}

ASSUME SettingsAssumption ==
  /\ Duration \in Nat /\ Omit \in Nat /\ StatsInterval \in Nat
  /\ ReporterInterval \in Nat /\ Grace \in Nat
  /\ PacingTimer \in Nat \ {0} /\ MaxStart \in Nat /\ MaxTime \in Nat

VARIABLES
  q,          \* the timer lists, the Timer structs and the pointers to them
  clock,      \* the monotonic clock
  pc,         \* where the process is
  cur, nxt,   \* tmr_run's t and next
  now,        \* the local `now' of create_*_timers and of tmr_run
  done, omitting

vars == <<q, clock, pc, cur, nxt, now, done, omitting>>

Queues ==
  [list : Seq(Timer), free : Seq(Timer), time : [Timer -> Nat],
   usecs : [Timer -> Nat], periodic : [Timer -> BOOLEAN],
   proc : [Timer -> Role], handle : [Role -> Timer \cup {NoTimer}]]

On(l) == {l[i] : i \in DOMAIN l}

-----------------------------------------------------------------------------
(* timer.c *)

InsertionPoint_wrong(l, time, t) == Len(l) + 1

\* The place list_add walks to: in front of the first timer that is later.
InsertionPoint(l, time, t) ==
  Min({p \in 1..Len(l) + 1 : p = Len(l) + 1 \/ time[t] < time[l[p]]})

list_add(qq, t) ==
  [qq EXCEPT !.list = InsertAt(qq.list, InsertionPoint(qq.list, qq.time, t), t)]

list_remove(qq, t) ==
  [qq EXCEPT !.list = RemoveAt(qq.list, CHOOSE i \in DOMAIN qq.list : qq.list[i] = t)]

list_resort(qq, t) == list_add(list_remove(qq, t), t)

\* The struct tmr_create takes: the head of the free list, else a new one.
Fresh(qq) ==
  IF qq.free # <<>> THEN Head(qq.free)
  ELSE CHOOSE t \in Timer : t \notin On(qq.list)

\* The fields of a struct from the free list are those of its last use.
tmr_create_wrong(qq, at, r, usecs, periodic) ==
  LET t == Fresh(qq)
      new == qq.free = <<>>
  IN
  list_add([list |-> qq.list,
            free |-> IF new THEN qq.free ELSE Tail(qq.free),
            time |-> [qq.time EXCEPT ![t] = at + usecs],
            usecs |-> [qq.usecs EXCEPT ![t] = IF new THEN usecs ELSE @],
            periodic |-> [qq.periodic EXCEPT ![t] = IF new THEN periodic ELSE @],
            proc |-> [qq.proc EXCEPT ![t] = r],
            handle |-> [qq.handle EXCEPT ![r] = t]], t)

\* tmr_create and the caller's assignment of its result to the pointer r.
tmr_create(qq, at, r, usecs, periodic) ==
  LET t == Fresh(qq) IN
  list_add([list |-> qq.list,
            free |-> IF qq.free = <<>> THEN qq.free ELSE Tail(qq.free),
            time |-> [qq.time EXCEPT ![t] = at + usecs],
            usecs |-> [qq.usecs EXCEPT ![t] = usecs],
            periodic |-> [qq.periodic EXCEPT ![t] = periodic],
            proc |-> [qq.proc EXCEPT ![t] = r],
            handle |-> [qq.handle EXCEPT ![r] = t]], t)

tmr_reset(qq, at, t) ==
  list_resort([qq EXCEPT !.time[t] = at + qq.usecs[t]], t)

tmr_cancel(qq, t) ==
  LET rest == list_remove(qq, t) IN [rest EXCEPT !.free = <<t>> \o @]

\* What the callers write as: if (x != NULL) { tmr_cancel(x); x = NULL; }
CancelHandle(qq, r) ==
  IF qq.handle[r] = NoTimer THEN qq
  ELSE [tmr_cancel(qq, qq.handle[r]) EXCEPT !.handle[r] = NoTimer]

ResetHandle(qq, at, r) ==
  IF qq.handle[r] = NoTimer THEN qq ELSE tmr_reset(qq, at, qq.handle[r])

\* t->next of a scheduled timer.
NextOf(qq, t) ==
  LET i == CHOOSE i \in DOMAIN qq.list : qq.list[i] = t
  IN  IF i = Len(qq.list) THEN NoTimer ELSE qq.list[i + 1]

\* How long select() may sleep: -1 stands for a NULL timeout.
tmr_timeout(qq, at) ==
  IF qq.list = <<>> THEN -1
  ELSE IF qq.time[Head(qq.list)] <= at THEN 0
  ELSE qq.time[Head(qq.list)] - at

-----------------------------------------------------------------------------
(* The timers of a test *)

Init ==
  /\ q = [list |-> <<>>, free |-> <<>>, time |-> [t \in Timer |-> 0],
          usecs |-> [t \in Timer |-> 0], periodic |-> [t \in Timer |-> FALSE],
          proc |-> [t \in Timer |-> "timer"], handle |-> [r \in Role |-> NoTimer]]
  /\ clock = 0 /\ now = 0
  /\ pc = "idle" /\ cur = NoTimer /\ nxt = NoTimer
  /\ done = FALSE /\ omitting = FALSE

\* When a timer runs: the server gives the test a grace period.
Usecs(r) ==
  CASE r = "timer" -> Duration + Omit + (IF Side = "s" THEN Grace ELSE 0)
    [] r = "stats" -> StatsInterval
    [] r = "reporter" -> ReporterInterval
    [] r = "omit" -> Omit
    [] OTHER -> PacingTimer

\* Which timers the test has.
Wanted(r) ==
  CASE r = "timer" -> Duration # 0
    [] r = "stats" -> StatsInterval # 0
    [] r = "reporter" -> ReporterInterval # 0
    [] r = "omit" -> Omit # 0
    [] OTHER -> TRUE

Periodic(r) == r \notin {"timer", "omit"}

\* The order in which they are created.
After == [timer |-> "stats", stats |-> "reporter", reporter |-> "omit", omit |-> "send"]

\* create_client_timers or create_server_timers is called: TEST_START, or the
\* last stream was accepted.
CreateTimers ==
  /\ pc = "idle"
  /\ clock <= MaxStart
  /\ q' = [q EXCEPT !.handle = [r \in Role |->
             IF r \in {"timer", "stats", "reporter"} THEN NoTimer ELSE @[r]]]
  /\ done' = (IF Duration # 0 THEN FALSE ELSE done)
  /\ now' = clock
  /\ pc' = "timer"
  /\ UNCHANGED <<clock, cur, nxt, omitting>>

\* One tmr_create of create_*_timers, or the one of create_*_omit_timer (which
\* reads the clock itself), or its being skipped.
CreateTimer(r) ==
  /\ pc = r
  /\ IF Wanted(r)
     THEN /\ q.free # <<>> \/ \E t \in Timer : t \notin On(q.list)
          /\ q' = tmr_create(q, IF r = "omit" THEN clock ELSE now, r, Usecs(r), Periodic(r))
     ELSE q' = [q EXCEPT !.handle[r] = NoTimer]
  /\ omitting' = (IF r = "omit" THEN Wanted(r) ELSE omitting)
  /\ pc' = After[r]
  /\ UNCHANGED <<clock, cur, nxt, now, done>>

\* One round of the loop of iperf_create_send_timers.
CreateSendTimer(s) ==
  /\ pc = "send"
  /\ q.handle[s] = NoTimer
  /\ q.free # <<>> \/ \E t \in Timer : t \notin On(q.list)
  /\ q' = tmr_create(q, clock, s, Usecs(s), Periodic(s))
  /\ UNCHANGED <<clock, pc, cur, nxt, now, done, omitting>>

\* malloc returns NULL in tmr_create: the client exits, the server cleans up.
CreateFails ==
  /\ q.free = <<>>
  /\ \/ pc \in TestRole /\ Wanted(pc)
     \/ pc = "send" /\ \E s \in Stream : q.handle[s] = NoTimer
  /\ omitting' = (omitting \/ pc = "omit")
  /\ pc' = IF Side = "c" THEN "exit" ELSE "fail"
  /\ UNCHANGED <<q, clock, cur, nxt, now, done>>

\* The end of the loop of iperf_create_send_timers: every stream has a timer.
StartLoop ==
  /\ pc = "send"
  /\ \A s \in Stream : q.handle[s] # NoTimer
  /\ pc' = "loop"
  /\ UNCHANGED <<q, clock, cur, nxt, now, done, omitting>>

\* TEST_END arrives at the server, or the client reaches its number of bytes
\* or blocks.
TestOver ==
  /\ pc = "loop" /\ ~done
  /\ Side = "s" \/ ~omitting
  /\ done' = TRUE
  /\ UNCHANGED <<q, clock, pc, cur, nxt, now, omitting>>

RunBegin_wrong ==
  /\ pc = "loop" /\ ~done
  /\ pc' = "run" /\ now' = clock
  /\ cur' = IF q.list = <<>> THEN NoTimer ELSE Head(q.list)
  /\ UNCHANGED <<q, clock, nxt, done, omitting>>

\* The client calls tmr_run until it sends TEST_END, the server until the end.
RunBegin ==
  /\ pc = "loop"
  /\ Side = "s" \/ ~done \/ omitting
  /\ pc' = "run" /\ now' = clock
  /\ cur' = IF q.list = <<>> THEN NoTimer ELSE Head(q.list)
  /\ UNCHANGED <<q, clock, nxt, done, omitting>>

\* The for loop ends: the end of the list, or a timer that is not yet due.
RunEnd ==
  /\ pc = "run"
  /\ cur # NoTimer => q.time[cur] > now
  /\ pc' = "loop" /\ cur' = NoTimer
  /\ UNCHANGED <<q, clock, nxt, now, done, omitting>>

\* tmr_run is about to call the proc of its timer t.
Due ==
  /\ pc = "run" /\ cur # NoTimer
  /\ q.time[cur] <= now

\* A periodic proc (stats, reporter, send_timer_proc) touches no timer; tmr_run
\* then reschedules it.
RunPeriodic ==
  /\ Due /\ cur \in On(q.list) /\ q.periodic[cur]
  /\ q' = list_resort([q EXCEPT !.time[cur] = @ + q.usecs[cur]], cur)
  /\ cur' = NextOf(q, cur)
  /\ UNCHANGED <<clock, pc, nxt, now, done, omitting>>

\* client_omit_timer_proc / server_omit_timer_proc, then tmr_cancel.
RunOmit ==
  /\ Due /\ cur \in On(q.list) /\ q.proc[cur] = "omit"
  /\ \E q1 \in {ResetHandle([q EXCEPT !.handle["omit"] = NoTimer], now, "stats")} :
     \E q2 \in {ResetHandle(q1, now, "reporter")} :
       q' = tmr_cancel(q2, cur)
  /\ omitting' = FALSE
  /\ cur' = NextOf(q, cur)
  /\ UNCHANGED <<clock, pc, nxt, now, done>>

\* test->timer = NULL is forgotten.
RunTestTimer_wrong ==
  /\ Due /\ cur \in On(q.list) /\ q.proc[cur] = "timer"
  /\ Side = "c" \/ done
  /\ q' = tmr_cancel(q, cur)
  /\ done' = TRUE
  /\ cur' = NextOf(q, cur)
  /\ UNCHANGED <<clock, pc, nxt, now, omitting>>

\* The reports are stopped with the test.
RunTestTimer_wrong2 ==
  /\ Due /\ cur \in On(q.list) /\ q.proc[cur] = "timer"
  /\ Side = "c" \/ done
  /\ q' = CancelHandle(tmr_cancel([q EXCEPT !.handle["timer"] = NoTimer], cur), "reporter")
  /\ done' = TRUE
  /\ cur' = NextOf(q, cur)
  /\ UNCHANGED <<clock, pc, nxt, now, omitting>>

\* test_timer_proc, or server_timer_proc when the test is already over, then
\* tmr_cancel.
RunTestTimer ==
  /\ Due /\ cur \in On(q.list) /\ q.proc[cur] = "timer"
  /\ Side = "c" \/ done
  /\ q' = tmr_cancel([q EXCEPT !.handle["timer"] = NoTimer], cur)
  /\ done' = TRUE
  /\ cur' = NextOf(q, cur)
  /\ UNCHANGED <<clock, pc, nxt, now, omitting>>

\* server_timer_proc up to its loop over the streams; tmr_run keeps next.
RunServerTimer ==
  /\ Due /\ cur \in On(q.list) /\ q.proc[cur] = "timer"
  /\ Side = "s" /\ ~done
  /\ q' = [q EXCEPT !.handle["timer"] = NoTimer]
  /\ done' = TRUE
  /\ pc' = "freeing" /\ nxt' = NextOf(q, cur)
  /\ UNCHANGED <<clock, cur, now, omitting>>

FreeStream_wrong(s) ==
  /\ pc \in {"freeing", "cleanup"}
  /\ q.handle[s] # NoTimer
  /\ q' = [q EXCEPT !.handle[s] = NoTimer]
  /\ UNCHANGED <<clock, pc, cur, nxt, now, done, omitting>>

\* iperf_free_stream, in server_timer_proc ("freeing") or after the test.
FreeStream(s) ==
  /\ pc \in {"freeing", "cleanup"}
  /\ q.handle[s] # NoTimer
  /\ q' = CancelHandle(q, s)
  /\ UNCHANGED <<clock, pc, cur, nxt, now, done, omitting>>

\* server_timer_proc returns and tmr_run cancels its timer.
ServerTimerReturn ==
  /\ pc = "freeing"
  /\ \A s \in Stream : q.handle[s] = NoTimer
  /\ q' = tmr_cancel(q, cur)
  /\ pc' = "run" /\ cur' = nxt /\ nxt' = NoTimer
  /\ UNCHANGED <<clock, now, done, omitting>>

\* tmr_run calls the proc of a timer that is on the free list: the proc uses a
\* freed stream and list_resort links a free struct; nothing is known after it.
RunCancelled ==
  /\ Due /\ cur \notin On(q.list)
  /\ pc' = "undefined"
  /\ UNCHANGED <<q, clock, cur, nxt, now, done, omitting>>

CancelAll_wrong(qq) ==
  CancelHandle(CancelHandle(CancelHandle(qq, "stats"), "reporter"), "timer")

CancelAll(qq) ==
  CancelHandle(CancelHandle(CancelHandle(CancelHandle(qq,
    "stats"), "reporter"), "omit"), "timer")

\* The test ends, for whatever reason: cleanup_server in the server; the client
\* returns from iperf_run_client.
EndTest ==
  /\ pc \in {"loop", "fail"}
  /\ q' = IF Side = "s" THEN CancelAll(q) ELSE q
  /\ pc' = "cleanup"
  /\ UNCHANGED <<clock, cur, nxt, now, done, omitting>>

\* iperf_reset_test, or in the client iperf_free_test: once the streams are
\* freed, what is left is cancelled.
ResetTest ==
  /\ pc = "cleanup"
  /\ \A s \in Stream : q.handle[s] = NoTimer
  /\ q' = CancelAll(q)
  /\ pc' = IF Side = "s" THEN "idle" ELSE "freed"
  /\ done' = FALSE
  /\ UNCHANGED <<clock, cur, nxt, now, omitting>>

\* An iperf_errexit ends the process and its timers with it: it is no step here.
Tick ==
  /\ clock < MaxTime
  /\ pc \in TestRole \cup {"send"} => clock < MaxStart
  /\ clock' = clock + 1
  /\ UNCHANGED <<q, pc, cur, nxt, now, done, omitting>>

\* What the process does by itself while a test runs.
Run ==
  \/ \E r \in TestRole : CreateTimer(r)
  \/ \E s \in Stream : CreateSendTimer(s) \/ FreeStream(s)
  \/ CreateFails \/ StartLoop
  \/ RunBegin \/ RunEnd \/ RunPeriodic \/ RunOmit \/ RunTestTimer
  \/ RunServerTimer \/ ServerTimerReturn \/ RunCancelled

Next == Run \/ CreateTimers \/ TestOver \/ EndTest \/ ResetTest \/ Tick

Spec == Init /\ [][Next]_vars

\* Time passes and the process is scheduled: tmr_timeout keeps select() from
\* sleeping for ever, so the loop calls tmr_run again and again.
Fairness == WF_vars(Tick) /\ WF_vars(Run)

FairSpec == Spec /\ Fairness

-----------------------------------------------------------------------------
(* Properties *)

\* The type of each variable.
Typed ==
  /\ q \in Queues
  /\ clock \in Nat /\ now \in Nat
  /\ pc \in TestRole \cup {"idle", "send", "loop", "run", "freeing", "fail",
                           "cleanup", "freed", "exit", "undefined"}
  /\ cur \in Timer \cup {NoTimer} /\ nxt \in Timer \cup {NoTimer}
  /\ done \in BOOLEAN /\ omitting \in BOOLEAN

\* A scheduled timer has the interval and the periodicity of its proc.
KindsFit(qq) ==
  \A t \in On(qq.list) :
    /\ qq.usecs[t] = Usecs(qq.proc[t])
    /\ qq.periodic[t] = Periodic(qq.proc[t])

\* The type invariant.  It is about the struct a timer is kept in as well: one
\* that tmr_create takes from the free list, where it was left by a timer of
\* another kind in this test or the last one, is set up like one from malloc().
TypeOK == Typed /\ KindsFit(q)

Sorted(qq) ==
  \A i, j \in DOMAIN qq.list : i <= j => qq.time[qq.list[i]] <= qq.time[qq.list[j]]

\* No scheduled timer is earlier than one in front of it.
ListIsSorted == Sorted(q)

\* tmr_timeout looks at the first timer only, "since the list is sorted": the
\* sleep it allows select() ends no later than any timer that is scheduled, and
\* is none if one of them is due.
SelectWakesInTime ==
  q.list # <<>> =>
    \A t \in On(q.list) :
      /\ tmr_timeout(q, clock) >= 0
      /\ q.time[t] <= clock => tmr_timeout(q, clock) = 0
      /\ q.time[t] > clock => clock + tmr_timeout(q, clock) <= q.time[t]

\* A struct is on at most one of the two lists, and once.
Distinct(qq) ==
  /\ \A i, j \in DOMAIN qq.list : qq.list[i] = qq.list[j] => i = j
  /\ \A i, j \in DOMAIN qq.free : qq.free[i] = qq.free[j] => i = j
  /\ On(qq.list) \cap On(qq.free) = {}

\* A pointer that is not NULL is to a scheduled timer of its kind.
Linked(qq) ==
  \A r \in Role : qq.handle[r] # NoTimer =>
    qq.handle[r] \in On(qq.list) /\ qq.proc[qq.handle[r]] = r

\* Every scheduled timer, those of X excepted, is pointed to.
Owned(qq, X) == \A t \in On(qq.list) \ X : qq.handle[qq.proc[t]] = t

\* No pointer dangles and no timer is lost: a pointer that is not NULL is to a
\* scheduled timer of that kind, and every scheduled timer is pointed to (the
\* one whose proc tmr_run is calling excepted), so that cleanup_server and
\* iperf_reset_test cancel each timer exactly once.
HandlesAreScheduled ==
  /\ Distinct(q)
  /\ Linked(q)
  /\ Owned(q, IF pc = "freeing" THEN {cur} ELSE {})

\* The next test starts, and the client leaves, with no timer of the last test
\* still scheduled (iperf_reset_test and iperf_free_test).
NothingScheduledBetweenTests == pc \in {"idle", "freed"} => q.list = <<>>

\* timer.h says of tmr_cancel "Deschedule a timer": a timer that was cancelled
\* while tmr_run holds a pointer to it is not run.
CancelledTimersDoNotRun == pc # "undefined"

\* A test with a duration gets out of its loop, even when the process is late
\* and the test timer expires before the omit timer: neither the rescheduling
\* of periodic timers in front of the others nor the resets of the omit proc
\* starve a timer.
TestTimerExpires ==
  (pc = "loop" /\ q.handle["timer"] # NoTimer) ~> (done /\ ~omitting) \/ pc \notin {"loop", "run", "freeing"}
=============================================================================
