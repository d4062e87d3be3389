------------------------------- MODULE Timers -------------------------------
(***************************************************************************)
(* librdkafka's timer engine (rdkafka_timer.c) and the main thread that    *)
(* drives it (rd_kafka_thread_main): sleep in the op queue until the next  *)
(* timer is due, at most MaxSleep, then run the timers that are due.       *)
(*                                                                         *)
(* start, stop and backoff take rkts_lock and may come from any thread at  *)
(* any moment, also while a callback runs: rd_kafka_timers_run releases    *)
(* the lock around the callback.                                           *)
(*                                                                         *)
(* Time is a counter.  Tick does not pass the moment at which the main     *)
(* thread has something to do, so lateness measures the design, not the    *)
(* speed of the machine.                                                   *)
(***************************************************************************)
EXTENDS Integers, Sequences, SequencesExt

CONSTANTS
    Timer,      \* rd_kafka_timer_t objects
    None,       \* no timer
    Interval,   \* intervals that timers are started with
    Backoff,    \* delays passed to rd_kafka_timer_backoff
    MaxSleep,   \* the cap of rd_kafka_timers_next: one second in the code
    IntHalf,    \* 2^31: the first value an int cannot hold
    MaxClock    \* bound on the clock

VARIABLES
    clock,      \* rd_clock()
    next,       \* rtmr_next, 0 when the timer is not scheduled
    interval,   \* rtmr_interval, 0 when the timer is stopped
    oneshot,    \* rtmr_oneshot
    timers,     \* rkts_timers
    enabled,    \* rkts_enabled
    pc,         \* the main thread: "loop", "serve", "run", "callback", "done"
    now,        \* its local: when the run began, or when serving must end
    firing,     \* the timer whose callback runs
    terminating,
    armed       \* history: started, and neither stopped nor used up since

timerVars == <<next, interval, oneshot, timers>>
mainVars  == <<pc, now, firing>>
vars == <<clock, timerVars, enabled, mainVars, terminating, armed>>

Init ==
    /\ clock = 1
    /\ next = [t \in Timer |-> 0]
    /\ interval = [t \in Timer |-> 0]
    /\ oneshot = [t \in Timer |-> FALSE]
    /\ timers = <<>>
    /\ enabled = TRUE
    /\ pc = "loop"
    /\ now = 0
    /\ firing = None
    /\ terminating = FALSE
    /\ armed = {}

-----------------------------------------------------------------------------
(* Scheduling.                                                             *)

started(t)   == interval[t] # 0
scheduled(t) == next[t] # 0

\* rd_kafka_timer_cmp: the difference of two 64-bit times as an int.
Cmp(a, b) == (((a - b) + IntHalf) % (2 * IntHalf)) - IntHalf

\* TAILQ_INSERT_SORTED: before the first timer that compares as later.
InsertSorted(q, nx, t) ==
    LET later == {i \in DOMAIN q : Cmp(nx[t], nx[q[i]]) < 0}
    IN  IF later = {} THEN Append(q, t)
        ELSE InsertAt(q, CHOOSE i \in later : \A j \in later : i <= j, t)

\* What rd_kafka_timer_schedule makes of the queue q and the times nx.
Schedule(q, nx, iv, t, extra) ==
    IF iv = 0 \/ ~enabled THEN [q |-> q, nx |-> nx]
    ELSE LET nxt == [nx EXCEPT ![t] = clock + iv + extra]
         IN  [nx |-> nxt,
              q  |-> IF q = <<>> \/ nxt[Head(q)] > nxt[t]
                     THEN <<t>> \o q
                     ELSE InsertSorted(q, nxt, t)]

\* rd_kafka_timer_unschedule: TAILQ_REMOVE takes out the one link of the timer.
Unscheduled(t) ==
    [q  |-> RemoveAt(timers, CHOOSE i \in DOMAIN timers : timers[i] = t),
     nx |-> [next EXCEPT ![t] = 0]]

\* A timer is taken off the queue only if it is on it.
Withdrawn(t) == IF scheduled(t) THEN Unscheduled(t) ELSE [q |-> timers, nx |-> next]

SetQueue(s) == timers' = s.q /\ next' = s.nx

-----------------------------------------------------------------------------
(* Calls from any thread.                                                  *)

\* rd_kafka_timer_start0: stop, then schedule with the new interval.
Start(t, iv, once) ==
    /\ enabled
    /\ LET w == IF started(t) THEN Withdrawn(t) ELSE [q |-> timers, nx |-> next]
       IN  SetQueue(Schedule(w.q, w.nx, iv, t, 0))
    /\ interval' = [interval EXCEPT ![t] = iv]
    /\ oneshot' = [oneshot EXCEPT ![t] = once]
    /\ armed' = armed \cup {t}
    /\ UNCHANGED <<clock, enabled, mainVars, terminating>>

Stop(t) ==
    /\ enabled
    /\ started(t)
    /\ SetQueue(Withdrawn(t))
    /\ interval' = [interval EXCEPT ![t] = 0]
    /\ armed' = armed \ {t}
    /\ UNCHANGED <<clock, oneshot, enabled, mainVars, terminating>>

TimerBackoff(t, extra) ==
    /\ enabled
    /\ LET w == Withdrawn(t) IN SetQueue(Schedule(w.q, w.nx, interval[t], t, extra))
    /\ UNCHANGED <<clock, interval, oneshot, enabled, mainVars, terminating, armed>>

Terminate ==
    /\ ~terminating
    /\ terminating' = TRUE
    /\ UNCHANGED <<clock, timerVars, enabled, mainVars, armed>>

-----------------------------------------------------------------------------
(* The main thread.                                                        *)

\* rd_kafka_timers_next: how long the main thread may sleep.
TimersNext ==
    IF timers = <<>> THEN MaxSleep
    ELSE LET d == next[Head(timers)] - clock
         IN  IF d < 0 THEN 0 ELSE IF d > MaxSleep THEN MaxSleep ELSE d

\* rd_kafka_q_serve sleeps until an op comes or the time is up.  A timer that
\* another thread starts meanwhile does not wake it.  The loop goes on while
\* terminating as long as ops are left.
MainServe ==
    /\ pc = "loop"
    /\ pc' = "serve"
    /\ now' = clock + TimersNext
    /\ UNCHANGED <<clock, timerVars, enabled, firing, terminating, armed>>

\* The sleep ends, early when an op came, and rd_kafka_timers_run begins.  A
\* terminating instance runs no timers.
RunBegin ==
    /\ pc = "serve"
    /\ pc' = IF terminating THEN "loop" ELSE "run"
    /\ now' = clock
    /\ UNCHANGED <<clock, timerVars, enabled, firing, terminating, armed>>

HeadDue == timers # <<>> /\ next[Head(timers)] <= now

\* A one-shot timer is disabled before its callback.  Mutations: it is not;
\* -1 marks it as disabled.
AlwaysPeriodic(t) == interval[t]
IntervalOnFire(t) == IF oneshot[t] THEN 0 ELSE interval[t]

\* The first timer is due: unschedule it, release the lock and call it.
RunFire ==
    /\ pc = "run"
    /\ HeadDue
    /\ LET t == Head(timers)
       IN  /\ SetQueue(Unscheduled(t))
           /\ interval' = [interval EXCEPT ![t] = IntervalOnFire(t)]
           /\ firing' = t
           /\ armed' = IF oneshot[t] THEN armed \ {t} ELSE armed
    /\ pc' = "callback"
    /\ UNCHANGED <<clock, oneshot, enabled, now, terminating>>

\* The callback returned.
NeedsRestart(t) == started(t) /\ ~scheduled(t)

RunRestart ==
    /\ pc = "callback"
    /\ IF NeedsRestart(firing)
       THEN SetQueue(Schedule(timers, next, interval[firing], firing, 0))
       ELSE UNCHANGED <<timers, next>>
    /\ pc' = "run"
    /\ firing' = None
    /\ UNCHANGED <<clock, interval, oneshot, enabled, now, terminating, armed>>

RunEnd ==
    /\ pc = "run"
    /\ ~HeadDue
    /\ pc' = "loop"
    /\ UNCHANGED <<clock, timerVars, enabled, now, firing, terminating, armed>>

\* rd_kafka_timers_destroy, by the main thread on its way out.  Its loop
\* stops the first timer until there is none, and stopping a timer that is
\* scheduled but not started would leave it there for ever.
Destroy ==
    /\ pc = "loop"
    /\ terminating
    /\ enabled' = FALSE
    /\ timers' = <<>>
    /\ next' = [t \in Timer |-> 0]
    /\ interval' = [t \in Timer |-> IF scheduled(t) THEN 0 ELSE interval[t]]
    /\ armed' = {}
    /\ pc' = "done"
    /\ UNCHANGED <<clock, oneshot, now, firing, terminating>>

\* Time passes while the main thread sleeps or runs a callback.
Tick ==
    /\ clock < MaxClock
    /\ \/ pc = "serve" /\ clock < now
       \/ pc = "callback"
    /\ clock' = clock + 1
    /\ UNCHANGED <<timerVars, enabled, mainVars, terminating, armed>>

Next ==
    \/ \E t \in Timer : Stop(t)
    \/ \E t \in Timer, iv \in Interval, once \in BOOLEAN : Start(t, iv, once)
    \/ \E t \in Timer, b \in Backoff : TimerBackoff(t, b)
    \/ Terminate \/ MainServe \/ RunBegin \/ RunFire \/ RunRestart \/ RunEnd
    \/ Destroy \/ Tick

Spec == Init /\ [][Next]_vars

-----------------------------------------------------------------------------
(* Properties.                                                             *)

\* rkts_timers holds each scheduled timer exactly once and nothing else, and
\* a scheduled timer is a started one: without the second half the loop of
\* rd_kafka_timers_destroy would not end.
QueueExact ==
    /\ \A i, j \in DOMAIN timers : timers[i] = timers[j] => i = j
    /\ {timers[i] : i \in DOMAIN timers} = {t \in Timer : scheduled(t)}
    /\ \A t \in Timer : scheduled(t) => started(t)

\* A callback is called only for a timer that was started and not stopped
\* since, and for a one-shot timer once per start.
FiresArmed == pc = "run" /\ pc' = "callback" => firing' \in armed

\* "Upon expiration of the interval (us) the callback will be called in the
\* main rdkafka thread" (rd_kafka_timer_start0): when rd_kafka_timers_run
\* returns, no timer that had expired when it began is still waiting, while the
\* timers are due so close to each other that an int holds the difference.
Comparable == \A t, u \in Timer : scheduled(t) /\ scheduled(u) => next[t] - next[u] < IntHalf

LeavesNoneDue ==
    pc = "run" /\ pc' = "loop" /\ Comparable => \A t \in Timer : scheduled(t) => next[t] > now

=============================================================================
