-------------------------------- MODULE Thread --------------------------------
(* What a worker thread keeps whatever the transport (wrk.c, wrk.h): its       *)
(* clock and timers, the schedule of its connections, the measurement of their *)
(* latencies, the timeout check and the end of the run. The transports,        *)
(* TcpClient.tla and Quic.tla, extend this module.                             *)
(*                                                                             *)
(* Time is counted in ticks, which stand for microseconds; Msec of them are    *)
(* one millisecond.                                                            *)
EXTENDS Ae, Sequences, FiniteSets, SequencesExt, Functions

CONSTANTS
  N,               \* connections of this thread: cfg.connections / cfg.threads
  Period,          \* 1 / c->throughput, in ticks; 0 is a rate without pacing
  Msec,            \* ticks in a millisecond
  Early,           \* how early the transport may start a batch, in ticks
  Stagger,         \* milliseconds between two initial connects (5)
  TimeoutInterval, \* TIMEOUT_INTERVAL_MS
  Timeout,         \* cfg.timeout, in ticks
  StartTime,       \* the clock when the loop starts
  StopAt,          \* thread->stop_at
  RecordAll,       \* cfg.record_all_responses
  MaxTime          \* bound: the last tick

ASSUME ThreadAssumption ==
  /\ N \in Nat \ {0}
  /\ Msec \in Nat \ {0}
  /\ {Period, Early, Stagger, TimeoutInterval, Timeout} \subseteq Nat
  /\ {StartTime, StopAt, MaxTime} \subseteq Nat
  /\ StartTime >= Timeout
  /\ RecordAll \in BOOLEAN

Conns == 1..N
NoTimer == -1

VARIABLES
  now,              \* time_us()
  running,          \* the thread is inside aeMain
  stop_loop,        \* loop->stop, set by aeStop
  stop,             \* the flag the SIGINT handler sets
  connect_timer,    \* due time of delayed_initial_connect
  check_timer,      \* due time of check_timeouts
  thread_start, complete, caught_up, catch_up_start_time,
  complete_at_catch_up_start, start, actual_latency_start,
  complete_at_last_batch_start, has_pending,
  errors,           \* thread->errors
  histogram         \* thread->latency_histogram: values recorded, and the least
                    \* of them or 0

loopVars == <<running, stop_loop, stop>>
paceVars == <<caught_up, catch_up_start_time, complete_at_catch_up_start>>
markVars == <<actual_latency_start, complete_at_last_batch_start>>
statVars == <<complete, histogram>>

\* thread_main, before aeMain.
ThreadInit ==
  /\ now = StartTime
  /\ running = TRUE /\ stop_loop = FALSE /\ stop = FALSE
  /\ connect_timer = [c \in Conns |-> DueMsec(StartTime, (c - 1) * Stagger, Msec)]
  /\ check_timer = DueMsec(StartTime, TimeoutInterval + N * Stagger, Msec)
  /\ thread_start = [c \in Conns |-> 0]
  /\ complete = [c \in Conns |-> 0]
  /\ caught_up = [c \in Conns |-> TRUE]
  /\ catch_up_start_time = [c \in Conns |-> 0]
  /\ complete_at_catch_up_start = [c \in Conns |-> 0]
  /\ start = [c \in Conns |-> 0]
  /\ actual_latency_start = [c \in Conns |-> 0]
  /\ complete_at_last_batch_start = [c \in Conns |-> 0]
  /\ has_pending = [c \in Conns |-> FALSE]
  /\ errors = [connect |-> 0, read |-> 0, write |-> 0, timeout |-> 0]
  /\ histogram = [total_count |-> 0, min_value |-> 0]

-----------------------------------------------------------------------------
(* Pacing. usec_to_next_send returns how long to wait, and moves the connection *)
(* between being on pace and catching up at twice its rate.                    *)

\* A fault for the checks: requests counted from one.
OneAhead(c) == thread_start[c] + (complete[c] - 1) * Period

next_start_time(c) == thread_start[c] + complete[c] * Period

\* A connection that falls behind starts to catch up from where it is now.
catch_up_from(c) == IF caught_up[c] THEN now ELSE catch_up_start_time[c]
catch_up_base(c) ==
  IF caught_up[c] THEN complete[c] ELSE complete_at_catch_up_start[c]

catch_up_next_time(c) ==
  catch_up_from(c) + ((complete[c] - catch_up_base(c)) * Period) \div 2

usec_to_next_send(c) ==
  IF next_start_time(c) > now
    THEN [wait |-> next_start_time(c) - now, caught_up |-> TRUE,
          from |-> catch_up_start_time[c], base |-> complete_at_catch_up_start[c]]
    ELSE [wait |-> IF catch_up_next_time(c) > now
                     THEN catch_up_next_time(c) - now ELSE 0,
          caught_up |-> FALSE,
          from |-> catch_up_from(c), base |-> catch_up_base(c)]

Paced(c, r) ==
  /\ caught_up' = [caught_up EXCEPT ![c] = r.caught_up]
  /\ catch_up_start_time' = [catch_up_start_time EXCEPT ![c] = r.from]
  /\ complete_at_catch_up_start' = [complete_at_catch_up_start EXCEPT ![c] = r.base]

Delay(usec) == DueMsec(now, MsecToWait(usec, Msec), Msec)

Due(timer) == running /\ timer <= now \div Msec

\* The timer of the first connect: the schedule of the connection starts.
Opens(c) ==
  /\ connect_timer[c] # NoTimer
  /\ Due(connect_timer[c])
  /\ connect_timer' = [connect_timer EXCEPT ![c] = NoTimer]
  /\ thread_start' = [thread_start EXCEPT ![c] = now]

-----------------------------------------------------------------------------
(* Measurement.                                                                *)

\* Faults for the checks: every send moves the point a batch is measured from;
\* the point is one request too late.
MarkAgain(c) ==
  /\ actual_latency_start' = [actual_latency_start EXCEPT ![c] = now]
  /\ complete_at_last_batch_start' =
       [complete_at_last_batch_start EXCEPT ![c] = complete[c]]
MarkLate(c) ==
  /\ actual_latency_start' = [actual_latency_start EXCEPT ![c] = now]
  /\ complete_at_last_batch_start' =
       [complete_at_last_batch_start EXCEPT ![c] = complete[c] + 1]

\* Only the first send of a batch moves the point its latency is measured from,
\* not a retry or a send after a reconnect.
Mark(c) ==
  IF has_pending[c]
    THEN UNCHANGED markVars
    ELSE /\ actual_latency_start' = [actual_latency_start EXCEPT ![c] = now]
         /\ complete_at_last_batch_start' =
              [complete_at_last_batch_start EXCEPT ![c] = complete[c]]

\* A fault for the checks, the one a comment in stats_request_completed warns
\* of: the latency counts from when the next response is owed.
GiftedTiming(c) == now - (thread_start[c] + (complete[c] + 1) * Period)

expected_latency_timing(c) ==
  now - (thread_start[c] + complete_at_last_batch_start[c] * Period)

\* Given what became of has_pending.
stats_request_completed(c, more) ==
  LET latency == expected_latency_timing(c)
      least == IF latency < histogram.min_value THEN latency ELSE histogram.min_value
  IN
  \/ /\ now >= StopAt
     /\ stop_loop' = TRUE
     /\ UNCHANGED statVars
  \/ /\ now < StopAt
     /\ complete' = [complete EXCEPT ![c] = @ + 1]
     /\ histogram' = IF RecordAll \/ ~more
                       THEN [total_count |-> histogram.total_count + 1,
                             min_value |-> least]
                       ELSE histogram
     /\ UNCHANGED stop_loop

-----------------------------------------------------------------------------
(* The end of the run, and the clock.                                          *)

\* Faults for the checks: one of the two reasons to stop is forgotten.
Interrupted == stop
TimeIsUp == now >= StopAt

Over == stop \/ now >= StopAt

\* check_timeouts counts every connection whose last request started too long
\* ago, then looks whether the run is over.
ChecksTimeouts ==
  LET late == {c \in Conns : now - Timeout > start[c]} IN
  /\ Due(check_timer)
  /\ errors' = [errors EXCEPT !.timeout = @ + Cardinality(late)]
  /\ stop_loop' = (stop_loop \/ Over)
  /\ check_timer' = DueMsec(now, TimeoutInterval, Msec)

\* The signal handler, in the main thread, at any moment.
Interrupts == ~stop /\ stop' = TRUE

\* aeMain leaves its loop, and thread_main returns.
Leaves == running /\ stop_loop /\ running' = FALSE

Ticks == now < MaxTime /\ now' = now + 1

-----------------------------------------------------------------------------
(* Properties that every transport is asked for.                               *)

ThreadTypeOK ==
  /\ {now, check_timer} \subseteq Nat
  /\ {running, stop_loop, stop} \subseteq BOOLEAN
  /\ connect_timer \in [Conns -> Nat \cup {NoTimer}]
  /\ {caught_up, has_pending} \subseteq [Conns -> BOOLEAN]
  /\ {thread_start, complete, catch_up_start_time, complete_at_catch_up_start,
      start, actual_latency_start, complete_at_last_batch_start}
       \subseteq [Conns -> Nat]
  /\ errors \in [connect : Nat, read : Nat, write : Nat, timeout : Nat]
  /\ histogram \in [total_count : Nat, min_value : Int]

Schedule == INSTANCE Schedule WITH Time <- Nat

\* No response is recorded with a negative latency: stats_request_completed
\* says it "wil never ever ever happen", and hdr_record_value would abort.
LatencyNonNegative == histogram.min_value >= 0

\* The run ends after its duration, or after an interrupt.
LoopEnds == (stop \/ now >= StopAt) ~> ~running

\* What SCRIPTING says of errors.timeout, "total request timeouts": only a
\* connection that has a request unanswered, or never got to send one, counts.
TimeoutsAreRequests ==
  [][errors'.timeout - errors.timeout
       <= Cardinality({c \in Conns : has_pending[c] \/ start[c] = 0})]_errors

\* The thread keeps the promise of Schedule.tla: whatever happens to the
\* connections, no batch is started ahead of schedule, but for Early, and its
\* latency is measured from when it was owed.
ImplementsSchedule == Schedule!Spec

\* No response could be recorded now with a latency below -Early.
LatencyBounded == Schedule!LatencyBounded

\* While a batch is measured, the correction never shortens its latency,
\* however often the connection was lost and the batch sent again.
CorrectionNeverGifts == Schedule!CorrectionNeverGifts
===============================================================================
