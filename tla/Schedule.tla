------------------------------- MODULE Schedule -------------------------------
(* What a connection of the load generator promises about its schedule,        *)
(* whatever transport carries the requests. Request number n of a connection   *)
(* (counted by the responses seen before it) is owed at                         *)
(* thread_start + n * Period. A batch starts no earlier than the request that   *)
(* opens it is owed, or not Early by more than its timers are exact, and the    *)
(* latency of every response is measured from the moment the batch was owed,    *)
(* not from the moment it was sent: the correction for coordinated omission     *)
(* that wrk2 exists for.                                                        *)
EXTENDS Integers

CONSTANTS
  Conns,    \* the connections of one thread
  Period,   \* microseconds between two requests of one connection: 1/throughput
  Early,    \* how far ahead of schedule a batch may start, in microseconds
  Time      \* the values of the clock

\* What the constants are: a hypothesis of the theorems, which every module that
\* substitutes for them has to meet.
ScheduleAssumption == {Period, Early} \subseteq Nat /\ Time \subseteq Nat

VARIABLES
  now,                          \* time_us()
  thread_start,                 \* c->thread_start
  complete,                     \* c->complete: responses seen
  actual_latency_start,         \* when the batch was first sent
  complete_at_last_batch_start, \* c->complete when the batch was started
  has_pending                   \* c->has_pending: a batch is being measured

vars == <<now, thread_start, complete, actual_latency_start,
          complete_at_last_batch_start, has_pending>>

\* When request number n of connection c is owed.
Owed(c, n) == thread_start[c] + n * Period

Init ==
  /\ now \in Time
  /\ thread_start = [c \in Conns |-> 0]
  /\ complete = [c \in Conns |-> 0]
  /\ actual_latency_start = [c \in Conns |-> 0]
  /\ complete_at_last_batch_start = [c \in Conns |-> 0]
  /\ has_pending = [c \in Conns |-> FALSE]

Elapse ==
  /\ now' \in Time
  /\ now < now'
  /\ UNCHANGED <<thread_start, complete, actual_latency_start,
                 complete_at_last_batch_start, has_pending>>

\* The connection opens: its schedule starts to run.
Open(c) ==
  /\ complete[c] = 0 /\ ~has_pending[c]
  /\ thread_start' = [thread_start EXCEPT ![c] = now]
  /\ UNCHANGED <<now, complete, actual_latency_start,
                 complete_at_last_batch_start, has_pending>>

\* A batch starts, not ahead of schedule by more than Early.
StartBatch(c) ==
  /\ ~has_pending[c]
  /\ Owed(c, complete[c]) <= now + Early
  /\ actual_latency_start' = [actual_latency_start EXCEPT ![c] = now]
  /\ complete_at_last_batch_start' =
       [complete_at_last_batch_start EXCEPT ![c] = complete[c]]
  /\ has_pending' = [has_pending EXCEPT ![c] = TRUE]
  /\ UNCHANGED <<now, thread_start, complete>>

\* A response arrives; it may end the batch. It is not counted once the run
\* has reached its end.
Response(c) ==
  /\ \E n \in {complete[c], complete[c] + 1} :
       complete' = [complete EXCEPT ![c] = n]
  /\ \E more \in {has_pending[c], FALSE} :
       has_pending' = [has_pending EXCEPT ![c] = more]
  /\ UNCHANGED <<now, thread_start, actual_latency_start,
                 complete_at_last_batch_start>>

Next == Elapse \/ \E c \in Conns : Open(c) \/ StartBatch(c) \/ Response(c)

Spec == Init /\ [][Next]_vars

-----------------------------------------------------------------------------
TypeOK ==
  /\ now \in Time
  /\ thread_start \in [Conns -> Nat]
  /\ complete \in [Conns -> Nat]
  /\ actual_latency_start \in [Conns -> Nat]
  /\ complete_at_last_batch_start \in [Conns -> Nat]
  /\ has_pending \in [Conns -> BOOLEAN]

\* The latency a response would be recorded with now is not negative, or by no
\* more than Early: the batch it belongs to was already owed when it started
\* (stats_request_completed, wrk.c).
LatencyBounded ==
  \A c \in Conns : now - Owed(c, complete_at_last_batch_start[c]) >= -Early

\* While a batch is measured, the moment its latency counts from is no later
\* than the moment it was sent, but for Early: the correction never shortens a
\* latency.
CorrectionNeverGifts ==
  \A c \in Conns : has_pending[c] =>
    /\ Owed(c, complete_at_last_batch_start[c]) <= actual_latency_start[c] + Early
    /\ actual_latency_start[c] <= now
===============================================================================
