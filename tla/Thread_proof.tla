----------------------------- MODULE Thread_proof -----------------------------
(* Facts about the operations of Thread.tla that every transport uses: what    *)
(* they return, the types they keep, and how they fit Schedule.tla.            *)
EXTENDS Thread, FiniteSetTheorems, TLAPS

-----------------------------------------------------------------------------
(* Arithmetic the provers take as single facts.                                *)

LEMMA DivNat == ASSUME NEW a \in Nat, NEW b \in Nat \ {0} PROVE a \div b \in Nat
  OBVIOUS

LEMMA ProductNat == ASSUME NEW n \in Nat, NEW p \in Nat PROVE n * p \in Nat
  OBVIOUS

\* A time is a number of whole units and what is left over.
LEMMA DivMod ==
  ASSUME NEW a \in Int, NEW b \in Nat, b > 0
  PROVE  /\ a \div b \in Int /\ a % b \in 0..(b - 1)
         /\ a = (a \div b) * b + (a % b)
<1>1. a % b \in 0..(b - 1)
  OBVIOUS
<1>2. a \div b \in Int
  OBVIOUS
<1>3. a = (a \div b) * b + (a % b)
  OBVIOUS
<1> QED BY <1>1, <1>2, <1>3

LEMMA HalfInt == ASSUME NEW n \in Int, NEW p \in Nat PROVE (n * p) \div 2 \in Int
  OBVIOUS

-----------------------------------------------------------------------------
(* Lists of timers.                                                            *)

LEMMA RemoveAtType ==
  ASSUME NEW S, NEW s \in Seq(S), NEW i \in 1..Len(s)
  PROVE  /\ RemoveAt(s, i) \in Seq(S)
         /\ Len(RemoveAt(s, i)) = Len(s) - 1
         /\ \A j \in 1..(Len(s) - 1) :
              RemoveAt(s, i)[j] = IF j < i THEN s[j] ELSE s[j + 1]
<1> DEFINE before == SubSeq(s, 1, i - 1)
           after == SubSeq(s, i + 1, Len(s))
<1>1. /\ before \in Seq(S) /\ Len(before) = i - 1
      /\ \A j \in 1..(i - 1) : before[j] = s[j]
  OBVIOUS
<1>2. /\ after \in Seq(S) /\ Len(after) = Len(s) - i
      /\ \A j \in 1..(Len(s) - i) : after[j] = s[i + j]
  OBVIOUS
<1>3. RemoveAt(s, i) = before \o after
  BY DEF RemoveAt
<1> HIDE DEF before, after
<1>4. RemoveAt(s, i) \in Seq(S) /\ Len(RemoveAt(s, i)) = Len(s) - 1
  BY <1>1, <1>2, <1>3
<1>5. ASSUME NEW j \in 1..(Len(s) - 1)
      PROVE  RemoveAt(s, i)[j] = IF j < i THEN s[j] ELSE s[j + 1]
  <2>1. (before \o after)[j] = IF j <= i - 1 THEN before[j] ELSE after[j - (i - 1)]
    BY <1>1, <1>2
  <2>2. CASE j < i
    BY <1>1, <1>3, <2>1, <2>2
  <2>3. CASE ~(j < i)
    <3>1. j - (i - 1) \in 1..(Len(s) - i) /\ i + (j - (i - 1)) = j + 1
      BY <2>3
    <3> QED BY <1>2, <1>3, <2>1, <2>3, <3>1
  <2> QED BY <2>2, <2>3
<1> QED BY <1>4, <1>5

-----------------------------------------------------------------------------
(* ThreadTypeOK in groups, one for each group of variables the actions name.   *)

LoopTyped ==
  /\ now \in Nat /\ check_timer \in Nat
  /\ running \in BOOLEAN /\ stop_loop \in BOOLEAN /\ stop \in BOOLEAN
OpenTyped ==
  /\ connect_timer \in [Conns -> Nat \cup {NoTimer}]
  /\ thread_start \in [Conns -> Nat]
PaceTyped ==
  /\ caught_up \in [Conns -> BOOLEAN]
  /\ catch_up_start_time \in [Conns -> Nat]
  /\ complete_at_catch_up_start \in [Conns -> Nat]
MarkTyped ==
  /\ actual_latency_start \in [Conns -> Nat]
  /\ complete_at_last_batch_start \in [Conns -> Nat]
SendTyped ==
  start \in [Conns -> Nat] /\ has_pending \in [Conns -> BOOLEAN]
StatTyped ==
  /\ complete \in [Conns -> Nat]
  /\ histogram \in [total_count : Nat, min_value : Int]
Errors == [connect : Nat, read : Nat, write : Nat, timeout : Nat]

LEMMA ThreadTypeParts ==
  ThreadTypeOK <=> /\ LoopTyped /\ OpenTyped /\ PaceTyped /\ MarkTyped
                   /\ SendTyped /\ StatTyped /\ errors \in Errors
  BY DEF ThreadTypeOK, LoopTyped, OpenTyped, PaceTyped, MarkTyped, SendTyped,
         StatTyped, Errors

LEMMA FirstConnects == \A c \in Conns : DueMsec(StartTime, (c - 1) * Stagger, Msec) \in Nat
<1> SUFFICES ASSUME NEW c \in Conns
             PROVE  DueMsec(StartTime, (c - 1) * Stagger, Msec) \in Nat
  OBVIOUS
<1>1. c - 1 \in Nat /\ Stagger \in Nat /\ StartTime \in Nat /\ Msec \in Nat \ {0}
  BY ThreadAssumption DEF Conns
<1>2. (c - 1) * Stagger \in Nat /\ StartTime \div Msec \in Nat
  BY <1>1, ProductNat, DivNat
<1> QED BY <1>2 DEF DueMsec

LEMMA ThreadInitTyped ==
  ASSUME ThreadInit
  PROVE  LoopTyped /\ OpenTyped /\ PaceTyped /\ MarkTyped /\ SendTyped /\ StatTyped
         /\ errors \in Errors
<1>1. \A c \in Conns : DueMsec(StartTime, (c - 1) * Stagger, Msec) \in Nat
  BY FirstConnects
<1>2. DueMsec(StartTime, TimeoutInterval + N * Stagger, Msec) \in Nat
  <2>1. /\ N \in Nat /\ Stagger \in Nat /\ TimeoutInterval \in Nat
        /\ StartTime \in Nat /\ Msec \in Nat \ {0}
    BY ThreadAssumption
  <2>2. N * Stagger \in Nat /\ StartTime \div Msec \in Nat
    BY <2>1, ProductNat, DivNat
  <2> QED BY <2>1, <2>2 DEF DueMsec
<1>3. OpenTyped
  BY <1>1 DEF ThreadInit, OpenTyped
<1>4. LoopTyped
  BY <1>2, ThreadAssumption DEF ThreadInit, LoopTyped
<1> QED BY <1>3, <1>4 DEF ThreadInit, PaceTyped, MarkTyped, SendTyped, StatTyped, Errors

-----------------------------------------------------------------------------
LEMMA WaitType ==
  ASSUME LoopTyped, OpenTyped, PaceTyped, StatTyped, NEW c \in Conns
  PROVE  /\ usec_to_next_send(c).wait \in Nat
         /\ usec_to_next_send(c).caught_up \in BOOLEAN
         /\ usec_to_next_send(c).from \in Nat
         /\ usec_to_next_send(c).base \in Nat
<1>1. /\ now \in Nat /\ thread_start[c] \in Nat /\ complete[c] \in Nat
      /\ Period \in Nat
      /\ catch_up_start_time[c] \in Nat /\ complete_at_catch_up_start[c] \in Nat
  BY ThreadAssumption DEF LoopTyped, OpenTyped, PaceTyped, StatTyped
<1>2. catch_up_from(c) \in Nat /\ catch_up_base(c) \in Nat
  BY <1>1 DEF catch_up_from, catch_up_base
<1>3. catch_up_next_time(c) \in Int /\ next_start_time(c) \in Int
  <2>1. ((complete[c] - catch_up_base(c)) * Period) \div 2 \in Int
    BY <1>1, <1>2, HalfInt
  <2>2. complete[c] * Period \in Nat
    BY <1>1, ProductNat
  <2> QED BY <1>1, <1>2, <2>1, <2>2 DEF catch_up_next_time, next_start_time
<1>4. CASE next_start_time(c) > now
  BY <1>1, <1>3, <1>4 DEF usec_to_next_send
<1>5. CASE ~(next_start_time(c) > now)
  BY <1>1, <1>2, <1>3, <1>5 DEF usec_to_next_send
<1> QED BY <1>4, <1>5

LEMMA PacedType ==
  ASSUME LoopTyped, OpenTyped, PaceTyped, StatTyped, NEW c \in Conns,
         Paced(c, usec_to_next_send(c))
  PROVE  PaceTyped'
  BY WaitType DEF Paced, PaceTyped

LEMMA DelayType ==
  ASSUME LoopTyped, NEW usec \in Nat PROVE Delay(usec) \in Nat
<1>1. Msec \in Nat \ {0} /\ now \in Nat
  BY ThreadAssumption DEF LoopTyped
<1>2. usec \div Msec \in Nat /\ now \div Msec \in Nat
  BY <1>1, DivNat
<1> QED BY <1>2 DEF Delay, DueMsec, MsecToWait

LEMMA MarkType ==
  ASSUME LoopTyped, MarkTyped, StatTyped, NEW c \in Conns, Mark(c) PROVE MarkTyped'
<1>1. now \in Nat /\ complete[c] \in Nat
  BY DEF LoopTyped, StatTyped
<1> QED BY <1>1 DEF Mark, MarkTyped, markVars

LEMMA TimingInt ==
  ASSUME LoopTyped, OpenTyped, MarkTyped, NEW c \in Conns
  PROVE  expected_latency_timing(c) \in Int
  BY ProductNat, ThreadAssumption
     DEF expected_latency_timing, LoopTyped, MarkTyped, OpenTyped

LEMMA StatsType ==
  ASSUME LoopTyped, OpenTyped, MarkTyped, StatTyped, NEW c \in Conns, NEW more,
         stats_request_completed(c, more)
  PROVE  StatTyped' /\ stop_loop' \in BOOLEAN
<1>1. complete' \in [Conns -> Nat] /\ stop_loop' \in BOOLEAN
  <2>1. CASE UNCHANGED statVars /\ stop_loop' = TRUE
    BY <2>1 DEF StatTyped, statVars
  <2>2. CASE complete' = [complete EXCEPT ![c] = @ + 1] /\ UNCHANGED stop_loop
    BY <2>2 DEF StatTyped, LoopTyped
  <2> QED BY <2>1, <2>2 DEF stats_request_completed
<1>2. histogram' \in [total_count : Nat, min_value : Int]
  BY TimingInt DEF stats_request_completed, StatTyped, statVars
<1> QED BY <1>1, <1>2 DEF StatTyped

LEMMA ChecksTimeoutsType ==
  ASSUME LoopTyped, errors \in Errors, ChecksTimeouts
  PROVE  check_timer' \in Nat /\ stop_loop' \in BOOLEAN /\ errors' \in Errors
<1>1. DueMsec(now, TimeoutInterval, Msec) \in Nat
  BY DivNat, ThreadAssumption DEF DueMsec, LoopTyped
<1>2. PICK late : late = {c \in Conns : now - Timeout > start[c]}
  OBVIOUS
<1>3. Cardinality(late) \in Nat
  <2>1. N \in Nat /\ late \subseteq 1..N
    BY <1>2, ThreadAssumption DEF Conns
  <2>2. IsFiniteSet(1..N)
    BY <2>1, FS_Interval
  <2>3. IsFiniteSet(late)
    BY <2>1, <2>2, FS_Subset
  <2> QED BY <2>3, FS_CardinalityType
<1>4. errors' = [errors EXCEPT !.timeout = @ + Cardinality(late)]
  BY <1>2 DEF ChecksTimeouts
<1>5. errors' \in Errors
  BY <1>3, <1>4 DEF Errors
<1> QED BY <1>1, <1>5 DEF ChecksTimeouts, Over, LoopTyped

-----------------------------------------------------------------------------
(* Schedule.tla.                                                               *)

LEMMA ScheduleInit == ThreadInit => Schedule!Init
  BY ThreadAssumption DEF ThreadInit, Schedule!Init

\* No later than the wait the next request is owed.
LEMMA Waited ==
  ASSUME LoopTyped, OpenTyped, StatTyped, NEW c \in Conns, NEW r, r = usec_to_next_send(c),
         r.wait \in Nat
  PROVE  /\ thread_start[c] + complete[c] * Period \in Nat
         /\ thread_start[c] + complete[c] * Period <= now + r.wait
<1>1. /\ thread_start[c] \in Nat /\ complete[c] * Period \in Nat /\ now \in Nat
  BY ProductNat, ThreadAssumption DEF LoopTyped, OpenTyped, StatTyped
<1>2. PICK t \in Nat : t = next_start_time(c)
  BY <1>1 DEF next_start_time
<1>3. t <= now + r.wait
  BY <1>1, <1>2 DEF usec_to_next_send
<1> QED BY <1>1, <1>2, <1>3 DEF next_start_time

\* A wait of 0 means that the next request is owed.
LEMMA SendNow ==
  ASSUME LoopTyped, OpenTyped, StatTyped, NEW c \in Conns,
         usec_to_next_send(c).wait = 0
  PROVE  Schedule!Owed(c, complete[c]) <= now + Early
<1>1. /\ thread_start[c] \in Nat /\ complete[c] * Period \in Nat
      /\ now \in Nat /\ Early \in Nat
  BY ProductNat, ThreadAssumption DEF LoopTyped, OpenTyped, StatTyped
<1>2. next_start_time(c) \in Nat
  BY <1>1 DEF next_start_time
<1>3. next_start_time(c) <= now
  BY <1>1, <1>2 DEF usec_to_next_send
<1> QED BY <1>1, <1>2, <1>3 DEF next_start_time, Schedule!Owed

LEMMA CompletedOnSchedule ==
  ASSUME StatTyped, NEW c \in Conns, NEW more \in {has_pending[c], FALSE},
         has_pending' = [has_pending EXCEPT ![c] = more],
         stats_request_completed(c, more), UNCHANGED <<now, thread_start, markVars>>
  PROVE  Schedule!Response(c)
<1>1. \E n \in {complete[c], complete[c] + 1} : complete' = [complete EXCEPT ![c] = n]
  BY DEF stats_request_completed, statVars, StatTyped
<1> QED BY <1>1 DEF Schedule!Response, markVars

Proved == INSTANCE Schedule_proof WITH Time <- Nat

\* What is proved of Schedule.tla holds of every thread that implements it.
LEMMA OnSchedule == ImplementsSchedule => []Proved!Inv
<1>1. Proved!ScheduleAssumption
  BY ThreadAssumption DEF Proved!ScheduleAssumption
<1>2. Schedule!Init => Proved!Inv
  BY <1>1, Proved!InitInv DEF Schedule!Init, Proved!Init
<1>3. [Schedule!Next]_(Schedule!vars) => [Proved!Next]_(Proved!vars)
  BY DEF Schedule!Next, Schedule!vars, Schedule!Elapse, Schedule!Open,
         Schedule!StartBatch, Schedule!Response, Schedule!Owed,
         Proved!Next, Proved!vars, Proved!Elapse, Proved!Open,
         Proved!StartBatch, Proved!Response, Proved!Owed
<1>4. Proved!Inv /\ [Proved!Next]_(Proved!vars) => Proved!Inv'
  BY <1>1, Proved!NextInv
<1> QED BY <1>2, <1>3, <1>4, PTL DEF ImplementsSchedule, Schedule!Spec

LEMMA ProvedBounded == Proved!Inv => LatencyBounded
<1>1. Proved!ScheduleAssumption
  BY ThreadAssumption DEF Proved!ScheduleAssumption
<1>2. Proved!Inv => Proved!LatencyBounded
  BY <1>1, Proved!InvBounded
<1> QED BY <1>2 DEF Proved!LatencyBounded, Proved!Owed, LatencyBounded,
                   Schedule!LatencyBounded, Schedule!Owed

LEMMA ProvedGifts == Proved!Inv => CorrectionNeverGifts
  BY DEF Proved!Inv, Proved!CorrectionNeverGifts, Proved!Owed, CorrectionNeverGifts,
         Schedule!CorrectionNeverGifts, Schedule!Owed

\* A response that is counted exactly on schedule has a latency that can be
\* recorded.
LEMMA RecordedLatency ==
  ASSUME Early = 0, LoopTyped, OpenTyped, MarkTyped, Proved!Inv, LatencyNonNegative,
         NEW c \in Conns, NEW more, stats_request_completed(c, more)
  PROVE  LatencyNonNegative'
<1>1. expected_latency_timing(c) >= 0 /\ expected_latency_timing(c) \in Int
  <2>1. Proved!Owed(c, complete_at_last_batch_start[c]) <= now + 0
    BY DEF Proved!Inv
  <2>2. /\ now \in Nat /\ thread_start[c] \in Nat
        /\ complete_at_last_batch_start[c] * Period \in Nat
    BY ProductNat, ThreadAssumption DEF LoopTyped, OpenTyped, MarkTyped
  <2> QED BY <2>1, <2>2 DEF Proved!Owed, expected_latency_timing
<1>2. histogram'.min_value \in {histogram.min_value, expected_latency_timing(c)}
  BY DEF stats_request_completed, statVars
<1> QED BY <1>1, <1>2 DEF LatencyNonNegative
===============================================================================
