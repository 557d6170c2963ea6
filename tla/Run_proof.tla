------------------------------ MODULE Run_proof ------------------------------
(* Proofs about Run.tla, for any number of threads and any latencies, rates    *)
(* and bounds: the mutex of sample_rate keeps the shared statistics whole, no   *)
(* request is lost between a thread's counters, and main reads what stands     *)
(* still. For any precision and any values up to 2^62, the histogram has        *)
(* exactly one slot for every value, within the array and the precision; the   *)
(* report adds up what the threads recorded, and its percentiles, extremes,    *)
(* spectrum and deviation are those of the samples.                            *)
EXTENDS Run, FiniteSetTheorems, WellFoundedInduction, TLAPS

-----------------------------------------------------------------------------
(* The inductive invariant.                                                    *)

Holding == {"read", "write", "unlock"}

Places ==
  {"script_init", "pthread_create", "exit", "sigaction", "pthread_join", "report", "done"}

Typed ==
  /\ main \in [at : Places, thread : Threads]
  /\ stop \in BOOLEAN /\ over \in BOOLEAN
  /\ worker \in [Threads -> {"none", "loop", "stop_loop", "ended"}]
  /\ section \in [Threads -> {"none", "lock", "read", "write", "unlock"}]
  /\ calibrated \in [Threads -> BOOLEAN]
  /\ complete \in [Threads -> Nat]
  /\ requests \in [Threads -> Nat]
  /\ sampled \in [Threads -> Nat]
  /\ mutex \in Threads \cup {Nobody}

\* A thread is in the section only while its loop runs, and has nothing to do
\* before main has started it.
Placed ==
  \A t \in Threads :
    /\ section[t] # "none" => worker[t] \in {"loop", "stop_loop"} /\ calibrated[t]
    /\ worker[t] = "none" => complete[t] = 0 /\ ~calibrated[t]

Exclusive == \A t \in Threads : (mutex = t) <=> (section[t] \in Holding)

\* What a thread has read between lock and unlock is what is there.
Current ==
  /\ DOMAIN local = Threads
  /\ \A t \in Threads :
       /\ local[t] = [rate |-> local[t].rate, statistics |-> local[t].statistics]
       /\ local[t].rate \in Nat
       /\ section[t] = "write" => local[t].statistics = statistics

\* A thread inside sample_rate has counted its requests as sampled already.
Unsampled(t) == IF section[t] = "none" THEN requests[t] ELSE 0
Tallied == \A t \in Threads : complete[t] = sampled[t] + Unsampled(t)

\* main has waited for the threads before the one it is at, and then for all.
Waited ==
  /\ At("pthread_join") => \A t \in Threads : t < main.thread => worker[t] = "ended"
  /\ main.at \in {"report", "done"} => \A t \in Threads : worker[t] = "ended"

\* The extremes are rates that were recorded, and none is beyond them.
Bounds(min, max, set) ==
  /\ set \subseteq Nat
  /\ max \in set \cup {0} /\ \A r \in set \cup {0} : r <= max
  /\ min \in set \cup {UINT64_MAX} /\ \A r \in set \cup {UINT64_MAX} : min <= r
Extremes == Bounds(statistics.min, statistics.max, DOMAIN rates)

Inv == Typed /\ Placed /\ Exclusive /\ Current /\ Tallied /\ Waited /\ Extremes

-----------------------------------------------------------------------------
(* The operators.                                                              *)

LEMMA MaxOfTwo ==
  ASSUME NEW a \in Int, NEW b \in Int
  PROVE  Max({a, b}) = (IF a >= b THEN a ELSE b)
<1>1. \A x : (x \in {a, b} /\ \A y \in {a, b} : x >= y) <=> x = (IF a >= b THEN a ELSE b)
  OBVIOUS
<1> QED BY <1>1 DEF Max

LEMMA MinOfTwo ==
  ASSUME NEW a \in Int, NEW b \in Int
  PROVE  Min({a, b}) = (IF a <= b THEN a ELSE b)
<1>1. \A x : (x \in {a, b} /\ \A y \in {a, b} : x <= y) <=> x = (IF a <= b THEN a ELSE b)
  OBVIOUS
<1> QED BY <1>1 DEF Min

LEMMA MaxIs ==
  ASSUME NEW S \in SUBSET Int, NEW m \in S, \A y \in S : y <= m
  PROVE  Max(S) = m
<1>1. \A x \in S : (\A y \in S : x >= y) <=> x = m
  OBVIOUS
<1> QED BY <1>1 DEF Max

LEMMA MinIs ==
  ASSUME NEW S \in SUBSET Int, NEW m \in S, \A y \in S : m <= y
  PROVE  Min(S) = m
<1>1. \A x \in S : (\A y \in S : x =< y) <=> x = m
  OBVIOUS
<1> QED BY <1>1 DEF Min

LEMMA AddIsThere ==
  ASSUME NEW b, NEW x PROVE DOMAIN (b (+) SetToBag({x})) = DOMAIN b \cup {x}
  BY DEF (+), SetToBag

LEMMA HighestIs == highest_trackable_value \in Nat /\ UINT64_MAX \in Nat
  BY HdrAssumption DEF UINT64_MAX

LEMMA BoundsAre ==
  ASSUME NEW min, NEW max, NEW set, Bounds(min, max, set)
  PROVE  min \in Int /\ max \in Int
  BY HighestIs DEF Bounds

LEMMA Widen ==
  ASSUME NEW min, NEW max, NEW set, Bounds(min, max, set), NEW x \in Nat
  PROVE  Bounds(IF x <= min THEN x ELSE min, IF x >= max THEN x ELSE max, set \cup {x})
  BY HighestIs, BoundsAre DEF Bounds

\* stats_record keeps the extremes those of what was recorded.
LEMMA RecordBounds ==
  ASSUME NEW stats, NEW set, NEW x \in Nat, Bounds(stats.min, stats.max, set)
  PROVE  Bounds(stats_record(stats, x).min, stats_record(stats, x).max, set \cup {x})
<1>1. stats.min \in Int /\ stats.max \in Int
  BY BoundsAre
<1>2. /\ stats_record(stats, x).min = (IF x <= stats.min THEN x ELSE stats.min)
      /\ stats_record(stats, x).max = (IF x >= stats.max THEN x ELSE stats.max)
  BY <1>1, MaxOfTwo, MinOfTwo DEF stats_record
<1> QED BY <1>2, Widen

-----------------------------------------------------------------------------
(* The steps of a thread, by what they do to the other variables.              *)

LEMMA InitInv == Init => Inv
<1> SUFFICES ASSUME Init PROVE Inv
  OBVIOUS
<1>1. 1 \in Threads /\ Nobody \notin Threads
  BY RunAssumption DEF Threads, Nobody
<1>2. Typed /\ Placed /\ Exclusive
  BY <1>1 DEF Init, Typed, Places, Placed, Exclusive, Holding, Each
<1>3. Current
  BY DEF Init, Current, Each, NoLocal
<1>4. Tallied /\ Waited
  BY DEF Init, Tallied, Unsampled, Waited, At, Each
<1>5. Extremes
  <2>1. DOMAIN rates = {}
    BY DEF Init, EmptyBag, SetToBag
  <2>2. statistics.min = UINT64_MAX /\ statistics.max = 0
    BY DEF Init, stats_alloc
  <2> QED BY <2>1, <2>2, HighestIs DEF Extremes, Bounds
<1> QED BY <1>2, <1>3, <1>4, <1>5 DEF Inv

LEMMA MainInv == Inv /\ (Main \/ CreateFails \/ handler \/ Expire) => Inv'
<1> SUFFICES ASSUME Inv, Main \/ CreateFails \/ handler \/ Expire PROVE Inv'
  OBVIOUS
<1>1. /\ main.thread \in Threads /\ 1 \in Threads
      /\ main.thread < threads => main.thread + 1 \in Threads
      /\ \A t \in Threads : t <= threads /\ t \in Int
  <2>1. main.thread \in Threads
    BY DEF Inv, Typed
  <2>2. threads \in Nat \ {0}
    BY RunAssumption
  <2> QED BY <2>1, <2>2 DEF Threads
<1>2. UNCHANGED <<section, local, calibrated, complete, requests, sampled, sharedVars>>
  BY DEF Main, script_init, sigaction, CreateFails, handler, Expire, pthread_create,
     pthread_join, AddUp, threadVars, sharedVars
<1>3. main' \in [at : Places, thread : Threads]
  <2>1. CASE handler \/ Expire
    BY <2>1 DEF Inv, Typed, handler, Expire
  <2>2. CASE script_init \/ sigaction \/ CreateFails
    BY <2>2, <1>1 DEF script_init, sigaction, CreateFails, Goto, Places
  <2>3. CASE pthread_create \/ pthread_join \/ AddUp
    BY <2>3, <1>1 DEF pthread_create, pthread_join, AddUp, Goto, Places
  <2> QED BY <2>1, <2>2, <2>3 DEF Main
<1>4. stop' \in BOOLEAN /\ over' \in BOOLEAN
  BY DEF Inv, Typed, Main, script_init, sigaction, CreateFails, handler, Expire,
     pthread_create, pthread_join, AddUp
<1>5. \/ UNCHANGED worker
      \/ /\ At("pthread_create") /\ main'.at \in {"script_init", "sigaction"}
         /\ worker' = [worker EXCEPT ![main.thread] = "loop"]
  BY DEF Main, script_init, sigaction, CreateFails, handler, Expire, pthread_create,
     pthread_join, AddUp, threadVars, Goto
<1>6. Typed'
  BY <1>1, <1>2, <1>3, <1>4, <1>5 DEF Inv, Typed, sharedVars
<1>7. Placed'
  BY <1>1, <1>2, <1>5 DEF Inv, Typed, Placed
<1>8. Waited'
  <2>1. CASE handler \/ Expire
    BY <2>1 DEF Inv, Waited, At, handler, Expire, threadVars
  <2>2. CASE script_init \/ CreateFails \/ pthread_create
    <3>1. main'.at \notin {"pthread_join", "report", "done"}
      BY <2>2 DEF script_init, CreateFails, pthread_create, Goto
    <3> QED BY <3>1 DEF Waited, At
  <2>3. CASE sigaction
    <3>1. main'.at = "pthread_join" /\ main'.thread = 1
      BY <2>3 DEF sigaction, Goto
    <3> QED BY <3>1, RunAssumption DEF Waited, At, Threads
  <2>4. CASE pthread_join
    <3>1. \A t \in Threads : t <= main.thread => worker'[t] = "ended"
      BY <2>4, <1>1 DEF Inv, Waited, At, pthread_join, Joinable, threadVars
    <3>2. CASE main.thread < threads
      <4>1. main'.at = "pthread_join" /\ main'.thread = main.thread + 1
        BY <2>4, <3>2 DEF pthread_join, Goto
      <4>2. \A t \in Threads : t < main'.thread => t <= main.thread
        BY <4>1, <1>1
      <4> QED BY <3>1, <4>1, <4>2 DEF Waited, At
    <3>3. CASE ~(main.thread < threads)
      <4>1. main'.at = "report"
        BY <2>4, <3>3 DEF pthread_join, Goto
      <4>2. \A t \in Threads : t <= main.thread
        BY <3>3, <1>1, RunAssumption
      <4> QED BY <3>1, <4>1, <4>2 DEF Waited, At
    <3> QED BY <3>2, <3>3
  <2>5. CASE AddUp
    <3>1. main.at = "report" /\ main'.at \in {"report", "done"} /\ UNCHANGED worker
      BY <2>5 DEF AddUp, At, Goto, threadVars
    <3> QED BY <3>1 DEF Inv, Waited, At
  <2> QED BY <2>1, <2>2, <2>3, <2>4, <2>5 DEF Main
<1>9. Exclusive' /\ Current' /\ Tallied' /\ Extremes'
  BY <1>2 DEF Inv, Exclusive, Current, Tallied, Unsampled, Extremes, sharedVars
<1> QED BY <1>6, <1>7, <1>8, <1>9 DEF Inv

\* What a callback of the loop other than sample_rate leaves alone.
Callback(t) ==
  \/ stats_request_completed(t) \/ calibrate(t) \/ check_timeouts(t)
  \/ script_thread_stop(t) \/ LeaveLoop(t)

LEMMA CallbackInv ==
  ASSUME Inv, NEW t \in Threads, Callback(t)
  PROVE  Inv'
<1> USE DEF InLoop
<1>1. /\ section[t] = "none" /\ worker[t] \in {"loop", "stop_loop"}
      /\ UNCHANGED <<main, section, local, sharedVars>>
  BY DEF Callback, stats_request_completed, calibrate, check_timeouts, script_thread_stop,
     LeaveLoop
<1>2. Typed' /\ Placed'
  <2>1. CASE stats_request_completed(t)
    BY <2>1 DEF Inv, Typed, Placed, stats_request_completed, sharedVars
  <2>2. CASE calibrate(t)
    BY <2>2 DEF Inv, Typed, Placed, calibrate, ForgetRequests, sharedVars
  <2>3. CASE check_timeouts(t)
    BY <2>3 DEF Inv, Typed, Placed, check_timeouts, sharedVars
  <2>4. CASE script_thread_stop(t)
    BY <2>4 DEF Inv, Typed, Placed, script_thread_stop, sharedVars
  <2>5. CASE LeaveLoop(t)
    BY <2>5 DEF Inv, Typed, Placed, LeaveLoop, sharedVars
  <2> QED BY <2>1, <2>2, <2>3, <2>4, <2>5 DEF Callback
<1>3. Tallied'
  <2>1. CASE stats_request_completed(t)
    BY <2>1, <1>1 DEF Inv, Typed, Tallied, Unsampled, stats_request_completed
  <2>2. CASE calibrate(t)
    BY <2>2, <1>1 DEF Inv, Typed, Tallied, Unsampled, calibrate, ForgetRequests
  <2>3. CASE check_timeouts(t) \/ script_thread_stop(t) \/ LeaveLoop(t)
    BY <2>3 DEF Inv, Tallied, Unsampled, check_timeouts, script_thread_stop, LeaveLoop
  <2> QED BY <2>1, <2>2, <2>3 DEF Callback
<1>4. Exclusive' /\ Current' /\ Extremes'
  BY <1>1 DEF Inv, Exclusive, Current, Extremes, sharedVars
<1>5. Waited'
  <2>1. \A u \in Threads : worker[u] = "ended" => worker'[u] = "ended"
    BY <1>1 DEF Inv, Typed, Callback, stats_request_completed, calibrate, check_timeouts,
       script_thread_stop, LeaveLoop
  <2> QED BY <1>1, <2>1 DEF Inv, Waited, At
<1> QED BY <1>2, <1>3, <1>4, <1>5 DEF Inv

LEMMA SectionInv ==
  ASSUME Inv, NEW t \in Threads, sample_rate(t) \/ Section(t)
  PROVE  Inv'
<1> USE DEF InLoop, InSection
<1>1. UNCHANGED <<main, stop, over, worker, calibrated, complete>>
  BY DEF Section, sample_rate, pthread_mutex_lock, ReadStatistics, WriteStatistics,
     pthread_mutex_unlock
<1>2. Typed'
  <2>1. sampled' \in [Threads -> Nat] /\ requests' \in [Threads -> Nat]
    BY DEF Inv, Typed, Section, sample_rate, pthread_mutex_lock, ReadStatistics,
       WriteStatistics, pthread_mutex_unlock
  <2>2. /\ section' \in [Threads -> {"none", "lock", "read", "write", "unlock"}]
        /\ mutex' \in Threads \cup {Nobody}
    BY DEF Inv, Typed, Section, sample_rate, pthread_mutex_lock, ReadStatistics,
       WriteStatistics, pthread_mutex_unlock, sharedVars
  <2> QED BY <1>1, <2>1, <2>2 DEF Inv, Typed
<1>3. Placed' /\ Waited'
  BY <1>1 DEF Inv, Typed, Placed, Waited, At, Section, sample_rate, pthread_mutex_lock,
     ReadStatistics, WriteStatistics, pthread_mutex_unlock
<1>4. Exclusive'
  <2>1. Nobody \notin Threads
    BY RunAssumption DEF Threads, Nobody
  <2> QED BY <2>1 DEF Inv, Typed, Exclusive, Holding, Free, Section, sample_rate,
         pthread_mutex_lock, ReadStatistics, WriteStatistics, pthread_mutex_unlock, sharedVars
<1>5. Tallied'
  BY <1>1 DEF Inv, Typed, Tallied, Unsampled, Section, sample_rate, pthread_mutex_lock,
     ReadStatistics, WriteStatistics, pthread_mutex_unlock
<1>6. Current'
  <2>1. CASE sample_rate(t)
    <3>1. PICK ms \in Elapsed :
            local' = [local EXCEPT ![t].rate = (requests[t] * 1000) \div ms]
      BY <2>1 DEF sample_rate
    <3>2. (requests[t] * 1000) \div ms \in Nat
      <4>1. ms \in Nat \ {0} /\ requests[t] * 1000 \in Nat
        BY <3>1, RunAssumption DEF Inv, Typed
      <4> QED BY <4>1
    <3>3. section'[t] = "lock" /\ \A u \in Threads \ {t} : section'[u] = section[u]
      BY <2>1 DEF Inv, Typed, sample_rate
    <3>4. local'[t] = [rate |-> (requests[t] * 1000) \div ms,
                       statistics |-> local[t].statistics]
      BY <3>1 DEF Inv, Current
    <3>5. DOMAIN local' = Threads /\ \A u \in Threads \ {t} : local'[u] = local[u]
      BY <3>1 DEF Inv, Current
    <3> QED BY <2>1, <3>2, <3>3, <3>4, <3>5 DEF Inv, Current, sample_rate, sharedVars
  <2>2. CASE pthread_mutex_lock(t) \/ pthread_mutex_unlock(t)
    BY <2>2 DEF Inv, Typed, Current, pthread_mutex_lock, pthread_mutex_unlock
  <2>3. CASE ReadStatistics(t)
    <3>1. local'[t] = [rate |-> local[t].rate, statistics |-> statistics]
      BY <2>3 DEF Inv, Current, ReadStatistics
    <3>2. DOMAIN local' = Threads /\ \A u \in Threads \ {t} : local'[u] = local[u]
      BY <2>3 DEF Inv, Current, ReadStatistics
    <3> QED BY <2>3, <3>1, <3>2 DEF Inv, Typed, Current, ReadStatistics, sharedVars
  <2>4. CASE WriteStatistics(t)
    <3>1. \A u \in Threads : section'[u] # "write"
      BY <2>4 DEF Inv, Typed, Exclusive, Holding, WriteStatistics
    <3>2. \A u \in Threads : local'[u] = (IF u = t THEN NoLocal ELSE local[u])
      BY <2>4 DEF Inv, Current, WriteStatistics
    <3> QED BY <2>4, <3>1, <3>2 DEF Inv, Current, WriteStatistics, NoLocal
  <2> QED BY <2>1, <2>2, <2>3, <2>4 DEF Section
<1>7. Extremes'
  <2>1. CASE WriteStatistics(t)
    <3>1. local[t].statistics = statistics /\ local[t].rate \in Nat
      BY <2>1 DEF Inv, Current, WriteStatistics
    <3>2. /\ statistics' = stats_record(statistics, local[t].rate)
          /\ rates' = rates (+) SetToBag({local[t].rate})
      BY <2>1, <3>1 DEF WriteStatistics
    <3>3. Bounds(stats_record(statistics, local[t].rate).min,
                 stats_record(statistics, local[t].rate).max, DOMAIN rates \cup {local[t].rate})
      BY <3>1, RecordBounds DEF Inv, Extremes
    <3> QED BY <3>2, <3>3, AddIsThere DEF Extremes
  <2>2. CASE ~WriteStatistics(t)
    BY <2>2 DEF Inv, Extremes, Section, sample_rate, pthread_mutex_lock, ReadStatistics,
       pthread_mutex_unlock, sharedVars
  <2> QED BY <2>1, <2>2
<1> QED BY <1>2, <1>3, <1>4, <1>5, <1>6, <1>7 DEF Inv

LEMMA NextInv == Inv /\ [Next]_vars => Inv'
<1> SUFFICES ASSUME Inv, [Next]_vars PROVE Inv'
  OBVIOUS
<1>1. CASE UNCHANGED vars
  BY <1>1 DEF vars, threadVars, sharedVars, Inv, Typed, Placed, Exclusive, Current, Tallied,
     Unsampled, Waited, At, Extremes
<1>2. CASE Terminated
  BY <1>1, <1>2 DEF Terminated
<1>3. CASE Main \/ CreateFails \/ handler \/ Expire
  BY <1>3, MainInv
<1>4. ASSUME NEW t \in Threads, ThreadStep(t) PROVE Inv'
  BY <1>4, CallbackInv, SectionInv DEF ThreadStep, Callback
<1> QED BY <1>1, <1>2, <1>3, <1>4 DEF Next

LEMMA Invariant == Spec => []Inv
  BY InitInv, NextInv, PTL DEF Spec

-----------------------------------------------------------------------------
(* What follows.                                                               *)

\* Every variable keeps its type, and a thread holds the mutex exactly between
\* lock and unlock of sample_rate: two threads are never both there.
THEOREM RunTypeCorrect == Spec => []TypeOK
<1>1. Inv => TypeOK
  <2> SUFFICES ASSUME Inv PROVE TypeOK
    OBVIOUS
  <2>1. \A t \in Threads : (mutex = t) = (section[t] \in {"read", "write", "unlock"})
    BY DEF Inv, Exclusive, Holding
  <2> QED BY <2>1 DEF Inv, Typed, Placed, Places, TypeOK
<1> QED BY <1>1, Invariant, PTL

\* No request that a thread has answered is lost to the rates or counted in two,
\* and the extremes of the statistics are those of the rates of all threads.
THEOREM SamplesAreKept == Spec => []SamplesTally
<1>1. Inv => ExtremesAreRates
  <2> SUFFICES ASSUME Inv PROVE ExtremesAreRates
    OBVIOUS
  <2>1. Bounds(statistics.min, statistics.max, DOMAIN rates)
    BY DEF Inv, Extremes
  <2>2. DOMAIN rates \cup {0} \subseteq Int /\ DOMAIN rates \cup {UINT64_MAX} \subseteq Int
    BY <2>1, HighestIs DEF Bounds
  <2>3. Max(DOMAIN rates \cup {0}) = statistics.max
    BY <2>1, <2>2, MaxIs DEF Bounds
  <2>4. Min(DOMAIN rates \cup {UINT64_MAX}) = statistics.min
    BY <2>1, <2>2, MinIs DEF Bounds
  <2> QED BY <2>3, <2>4 DEF ExtremesAreRates, BagToSet
<1>2. Inv => EveryRequestOnce
  BY DEF Inv, Tallied, Unsampled, EveryRequestOnce
<1>3. Inv => SamplesTally
  BY <1>1, <1>2 DEF SamplesTally
<1> QED BY <1>3, Invariant, PTL

\* The critical section is atomic: the shared statistics change only by one more
\* rate on top of all that were recorded before.
THEOREM RecordsAreAtomic == Spec => RatesAccumulate
<1>1. ASSUME Inv, Next, statistics' # statistics \/ rates' # rates
      PROVE  \E rate \in BagToSet(rates') : RateAdded(rate)
  <2>1. PICK t \in Threads : WriteStatistics(t)
    BY <1>1 DEF Next, Main, script_init, pthread_create, sigaction, pthread_join, AddUp,
       CreateFails, handler, Expire, Terminated, ThreadStep, Section,
       stats_request_completed, calibrate, check_timeouts, script_thread_stop, LeaveLoop,
       sample_rate, pthread_mutex_lock, ReadStatistics, pthread_mutex_unlock,
       vars, sharedVars
  <2>2. local[t].statistics = statistics
    BY <1>1, <2>1 DEF Inv, Current, WriteStatistics, InSection
  <2>3. RateAdded(local[t].rate)
    BY <2>1, <2>2 DEF WriteStatistics, RateAdded
  <2>4. local[t].rate \in BagToSet(rates')
    BY <2>3, AddIsThere DEF RateAdded, BagToSet
  <2> QED BY <2>3, <2>4
<1>2. Inv /\ [Next]_vars =>
        [statistics' # statistics \/ rates' # rates =>
           \E rate \in BagToSet(rates') : RateAdded(rate)]_vars
  BY <1>1
<1> QED BY <1>2, Invariant, PTL DEF Spec, RatesAccumulate

\* What main adds up and reports no thread touches any more.
THEOREM MainReadsAtRest == Spec => StandsStill
<1>1. ASSUME Inv, Next, main.at \in {"report", "done"}
      PROVE  UNCHANGED <<threadVars, sharedVars>>
  <2>1. \A t \in Threads : worker[t] = "ended" /\ section[t] = "none"
    BY <1>1 DEF Inv, Typed, Placed, Waited
  <2>2. \A t \in Threads : ~ThreadStep(t)
    BY <2>1 DEF ThreadStep, Section, stats_request_completed, calibrate, check_timeouts,
       script_thread_stop, LeaveLoop, sample_rate, pthread_mutex_lock, ReadStatistics,
       WriteStatistics, pthread_mutex_unlock, InLoop, InSection
  <2> QED BY <1>1, <2>2 DEF Next, Main, script_init, pthread_create, sigaction, pthread_join,
         AddUp, CreateFails, handler, Expire, Terminated, At, vars
<1>2. Inv /\ [Next]_vars =>
        [main.at \in {"report", "done"} => UNCHANGED <<threadVars, sharedVars>>]_vars
  BY <1>1
<1> QED BY <1>2, Invariant, PTL DEF Spec, StandsStill

-----------------------------------------------------------------------------
(* The geometry of the histogram.                                              *)

LEMMA Least ==
  ASSUME NEW T \in SUBSET Nat, T # {}
  PROVE  \E n \in T : \A m \in T : n <= m
<1>1. PICK rel : rel = OpToRel(<, Nat) /\ IsWellFoundedOn(rel, Nat)
  BY NatLessThanWellFounded
<1>2. PICK x \in T : \A y \in T : ~(<<y, x>> \in rel)
  BY <1>1, WFMin
<1>3. ASSUME NEW m \in T PROVE x <= m
  <2>1. <<m, x>> \notin OpToRel(<, Nat)
    BY <1>1, <1>2
  <2>2. ~(m < x)
    BY <2>1 DEF OpToRel
  <2> QED BY <2>2
<1> QED BY <1>3

-----------------------------------------------------------------------------
(* Powers of two, as the numbers of subsets.                                   *)

LEMMA PowerIsNat == ASSUME NEW n \in Nat PROVE 2^n \in Nat
<1>1. IsFiniteSet(1 .. n) /\ Cardinality(1 .. n) = n
  BY FS_Interval
<1>2. IsFiniteSet(SUBSET (1 .. n)) /\ Cardinality(SUBSET (1 .. n)) = 2^n
  BY <1>1, FS_SUBSET
<1> QED BY <1>2, FS_CardinalityType

LEMMA PowerDoubles == ASSUME NEW n \in Nat PROVE 2^(n + 1) = 2 * 2^n
<1> DEFINE A == SUBSET (1 .. n)
           B == {X \cup {n + 1} : X \in A}
<1>1. IsFiniteSet(1 .. n) /\ Cardinality(1 .. n) = n
      /\ IsFiniteSet(1 .. (n + 1)) /\ Cardinality(1 .. (n + 1)) = n + 1
  BY FS_Interval
<1>2. /\ IsFiniteSet(A) /\ Cardinality(A) = 2^n
      /\ Cardinality(SUBSET (1 .. (n + 1))) = 2^(n + 1)
  BY <1>1, FS_SUBSET
<1>3. SUBSET (1 .. (n + 1)) = A \cup B
  <2>1. 1 .. (n + 1) = (1 .. n) \cup {n + 1}
    OBVIOUS
  <2>2. ASSUME NEW X \in SUBSET (1 .. (n + 1)), X \notin A PROVE X \in B
    <3>1. n + 1 \in X
      BY <2>1, <2>2
    <3>2. X \ {n + 1} \in A /\ X = (X \ {n + 1}) \cup {n + 1}
      BY <2>1, <3>1
    <3> QED BY <3>2
  <2>3. A \subseteq SUBSET (1 .. (n + 1)) /\ B \subseteq SUBSET (1 .. (n + 1))
    BY <2>1
  <2> HIDE DEF A, B
  <2> QED BY <2>2, <2>3
<1>4. A \cap B = {}
  <2>1. n + 1 \notin 1 .. n
    OBVIOUS
  <2> QED BY <2>1
<1>5. IsFiniteSet(B) /\ Cardinality(B) = 2^n
  <2>1. PICK f : f = [X \in A |-> X \cup {n + 1}]
    OBVIOUS
  <2>2. f \in [A -> B] /\ \A Y \in B : \E X \in A : f[X] = Y
    BY <2>1
  <2>3. \A X, Y \in A : f[X] = f[Y] => X = Y
    <3>1. n + 1 \notin 1 .. n
      OBVIOUS
    <3> SUFFICES ASSUME NEW X \in A, NEW Y \in A, f[X] = f[Y] PROVE X = Y
      OBVIOUS
    <3>2. X \cup {n + 1} = Y \cup {n + 1}
      BY <2>1
    <3> QED BY <3>1, <3>2
  <2>4. f \in Bijection(A, B)
    BY <2>2, <2>3 DEF Bijection, Injection, Surjection, IsInjective
  <2> HIDE DEF A, B
  <2>5. ExistsBijection(A, B)
    BY <2>4 DEF ExistsBijection
  <2> QED BY <1>2, <2>5, FS_Bijection
<1> HIDE DEF A, B
<1>6. PICK c \in Nat : c = 2^n
  BY PowerIsNat
<1>7. Cardinality(A) = c /\ Cardinality(B) = c
  BY <1>2, <1>5, <1>6, Zenon
<1>8. Cardinality(A \cup B) = c + c
  <2>1. Cardinality(A \cap B) = 0
    BY <1>4, FS_EmptySet
  <2>2. Cardinality(A \cup B) = Cardinality(A) + Cardinality(B) - Cardinality(A \cap B)
    BY <1>2, <1>5, FS_Union
  <2> QED BY <1>6, <1>7, <2>1, <2>2
<1>9. Cardinality(A \cup B) = 2 * c
  BY <1>6, <1>8
<1> QED BY <1>2, <1>3, <1>6, <1>9, Zenon

Pow == [n \in Nat |-> 2^n]

LEMMA PowIs == ASSUME NEW n \in Nat PROVE 2^n = Pow[n]
  BY Zenon DEF Pow

LEMMA PowNat == \A n \in Nat : Pow[n] \in Nat
  BY PowerIsNat, PowIs, Zenon

LEMMA PowNext == \A n \in Nat : Pow[n + 1] = 2 * Pow[n]
<1> SUFFICES ASSUME NEW n \in Nat PROVE Pow[n + 1] = 2 * Pow[n]
  OBVIOUS
<1>1. n + 1 \in Nat
  OBVIOUS
<1>2. 2^n = Pow[n] /\ 2^(n + 1) = Pow[n + 1]
  BY <1>1, PowIs, Zenon
<1> QED BY <1>2, PowerDoubles, Zenon

LEMMA PowValues ==
  /\ Pow[0] = 1 /\ Pow[1] = 2 /\ Pow[3] = 8 /\ Pow[4] = 16
  /\ Pow[5] = 32 /\ Pow[7] = 128 /\ Pow[8] = 256
  /\ Pow[10] = 1024 /\ Pow[11] = 2048 /\ Pow[12] = 4096 /\ Pow[14] = 16384 /\ Pow[15] = 32768
  /\ Pow[17] = 131072 /\ Pow[18] = 262144
  BY DEF Pow

LEMMA PowSum == \A a, b \in Nat : Pow[a + b] = Pow[a] * Pow[b]
<1> SUFFICES ASSUME NEW b \in Nat PROVE \A a \in Nat : Pow[a + b] = Pow[a] * Pow[b]
  OBVIOUS
<1> DEFINE T == {a \in Nat : Pow[a + b] # Pow[a] * Pow[b]}
<1>1. SUFFICES ASSUME T # {} PROVE FALSE
  OBVIOUS
<1>2. PICK a \in T : \A m \in T : a <= m
  <2>1. T \in SUBSET Nat
    OBVIOUS
  <2> HIDE DEF T
  <2> QED BY <1>1, <2>1, Least
<1>3. a \in Nat /\ a # 0
  BY PowValues, PowNat
<1>4. PICK k \in Nat : a = k + 1
  <2>1. a - 1 \in Nat /\ a = (a - 1) + 1
    BY <1>3
  <2> QED BY <2>1
<1>5. Pow[k + b] = Pow[k] * Pow[b]
  <2>1. k \in Nat /\ k \notin T
    BY <1>2, <1>4
  <2> QED BY <2>1
<1>6. Pow[(k + b) + 1] = 2 * Pow[k + b] /\ Pow[k + 1] = 2 * Pow[k]
  BY PowNext
<1>7. a + b = (k + b) + 1
  BY <1>4
<1>8. Pow[k] \in Nat /\ Pow[b] \in Nat
  BY PowNat
<1>9. Pow[a + b] = 2 * (Pow[k] * Pow[b]) /\ Pow[a] = 2 * Pow[k]
  BY <1>4, <1>5, <1>6, <1>7
<1>10. 2 * (Pow[k] * Pow[b]) = (2 * Pow[k]) * Pow[b]
  BY <1>8
<1> QED BY <1>2, <1>9, <1>10

LEMMA PowPositive == \A n \in Nat : Pow[n] \in Nat /\ Pow[n] > 0 /\ n < Pow[n]
<1> DEFINE T == {n \in Nat : ~(n < Pow[n])}
<1>1. SUFFICES ASSUME T # {} PROVE FALSE
  BY PowNat
<1>2. PICK n \in T : \A m \in T : n <= m
  <2>1. T \in SUBSET Nat
    OBVIOUS
  <2> HIDE DEF T
  <2> QED BY <1>1, <2>1, Least
<1>3. n \in Nat /\ n # 0
  BY PowValues
<1>4. n - 1 \in Nat /\ n - 1 \notin T
  BY <1>2, <1>3
<1>5. n - 1 < Pow[n - 1]
  BY <1>4
<1>6. Pow[(n - 1) + 1] = 2 * Pow[n - 1] /\ (n - 1) + 1 = n /\ Pow[n - 1] \in Nat
  BY <1>4, PowNext, PowNat
<1> QED BY <1>2, <1>3, <1>5, <1>6

LEMMA PowRises == \A a, b \in Nat : a < b => 2 * Pow[a] <= Pow[b]
<1> SUFFICES ASSUME NEW a \in Nat, NEW b \in Nat, a < b PROVE 2 * Pow[a] <= Pow[b]
  OBVIOUS
<1>1. PICK k \in Nat : b = (a + 1) + k
  <2>1. b - (a + 1) \in Nat /\ b = (a + 1) + (b - (a + 1))
    OBVIOUS
  <2> QED BY <2>1
<1>2. Pow[(a + 1) + k] = Pow[a + 1] * Pow[k] /\ Pow[a + 1] = 2 * Pow[a]
  BY PowSum, PowNext
<1>3. PICK x \in Nat, y \in Nat : x = Pow[a + 1] /\ y = Pow[k] /\ y > 0
  BY PowPositive
<1>4. x * y >= x
  BY <1>3
<1> QED BY <1>1, <1>2, <1>3, <1>4

LEMMA PowInjective ==
  ASSUME NEW x \in Nat, NEW a \in Nat, NEW b \in Nat, x < Pow[a], x < Pow[b],
         a = 0 \/ Pow[a - 1] <= x, b = 0 \/ Pow[b - 1] <= x
  PROVE  a = b
<1>1. ASSUME NEW c \in Nat, NEW d \in Nat, c < d, x < Pow[c], Pow[d - 1] <= x PROVE FALSE
  <2>1. d - 1 \in Nat /\ c <= d - 1
    BY <1>1
  <2>2. Pow[c] <= Pow[d - 1] /\ Pow[c] \in Nat /\ Pow[d - 1] \in Nat
    BY <2>1, PowRises, PowPositive
  <2> QED BY <1>1, <2>2
<1>2. ~(a < b)
  BY <1>1
<1>3. ~(b < a)
  BY <1>1
<1> QED BY <1>2, <1>3

-----------------------------------------------------------------------------
(* The binary digits of a value.                                               *)

HasBits(x, b) == b \in 0 .. 64 /\ x < Pow[b] /\ (b = 0 \/ Pow[b - 1] <= x)

LEMMA BitsUnique ==
  ASSUME NEW x \in Nat, NEW b, HasBits(x, b)
  PROVE  Bits(x) = b
<1>1. \A c \in 0 .. 64 : (2^c > x /\ (c = 0 \/ 2^(c - 1) <= x)) <=> c = b
  <2> SUFFICES ASSUME NEW c \in 0 .. 64
               PROVE  (2^c > x /\ (c = 0 \/ 2^(c - 1) <= x)) <=> c = b
    OBVIOUS
  <2>1. PICK p : p = 2^c
    OBVIOUS
  <2>2. PICK q : q = 2^(c - 1)
    OBVIOUS
  <2>3. c \in Nat
    OBVIOUS
  <2>4. p = Pow[c]
    BY <2>1, <2>3, PowIs, Zenon
  <2>5. c # 0 => q = Pow[c - 1]
    <3> SUFFICES ASSUME c # 0 PROVE q = Pow[c - 1]
      OBVIOUS
    <3>1. c - 1 \in Nat
      BY <2>3
    <3> QED BY <2>2, <3>1, PowIs, Zenon
  <2>6. (x < p /\ (c = 0 \/ q <= x)) <=> c = b
    <3>1. Pow[c] \in Nat /\ (c # 0 => Pow[c - 1] \in Nat)
      BY PowNat
    <3>2. b \in Nat /\ x < Pow[b] /\ (b = 0 \/ Pow[b - 1] <= x)
      BY DEF HasBits
    <3>3. ASSUME x < p, c = 0 \/ q <= x PROVE c = b
      <4>1. x < Pow[c] /\ (c = 0 \/ Pow[c - 1] <= x)
        BY <2>4, <2>5, <3>3
      <4> QED BY <2>3, <3>2, <4>1, PowInjective
    <3>4. ASSUME c = b PROVE x < p /\ (c = 0 \/ q <= x)
      BY <2>4, <2>5, <3>2, <3>4
    <3> QED BY <3>3, <3>4
  <2>7. p > x <=> x < p
    BY <2>4, PowNat
  <2> QED BY <2>1, <2>2, <2>6, <2>7, Zenon
<1>2. b \in 0 .. 64
  BY DEF HasBits
<1> HIDE DEF HasBits
<1>3. Bits(x) = CHOOSE c \in 0 .. 64 : c = b
  BY <1>1, Zenon DEF Bits
<1> QED BY <1>2, <1>3

LEMMA BitsExist ==
  ASSUME NEW x \in Nat, x < Pow[64]
  PROVE  HasBits(x, Bits(x))
<1> DEFINE T == {b \in Nat : x < Pow[b]}
<1>1. PICK b \in T : \A m \in T : b <= m
  <2>1. T \in SUBSET Nat /\ 64 \in T
    OBVIOUS
  <2> HIDE DEF T
  <2> QED BY <2>1, Least
<1>2. b \in Nat /\ b <= 64 /\ x < Pow[b]
  BY <1>1
<1>3. b = 0 \/ Pow[b - 1] <= x
  <2> SUFFICES ASSUME b # 0 PROVE Pow[b - 1] <= x
    OBVIOUS
  <2>1. b - 1 \in Nat /\ b - 1 \notin T
    BY <1>1, <1>2
  <2>2. Pow[b - 1] \in Nat /\ ~(x < Pow[b - 1])
    BY <2>1, PowNat
  <2> QED BY <2>2
<1>4. HasBits(x, b)
  BY <1>2, <1>3 DEF HasBits
<1> QED BY <1>4, BitsUnique

-----------------------------------------------------------------------------
(* The geometry of hdr_init, for a unit of one.                                *)

M == sub_bucket_half_count_magnitude

LEMMA Precision ==
  /\ M \in {4, 7, 10, 14, 17} /\ 10^significant_figures \in Nat
  /\ 10^significant_figures <= Pow[M] /\ 10^significant_figures > 0
<1>1. ASSUME NEW b \in Nat, NEW x \in Nat, x = 2 * 10^significant_figures - 1, HasBits(x, b), b > 1
      PROVE  M = b - 1
  <2>1. Bits(largest_value_with_single_unit_resolution - 1) = b
    BY <1>1, BitsUnique DEF largest_value_with_single_unit_resolution
  <2>2. Max({1, b}) = b
    BY <1>1, MaxOfTwo
  <2> QED BY <2>1, <2>2 DEF M, sub_bucket_half_count_magnitude
<1>2. 10^1 = 10 /\ 10^2 = 100 /\ 10^3 = 1000 /\ 10^4 = 10000 /\ 10^5 = 100000
  BY SMT
<1>3. /\ HasBits(19, 5) /\ HasBits(199, 8) /\ HasBits(1999, 11) /\ HasBits(19999, 15)
      /\ HasBits(199999, 18)
  BY PowValues DEF HasBits
<1>4. significant_figures \in 1 .. 5
  BY HdrAssumption
<1>5. CASE significant_figures = 1
  <2>1. 10^significant_figures = 10
    BY <1>2, <1>5
  <2>2. M = 4
    BY <1>1, <1>3, <2>1
  <2> QED BY <2>1, <2>2, PowValues
<1>6. CASE significant_figures = 2
  <2>1. 10^significant_figures = 100
    BY <1>2, <1>6
  <2>2. M = 7
    BY <1>1, <1>3, <2>1
  <2> QED BY <2>1, <2>2, PowValues
<1>7. CASE significant_figures = 3
  <2>1. 10^significant_figures = 1000
    BY <1>2, <1>7
  <2>2. M = 10
    BY <1>1, <1>3, <2>1
  <2> QED BY <2>1, <2>2, PowValues
<1>8. CASE significant_figures = 4
  <2>1. 10^significant_figures = 10000
    BY <1>2, <1>8
  <2>2. M = 14
    BY <1>1, <1>3, <2>1
  <2> QED BY <2>1, <2>2, PowValues
<1>9. CASE significant_figures = 5
  <2>1. 10^significant_figures = 100000
    BY <1>2, <1>9
  <2>2. M = 17
    BY <1>1, <1>3, <2>1
  <2> QED BY <2>1, <2>2, PowValues
<1> QED BY <1>4, <1>5, <1>6, <1>7, <1>8, <1>9

\* What wrk gives to hdr_init: a unit of one, values that are far from the end of 64
\* bits (wrk.c:197, 267, 363), and so few buckets that the size of a range is an int
\* (`1 << ...`, hdr_histogram.c:93). Three figures and a day have 27 buckets.
Fits ==
  /\ lowest_trackable_value = 1 /\ highest_trackable_value < 2^62
  /\ bucket_count <= 31

LEMMA Counts ==
  ASSUME Fits
  PROVE  /\ M \in Nat /\ Pow[M] \in Nat /\ Pow[M] > 15
         /\ Pow[M + 1] = 2 * Pow[M]
         /\ unit_magnitude = 0
         /\ sub_bucket_count = 2 * Pow[M] /\ sub_bucket_half_count = Pow[M]
         /\ sub_bucket_mask = 2 * Pow[M] - 1
         /\ Bits(sub_bucket_mask) = M + 1
<1>1. M \in Nat /\ Pow[M] \in Nat /\ Pow[M] > 15
  BY Precision, PowValues
<1>2. Pow[M + 1] = 2 * Pow[M]
  BY <1>1, PowNext
<1>3. unit_magnitude = 0
  <2>1. HasBits(1, 1)
    BY PowValues DEF HasBits
  <2>2. Bits(1) = 1
    BY <2>1, BitsUnique
  <2> QED BY <2>2 DEF Fits, unit_magnitude
<1>4. sub_bucket_count = Pow[M + 1]
  <2>1. M + 1 \in Nat
    BY <1>1
  <2>2. 2^(M + 1) = Pow[M + 1]
    BY <2>1, PowIs, Zenon
  <2> QED BY <2>2, Zenon DEF sub_bucket_count, M
<1>5. sub_bucket_half_count = Pow[M]
  BY <1>1, <1>2, <1>4 DEF sub_bucket_half_count
<1>6. sub_bucket_mask = 2 * Pow[M] - 1
  <2>1. 2^unit_magnitude = 1
    BY <1>3, PowIs, PowValues
  <2>2. sub_bucket_mask = (sub_bucket_count - 1) * 1
    BY <2>1, Zenon DEF sub_bucket_mask
  <2> QED BY <1>1, <1>2, <1>4, <2>2
<1>7. Bits(sub_bucket_mask) = M + 1
  <2>1. M + 1 \in 0 .. 64 /\ (M + 1) - 1 = M
    BY Precision
  <2>2. HasBits(2 * Pow[M] - 1, M + 1)
    BY <1>1, <1>2, <2>1 DEF HasBits
  <2>3. 2 * Pow[M] - 1 \in Nat
    BY <1>1
  <2> QED BY <1>6, <2>2, <2>3, BitsUnique
<1> QED BY <1>1, <1>2, <1>3, <1>4, <1>5, <1>6, <1>7

IsBucketCount(n) ==
  /\ n \in 1 .. 64
  /\ (2 * Pow[M] - 1) * Pow[n - 1] >= highest_trackable_value
  /\ \A k \in 1 .. n - 1 : (2 * Pow[M] - 1) * Pow[k - 1] < highest_trackable_value

LEMMA Buckets == ASSUME Fits PROVE IsBucketCount(bucket_count)
<1>1. PICK m : m = 2 * Pow[M] - 1
  OBVIOUS
<1>2. m \in Nat /\ m > 0 /\ sub_bucket_mask = m
  BY <1>1, Counts
<1>3. highest_trackable_value \in Nat
  BY HdrAssumption
<1> DEFINE T == {n \in Nat \ {0} : m * Pow[n - 1] >= highest_trackable_value}
<1>4. 63 \in T
  <2>1. 2^62 = Pow[62] /\ Pow[62] \in Nat
    BY PowIs, PowNat, Zenon
  <2>2. highest_trackable_value < Pow[62]
    BY <2>1 DEF Fits
  <2>3. m * Pow[62] >= Pow[62]
    BY <1>2, <2>1
  <2> QED BY <1>2, <1>3, <2>1, <2>2, <2>3
<1>5. PICK n \in T : \A k \in T : n <= k
  <2>1. T \in SUBSET Nat
    OBVIOUS
  <2> HIDE DEF T
  <2> QED BY <1>4, <2>1, Least
<1>6. n \in 1 .. 64 /\ m * Pow[n - 1] >= highest_trackable_value
  BY <1>4, <1>5
<1>7. ASSUME NEW k \in 1 .. n - 1 PROVE m * Pow[k - 1] < highest_trackable_value
  <2>1. k \in Nat \ {0} /\ k \notin T
    BY <1>5, <1>6
  <2>2. k - 1 \in Nat
    BY <2>1
  <2>3. m * Pow[k - 1] \in Nat
    BY <1>2, <2>2, PowNat
  <2> QED BY <1>3, <2>1, <2>3
<1>8. PICK q : q = [k \in 0 .. 63 |-> m * Pow[k]]
  OBVIOUS
<1>9. \A k \in 1 .. 64 : q[k - 1] = m * Pow[k - 1] /\ q[k - 1] \in Nat
  <2> SUFFICES ASSUME NEW k \in 1 .. 64 PROVE q[k - 1] = m * Pow[k - 1] /\ q[k - 1] \in Nat
    OBVIOUS
  <2>1. k - 1 \in 0 .. 63
    OBVIOUS
  <2>2. Pow[k - 1] \in Nat
    BY <2>1, PowNat
  <2> QED BY <1>2, <1>8, <2>1, <2>2
<1>10. \A k \in 1 .. 64 : sub_bucket_mask * 2^(k - 1) = q[k - 1]
  <2> SUFFICES ASSUME NEW k \in 1 .. 64 PROVE sub_bucket_mask * 2^(k - 1) = q[k - 1]
    OBVIOUS
  <2>1. k - 1 \in Nat
    OBVIOUS
  <2>2. 2^(k - 1) = Pow[k - 1]
    BY <2>1, PowIs, Zenon
  <2> QED BY <1>2, <1>9, <2>2, Zenon
<1> DEFINE Is(c) == q[c - 1] >= highest_trackable_value
                    /\ \A k \in 1 .. c - 1 : q[k - 1] < highest_trackable_value
<1>11. \A c \in 1 .. 64 : Is(c) <=> c = n
  <2>1. Is(n)
    BY <1>6, <1>7, <1>9
  <2>2. ASSUME NEW c \in 1 .. 64, Is(c) PROVE c = n
    <3>1. ~(c < n)
      <4> SUFFICES ASSUME c < n PROVE FALSE
        OBVIOUS
      <4>1. c \in 1 .. n - 1
        BY <1>6
      <4> QED BY <1>3, <1>6, <1>9, <2>1, <2>2, <4>1
    <3>2. ~(n < c)
      <4> SUFFICES ASSUME n < c PROVE FALSE
        OBVIOUS
      <4>1. n \in 1 .. c - 1
        BY <1>6
      <4> QED BY <1>3, <1>6, <1>9, <2>1, <2>2, <4>1
    <3> QED BY <1>6, <3>1, <3>2
  <2> QED BY <1>6, <2>1, <2>2
<1>12. \A c \in 1 .. 64 :
         (/\ sub_bucket_mask * 2^(c - 1) >= highest_trackable_value
          /\ \A k \in 1 .. c - 1 : sub_bucket_mask * 2^(k - 1) < highest_trackable_value)
         <=> Is(c)
  <2> SUFFICES ASSUME NEW c \in 1 .. 64
               PROVE  (/\ sub_bucket_mask * 2^(c - 1) >= highest_trackable_value
                       /\ \A k \in 1 .. c - 1 :
                            sub_bucket_mask * 2^(k - 1) < highest_trackable_value)
                      <=> Is(c)
    OBVIOUS
  <2>1. \A k \in 1 .. c - 1 : k \in 1 .. 64
    OBVIOUS
  <2> QED BY <1>10, <2>1, Zenon
<1> HIDE DEF Is
<1>13. bucket_count = CHOOSE c \in 1 .. 64 : c = n
  BY <1>11, <1>12, Zenon DEF bucket_count
<1>14. bucket_count = n
  BY <1>6, <1>13
<1> QED BY <1>1, <1>6, <1>7, <1>14 DEF IsBucketCount

LEMMA OneMore == \A a, p \in Int : (a + 1) * p = a * p + p
  OBVIOUS

-----------------------------------------------------------------------------
(* Slots: pairs of a bucket and a position in it.                              *)

IsPlace(b, s) ==
  /\ b \in 0 .. bucket_count - 1 /\ s \in 0 .. sub_bucket_count - 1
  /\ b = 0 \/ s >= sub_bucket_half_count

\* The values of a slot.
InSlot(v, b, s) == s * Pow[b] <= v /\ v < s * Pow[b] + Pow[b]

LEMMA BucketsFit == ASSUME Fits PROVE bucket_count \in 1 .. 64 /\ M + bucket_count <= 63
<1>1. PICK n : n = bucket_count
  OBVIOUS
<1>2. IsBucketCount(n)
  BY <1>1, Buckets
<1>3. n \in 1 .. 64
  BY <1>2 DEF IsBucketCount
<1>4. CASE n = 1
  BY <1>1, <1>3, <1>4, Precision
<1>5. CASE n # 1
  <2>1. PICK k \in Nat : n = k + 2
    <3>1. n - 2 \in Nat /\ n = (n - 2) + 2
      BY <1>3, <1>5
    <3> QED BY <3>1
  <2>2. (2 * Pow[M] - 1) * Pow[k] < highest_trackable_value
    <3>1. n - 1 \in 1 .. n - 1 /\ (n - 1) - 1 = k
      BY <1>3, <2>1
    <3> QED BY <1>2, <3>1 DEF IsBucketCount
  <2>3. highest_trackable_value < Pow[62] /\ Pow[62] \in Nat /\ highest_trackable_value \in Nat
    <3>1. 2^62 = Pow[62] /\ Pow[62] \in Nat
      BY PowIs, PowNat, Zenon
    <3>2. highest_trackable_value < 2^62
      BY DEF Fits
    <3> QED BY <3>1, <3>2, HdrAssumption, Zenon
  <2>4. PICK h \in Nat, p \in Nat : h = Pow[M] /\ p = Pow[k] /\ h > 0
    BY Counts, PowNat
  <2>5. h * p <= (2 * h - 1) * p
    BY <2>4
  <2>6. h * p = Pow[M + k] /\ M + k \in Nat /\ M \in Nat
    <3>1. M \in Nat
      BY Counts
    <3>2. Pow[M + k] = Pow[M] * Pow[k]
      BY <3>1, PowSum
    <3> QED BY <2>4, <3>1, <3>2
  <2>7. Pow[M + k] < Pow[62]
    <3>1. (2 * h - 1) * p < highest_trackable_value /\ (2 * h - 1) * p \in Nat /\ h * p \in Nat
      BY <2>2, <2>4
    <3> QED BY <2>3, <2>5, <2>6, <3>1
  <2>8. M + k < 62
    <3> SUFFICES ASSUME ~(M + k < 62) PROVE FALSE
      OBVIOUS
    <3>1. M + k = 62 \/ 62 < M + k
      BY <2>6
    <3>2. Pow[62] <= Pow[M + k]
      BY <2>3, <2>6, <3>1, PowRises, PowNat
    <3> QED BY <2>3, <2>6, <2>7, <3>2, PowNat
  <2> QED BY <1>1, <1>3, <2>1, <2>6, <2>8
<1> QED BY <1>4, <1>5

LEMMA ValuesFit ==
  ASSUME Fits, NEW b, NEW s, IsPlace(b, s)
  PROVE  /\ b \in Nat /\ s \in Nat /\ Pow[b] \in Nat /\ Pow[b] > 0
         /\ s * Pow[b] \in Nat
         /\ s * Pow[b] + Pow[b] <= Pow[M + 1 + b]
         /\ Pow[M + 1 + b] <= Pow[63]
         /\ M + 1 + b \in 0 .. 63
<1>1. PICK n : n = bucket_count /\ n \in 1 .. 64 /\ M + n <= 63 /\ M \in Nat
  BY BucketsFit, Counts
<1>2. b \in Nat /\ b <= n - 1 /\ s \in Nat /\ s + 1 <= 2 * Pow[M]
  BY <1>1, Counts DEF IsPlace
<1>3. M + 1 + b \in 0 .. 63
  BY <1>1, <1>2
<1>4. PICK p \in Nat : p = Pow[b] /\ p > 0
  BY <1>2, PowPositive
<1>5. Pow[M + 1 + b] = (2 * Pow[M]) * p
  <2>1. Pow[(M + 1) + b] = Pow[M + 1] * Pow[b]
    BY <1>1, <1>2, PowSum
  <2> QED BY <1>4, <2>1, Counts
<1>6. s * p + p <= (2 * Pow[M]) * p
  <2>1. PICK c \in Nat : c = 2 * Pow[M]
    BY Counts
  <2>2. (s + 1) * p <= c * p
    BY <1>2, <1>4, <2>1
  <2>3. (s + 1) * p = s * p + p
    <3>1. s \in Int /\ p \in Int
      BY <1>2, <1>4
    <3> QED BY <3>1, OneMore
  <2> QED BY <2>1, <2>2, <2>3
<1>7. Pow[M + 1 + b] <= Pow[63]
  <2>1. M + 1 + b = 63 \/ M + 1 + b < 63
    BY <1>3
  <2> QED BY <1>3, <2>1, PowRises, PowNat
<1>8. s * p \in Nat
  BY <1>2, <1>4
<1> QED BY <1>2, <1>3, <1>4, <1>5, <1>6, <1>7, <1>8

LEMMA Divide ==
  ASSUME NEW v \in Nat, NEW s \in Nat, NEW p \in Nat, p > 0, s * p <= v, v < s * p + p
  PROVE  v \div p = s
<1>1. PICK q \in Nat : q = v \div p
  OBVIOUS
<1>2. q * p <= v /\ v < q * p + p
  BY <1>1
<1>3. ~(q < s)
  <2> SUFFICES ASSUME q < s PROVE FALSE
    OBVIOUS
  <2>1. (q + 1) * p <= s * p
    OBVIOUS
  <2> QED BY <1>2, <2>1
<1>4. ~(s < q)
  <2> SUFFICES ASSUME s < q PROVE FALSE
    OBVIOUS
  <2>1. (s + 1) * p <= q * p
    OBVIOUS
  <2> QED BY <1>2, <2>1
<1> QED BY <1>1, <1>3, <1>4

LEMMA SubBucket ==
  ASSUME Fits, NEW v \in Nat, NEW b \in Nat
  PROVE  get_sub_bucket_index(v, b) = v \div Pow[b]
<1>1. b + unit_magnitude = b
  BY Counts
<1>2. 2^b = Pow[b]
  BY PowIs, Zenon
<1> QED BY <1>1, <1>2, Zenon DEF get_sub_bucket_index

LEMMA BucketIs ==
  ASSUME Fits, NEW v \in Nat, NEW d, HasBits(v, d)
  PROVE  get_bucket_index(v) = IF d > M + 1 THEN d - (M + 1) ELSE 0
<1>1. Bits(v) = d /\ Bits(sub_bucket_mask) = M + 1 /\ M \in Nat /\ d \in 0 .. 64
  BY BitsUnique, Counts DEF HasBits
<1>2. Max({d, M + 1}) = IF d > M + 1 THEN d ELSE M + 1
  BY <1>1, MaxOfTwo
<1>3. get_bucket_index(v) = (Max({d, M + 1}) - 0) - (M + 1)
  BY <1>1, Counts DEF get_bucket_index, M
<1> QED BY <1>1, <1>2, <1>3

LEMMA PlaceOf ==
  ASSUME Fits, NEW b, NEW s, IsPlace(b, s), NEW v \in Nat, InSlot(v, b, s)
  PROVE  get_bucket_index(v) = b /\ get_sub_bucket_index(v, b) = s
<1>1. b \in Nat /\ s \in Nat /\ M \in Nat
  BY ValuesFit, Counts
<1>2. PICK p \in Nat : p = Pow[b] /\ p > 0
  BY <1>1, PowPositive
<1>3. s * p <= v /\ v < s * p + p
  BY <1>2 DEF InSlot
<1>4. get_sub_bucket_index(v, b) = s
  BY <1>1, <1>2, <1>3, Divide, SubBucket
<1>5. v < Pow[M + 1 + b] /\ v < Pow[63] /\ v < Pow[64]
  <2>1. s * p + p <= Pow[M + 1 + b] /\ Pow[M + 1 + b] <= Pow[63] /\ M + 1 + b \in Nat
    BY <1>2, ValuesFit
  <2>2. Pow[M + 1 + b] \in Nat /\ Pow[63] \in Nat /\ Pow[64] \in Nat /\ 2 * Pow[63] <= Pow[64]
    BY <2>1, PowNat, PowRises
  <2> QED BY <1>1, <1>2, <1>3, <2>1, <2>2
<1>6. CASE b = 0
  <2>1. PICK d : d = Bits(v) /\ HasBits(v, d)
    BY <1>5, BitsExist
  <2>2. d \in Nat /\ (d = 0 \/ Pow[d - 1] <= v)
    BY <2>1 DEF HasBits
  <2>3. ~(d > M + 1)
    <3> SUFFICES ASSUME d > M + 1 PROVE FALSE
      OBVIOUS
    <3>1. d - 1 \in Nat /\ (M + 1 = d - 1 \/ M + 1 < d - 1)
      BY <1>1, <2>2
    <3>2. Pow[M + 1] <= Pow[d - 1] /\ Pow[M + 1] \in Nat /\ Pow[d - 1] \in Nat
      BY <1>1, <3>1, PowRises, PowNat
    <3>3. M + 1 + b = M + 1
      BY <1>1, <1>6
    <3> QED BY <1>1, <1>5, <2>2, <3>2, <3>3
  <2> QED BY <1>4, <1>6, <2>1, <2>3, BucketIs
<1>7. CASE b # 0
  <2>1. s >= Pow[M]
    BY <1>7, Counts DEF IsPlace
  <2>2. PICK h \in Nat : h = Pow[M]
    BY Counts
  <2>3. h * p <= s * p
    BY <1>1, <1>2, <2>1, <2>2
  <2>4. Pow[M + b] = h * p
    BY <1>1, <1>2, <2>2, PowSum
  <2>5. Pow[M + b] <= v
    BY <1>1, <1>2, <1>3, <2>2, <2>3, <2>4
  <2>6. M + 1 + b \in 0 .. 63
    BY ValuesFit
  <2>7. HasBits(v, M + 1 + b)
    <3>1. (M + 1 + b) - 1 = M + b
      BY <1>1
    <3> QED BY <1>5, <2>5, <2>6, <3>1 DEF HasBits
  <2>8. M + 1 + b > M + 1 /\ (M + 1 + b) - (M + 1) = b
    BY <1>1, <1>7
  <2> QED BY <1>4, <2>7, <2>8, BucketIs
<1> QED BY <1>6, <1>7

LEMMA PlaceExists ==
  ASSUME Fits, NEW v \in 0 .. highest_trackable_value, NEW b, b = get_bucket_index(v),
         NEW s, s = get_sub_bucket_index(v, b)
  PROVE  IsPlace(b, s) /\ InSlot(v, b, s)
<1>1. highest_trackable_value \in Nat /\ v \in Nat
  BY HdrAssumption
<1>2. v < Pow[62] /\ v < Pow[64]
  <2>1. 2^62 = Pow[62] /\ Pow[62] \in Nat /\ Pow[64] \in Nat
    <3>1. 62 \in Nat /\ 64 \in Nat
      OBVIOUS
    <3>2. 2^62 = Pow[62]
      BY PowIs, Zenon
    <3> QED BY <3>1, <3>2, PowNat
  <2>2. Pow[62] < Pow[64]
    <3>1. 62 \in Nat /\ 64 \in Nat /\ 62 < 64
      OBVIOUS
    <3>2. 2 * Pow[62] <= Pow[64] /\ Pow[62] > 0
      BY <3>1, PowRises, PowPositive
    <3> QED BY <2>1, <3>2
  <2>3. highest_trackable_value < Pow[62]
    BY <2>1 DEF Fits
  <2> QED BY <1>1, <2>1, <2>2, <2>3
<1>3. PICK d : HasBits(v, d)
  BY <1>1, <1>2, BitsExist
<1>4. d \in Nat /\ M \in Nat /\ v < Pow[d] /\ (d = 0 \/ Pow[d - 1] <= v)
  BY <1>3, Counts DEF HasBits
<1>5. b = IF d > M + 1 THEN d - (M + 1) ELSE 0
  BY <1>1, <1>3, BucketIs
<1>6. b \in Nat
  BY <1>4, <1>5
<1>7. PICK p \in Nat : p = Pow[b] /\ p > 0
  BY <1>6, PowPositive
<1>8. s \in Nat /\ s * p <= v /\ v < s * p + p
  <2>1. s = v \div p
    BY <1>1, <1>6, <1>7, SubBucket
  <2> QED BY <1>1, <1>7, <2>1
<1>9. InSlot(v, b, s)
  BY <1>7, <1>8 DEF InSlot
<1>10. PICK h \in Nat : h = Pow[M] /\ h > 15
  BY Counts
<1>11. s < 2 * h
  <2>1. v < (2 * h) * p
    <3>1. CASE d > M + 1
      <4>1. d = M + 1 + b
        BY <1>4, <1>5, <3>1
      <4>2. Pow[(M + 1) + b] = Pow[M + 1] * Pow[b]
        <5>1. M + 1 \in Nat
          BY <1>4
        <5> QED BY <1>6, <5>1, PowSum
      <4>3. Pow[M + 1] = 2 * h
        BY <1>10, Counts
      <4>4. Pow[d] = (2 * h) * p
        BY <1>7, <4>1, <4>2, <4>3
      <4> QED BY <1>4, <4>4
    <3>2. CASE ~(d > M + 1)
      <4>1. d = M + 1 \/ d < M + 1
        BY <1>4, <3>2
      <4>2. Pow[d] <= Pow[M + 1] /\ Pow[d] \in Nat
        BY <1>4, <4>1, PowRises, PowNat
      <4>3. Pow[M + 1] = 2 * h
        BY <1>10, Counts
      <4>4. p = 1
        BY <1>5, <1>7, <3>2, PowValues
      <4> QED BY <1>1, <1>4, <1>10, <4>2, <4>3, <4>4
    <3> QED BY <3>1, <3>2
  <2> SUFFICES ASSUME ~(s < 2 * h) PROVE FALSE
    OBVIOUS
  <2>2. PICK c \in Nat : c = 2 * h
    BY <1>10
  <2>3. c * p <= s * p
    BY <1>7, <1>8, <2>2
  <2> QED BY <1>1, <1>7, <1>8, <2>1, <2>2, <2>3
<1>12. b = 0 \/ s >= h
  <2> SUFFICES ASSUME b # 0, ~(s >= h) PROVE FALSE
    OBVIOUS
  <2>1. d - 1 = M + b /\ d # 0
    BY <1>4, <1>5
  <2>2. Pow[M + b] = h * p
    BY <1>4, <1>6, <1>7, <1>10, PowSum
  <2>3. h * p <= v
    BY <1>4, <2>1, <2>2
  <2>4. (s + 1) * p <= h * p
    BY <1>7, <1>8, <1>10
  <2> QED BY <1>1, <1>7, <1>8, <1>10, <2>3, <2>4
<1>13. b < bucket_count
  <2> SUFFICES ASSUME ~(b < bucket_count) PROVE FALSE
    OBVIOUS
  <2>1. PICK n : n = bucket_count /\ n \in 1 .. 64 /\ IsBucketCount(n)
    BY Buckets, BucketsFit
  <2>2. PICK q \in Nat : q = Pow[n - 1] /\ q > 0
    <3>1. n - 1 \in Nat
      BY <2>1
    <3> QED BY <3>1, PowPositive
  <2>3. (2 * h - 1) * q >= v
    BY <1>1, <1>10, <2>1, <2>2 DEF IsBucketCount
  <2>4. 2 * q <= p
    <3>1. n - 1 \in Nat /\ n - 1 < b
      BY <1>6, <2>1
    <3> QED BY <1>6, <1>7, <2>2, <3>1, PowRises
  <2>5. s >= h
    BY <1>6, <1>12, <2>1
  <2>6. h * p <= s * p
    BY <1>7, <1>8, <1>10, <2>5
  <2>7. h * (2 * q) <= h * p
    BY <1>7, <1>10, <2>2, <2>4
  <2>8. (2 * h - 1) * q < h * (2 * q)
    <3>1. (2 * h - 1) * q = h * (2 * q) - q
      BY <1>10, <2>2
    <3>2. h * (2 * q) \in Nat
      BY <1>10, <2>2
    <3> QED BY <2>2, <3>1, <3>2
  <2>9. h * (2 * q) \in Nat /\ h * p \in Nat /\ s * p \in Nat /\ (2 * h - 1) * q \in Nat
    BY <1>7, <1>8, <1>10, <2>2
  <2> QED BY <1>1, <1>8, <2>3, <2>6, <2>7, <2>8, <2>9
<1>14. bucket_count \in 1 .. 64 /\ sub_bucket_count = 2 * h /\ sub_bucket_half_count = h
  BY <1>10, BucketsFit, Counts
<1> QED BY <1>6, <1>8, <1>9, <1>10, <1>11, <1>12, <1>13, <1>14 DEF IsPlace

LEMMA SlotValues ==
  ASSUME Fits, NEW b, NEW s, IsPlace(b, s), NEW v \in Nat, InSlot(v, b, s)
  PROVE  /\ lowest_equivalent_value(v) = s * Pow[b]
         /\ size_of_equivalent_value_range(v) = Pow[b]
         /\ highest_equivalent_value(v) = s * Pow[b] + Pow[b] - 1
         /\ counts_index_for(v) = b * Pow[M] + s
<1>1. get_bucket_index(v) = b /\ get_sub_bucket_index(v, b) = s
  BY PlaceOf
<1>2. b \in Nat /\ s \in Nat /\ Pow[b] \in Nat
  BY ValuesFit
<1>3. b + unit_magnitude = b /\ unit_magnitude + b = b
  BY <1>2, Counts
<1>4. 2^b = Pow[b]
  BY <1>2, PowIs, Zenon
<1>5. value_from_index(b, s) = s * Pow[b]
  BY <1>3, <1>4, Zenon DEF value_from_index
<1>6. lowest_equivalent_value(v) = s * Pow[b]
  BY <1>1, <1>5, Zenon DEF lowest_equivalent_value
<1>7. size_of_equivalent_value_range(v) = Pow[b]
  <2>1. ~(s >= sub_bucket_count)
    BY <1>2, Counts DEF IsPlace
  <2>2. size_of_equivalent_value_range(v) = 2^(unit_magnitude + b)
    BY <1>1, <2>1, Zenon DEF size_of_equivalent_value_range
  <2> QED BY <1>3, <1>4, <2>2, Zenon
<1>8. highest_equivalent_value(v) = s * Pow[b] + Pow[b] - 1
  <2>1. highest_equivalent_value(v) = (s * Pow[b] + Pow[b]) - 1
    BY <1>6, <1>7, Zenon DEF highest_equivalent_value, next_non_equivalent_value
  <2>2. s * Pow[b] \in Nat
    BY <1>2
  <2> QED BY <1>2, <2>1, <2>2
<1>9. counts_index_for(v) = b * Pow[M] + s
  <2>1. PICK h \in Nat : h = Pow[M] /\ M \in Nat
    BY Counts
  <2>2. 2^sub_bucket_half_count_magnitude = h
    BY <2>1, PowIs, Zenon DEF M
  <2>3. sub_bucket_half_count = h
    BY <2>1, Counts
  <2>4. counts_index(b, s) = (b + 1) * h + (s - h)
    BY <2>2, <2>3, Zenon DEF counts_index
  <2>5. (b + 1) * h = b * h + h
    <3>1. b \in Int /\ h \in Int
      BY <1>2
    <3> QED BY <3>1, OneMore
  <2>6. b * h \in Nat
    BY <1>2, <2>1
  <2>7. counts_index(b, s) = b * h + s
    BY <1>2, <2>1, <2>4, <2>5, <2>6
  <2> QED BY <1>1, <2>1, <2>7, Zenon DEF counts_index_for
<1> QED BY <1>6, <1>7, <1>8, <1>9

Slot(b, s) ==
  [index |-> b * Pow[M] + s, value_from_index |-> s * Pow[b],
   highest_equivalent_value |-> s * Pow[b] + Pow[b] - 1]

LEMMA SlotsAre ==
  ASSUME Fits
  PROVE  \A x : x \in Slots <=> \E b, s : IsPlace(b, s) /\ x = Slot(b, s)
<1>1. ASSUME NEW b, NEW s, IsPlace(b, s)
      PROVE  [index |-> counts_index(b, s), value_from_index |-> value_from_index(b, s),
              highest_equivalent_value |-> highest_equivalent_value(value_from_index(b, s))]
             = Slot(b, s)
  <2>1. /\ b \in Nat /\ s \in Nat /\ Pow[b] \in Nat /\ Pow[b] > 0
        /\ s * Pow[b] \in Nat
    BY <1>1, ValuesFit
  <2>2. PICK v \in Nat : v = s * Pow[b]
    BY <2>1
  <2>3. InSlot(v, b, s)
    BY <2>1, <2>2 DEF InSlot
  <2>4. /\ get_bucket_index(v) = b /\ get_sub_bucket_index(v, b) = s
        /\ lowest_equivalent_value(v) = v
        /\ highest_equivalent_value(v) = s * Pow[b] + Pow[b] - 1
        /\ counts_index_for(v) = b * Pow[M] + s
    BY <1>1, <2>2, <2>3, SlotValues, PlaceOf
  <2>5. value_from_index(b, s) = v
    BY <2>4, Zenon DEF lowest_equivalent_value
  <2>6. counts_index(b, s) = b * Pow[M] + s
    BY <2>4, Zenon DEF counts_index_for
  <2> QED BY <2>2, <2>4, <2>5, <2>6, Zenon DEF Slot
<1> DEFINE F(p) == [index |-> counts_index(p[1], p[2]),
                    value_from_index |-> value_from_index(p[1], p[2]),
                    highest_equivalent_value
                      |-> highest_equivalent_value(value_from_index(p[1], p[2]))]
           P == {q \in (0 .. bucket_count - 1) \X (0 .. sub_bucket_count - 1) :
                   q[1] = 0 \/ q[2] >= sub_bucket_half_count}
<1>2. Slots = {F(p) : p \in P}
  BY DEF Slots
<1>3. \A p \in P : IsPlace(p[1], p[2])
  BY DEF IsPlace
<1>4. \A b, s : IsPlace(b, s) => <<b, s>> \in P /\ <<b, s>>[1] = b /\ <<b, s>>[2] = s
  BY DEF IsPlace
<1>5. \A p \in P : F(p) = Slot(p[1], p[2])
  BY <1>1, <1>3
<1> HIDE DEF F, P
<1>6. ASSUME NEW x \in Slots PROVE \E b, s : IsPlace(b, s) /\ x = Slot(b, s)
  <2>1. PICK p \in P : x = F(p)
    BY <1>2
  <2> QED BY <1>3, <1>5, <2>1
<1>7. ASSUME NEW b, NEW s, IsPlace(b, s) PROVE Slot(b, s) \in Slots
  <2>1. PICK p : p = <<b, s>>
    OBVIOUS
  <2>2. p \in P /\ p[1] = b /\ p[2] = s
    BY <1>4, <1>7, <2>1
  <2> QED BY <1>2, <1>5, <2>2
<1> QED BY <1>6, <1>7

LEMMA IndexRises ==
  ASSUME Fits, NEW b, NEW s, IsPlace(b, s), NEW c, NEW t, IsPlace(c, t), b < c
  PROVE  b * Pow[M] + s < c * Pow[M] + t
<1>1. PICK h \in Nat : h = Pow[M]
  BY Counts
<1>2. b \in Nat /\ s \in Nat /\ c \in Nat /\ t \in Nat /\ s < 2 * h /\ t >= h
  BY <1>1, Counts, ValuesFit DEF IsPlace
<1>3. (b + 1) * h <= c * h
  <2>1. b + 1 <= c
    BY <1>2
  <2> QED BY <1>1, <1>2, <2>1
<1>4. (b + 1) * h = b * h + h
  BY <1>1, <1>2, OneMore
<1>5. b * h \in Nat /\ c * h \in Nat
  BY <1>1, <1>2
<1> QED BY <1>1, <1>2, <1>3, <1>4, <1>5

LEMMA IndexUnique ==
  ASSUME Fits, NEW b, NEW s, IsPlace(b, s), NEW c, NEW t, IsPlace(c, t),
         b * Pow[M] + s = c * Pow[M] + t
  PROVE  b = c /\ s = t
<1>1. b \in Nat /\ s \in Nat /\ c \in Nat /\ t \in Nat /\ Pow[M] \in Nat
  BY ValuesFit, Counts
<1>2. b * Pow[M] \in Nat /\ c * Pow[M] \in Nat
  BY <1>1
<1>3. ~(b < c)
  BY <1>1, <1>2, IndexRises
<1>4. ~(c < b)
  BY <1>1, <1>2, IndexRises
<1>5. b = c
  BY <1>1, <1>3, <1>4
<1> QED BY <1>1, <1>2, <1>5

LEMMA IndexRange ==
  ASSUME Fits
  PROVE  /\ \A b, s : IsPlace(b, s) => b * Pow[M] + s \in 0 .. counts_len - 1
         /\ \A i \in 0 .. counts_len - 1 : \E b, s : IsPlace(b, s) /\ i = b * Pow[M] + s
<1>1. PICK h \in Nat, n \in Nat : h = Pow[M] /\ n = bucket_count /\ h > 15 /\ n > 0
  BY Counts, BucketsFit
<1>2. sub_bucket_count = 2 * h /\ sub_bucket_half_count = h
  BY <1>1, Counts
<1>3. counts_len = n * h + h /\ n * h \in Nat
  <2>1. counts_len = (n + 1) * h
    BY <1>1, <1>2, Zenon DEF counts_len
  <2> QED BY <1>1, <2>1, OneMore
<1>4. ASSUME NEW b, NEW s, IsPlace(b, s) PROVE b * h + s \in 0 .. counts_len - 1
  <2>1. b \in Nat /\ s \in Nat /\ b + 1 <= n /\ s < 2 * h
    BY <1>1, <1>2, <1>4, ValuesFit DEF IsPlace
  <2>2. (b + 1) * h <= n * h /\ (b + 1) * h = b * h + h /\ b * h \in Nat
    BY <1>1, <2>1, OneMore
  <2> QED BY <1>1, <1>3, <2>1, <2>2
<1>5. ASSUME NEW i \in 0 .. counts_len - 1
      PROVE  \E b, s : IsPlace(b, s) /\ i = b * h + s
  <2>1. i \in Nat /\ i < n * h + h
    BY <1>1, <1>3
  <2>2. CASE i < 2 * h
    <3>1. IsPlace(0, i)
      BY <1>1, <1>2, <2>1, <2>2 DEF IsPlace
    <3>2. i = 0 * h + i
      BY <1>1, <2>1
    <3> QED BY <3>1, <3>2
  <2>3. CASE ~(i < 2 * h)
    <3>1. PICK q \in Nat : q = i \div h
      BY <1>1, <2>1
    <3>2. q * h <= i /\ i < q * h + h /\ q * h \in Nat
      BY <1>1, <2>1, <3>1
    <3>3. q > 1
      <4> SUFFICES ASSUME ~(q > 1) PROVE FALSE
        OBVIOUS
      <4>1. q * h <= h
        BY <1>1
      <4> QED BY <1>1, <2>1, <2>3, <3>2, <4>1
    <3>4. q <= n
      <4> SUFFICES ASSUME ~(q <= n) PROVE FALSE
        OBVIOUS
      <4>1. (n + 1) * h <= q * h /\ (n + 1) * h = n * h + h
        BY <1>1, OneMore
      <4> QED BY <1>1, <1>3, <2>1, <3>2, <4>1
    <3>5. PICK b \in Nat : q = b + 1
      <4>1. q - 1 \in Nat /\ q = (q - 1) + 1
        BY <3>3
      <4> QED BY <4>1
    <3>6. q * h = b * h + h /\ b * h \in Nat
      BY <1>1, <3>5, OneMore
    <3>7. PICK s \in Nat : s = i - b * h
      BY <1>1, <2>1, <3>2, <3>6
    <3>8. h <= s /\ s < 2 * h /\ i = b * h + s
      BY <1>1, <2>1, <3>2, <3>6, <3>7
    <3>9. IsPlace(b, s)
      BY <1>1, <1>2, <3>3, <3>4, <3>5, <3>8 DEF IsPlace
    <3> QED BY <3>8, <3>9
  <2> QED BY <2>2, <2>3
<1> QED BY <1>1, <1>4, <1>5

-----------------------------------------------------------------------------
(* Every value has one slot, and the slot is near it.                          *)

LEMMA SlotIsClose ==
  ASSUME Fits, NEW b, NEW s, IsPlace(b, s), NEW v \in Nat, InSlot(v, b, s),
         NEW x \in Nat, InSlot(x, b, s)
  PROVE  Close(x, v)
<1>1. PICK p \in Nat, h \in Nat : p = Pow[b] /\ h = Pow[M] /\ p > 0 /\ h > 15
  BY ValuesFit, Counts
<1>2. b \in Nat /\ s \in Nat /\ s * p \in Nat
  BY <1>1, ValuesFit
<1>3. s * p <= v /\ v < s * p + p /\ s * p <= x /\ x < s * p + p
  BY <1>1 DEF InSlot
<1>4. PICK apart \in Nat : apart = (IF x < v THEN v - x ELSE x - v) /\ apart < p
  <2>1. (IF x < v THEN v - x ELSE x - v) \in Nat /\ (IF x < v THEN v - x ELSE x - v) < p
    BY <1>1, <1>2, <1>3
  <2> QED BY <2>1
<1>5. PICK ten \in Nat : ten = 10^significant_figures /\ ten <= h
  BY <1>1, Precision
<1>6. apart * ten <= v
  <2>1. CASE b = 0
    <3>1. p = 1
      BY <1>1, <2>1, PowValues
    <3>2. apart = 0
      BY <1>4, <3>1
    <3> QED BY <1>5, <3>2
  <2>2. CASE b # 0
    <3>1. h <= s
      BY <1>1, <2>2, Counts DEF IsPlace
    <3>2. apart * ten <= p * ten
      BY <1>1, <1>4, <1>5
    <3>3. p * ten <= p * h
      BY <1>1, <1>5
    <3>4. p * h <= s * p
      BY <1>1, <1>2, <3>1
    <3>5. apart * ten \in Nat /\ p * ten \in Nat /\ p * h \in Nat
      BY <1>1, <1>4, <1>5
    <3> QED BY <1>2, <1>3, <3>2, <3>3, <3>4, <3>5
  <2> QED BY <2>1, <2>2
<1> QED BY <1>4, <1>5, <1>6, Zenon DEF Close

LEMMA SlotOfValue ==
  ASSUME Fits, NEW v \in 0 .. highest_trackable_value
  PROVE  /\ InBuckets(get_bucket_index(v), get_sub_bucket_index(v, get_bucket_index(v)))
         /\ {x \in Slots : x.index = counts_index_for(v)}
              = {x \in Slots : v \in x.value_from_index .. x.highest_equivalent_value}
         /\ Close(lowest_equivalent_value(v), v)
         /\ Close(highest_equivalent_value(v), v)
<1>1. PICK b : b = get_bucket_index(v)
  OBVIOUS
<1>2. PICK s : s = get_sub_bucket_index(v, b)
  OBVIOUS
<1>3. IsPlace(b, s) /\ InSlot(v, b, s) /\ v \in Nat
  BY <1>1, <1>2, PlaceExists, HdrAssumption
<1>4. InBuckets(b, s)
  BY <1>3, BucketsFit, Counts DEF IsPlace, InBuckets
<1>5. PICK p \in Nat : p = Pow[b] /\ p > 0 /\ s * p \in Nat /\ s \in Nat /\ b \in Nat
  BY <1>3, ValuesFit
<1>6. /\ lowest_equivalent_value(v) = s * p
      /\ highest_equivalent_value(v) = s * p + p - 1
      /\ counts_index_for(v) = b * Pow[M] + s
  BY <1>3, <1>5, SlotValues
<1>7. Close(lowest_equivalent_value(v), v)
  <2>1. PICK x \in Nat : x = s * p
    BY <1>5
  <2>2. InSlot(x, b, s)
    BY <1>5, <2>1 DEF InSlot
  <2> QED BY <1>3, <1>6, <2>1, <2>2, SlotIsClose
<1>8. Close(highest_equivalent_value(v), v)
  <2>1. PICK x \in Nat : x = s * p + p - 1
    BY <1>5
  <2>2. InSlot(x, b, s)
    BY <1>5, <2>1 DEF InSlot
  <2> QED BY <1>3, <1>6, <2>1, <2>2, SlotIsClose
<1>9. ASSUME NEW x \in Slots
      PROVE  (x.index = counts_index_for(v))
               <=> (v \in x.value_from_index .. x.highest_equivalent_value)
  <2>1. PICK c, t : IsPlace(c, t) /\ x = Slot(c, t)
    BY SlotsAre
  <2>2. /\ x.index = c * Pow[M] + t /\ x.value_from_index = t * Pow[c]
        /\ x.highest_equivalent_value = t * Pow[c] + Pow[c] - 1
    BY <2>1 DEF Slot
  <2>3. Pow[c] \in Nat /\ t * Pow[c] \in Nat
    BY <2>1, ValuesFit
  <2>4. (v \in x.value_from_index .. x.highest_equivalent_value) <=> InSlot(v, c, t)
    BY <1>3, <2>2, <2>3 DEF InSlot
  <2>5. ASSUME x.index = counts_index_for(v) PROVE InSlot(v, c, t)
    <3>1. c = b /\ t = s
      BY <1>3, <1>6, <2>1, <2>2, <2>5, IndexUnique
    <3> QED BY <1>3, <3>1
  <2>6. ASSUME InSlot(v, c, t) PROVE x.index = counts_index_for(v)
    <3>1. c = b /\ t = s
      BY <1>1, <1>2, <1>3, <2>1, <2>6, PlaceOf
    <3> QED BY <1>6, <2>2, <3>1
  <2> QED BY <2>4, <2>5, <2>6
<1>10. {x \in Slots : x.index = counts_index_for(v)}
         = {x \in Slots : v \in x.value_from_index .. x.highest_equivalent_value}
  BY <1>9
<1> QED BY <1>1, <1>2, <1>4, <1>7, <1>8, <1>10

LEMMA Indices ==
  ASSUME Fits
  PROVE  {s.index : s \in Slots} = 0 .. counts_len - 1
<1>1. ASSUME NEW i \in 0 .. counts_len - 1 PROVE \E x \in Slots : x.index = i
  <2>1. PICK b, s : IsPlace(b, s) /\ i = b * Pow[M] + s
    BY IndexRange
  <2>2. Slot(b, s) \in Slots /\ Slot(b, s).index = i
    BY <2>1, SlotsAre DEF Slot
  <2> QED BY <2>2
<1>2. ASSUME NEW x \in Slots PROVE x.index \in 0 .. counts_len - 1
  <2>1. PICK b, s : IsPlace(b, s) /\ x = Slot(b, s)
    BY SlotsAre
  <2>2. x.index = b * Pow[M] + s
    BY <2>1 DEF Slot
  <2> QED BY <2>1, <2>2, IndexRange
<1> QED BY <1>1, <1>2

\* The histograms of wrk, at whatever precision and for values up to 2^62: every
\* value has one slot, of its own range and inside the array, which passes the
\* asserts of counts_index, and is off by no more than the precision allows; and no
\* place of the array is left without a slot (hdr_histogram.c:41-118, hdr_init).
THEOREM EverySlotIsRight ==
  ASSUME Fits
  PROVE  Spec => []EquivalentRanges
<1>1. EquivalentRanges
  BY SlotOfValue, Indices DEF EquivalentRanges
<1> QED BY <1>1, PTL

-----------------------------------------------------------------------------
(* Sums of a function over a finite set, as the size of the set below it.      *)

Pairs(g, X) == {p \in X \X Nat : p[2] \in 1 .. g[p[1]]}
Sigma(g, X) == Cardinality(Pairs(g, X))
NatOn(g, X) == \A x \in X : g[x] \in Nat

LEMMA LeastSubset ==
  ASSUME NEW X, IsFiniteSet(X), NEW T \in SUBSET SUBSET X, T # {}
  PROVE  \E s \in T : IsFiniteSet(s) /\ \A x \in s : s \ {x} \notin T
<1> DEFINE N == {n \in Nat : \E s \in T : Cardinality(s) = n}
<1>1. \A s \in T : IsFiniteSet(s) /\ Cardinality(s) \in Nat
  BY FS_Subset, FS_CardinalityType
<1>2. N # {} /\ N \in SUBSET Nat
  BY <1>1
<1>3. PICK n \in N : \A m \in N : n <= m
  <2> HIDE DEF N
  <2> QED BY <1>2, Least
<1>4. PICK s \in T : Cardinality(s) = n
  OBVIOUS
<1>5. ASSUME NEW x \in s, s \ {x} \in T PROVE FALSE
  <2>1. Cardinality(s \ {x}) = n - 1
    BY <1>1, <1>4, FS_RemoveElement
  <2>2. Cardinality(s \ {x}) \in N
    BY <1>1, <1>5
  <2>3. n \in Nat /\ n <= n - 1
    BY <1>3, <2>1, <2>2
  <2> QED BY <2>3
<1> QED BY <1>1, <1>5

LEMMA OnePair ==
  ASSUME NEW g, NEW x, g[x] \in Nat
  PROVE  IsFiniteSet(Pairs(g, {x})) /\ Sigma(g, {x}) = g[x]
<1>1. PICK n \in Nat : n = g[x]
  OBVIOUS
<1> DEFINE f == [k \in 1 .. n |-> <<x, k>>]
<1>2. IsFiniteSet(1 .. n) /\ Cardinality(1 .. n) = n
  BY FS_Interval
<1>3. Pairs(g, {x}) = {<<x, k>> : k \in 1 .. n}
  BY <1>1 DEF Pairs
<1>4. f \in Bijection(1 .. n, Pairs(g, {x}))
  BY <1>3 DEF Bijection, Injection, IsInjective, Surjection
<1> QED BY <1>1, <1>2, <1>4, FS_Bijection DEF ExistsBijection, Sigma

LEMMA PairsUnion ==
  ASSUME NEW g, NEW X, NEW Y
  PROVE  Pairs(g, X \cup Y) = Pairs(g, X) \cup Pairs(g, Y)
BY DEF Pairs

LEMMA PairsFinite ==
  ASSUME NEW X, IsFiniteSet(X), NEW g, NatOn(g, X)
  PROVE  IsFiniteSet(Pairs(g, X))
<1> DEFINE T == {s \in SUBSET X : ~IsFiniteSet(Pairs(g, s))}
<1>1. SUFFICES ASSUME T # {} PROVE FALSE
  OBVIOUS
<1>2. PICK s \in T : IsFiniteSet(s) /\ \A x \in s : s \ {x} \notin T
  <2>1. T \in SUBSET SUBSET X
    OBVIOUS
  <2> HIDE DEF T
  <2> QED BY <1>1, <2>1, LeastSubset
<1>3. s # {}
  <2>1. Pairs(g, {}) = {}
    BY DEF Pairs
  <2> QED BY <1>2, <2>1, FS_EmptySet
<1>4. PICK x \in s : TRUE
  BY <1>3
<1>5. IsFiniteSet(Pairs(g, s \ {x}))
  BY <1>2, <1>4
<1>6. IsFiniteSet(Pairs(g, {x}))
  BY <1>4, OnePair DEF NatOn
<1>7. s = (s \ {x}) \cup {x}
  BY <1>4
<1>8. Pairs(g, s) = Pairs(g, s \ {x}) \cup Pairs(g, {x})
  BY <1>7, PairsUnion
<1>9. IsFiniteSet(Pairs(g, s \ {x}) \cup Pairs(g, {x}))
  BY <1>5, <1>6, FS_Union, Zenon
<1> QED BY <1>2, <1>8, <1>9

LEMMA SigmaNat ==
  ASSUME NEW X, IsFiniteSet(X), NEW g, NatOn(g, X)
  PROVE  Sigma(g, X) \in Nat
BY PairsFinite, FS_CardinalityType DEF Sigma

LEMMA SigmaEmpty == ASSUME NEW g PROVE Sigma(g, {}) = 0
<1>1. Pairs(g, {}) = {}
  BY DEF Pairs
<1> QED BY <1>1, FS_EmptySet DEF Sigma

LEMMA SigmaSame ==
  ASSUME NEW X, NEW f, NEW g, \A x \in X : f[x] = g[x]
  PROVE  Sigma(f, X) = Sigma(g, X)
<1>1. Pairs(f, X) = Pairs(g, X)
  BY DEF Pairs
<1> QED BY <1>1 DEF Sigma

LEMMA SigmaUnion ==
  ASSUME NEW X, IsFiniteSet(X), NEW Y, IsFiniteSet(Y), X \cap Y = {}, NEW g,
         NatOn(g, X), NatOn(g, Y)
  PROVE  Sigma(g, X \cup Y) = Sigma(g, X) + Sigma(g, Y)
<1>1. IsFiniteSet(Pairs(g, X)) /\ IsFiniteSet(Pairs(g, Y))
  BY PairsFinite
<1>2. Pairs(g, X) \cap Pairs(g, Y) = {}
  BY DEF Pairs
<1>3. Cardinality(Pairs(g, X)) \in Nat /\ Cardinality(Pairs(g, Y)) \in Nat
  BY <1>1, FS_CardinalityType
<1>4. PICK P, Q : P = Pairs(g, X) /\ Q = Pairs(g, Y)
  OBVIOUS
<1>5. Cardinality(P \cup Q) = Cardinality(P) + Cardinality(Q) - Cardinality(P \cap Q)
  BY <1>1, <1>4, FS_Union
<1>6. P \cap Q = {}
  BY <1>2, <1>4, Zenon
<1>7. Cardinality(P \cap Q) = 0
  BY <1>6, FS_EmptySet, Zenon
<1>8. Cardinality(P) \in Nat /\ Cardinality(Q) \in Nat
  BY <1>3, <1>4
<1>9. PICK a \in Nat, b \in Nat : a = Cardinality(P) /\ b = Cardinality(Q)
  BY <1>8
<1>10. Cardinality(P \cup Q) = a + b - 0
  BY <1>5, <1>7, <1>9, Zenon
<1>11. Cardinality(P \cup Q) = a + b
  BY <1>10
<1>12. Pairs(g, X \cup Y) = P \cup Q
  BY <1>4, PairsUnion, Zenon
<1> QED BY <1>4, <1>9, <1>11, <1>12, Zenon DEF Sigma

LEMMA SigmaRemove ==
  ASSUME NEW X, IsFiniteSet(X), NEW g, NatOn(g, X), NEW x \in X
  PROVE  Sigma(g, X) = g[x] + Sigma(g, X \ {x})
<1>1. X = {x} \cup (X \ {x}) /\ {x} \cap (X \ {x}) = {}
  OBVIOUS
<1>2. IsFiniteSet({x}) /\ IsFiniteSet(X \ {x})
  BY FS_Singleton, FS_RemoveElement
<1>3. NatOn(g, {x}) /\ NatOn(g, X \ {x})
  BY DEF NatOn
<1>4. Sigma(g, {x} \cup (X \ {x})) = Sigma(g, {x}) + Sigma(g, X \ {x})
  BY <1>1, <1>2, <1>3, SigmaUnion
<1>5. Sigma(g, {x}) = g[x]
  BY OnePair DEF NatOn
<1> QED BY <1>1, <1>4, <1>5

\* What is left out was counted if it counts for something.
LEMMA SigmaLess ==
  ASSUME NEW X, IsFiniteSet(X), NEW g, NatOn(g, X), NEW Y \in SUBSET X
  PROVE  /\ Sigma(g, Y) \in Nat /\ Sigma(g, Y) <= Sigma(g, X)
         /\ \A x \in X \ Y : g[x] + Sigma(g, Y) <= Sigma(g, X)
<1>1. IsFiniteSet(Y) /\ NatOn(g, Y)
  BY FS_Subset DEF NatOn
<1>2. Sigma(g, Y) \in Nat /\ Sigma(g, X) \in Nat
  BY <1>1, SigmaNat
<1>3. ASSUME NEW Z \in SUBSET X PROVE Sigma(g, Z) <= Sigma(g, X)
  <2>1. Pairs(g, Z) \in SUBSET Pairs(g, X)
    BY DEF Pairs
  <2> QED BY <2>1, PairsFinite, FS_Subset DEF Sigma
<1>4. ASSUME NEW x \in X \ Y PROVE g[x] + Sigma(g, Y) <= Sigma(g, X)
  <2>1. IsFiniteSet(Y \cup {x}) /\ NatOn(g, Y \cup {x}) /\ (Y \cup {x}) \ {x} = Y
    BY <1>1, FS_AddElement DEF NatOn
  <2>2. Sigma(g, Y \cup {x}) = g[x] + Sigma(g, Y)
    BY <2>1, SigmaRemove
  <2> QED BY <1>3, <2>2
<1> QED BY <1>2, <1>3, <1>4

LEMMA SigmaAdd ==
  ASSUME NEW X, IsFiniteSet(X), NEW f, NatOn(f, X), NEW g, NatOn(g, X),
         NEW h, \A x \in X : h[x] = f[x] + g[x]
  PROVE  Sigma(h, X) = Sigma(f, X) + Sigma(g, X)
<1> DEFINE T == {s \in SUBSET X : Sigma(h, s) # Sigma(f, s) + Sigma(g, s)}
<1>1. SUFFICES ASSUME T # {} PROVE FALSE
  OBVIOUS
<1>2. PICK s \in T : IsFiniteSet(s) /\ \A x \in s : s \ {x} \notin T
  <2>1. T \in SUBSET SUBSET X
    OBVIOUS
  <2> HIDE DEF T
  <2> QED BY <1>1, <2>1, LeastSubset
<1>3. s # {}
  BY <1>2, SigmaEmpty
<1>4. PICK x \in s : TRUE
  BY <1>3
<1>5. NatOn(f, s) /\ NatOn(g, s) /\ NatOn(h, s)
  BY DEF NatOn
<1>6. /\ Sigma(f, s) = f[x] + Sigma(f, s \ {x})
      /\ Sigma(g, s) = g[x] + Sigma(g, s \ {x})
      /\ Sigma(h, s) = h[x] + Sigma(h, s \ {x})
  BY <1>2, <1>4, <1>5, SigmaRemove
<1>7. IsFiniteSet(s \ {x}) /\ NatOn(f, s \ {x}) /\ NatOn(g, s \ {x})
  BY <1>2, <1>5, FS_RemoveElement DEF NatOn
<1>8. Sigma(f, s \ {x}) \in Nat /\ Sigma(g, s \ {x}) \in Nat
  BY <1>7, SigmaNat
<1>9. Sigma(h, s \ {x}) = Sigma(f, s \ {x}) + Sigma(g, s \ {x})
  BY <1>2, <1>4
<1>10. h[x] = f[x] + g[x] /\ f[x] \in Nat /\ g[x] \in Nat
  BY <1>4, <1>5 DEF NatOn
<1>11. Sigma(h, s) = Sigma(f, s) + Sigma(g, s)
  BY <1>6, <1>8, <1>9, <1>10
<1> QED BY <1>2, <1>11

-----------------------------------------------------------------------------
(* Folds: that they are defined, and what they come to.                        *)

Some(s) == CHOOSE x \in s : TRUE

LEMMA SomeIs == ASSUME NEW s, s # {} PROVE Some(s) \in s
BY DEF Some

LEMMA Agree ==
  ASSUME NEW X, IsFiniteSet(X), NEW F, NEW G, F[{}] = G[{}],
         \A s \in SUBSET X :
           s # {} /\ F[s \ {Some(s)}] = G[s \ {Some(s)}] => F[s] = G[s]
  PROVE  F[X] = G[X]
<1> DEFINE T == {s \in SUBSET X : F[s] # G[s]}
<1>1. SUFFICES ASSUME T # {} PROVE FALSE
  OBVIOUS
<1>2. PICK s \in T : IsFiniteSet(s) /\ \A x \in s : s \ {x} \notin T
  <2>1. T \in SUBSET SUBSET X
    OBVIOUS
  <2> HIDE DEF T
  <2> QED BY <1>1, <2>1, LeastSubset
<1>3. s # {} /\ Some(s) \in s
  BY <1>2, SomeIs
<1>4. s \ {Some(s)} \notin T /\ s \ {Some(s)} \in SUBSET X
  BY <1>2, <1>3
<1> QED BY <1>2, <1>3, <1>4

IsSum(F, g, X) ==
  F = [s \in SUBSET X |-> IF s = {} THEN 0 ELSE g[Some(s)] + F[s \ {Some(s)}]]

LEMMA SumExists ==
  ASSUME NEW X, IsFiniteSet(X), NEW g, NatOn(g, X)
  PROVE  IsSum([s \in SUBSET X |-> Sigma(g, s)], g, X)
<1> DEFINE F == [s \in SUBSET X |-> Sigma(g, s)]
<1>1. ASSUME NEW s \in SUBSET X
      PROVE  Sigma(g, s) = IF s = {} THEN 0 ELSE g[Some(s)] + F[s \ {Some(s)}]
  <2>1. CASE s = {}
    BY <2>1, SigmaEmpty
  <2>2. CASE s # {}
    <3>1. IsFiniteSet(s) /\ NatOn(g, s) /\ Some(s) \in s
      BY <2>2, FS_Subset, SomeIs DEF NatOn
    <3>2. Sigma(g, s) = g[Some(s)] + Sigma(g, s \ {Some(s)})
      BY <3>1, SigmaRemove
    <3> QED BY <2>2, <3>2
  <2> QED BY <2>1, <2>2
<1> QED BY <1>1 DEF IsSum

LEMMA SumIs ==
  ASSUME NEW X, IsFiniteSet(X), NEW g, NatOn(g, X), NEW F, IsSum(F, g, X)
  PROVE  F[X] = Sigma(g, X)
<1>1. PICK G : G = [s \in SUBSET X |-> Sigma(g, s)]
  OBVIOUS
<1>2. IsSum(G, g, X)
  BY <1>1, SumExists
<1>3. F[{}] = G[{}]
  BY <1>2 DEF IsSum
<1>4. \A s \in SUBSET X : s # {} /\ F[s \ {Some(s)}] = G[s \ {Some(s)}] => F[s] = G[s]
  BY <1>2 DEF IsSum
<1>5. F[X] = G[X]
  BY <1>3, <1>4, Agree
<1> QED BY <1>1, <1>5

LEMMA MapThenSum ==
  ASSUME NEW X, IsFiniteSet(X), NEW g, NatOn(g, X)
  PROVE  MapThenSumSet(LAMBDA x : g[x], X) = Sigma(g, X)
<1>1. \E F : IsSum(F, g, X)
  BY SumExists
<1>2. \E F : F = [s \in SUBSET X |->
                    IF s = {} THEN 0
                    ELSE LET x == CHOOSE x \in s : TRUE IN g[x] + F[s \ {x}]]
  BY <1>1 DEF IsSum, Some
<1>3. \E F : /\ F = [s \in SUBSET X |->
                      IF s = {} THEN 0
                      ELSE LET x == CHOOSE x \in s : TRUE IN g[x] + F[s \ {x}]]
             /\ MapThenSumSet(LAMBDA x : g[x], X) = F[X]
  BY <1>2 DEF MapThenSumSet, MapThenFoldSet
<1>4. \E F : IsSum(F, g, X) /\ MapThenSumSet(LAMBDA x : g[x], X) = F[X]
  BY <1>3 DEF IsSum, Some
<1> QED BY <1>4, SumIs

LEMMA SumOfFunction ==
  ASSUME NEW f, IsFiniteSet(DOMAIN f), NatOn(f, DOMAIN f)
  PROVE  SumFunction(f) = Sigma(f, DOMAIN f)
<1>1. \E F : IsSum(F, f, DOMAIN f)
  BY SumExists
<1>2. \E F : F = [s \in SUBSET DOMAIN f |->
                    IF s = {} THEN 0
                    ELSE LET x == CHOOSE x \in s : TRUE IN f[x] + F[s \ {x}]]
  BY <1>1 DEF IsSum, Some
<1>3. \E F : /\ F = [s \in SUBSET DOMAIN f |->
                      IF s = {} THEN 0
                      ELSE LET x == CHOOSE x \in s : TRUE IN f[x] + F[s \ {x}]]
             /\ SumFunction(f) = F[DOMAIN f]
  BY <1>2 DEF SumFunction, SumFunctionOnSet, FoldFunctionOnSet, MapThenFoldSet
<1>4. \E F : IsSum(F, f, DOMAIN f) /\ SumFunction(f) = F[DOMAIN f]
  BY <1>3 DEF IsSum, Some
<1> QED BY <1>4, SumIs

-----------------------------------------------------------------------------
(* The histogram of a bag.                                                     *)

IsSamples(b) ==
  /\ b = [v \in DOMAIN b |-> b[v]]
  /\ DOMAIN b \subseteq 0 .. highest_trackable_value
  /\ \A v \in DOMAIN b : b[v] \in Nat /\ b[v] > 0

InIndex(b, i) == {v \in DOMAIN b : counts_index_for(v) = i}

HistogramOf(b) ==
  [counts |-> [i \in {counts_index_for(v) : v \in DOMAIN b} |-> Sigma(b, InIndex(b, i))],
   total_count |-> Sigma(b, DOMAIN b)]

LEMMA SamplesCount ==
  ASSUME NEW b, IsSamples(b), NEW X \in SUBSET DOMAIN b
  PROVE  IsFiniteSet(X) /\ NatOn(b, X) /\ Sigma(b, X) \in Nat
<1>1. IsFiniteSet(0 .. highest_trackable_value)
  BY HighestIs, FS_Interval
<1>2. X \subseteq 0 .. highest_trackable_value
  BY DEF IsSamples
<1>3. IsFiniteSet(X)
  BY <1>1, <1>2, FS_Subset
<1>4. NatOn(b, X)
  BY DEF IsSamples, NatOn
<1> QED BY <1>3, <1>4, SigmaNat

LEMMA SigmaPart ==
  ASSUME NEW X, NEW D, NEW b, NEW f, \A x \in X : f[x] = IF x \in D THEN b[x] ELSE 0
  PROVE  Sigma(f, X) = Sigma(b, X \cap D)
<1>1. Pairs(f, X) = Pairs(b, X \cap D)
  BY DEF Pairs
<1> QED BY <1>1 DEF Sigma

LEMMA TogetherSamples ==
  ASSUME NEW a, IsSamples(a), NEW b, IsSamples(b)
  PROVE  /\ IsSamples(a (+) b)
         /\ DOMAIN (a (+) b) = DOMAIN a \cup DOMAIN b
         /\ \A X \in SUBSET (DOMAIN a \cup DOMAIN b) :
              Sigma(a (+) b, X) = Sigma(a, X \cap DOMAIN a) + Sigma(b, X \cap DOMAIN b)
<1> DEFINE In(s, v) == IF v \in DOMAIN s THEN s[v] ELSE 0
<1>1. DOMAIN (a (+) b) = DOMAIN a \cup DOMAIN b
  BY DEF (+)
<1>2. \A v \in DOMAIN a \cup DOMAIN b : (a (+) b)[v] = In(a, v) + In(b, v)
  BY DEF (+)
<1>3. \A v \in DOMAIN a \cup DOMAIN b :
        In(a, v) \in Nat /\ In(b, v) \in Nat /\ In(a, v) + In(b, v) > 0
  BY DEF IsSamples
<1>4. IsSamples(a (+) b)
  <2>1. a (+) b = [v \in DOMAIN (a (+) b) |-> (a (+) b)[v]]
    BY DEF (+)
  <2>2. DOMAIN a \cup DOMAIN b \subseteq 0 .. highest_trackable_value
    BY DEF IsSamples
  <2>3. \A v \in DOMAIN a \cup DOMAIN b : (a (+) b)[v] \in Nat /\ (a (+) b)[v] > 0
    <3> HIDE DEF In
    <3> QED BY <1>2, <1>3
  <2> QED BY <1>1, <2>1, <2>2, <2>3 DEF IsSamples
<1>5. ASSUME NEW X \in SUBSET (DOMAIN a \cup DOMAIN b)
      PROVE  Sigma(a (+) b, X) = Sigma(a, X \cap DOMAIN a) + Sigma(b, X \cap DOMAIN b)
  <2> DEFINE f == [x \in X |-> In(a, x)]
             g == [x \in X |-> In(b, x)]
  <2>1. IsFiniteSet(X)
    BY <1>1, <1>4, SamplesCount
  <2>2. NatOn(f, X) /\ NatOn(g, X)
    BY <1>3 DEF NatOn
  <2>3. \A x \in X : (a (+) b)[x] = f[x] + g[x]
    BY <1>2
  <2>4. Sigma(a (+) b, X) = Sigma(f, X) + Sigma(g, X)
    <3> HIDE DEF f, g
    <3> QED BY <2>1, <2>2, <2>3, SigmaAdd
  <2>5. Sigma(f, X) = Sigma(a, X \cap DOMAIN a)
    <3>1. \A x \in X : f[x] = IF x \in DOMAIN a THEN a[x] ELSE 0
      OBVIOUS
    <3> HIDE DEF f
    <3> QED BY <3>1, SigmaPart
  <2>6. Sigma(g, X) = Sigma(b, X \cap DOMAIN b)
    <3>1. \A x \in X : g[x] = IF x \in DOMAIN b THEN b[x] ELSE 0
      OBVIOUS
    <3> HIDE DEF g
    <3> QED BY <3>1, SigmaPart
  <2> QED BY <2>4, <2>5, <2>6
<1> QED BY <1>1, <1>4, <1>5

LEMMA ResetIsEmpty == hdr_reset = HistogramOf(EmptyBag) /\ IsSamples(EmptyBag)
<1>1. DOMAIN EmptyBag = {} /\ EmptyBag = [v \in {} |-> 1]
  BY DEF EmptyBag, SetToBag
<1>2. IsSamples(EmptyBag)
  BY <1>1 DEF IsSamples
<1>3. {counts_index_for(v) : v \in DOMAIN EmptyBag} = {}
  BY <1>1
<1>4. Sigma(EmptyBag, DOMAIN EmptyBag) = 0
  BY <1>1, SigmaEmpty
<1>5. [i \in {counts_index_for(v) : v \in DOMAIN EmptyBag} |->
         Sigma(EmptyBag, InIndex(EmptyBag, i))] = <<>>
  BY <1>3
<1> QED BY <1>2, <1>4, <1>5 DEF hdr_reset, HistogramOf

LEMMA IndexOf ==
  ASSUME Fits, NEW v \in 0 .. highest_trackable_value
  PROVE  counts_index_for(v) \in 0 .. counts_len - 1
<1>1. PICK b : b = get_bucket_index(v)
  OBVIOUS
<1>2. PICK s : s = get_sub_bucket_index(v, b)
  OBVIOUS
<1>3. IsPlace(b, s) /\ InSlot(v, b, s) /\ v \in Nat
  BY <1>1, <1>2, PlaceExists, HighestIs
<1>4. counts_index_for(v) = b * Pow[M] + s
  BY <1>3, SlotValues
<1> QED BY <1>3, <1>4, IndexRange

LEMMA RecordBag ==
  ASSUME NEW c, IsSamples(c), NEW d, IsSamples(d), DOMAIN d # {},
         NEW value, NEW i, i = counts_index_for(value), i \in 0 .. counts_len - 1,
         \A v \in DOMAIN d : counts_index_for(v) = i
  PROVE  hdr_record_values(HistogramOf(c), value, Sigma(d, DOMAIN d))
           = HistogramOf(c (+) d)
<1> DEFINE e == c (+) d
           n == Sigma(d, DOMAIN d)
           C == {counts_index_for(v) : v \in DOMAIN c}
<1>1. /\ IsSamples(e) /\ DOMAIN e = DOMAIN c \cup DOMAIN d
      /\ \A X \in SUBSET (DOMAIN c \cup DOMAIN d) :
           Sigma(e, X) = Sigma(c, X \cap DOMAIN c) + Sigma(d, X \cap DOMAIN d)
  BY TogetherSamples
<1> HIDE DEF e
<1>2. Sigma(e, DOMAIN e) = Sigma(c, DOMAIN c) + n
  <2>1. (DOMAIN c \cup DOMAIN d) \cap DOMAIN c = DOMAIN c
        /\ (DOMAIN c \cup DOMAIN d) \cap DOMAIN d = DOMAIN d
    OBVIOUS
  <2>2. Sigma(e, DOMAIN c \cup DOMAIN d)
          = Sigma(c, (DOMAIN c \cup DOMAIN d) \cap DOMAIN c)
              + Sigma(d, (DOMAIN c \cup DOMAIN d) \cap DOMAIN d)
    BY <1>1
  <2> QED BY <1>1, <2>1, <2>2, Zenon
<1>3. {counts_index_for(v) : v \in DOMAIN e} = C \cup {i}
  BY <1>1
<1>4. ASSUME NEW j \in C \cup {i}
      PROVE  Sigma(e, InIndex(e, j))
               = (IF j \in C THEN Sigma(c, InIndex(c, j)) ELSE 0) + (IF j = i THEN n ELSE 0)
  <2>1. InIndex(e, j) \cap DOMAIN c = InIndex(c, j)
        /\ InIndex(e, j) \cap DOMAIN d = InIndex(d, j)
        /\ InIndex(e, j) \in SUBSET (DOMAIN c \cup DOMAIN d)
    BY <1>1 DEF InIndex
  <2>2. Sigma(e, InIndex(e, j)) = Sigma(c, InIndex(c, j)) + Sigma(d, InIndex(d, j))
    <3>1. Sigma(e, InIndex(e, j))
            = Sigma(c, InIndex(e, j) \cap DOMAIN c) + Sigma(d, InIndex(e, j) \cap DOMAIN d)
      BY <1>1, <2>1
    <3> QED BY <2>1, <3>1, Zenon
  <2>3. Sigma(c, InIndex(c, j)) = IF j \in C THEN Sigma(c, InIndex(c, j)) ELSE 0
    <3>1. ASSUME j \notin C PROVE Sigma(c, InIndex(c, j)) = 0
      <4>1. InIndex(c, j) = {}
        BY <3>1 DEF InIndex
      <4> QED BY <4>1, SigmaEmpty
    <3> QED BY <3>1
  <2>4. Sigma(d, InIndex(d, j)) = IF j = i THEN n ELSE 0
    <3>1. CASE j = i
      <4>1. InIndex(d, j) = DOMAIN d
        BY <3>1 DEF InIndex
      <4> QED BY <3>1, <4>1, Zenon
    <3>2. CASE j # i
      <4>1. InIndex(d, j) = {}
        BY <3>2 DEF InIndex
      <4> QED BY <3>2, <4>1, SigmaEmpty
    <3> QED BY <3>1, <3>2
  <2> HIDE DEF n, C
  <2> QED BY <2>2, <2>3, <2>4, Zenon
<1>5. /\ DOMAIN HistogramOf(c).counts = C
      /\ \A j \in C : HistogramOf(c).counts[j] = Sigma(c, InIndex(c, j))
      /\ HistogramOf(c).total_count = Sigma(c, DOMAIN c)
  BY DEF HistogramOf
<1>6. hdr_record_values(HistogramOf(c), value, n)
        = [counts |-> [j \in C \cup {i} |->
                        (IF j \in C THEN Sigma(c, InIndex(c, j)) ELSE 0)
                          + (IF j = i THEN n ELSE 0)],
           total_count |-> Sigma(c, DOMAIN c) + n]
  <2> HIDE DEF n, C
  <2> QED BY <1>5 DEF hdr_record_values
<1>7. HistogramOf(e)
        = [counts |-> [j \in C \cup {i} |-> Sigma(e, InIndex(e, j))],
           total_count |-> Sigma(c, DOMAIN c) + n]
  BY <1>2, <1>3 DEF HistogramOf
<1>8. [j \in C \cup {i} |-> Sigma(e, InIndex(e, j))]
        = [j \in C \cup {i} |-> (IF j \in C THEN Sigma(c, InIndex(c, j)) ELSE 0)
                                  + (IF j = i THEN n ELSE 0)]
  <2> HIDE DEF n, C
  <2> QED BY <1>4
<1> QED BY <1>6, <1>7, <1>8, Zenon DEF e

LEMMA RecordOne ==
  ASSUME Fits, NEW c, IsSamples(c), NEW v \in 0 .. highest_trackable_value
  PROVE  /\ hdr_record_value(HistogramOf(c), v) = HistogramOf(c (+) SetToBag({v}))
         /\ IsSamples(c (+) SetToBag({v}))
<1> DEFINE d == SetToBag({v})
<1>1. DOMAIN d = {v} /\ d = [x \in {v} |-> 1] /\ d[v] = 1
  BY DEF SetToBag
<1> HIDE DEF d
<1>2. IsSamples(d)
  BY <1>1 DEF IsSamples
<1>3. Sigma(d, DOMAIN d) = 1
  <2>1. d[v] \in Nat
    BY <1>1
  <2>2. Sigma(d, {v}) = d[v]
    BY <2>1, OnePair
  <2> QED BY <1>1, <2>2
<1>4. PICK i : i = counts_index_for(v)
  OBVIOUS
<1>5. i \in 0 .. counts_len - 1
  BY <1>4, IndexOf
<1>6. \A x \in DOMAIN d : counts_index_for(x) = i
  BY <1>1, <1>4
<1>7. hdr_record_values(HistogramOf(c), v, Sigma(d, DOMAIN d)) = HistogramOf(c (+) d)
  BY <1>1, <1>2, <1>4, <1>5, <1>6, RecordBag
<1>8. hdr_record_value(HistogramOf(c), v) = HistogramOf(c (+) d)
  BY <1>3, <1>7, Zenon DEF hdr_record_value
<1>9. IsSamples(c (+) d)
  BY <1>2, TogetherSamples
<1> QED BY <1>8, <1>9 DEF d

LEMMA SlotsFinite == ASSUME Fits PROVE IsFiniteSet(Slots)
<1> DEFINE P == {q \in (0 .. bucket_count - 1) \X (0 .. sub_bucket_count - 1) :
                   q[1] = 0 \/ q[2] >= sub_bucket_half_count}
           F(p) == [index |-> counts_index(p[1], p[2]),
                    value_from_index |-> value_from_index(p[1], p[2]),
                    highest_equivalent_value
                      |-> highest_equivalent_value(value_from_index(p[1], p[2]))]
           f == [p \in P |-> F(p)]
<1>1. IsFiniteSet(0 .. bucket_count - 1) /\ IsFiniteSet(0 .. sub_bucket_count - 1)
  <2>1. bucket_count - 1 \in Int /\ sub_bucket_count - 1 \in Int
    BY BucketsFit, Counts
  <2> QED BY <2>1, FS_Interval
<1>2. IsFiniteSet((0 .. bucket_count - 1) \X (0 .. sub_bucket_count - 1))
  BY <1>1, FS_Product
<1>3. IsFiniteSet(P)
  <2>1. P \in SUBSET ((0 .. bucket_count - 1) \X (0 .. sub_bucket_count - 1))
    OBVIOUS
  <2> HIDE DEF P
  <2> QED BY <1>2, <2>1, FS_Subset
<1>4. Slots = {F(p) : p \in P}
  BY DEF Slots
<1>5. f \in Surjection(P, Slots)
  <2> HIDE DEF P, F
  <2> QED BY <1>4 DEF Surjection
<1> HIDE DEF f, P
<1> QED BY <1>3, <1>5, FS_Surjection

LEMMA SlotIsUnique ==
  ASSUME Fits, NEW s \in Slots, NEW t \in Slots, s.index = t.index
  PROVE  s = t
<1>1. PICK b, p : IsPlace(b, p) /\ s = Slot(b, p)
  BY SlotsAre
<1>2. PICK c, q : IsPlace(c, q) /\ t = Slot(c, q)
  BY SlotsAre
<1>3. b * Pow[M] + p = c * Pow[M] + q
  BY <1>1, <1>2 DEF Slot
<1>4. b = c /\ p = q
  BY <1>1, <1>2, <1>3, IndexUnique
<1> QED BY <1>1, <1>2, <1>4

LEMMA SlotStarts ==
  ASSUME Fits, NEW s \in Slots
  PROVE  /\ counts_index_for(s.value_from_index) = s.index
         /\ s.index \in 0 .. counts_len - 1
<1>1. PICK b, p : IsPlace(b, p) /\ s = Slot(b, p)
  BY SlotsAre
<1>2. s.value_from_index = p * Pow[b] /\ s.index = b * Pow[M] + p
  BY <1>1 DEF Slot
<1>3. PICK v \in Nat : v = p * Pow[b]
  BY <1>1, ValuesFit
<1>4. InSlot(v, b, p)
  BY <1>1, <1>3, ValuesFit DEF InSlot
<1>5. counts_index_for(v) = b * Pow[M] + p
  BY <1>1, <1>4, SlotValues
<1> QED BY <1>1, <1>2, <1>3, <1>5, IndexRange

LEMMA CountOfIs ==
  ASSUME NEW h, NEW X, IsFiniteSet(X), NEW g, NatOn(g, X),
         \A x \in X : g[x] = count_at_index(h, x)
  PROVE  CountOf(h, X) = Sigma(g, X)
<1>1. PICK G : IsSum(G, g, X)
  BY SumExists
<1>2. \A s \in SUBSET X :
        (IF s = {} THEN 0 ELSE g[Some(s)] + G[s \ {Some(s)}])
          = IF s = {} THEN 0 ELSE count_at_index(h, Some(s)) + G[s \ {Some(s)}]
  BY SomeIs
<1>3. G = [s \in SUBSET X |-> IF s = {} THEN 0
                              ELSE count_at_index(h, Some(s)) + G[s \ {Some(s)}]]
  BY <1>1, <1>2 DEF IsSum
<1>4. \E F : F = [s \in SUBSET X |->
                    IF s = {} THEN 0
                    ELSE LET x == CHOOSE x \in s : TRUE
                         IN count_at_index(h, x) + F[s \ {x}]]
  BY <1>3 DEF Some
<1>5. \E F : /\ F = [s \in SUBSET X |->
                      IF s = {} THEN 0
                      ELSE LET x == CHOOSE x \in s : TRUE
                           IN count_at_index(h, x) + F[s \ {x}]]
             /\ CountOf(h, X) = F[X]
  BY <1>4 DEF CountOf, MapThenSumSet, MapThenFoldSet
<1>6. \E F : /\ F = [s \in SUBSET X |->
                      IF s = {} THEN 0
                      ELSE count_at_index(h, Some(s)) + F[s \ {Some(s)}]]
             /\ CountOf(h, X) = F[X]
  BY <1>5 DEF Some
<1>7. PICK F : /\ F = [s \in SUBSET X |->
                        IF s = {} THEN 0
                        ELSE count_at_index(h, Some(s)) + F[s \ {Some(s)}]]
               /\ CountOf(h, X) = F[X]
  BY <1>6
<1>8. \A s \in SUBSET X :
        (IF s = {} THEN 0 ELSE g[Some(s)] + F[s \ {Some(s)}])
          = IF s = {} THEN 0 ELSE count_at_index(h, Some(s)) + F[s \ {Some(s)}]
  BY SomeIs
<1>9. IsSum(F, g, X)
  BY <1>7, <1>8 DEF IsSum
<1> QED BY <1>7, <1>9, SumIs

\* The samples whose slot is one of X.
InSlots(b, X) == {v \in DOMAIN b : \E s \in X : s.index = counts_index_for(v)}

LEMMA SlotCount ==
  ASSUME NEW b, NEW s
  PROVE  count_at_index(HistogramOf(b), s) = Sigma(b, InIndex(b, s.index))
<1> DEFINE C == {counts_index_for(v) : v \in DOMAIN b}
<1>1. /\ DOMAIN HistogramOf(b).counts = C
      /\ \A i \in C : HistogramOf(b).counts[i] = Sigma(b, InIndex(b, i))
  BY DEF HistogramOf
<1>2. ASSUME s.index \notin C PROVE Sigma(b, InIndex(b, s.index)) = 0
  <2>1. InIndex(b, s.index) = {}
    BY <1>2 DEF InIndex
  <2> QED BY <2>1, SigmaEmpty
<1> HIDE DEF C
<1> QED BY <1>1, <1>2 DEF count_at_index

LEMMA InSlotsOne ==
  ASSUME Fits, NEW b, NEW X \in SUBSET Slots, NEW x \in X
  PROVE  /\ InSlots(b, X) = InSlots(b, X \ {x}) \cup InIndex(b, x.index)
         /\ InSlots(b, X \ {x}) \cap InIndex(b, x.index) = {}
<1>1. \A s \in X : s.index = x.index => s = x
  BY SlotIsUnique
<1> QED BY <1>1 DEF InSlots, InIndex

LEMMA CountOfSlots ==
  ASSUME Fits, NEW b, IsSamples(b), NEW X \in SUBSET Slots
  PROVE  CountOf(HistogramOf(b), X) = Sigma(b, InSlots(b, X))
<1> DEFINE h == HistogramOf(b)
           g == [s \in Slots |-> Sigma(b, InIndex(b, s.index))]
           T == {Y \in SUBSET X : Sigma(g, Y) # Sigma(b, InSlots(b, Y))}
<1>1. IsFiniteSet(X)
  BY SlotsFinite, FS_Subset
<1>2. \A s \in Slots : InIndex(b, s.index) \in SUBSET DOMAIN b
  BY DEF InIndex
<1>3. NatOn(g, X)
  BY <1>2, SamplesCount DEF NatOn
<1>4. \A s \in X : g[s] = count_at_index(h, s)
  BY SlotCount
<1>5. CountOf(h, X) = Sigma(g, X)
  <2> HIDE DEF g, h
  <2> QED BY <1>1, <1>3, <1>4, CountOfIs
<1>6. T = {}
  <2> SUFFICES ASSUME T # {} PROVE FALSE
    OBVIOUS
  <2>1. PICK Y \in T : IsFiniteSet(Y) /\ \A s \in Y : Y \ {s} \notin T
    <3>1. T \in SUBSET SUBSET X
      OBVIOUS
    <3> HIDE DEF T
    <3> QED BY <1>1, <3>1, LeastSubset
  <2>2. Y \in SUBSET X
    OBVIOUS
  <2>3. Y # {}
    <3>1. InSlots(b, {}) = {}
      BY DEF InSlots
    <3>2. Sigma(g, {}) = 0 /\ Sigma(b, {}) = 0
      BY SigmaEmpty
    <3> QED BY <3>1, <3>2
  <2>4. PICK x \in Y : TRUE
    BY <2>3
  <2>5. Sigma(g, Y \ {x}) = Sigma(b, InSlots(b, Y \ {x}))
    BY <2>1, <2>2, <2>4
  <2>6. NatOn(g, Y)
    BY <1>3, <2>2 DEF NatOn
  <2>7. Sigma(g, Y) = g[x] + Sigma(g, Y \ {x})
    <3> HIDE DEF g
    <3> QED BY <2>1, <2>4, <2>6, SigmaRemove
  <2>8. g[x] = Sigma(b, InIndex(b, x.index))
    BY <2>2, <2>4
  <2>9. /\ InSlots(b, Y) = InSlots(b, Y \ {x}) \cup InIndex(b, x.index)
        /\ InSlots(b, Y \ {x}) \cap InIndex(b, x.index) = {}
    BY <2>2, <2>4, InSlotsOne
  <2>10. InSlots(b, Y \ {x}) \in SUBSET DOMAIN b /\ InIndex(b, x.index) \in SUBSET DOMAIN b
    BY DEF InSlots, InIndex
  <2>11. /\ IsFiniteSet(InSlots(b, Y \ {x})) /\ NatOn(b, InSlots(b, Y \ {x}))
         /\ IsFiniteSet(InIndex(b, x.index)) /\ NatOn(b, InIndex(b, x.index))
         /\ Sigma(b, InSlots(b, Y \ {x})) \in Nat /\ Sigma(b, InIndex(b, x.index)) \in Nat
    BY <2>10, SamplesCount
  <2>12. Sigma(b, InSlots(b, Y \ {x}) \cup InIndex(b, x.index))
           = Sigma(b, InSlots(b, Y \ {x})) + Sigma(b, InIndex(b, x.index))
    BY <2>9, <2>11, SigmaUnion
  <2>13. Sigma(b, InSlots(b, Y)) # Sigma(g, Y)
    OBVIOUS
  <2> HIDE DEF g, T
  <2>14. Sigma(b, InSlots(b, Y))
           = Sigma(b, InSlots(b, Y \ {x})) + Sigma(b, InIndex(b, x.index))
    BY <2>9, <2>12, Zenon
  <2> QED BY <2>5, <2>7, <2>8, <2>11, <2>13, <2>14
<1>7. Sigma(g, X) = Sigma(b, InSlots(b, X))
  <2>1. X \in SUBSET X
    OBVIOUS
  <2> HIDE DEF g
  <2> QED BY <1>6, <2>1
<1> QED BY <1>5, <1>7

LEMMA SlotOf ==
  ASSUME Fits, NEW v \in 0 .. highest_trackable_value
  PROVE  \E s \in Slots : s.index = counts_index_for(v)
BY IndexOf, Indices

\* An iterator that goes on as long as it has not seen all meets every slot that
\* counts for something.
LEMMA RecordedIsCounted ==
  ASSUME Fits, NEW b, IsSamples(b)
  PROVE  /\ Recorded(HistogramOf(b)) = Counted(HistogramOf(b))
         /\ Counted(HistogramOf(b)) \in SUBSET Slots
         /\ InSlots(b, Counted(HistogramOf(b))) = DOMAIN b
<1> DEFINE h == HistogramOf(b)
<1>1. h.total_count = Sigma(b, DOMAIN b)
  BY DEF HistogramOf
<1>2. \A s \in Slots : count_at_index(h, s) = Sigma(b, InIndex(b, s.index))
  BY SlotCount
<1> HIDE DEF h
<1>3. Counted(h) \in SUBSET Slots
  BY DEF Counted
<1>4. ASSUME NEW s \in Counted(h)
      PROVE  CountOf(h, UpTo(Counted(h), s) \ {s}) < h.total_count
  <2> DEFINE Y == UpTo(Counted(h), s) \ {s}
             D == DOMAIN b
  <2>1. Y \in SUBSET Slots /\ Y \cup {s} \in SUBSET Slots /\ s \notin Y /\ s \in Slots
    BY <1>3 DEF UpTo
  <2>2. Sigma(b, InIndex(b, s.index)) # 0
    BY <1>2, <1>4 DEF Counted
  <2>3. PICK v \in InIndex(b, s.index) : TRUE
    BY <2>2, SigmaEmpty
  <2>4. v \in D /\ counts_index_for(v) = s.index
    BY <2>3 DEF InIndex
  <2>5. v \notin InSlots(b, Y)
    BY <2>1, <2>4, SlotIsUnique DEF InSlots
  <2>6. InSlots(b, Y) \in SUBSET D
    BY DEF InSlots
  <2>7. CountOf(h, Y) = Sigma(b, InSlots(b, Y))
    <3> HIDE DEF Y
    <3> QED BY <2>1, CountOfSlots DEF h
  <2>8. IsFiniteSet(D) /\ NatOn(b, D) /\ Sigma(b, D) \in Nat
    BY SamplesCount
  <2>9. b[v] \in Nat /\ b[v] > 0
    BY <2>4 DEF IsSamples
  <2>10. /\ Sigma(b, InSlots(b, Y)) \in Nat
         /\ b[v] + Sigma(b, InSlots(b, Y)) <= Sigma(b, D)
    <3> HIDE DEF Y, D
    <3> QED BY <2>4, <2>5, <2>6, <2>8, SigmaLess
  <2> HIDE DEF Y
  <2> QED BY <1>1, <2>7, <2>8, <2>9, <2>10 DEF Y
<1>5. Recorded(h) = Counted(h)
  BY <1>4 DEF Recorded, Reaches
<1>6. ASSUME NEW v \in DOMAIN b PROVE v \in InSlots(b, Counted(h))
  <2>1. v \in 0 .. highest_trackable_value /\ b[v] \in Nat /\ b[v] > 0
    BY DEF IsSamples
  <2>2. PICK s \in Slots : s.index = counts_index_for(v)
    BY <2>1, SlotOf
  <2>3. InIndex(b, s.index) \in SUBSET DOMAIN b /\ v \in InIndex(b, s.index)
    BY <2>2 DEF InIndex
  <2>4. IsFiniteSet(InIndex(b, s.index)) /\ NatOn(b, InIndex(b, s.index))
    BY <2>3, SamplesCount
  <2>5. {} \in SUBSET InIndex(b, s.index) /\ v \in InIndex(b, s.index) \ {}
    BY <2>3
  <2>6. b[v] + Sigma(b, {}) <= Sigma(b, InIndex(b, s.index))
    BY <2>4, <2>5, SigmaLess
  <2>7. Sigma(b, InIndex(b, s.index)) # 0
    BY <2>1, <2>6, SigmaEmpty
  <2>8. s \in Counted(h)
    BY <1>2, <2>7 DEF Counted
  <2> QED BY <2>2, <2>8 DEF InSlots
<1>7. InSlots(b, Counted(h)) = DOMAIN b
  BY <1>6 DEF InSlots
<1> QED BY <1>3, <1>5, <1>7 DEF h

\* The samples of b in the slots of X.
Part(b, X) == [v \in InSlots(b, X) |-> b[v]]

LEMMA PartSamples ==
  ASSUME NEW b, IsSamples(b), NEW X
  PROVE  IsSamples(Part(b, X)) /\ DOMAIN Part(b, X) = InSlots(b, X)
<1>1. DOMAIN Part(b, X) = InSlots(b, X) /\ InSlots(b, X) \in SUBSET DOMAIN b
      /\ \A v \in InSlots(b, X) : Part(b, X)[v] = b[v]
  BY DEF Part, InSlots
<1>2. Part(b, X) = [v \in DOMAIN Part(b, X) |-> Part(b, X)[v]]
  BY DEF Part
<1> QED BY <1>1, <1>2 DEF IsSamples

LEMMA PartOne ==
  ASSUME Fits, NEW a, IsSamples(a), NEW b, IsSamples(b), NEW X \in SUBSET Slots, NEW x \in X
  PROVE  (a (+) Part(b, X \ {x})) (+) Part(b, {x}) = a (+) Part(b, X)
<1> DEFINE A == DOMAIN a
           Y == InSlots(b, X \ {x})
           Z == InSlots(b, {x})
           W == InSlots(b, X)
           p == Part(b, X \ {x})
           q == Part(b, {x})
           w == Part(b, X)
<1>1. W = Y \cup Z /\ Y \cap Z = {} /\ W \in SUBSET DOMAIN b
  <2>1. Z = InIndex(b, x.index)
    BY DEF InSlots, InIndex
  <2>2. W \in SUBSET DOMAIN b
    BY DEF InSlots
  <2>3. W = Y \cup InIndex(b, x.index) /\ Y \cap InIndex(b, x.index) = {}
    BY InSlotsOne
  <2> HIDE DEF W, Y, Z
  <2> QED BY <2>1, <2>2, <2>3, Zenon
<1>2. /\ DOMAIN p = Y /\ \A v \in Y : p[v] = b[v]
      /\ DOMAIN q = Z /\ \A v \in Z : q[v] = b[v]
      /\ DOMAIN w = W /\ \A v \in W : w[v] = b[v]
  BY DEF Part
<1> HIDE DEF Y, Z, W, p, q, w
<1>3. \A v \in A : a[v] \in Nat
  BY DEF IsSamples
<1>4. \A v \in W : b[v] \in Nat
  BY <1>1 DEF IsSamples
<1> DEFINE In(s, v) == IF v \in DOMAIN s THEN s[v] ELSE 0
<1>5. a (+) p = [v \in A \cup Y |-> In(a, v) + In(p, v)]
  BY <1>2 DEF (+)
<1>6. a (+) w = [v \in A \cup W |-> In(a, v) + In(w, v)]
  BY <1>2 DEF (+)
<1>7. (a (+) p) (+) q = [v \in (A \cup Y) \cup Z |-> In(a (+) p, v) + In(q, v)]
  BY <1>2, <1>5 DEF (+)
<1>8. ASSUME NEW v \in A \cup W
      PROVE  In(a (+) p, v) + In(q, v) = In(a, v) + In(w, v)
  <2>1. In(a (+) p, v) = IF v \in A \cup Y THEN In(a, v) + In(p, v) ELSE 0
    BY <1>5
  <2>2. In(a, v) \in Nat
    BY <1>3
  <2>3. In(w, v) = IF v \in W THEN b[v] ELSE 0
    BY <1>2
  <2>4. In(p, v) = IF v \in Y THEN b[v] ELSE 0
    BY <1>2
  <2>5. In(q, v) = IF v \in Z THEN b[v] ELSE 0
    BY <1>2
  <2>6. v \notin A => In(a, v) = 0
    OBVIOUS
  <2>7. PICK n \in Nat : n = In(a, v)
    BY <2>2
  <2>8. v \in W => b[v] \in Nat
    BY <1>4
  <2> HIDE DEF In
  <2>9. CASE v \in Y
    BY <1>1, <2>1, <2>3, <2>4, <2>5, <2>7, <2>8, <2>9
  <2>10. CASE v \in Z
    <3>1. v \notin Y /\ v \in W /\ b[v] \in Nat
      BY <1>1, <2>8, <2>10
    <3>2. In(w, v) = b[v] /\ In(p, v) = 0 /\ In(q, v) = b[v]
      BY <2>3, <2>4, <2>5, <2>10, <3>1
    <3>3. In(a (+) p, v) = n
      BY <2>1, <2>6, <2>7, <3>1, <3>2
    <3> QED BY <2>7, <3>2, <3>3
  <2>11. CASE v \notin Y /\ v \notin Z
    <3>1. v \in A /\ v \notin W
      BY <1>1, <2>11
    <3>2. In(w, v) = 0 /\ In(p, v) = 0 /\ In(q, v) = 0
      BY <2>3, <2>4, <2>5, <2>11, <3>1
    <3>3. In(a (+) p, v) = n
      BY <2>1, <2>7, <3>1, <3>2
    <3> QED BY <2>7, <3>2, <3>3
  <2> QED BY <2>9, <2>10, <2>11
<1>9. (A \cup Y) \cup Z = A \cup W
  BY <1>1
<1> HIDE DEF In
<1>10. (a (+) p) (+) q = a (+) w
  BY <1>6, <1>7, <1>8, <1>9
<1> QED BY <1>10 DEF p, q, w

LEMMA PartNone ==
  ASSUME NEW a, IsSamples(a), NEW b, NEW X, InSlots(b, X) = {}
  PROVE  a (+) Part(b, X) = a
<1>1. DOMAIN Part(b, X) = {}
  BY DEF Part
<1>2. \A v \in DOMAIN a : a[v] \in Nat
  BY DEF IsSamples
<1>3. a (+) Part(b, X) = [v \in DOMAIN a |-> a[v] + 0]
  BY <1>1 DEF (+)
<1>4. a = [v \in DOMAIN a |-> a[v]]
  BY DEF IsSamples
<1> QED BY <1>2, <1>3, <1>4

LEMMA PartAll ==
  ASSUME NEW b, IsSamples(b), NEW X, InSlots(b, X) = DOMAIN b
  PROVE  Part(b, X) = b
BY DEF Part, IsSamples

IsAdding(F, h, from, X) ==
  F = [s \in SUBSET X |->
         IF s = {} THEN h
         ELSE hdr_record_values(F[s \ {Some(s)}], Some(s).value_from_index,
                                count_at_index(from, Some(s)))]

\* hdr_add as a fold over what was counted.
LEMMA AddIs ==
  ASSUME NEW h, NEW from, NEW X, IsFiniteSet(X), X = Recorded(from),
         NEW F, IsAdding(F, h, from, X)
  PROVE  hdr_add(h, from) = F[X]
<1>1. \E G : G = [s \in SUBSET X |->
                    IF s = {} THEN h
                    ELSE LET x == CHOOSE x \in s : TRUE
                         IN hdr_record_values(G[s \ {x}], x.value_from_index,
                                              count_at_index(from, x))]
  <2>1. F = [s \in SUBSET X |->
               IF s = {} THEN h
               ELSE LET x == CHOOSE x \in s : TRUE
                    IN hdr_record_values(F[s \ {x}], x.value_from_index,
                                         count_at_index(from, x))]
    BY DEF IsAdding, Some
  <2> QED BY <2>1
<1>2. \E G : /\ G = [s \in SUBSET X |->
                       IF s = {} THEN h
                       ELSE LET x == CHOOSE x \in s : TRUE
                            IN hdr_record_values(G[s \ {x}], x.value_from_index,
                                                 count_at_index(from, x))]
             /\ hdr_add(h, from) = G[X]
  <2>1. hdr_add(h, from) =
          (CHOOSE G : G = [s \in SUBSET X |->
                            IF s = {} THEN h
                            ELSE LET x == CHOOSE x \in s : TRUE
                                 IN hdr_record_values(G[s \ {x}], x.value_from_index,
                                                      count_at_index(from, x))])[X]
    BY DEF hdr_add, FoldSet, MapThenFoldSet
  <2> QED BY <1>1, <2>1
<1>3. PICK G : IsAdding(G, h, from, X) /\ hdr_add(h, from) = G[X]
  BY <1>2 DEF IsAdding, Some
<1>4. F[{}] = G[{}]
  BY <1>3 DEF IsAdding
<1>5. \A s \in SUBSET X : s # {} /\ F[s \ {Some(s)}] = G[s \ {Some(s)}] => F[s] = G[s]
  <2> SUFFICES ASSUME NEW s \in SUBSET X, s # {}, F[s \ {Some(s)}] = G[s \ {Some(s)}]
               PROVE  F[s] = G[s]
    OBVIOUS
  <2>1. F[s] = hdr_record_values(F[s \ {Some(s)}], Some(s).value_from_index,
                                 count_at_index(from, Some(s)))
    BY DEF IsAdding
  <2>2. G[s] = hdr_record_values(G[s \ {Some(s)}], Some(s).value_from_index,
                                 count_at_index(from, Some(s)))
    BY <1>3 DEF IsAdding
  <2> QED BY <2>1, <2>2, Zenon
<1>6. F[X] = G[X]
  BY <1>4, <1>5, Agree
<1> QED BY <1>3, <1>6

LEMMA AddHistograms ==
  ASSUME Fits, NEW a, IsSamples(a), NEW b, IsSamples(b)
  PROVE  hdr_add(HistogramOf(a), HistogramOf(b)) = HistogramOf(a (+) b)
<1> DEFINE from == HistogramOf(b)
           X == Counted(from)
           F == [s \in SUBSET X |-> HistogramOf(a (+) Part(b, s))]
<1>1. Recorded(from) = X /\ X \in SUBSET Slots /\ InSlots(b, X) = DOMAIN b
  BY RecordedIsCounted
<1>2. IsFiniteSet(X)
  BY <1>1, SlotsFinite, FS_Subset
<1>3. ASSUME NEW s \in SUBSET X
      PROVE  F[s] = IF s = {} THEN HistogramOf(a)
                    ELSE hdr_record_values(F[s \ {Some(s)}], Some(s).value_from_index,
                                           count_at_index(from, Some(s)))
  <2>1. CASE s = {}
    <3>1. InSlots(b, s) = {}
      BY <2>1 DEF InSlots
    <3>2. a (+) Part(b, s) = a
      BY <3>1, PartNone
    <3> QED BY <2>1, <3>2
  <2>2. CASE s # {}
    <3>1. PICK x : x = Some(s)
      OBVIOUS
    <3>2. x \in s /\ x \in Slots /\ x \in X /\ s \in SUBSET Slots /\ s \ {x} \in SUBSET X
      BY <1>1, <2>2, <3>1, SomeIs
    <3> DEFINE c == a (+) Part(b, s \ {x})
               d == Part(b, {x})
    <3>3. IsSamples(c) /\ IsSamples(d)
      BY PartSamples, TogetherSamples
    <3>4. DOMAIN d = InIndex(b, x.index)
      <4>1. DOMAIN d = InSlots(b, {x})
        BY PartSamples
      <4>2. InSlots(b, {x}) = InIndex(b, x.index)
        BY DEF InSlots, InIndex
      <4> QED BY <4>1, <4>2, Zenon
    <3>5. count_at_index(from, x) = Sigma(b, InIndex(b, x.index))
      BY SlotCount
    <3>6. Sigma(d, DOMAIN d) = Sigma(b, InIndex(b, x.index))
      <4>1. \A v \in DOMAIN d : d[v] = b[v]
        BY DEF Part
      <4> HIDE DEF d
      <4>2. Sigma(d, DOMAIN d) = Sigma(b, DOMAIN d)
        BY <4>1, SigmaSame
      <4> QED BY <3>4, <4>2
    <3>7. DOMAIN d # {}
      <4>1. count_at_index(from, x) # 0
        BY <3>2 DEF Counted
      <4>2. Sigma(b, InIndex(b, x.index)) # 0
        BY <3>5, <4>1
      <4> HIDE DEF d
      <4> QED BY <3>4, <4>2, SigmaEmpty
    <3>8. \A v \in DOMAIN d : counts_index_for(v) = x.index
      BY <3>4 DEF InIndex
    <3>9. counts_index_for(x.value_from_index) = x.index /\ x.index \in 0 .. counts_len - 1
      BY <3>2, SlotStarts
    <3>10. hdr_record_values(HistogramOf(c), x.value_from_index, Sigma(d, DOMAIN d))
             = HistogramOf(c (+) d)
      <4> HIDE DEF c, d
      <4> QED BY <3>3, <3>7, <3>8, <3>9, RecordBag
    <3>11. c (+) d = a (+) Part(b, s)
      BY <3>2, PartOne
    <3>12. F[s] = HistogramOf(a (+) Part(b, s)) /\ F[s \ {x}] = HistogramOf(c)
      BY <3>2
    <3> HIDE DEF c, d, F, X, from
    <3>13. F[s] = hdr_record_values(F[s \ {x}], x.value_from_index, count_at_index(from, x))
      BY <3>5, <3>6, <3>10, <3>11, <3>12, Zenon
    <3> QED BY <2>2, <3>1, <3>13
  <2> QED BY <2>1, <2>2
<1>4. F = [s \in SUBSET X |-> F[s]]
  OBVIOUS
<1>5. F[X] = HistogramOf(a (+) b)
  <2>1. F[X] = HistogramOf(a (+) Part(b, X))
    OBVIOUS
  <2>2. Part(b, X) = b
    BY <1>1, PartAll
  <2> HIDE DEF F, X
  <2> QED BY <2>1, <2>2, Zenon
<1> HIDE DEF F, X, from
<1>6. IsAdding(F, HistogramOf(a), from, X)
  BY <1>3, <1>4 DEF IsAdding
<1>7. hdr_add(HistogramOf(a), from) = F[X]
  BY <1>1, <1>2, <1>6, AddIs
<1> QED BY <1>5, <1>7 DEF from

LEMMA Commutes ==
  ASSUME NEW a, IsSamples(a), NEW b, IsSamples(b)
  PROVE  a (+) b = b (+) a
<1> DEFINE In(s, v) == IF v \in DOMAIN s THEN s[v] ELSE 0
<1>1. /\ a (+) b = [v \in DOMAIN a \cup DOMAIN b |-> In(a, v) + In(b, v)]
      /\ b (+) a = [v \in DOMAIN b \cup DOMAIN a |-> In(b, v) + In(a, v)]
  BY DEF (+)
<1>2. \A v : In(a, v) \in Nat /\ In(b, v) \in Nat
  BY DEF IsSamples
<1> HIDE DEF In
<1>3. \A v : In(a, v) + In(b, v) = In(b, v) + In(a, v)
  BY <1>2
<1>4. DOMAIN a \cup DOMAIN b = DOMAIN b \cup DOMAIN a
  OBVIOUS
<1> QED BY <1>1, <1>3, <1>4, Zenon

LEMMA SigmaZero ==
  ASSUME NEW g, NEW X, \A x \in X : g[x] = 0
  PROVE  Sigma(g, X) = 0
<1>1. Pairs(g, X) = {}
  BY DEF Pairs
<1> QED BY <1>1, FS_EmptySet DEF Sigma

-----------------------------------------------------------------------------
(* The bags of several threads as one.                                         *)

HowMany(B, v) == [t \in DOMAIN B |-> IF v \in DOMAIN B[t] THEN B[t][v] ELSE 0]
Values(B, T) == UNION {DOMAIN B[t] : t \in T}
Together(B, T) == [v \in Values(B, T) |-> Sigma(HowMany(B, v), T)]

LEMMA HowManyCounts ==
  ASSUME NEW B, \A t \in DOMAIN B : IsSamples(B[t]), IsFiniteSet(DOMAIN B),
         NEW T \in SUBSET DOMAIN B, NEW v
  PROVE  IsFiniteSet(T) /\ NatOn(HowMany(B, v), T) /\ Sigma(HowMany(B, v), T) \in Nat
<1>1. IsFiniteSet(T)
  BY FS_Subset
<1>2. NatOn(HowMany(B, v), T)
  BY DEF NatOn, HowMany, IsSamples
<1> QED BY <1>1, <1>2, SigmaNat

LEMMA TogetherIsSamples ==
  ASSUME NEW B, \A t \in DOMAIN B : IsSamples(B[t]), IsFiniteSet(DOMAIN B),
         NEW T \in SUBSET DOMAIN B
  PROVE  IsSamples(Together(B, T))
<1>1. DOMAIN Together(B, T) = Values(B, T)
      /\ \A v \in Values(B, T) : Together(B, T)[v] = Sigma(HowMany(B, v), T)
  BY DEF Together
<1>2. Together(B, T) = [v \in DOMAIN Together(B, T) |-> Together(B, T)[v]]
  BY DEF Together
<1>3. Values(B, T) \subseteq 0 .. highest_trackable_value
  BY DEF Values, IsSamples
<1>4. ASSUME NEW v \in Values(B, T)
      PROVE  Sigma(HowMany(B, v), T) \in Nat /\ Sigma(HowMany(B, v), T) > 0
  <2>1. PICK t \in T : v \in DOMAIN B[t]
    BY <1>4 DEF Values
  <2>2. B[t][v] \in Nat /\ B[t][v] > 0 /\ HowMany(B, v)[t] = B[t][v]
    BY <2>1 DEF IsSamples, HowMany
  <2>3. IsFiniteSet(T) /\ NatOn(HowMany(B, v), T) /\ Sigma(HowMany(B, v), T) \in Nat
    BY HowManyCounts
  <2>4. {} \in SUBSET T /\ t \in T \ {}
    OBVIOUS
  <2>5. HowMany(B, v)[t] + Sigma(HowMany(B, v), {}) <= Sigma(HowMany(B, v), T)
    BY <2>3, <2>4, SigmaLess
  <2> QED BY <2>2, <2>3, <2>5, SigmaEmpty
<1> QED BY <1>1, <1>2, <1>3, <1>4 DEF IsSamples

LEMMA TogetherNone == ASSUME NEW B PROVE Together(B, {}) = EmptyBag
<1>1. Values(B, {}) = {}
  BY DEF Values
<1>2. Together(B, {}) = [v \in {} |-> Sigma(HowMany(B, v), {})]
  BY <1>1 DEF Together
<1>3. EmptyBag = [v \in {} |-> 1]
  BY DEF EmptyBag, SetToBag
<1> QED BY <1>2, <1>3

LEMMA TogetherOne ==
  ASSUME NEW B, \A t \in DOMAIN B : IsSamples(B[t]), IsFiniteSet(DOMAIN B),
         NEW T \in SUBSET DOMAIN B, NEW t \in T
  PROVE  Together(B, T) = B[t] (+) Together(B, T \ {t})
<1> DEFINE D == DOMAIN B[t]
           V == Values(B, T \ {t})
           In(s, v) == IF v \in DOMAIN s THEN s[v] ELSE 0
           R == Together(B, T \ {t})
<1>1. Values(B, T) = D \cup V
  BY DEF Values
<1>2. DOMAIN R = V /\ \A v \in V : R[v] = Sigma(HowMany(B, v), T \ {t})
  BY DEF Together
<1> HIDE DEF R
<1>3. B[t] (+) R = [v \in D \cup V |-> In(B[t], v) + In(R, v)]
  BY <1>2 DEF (+)
<1>4. ASSUME NEW v PROVE Sigma(HowMany(B, v), T) = In(B[t], v) + In(R, v)
  <2>1. IsFiniteSet(T) /\ NatOn(HowMany(B, v), T)
    BY HowManyCounts
  <2>2. Sigma(HowMany(B, v), T) = HowMany(B, v)[t] + Sigma(HowMany(B, v), T \ {t})
    BY <2>1, SigmaRemove
  <2>3. HowMany(B, v)[t] = In(B[t], v)
    BY DEF HowMany
  <2>4. Sigma(HowMany(B, v), T \ {t}) = In(R, v)
    <3>1. CASE v \in V
      BY <1>2, <3>1
    <3>2. CASE v \notin V
      <4>1. \A x \in T \ {t} : HowMany(B, v)[x] = 0
        BY <3>2 DEF HowMany, Values
      <4>2. Sigma(HowMany(B, v), T \ {t}) = 0
        BY <4>1, SigmaZero
      <4> QED BY <1>2, <3>2, <4>2
    <3> QED BY <3>1, <3>2
  <2> HIDE DEF In
  <2> QED BY <2>2, <2>3, <2>4, Zenon
<1> HIDE DEF In, V, D
<1>5. Together(B, T) = [v \in D \cup V |-> In(B[t], v) + In(R, v)]
  BY <1>1, <1>4 DEF Together
<1> QED BY <1>3, <1>5 DEF R

KindOf(kind) == [t \in DOMAIN samples |-> samples[t][kind]]

IsAll(F, kind) ==
  F = [s \in SUBSET DOMAIN samples |->
         IF s = {} THEN EmptyBag ELSE samples[Some(s)][kind] (+) F[s \ {Some(s)}]]

LEMMA AllSamplesAre ==
  ASSUME NEW kind, IsFiniteSet(DOMAIN samples),
         \A t \in DOMAIN samples : IsSamples(samples[t][kind])
  PROVE  AllSamples(kind) = Together(KindOf(kind), DOMAIN samples)
<1> DEFINE X == DOMAIN samples
           B == KindOf(kind)
           G == [s \in SUBSET X |-> Together(B, s)]
<1>1. DOMAIN B = X /\ \A t \in X : B[t] = samples[t][kind]
  BY DEF KindOf
<1> HIDE DEF B
<1>2. ASSUME NEW s \in SUBSET X
      PROVE  G[s] = IF s = {} THEN EmptyBag
                    ELSE samples[Some(s)][kind] (+) G[s \ {Some(s)}]
  <2>1. CASE s = {}
    BY <2>1, TogetherNone
  <2>2. CASE s # {}
    <3>1. PICK x \in s : x = Some(s)
      BY <2>2, SomeIs
    <3>2. G[s] = Together(B, s) /\ G[s \ {x}] = Together(B, s \ {x})
      OBVIOUS
    <3>3. Together(B, s) = B[x] (+) Together(B, s \ {x})
      BY <1>1, TogetherOne
    <3>4. B[x] = samples[x][kind]
      BY <1>1
    <3> HIDE DEF G
    <3>5. G[s] = samples[x][kind] (+) G[s \ {x}]
      BY <3>2, <3>3, <3>4, Zenon
    <3> QED BY <2>2, <3>1, <3>5
  <2> QED BY <2>1, <2>2
<1>3. G = [s \in SUBSET X |-> G[s]] /\ G[X] = Together(B, X)
  OBVIOUS
<1> HIDE DEF G
<1>4. IsAll(G, kind)
  BY <1>2, <1>3 DEF IsAll
<1>5. \E F : F = [s \in SUBSET DOMAIN samples |->
                    IF s = {} THEN EmptyBag
                    ELSE LET x == CHOOSE x \in s : TRUE
                         IN samples[x][kind] (+) F[s \ {x}]]
  BY <1>4 DEF IsAll, Some
<1>6. \E F : /\ F = [s \in SUBSET DOMAIN samples |->
                       IF s = {} THEN EmptyBag
                       ELSE LET x == CHOOSE x \in s : TRUE
                            IN samples[x][kind] (+) F[s \ {x}]]
             /\ AllSamples(kind) = F[DOMAIN samples]
  BY <1>5 DEF AllSamples, FoldFunction, FoldFunctionOnSet, MapThenFoldSet
<1>7. PICK F : IsAll(F, kind) /\ AllSamples(kind) = F[X]
  BY <1>6 DEF IsAll, Some
<1>8. F[{}] = G[{}]
  BY <1>4, <1>7 DEF IsAll
<1>9. ASSUME NEW s \in SUBSET X, s # {}, F[s \ {Some(s)}] = G[s \ {Some(s)}]
      PROVE  F[s] = G[s]
  <2>1. F[s] = samples[Some(s)][kind] (+) F[s \ {Some(s)}]
    BY <1>7, <1>9 DEF IsAll
  <2>2. G[s] = samples[Some(s)][kind] (+) G[s \ {Some(s)}]
    BY <1>4, <1>9 DEF IsAll
  <2> QED BY <1>9, <2>1, <2>2, Zenon
<1>10. F[X] = G[X]
  BY <1>8, <1>9, Agree
<1> QED BY <1>3, <1>7, <1>10 DEF B

LEMMA HistogramHolds ==
  ASSUME Fits, NEW b, IsSamples(b)
  PROVE  Holds(HistogramOf(b), b)
<1>1. HistogramOf(b).total_count = SumFunction(b)
  <2>1. IsFiniteSet(DOMAIN b) /\ NatOn(b, DOMAIN b)
    BY SamplesCount
  <2>2. SumFunction(b) = Sigma(b, DOMAIN b)
    BY <2>1, SumOfFunction
  <2> QED BY <2>2 DEF HistogramOf
<1>2. ASSUME NEW v \in DOMAIN b
      PROVE  \E s \in Slots :
               /\ v \in s.value_from_index .. s.highest_equivalent_value
               /\ count_at_index(HistogramOf(b), s)
                    = MapThenSumSet(LAMBDA w : b[w],
                        DOMAIN b \cap s.value_from_index .. s.highest_equivalent_value)
  <2>1. \A w \in DOMAIN b : w \in 0 .. highest_trackable_value
    BY DEF IsSamples
  <2>2. PICK s \in Slots : s.index = counts_index_for(v)
    BY <2>1, SlotOf
  <2>3. ASSUME NEW w \in DOMAIN b
        PROVE  counts_index_for(w) = s.index
                 <=> w \in s.value_from_index .. s.highest_equivalent_value
    <3>1. {x \in Slots : x.index = counts_index_for(w)}
            = {x \in Slots : w \in x.value_from_index .. x.highest_equivalent_value}
      BY <2>1, SlotOfValue
    <3> QED BY <3>1
  <2>4. DOMAIN b \cap s.value_from_index .. s.highest_equivalent_value = InIndex(b, s.index)
    BY <2>3 DEF InIndex
  <2>5. InIndex(b, s.index) \in SUBSET DOMAIN b
    BY DEF InIndex
  <2>6. MapThenSumSet(LAMBDA w : b[w], InIndex(b, s.index)) = Sigma(b, InIndex(b, s.index))
    BY <2>5, SamplesCount, MapThenSum
  <2>7. count_at_index(HistogramOf(b), s)
          = MapThenSumSet(LAMBDA w : b[w],
              DOMAIN b \cap s.value_from_index .. s.highest_equivalent_value)
    BY <2>4, <2>6, SlotCount
  <2>8. v \in s.value_from_index .. s.highest_equivalent_value
    BY <2>2, <2>3
  <2> QED BY <2>7, <2>8
<1> QED BY <1>1, <1>2 DEF Holds, BagToSet

-----------------------------------------------------------------------------
(* What the histograms hold.                                                   *)

\* Sums over the threads.
LEMMA ThreadSums ==
  ASSUME NEW f \in [Threads -> Nat]
  PROVE  /\ IsFiniteSet(Threads) /\ NatOn(f, Threads)
         /\ SumFunction(f) = Sigma(f, Threads) /\ Sigma(f, Threads) \in Nat
         /\ \A t \in Threads :
              /\ f[t] <= Sigma(f, Threads)
              /\ Sigma([f EXCEPT ![t] = @ + 1], Threads) = Sigma(f, Threads) + 1
<1>1. IsFiniteSet(Threads) /\ NatOn(f, Threads) /\ DOMAIN f = Threads
  <2>1. threads \in Int
    BY RunAssumption
  <2>2. IsFiniteSet(1 .. threads)
    BY <2>1, FS_Interval
  <2> QED BY <2>2 DEF Threads, NatOn
<1>2. SumFunction(f) = Sigma(f, Threads) /\ Sigma(f, Threads) \in Nat
  BY <1>1, SumOfFunction, SigmaNat
<1>3. ASSUME NEW t \in Threads
      PROVE  /\ f[t] <= Sigma(f, Threads)
             /\ Sigma([f EXCEPT ![t] = @ + 1], Threads) = Sigma(f, Threads) + 1
  <2> DEFINE g == [f EXCEPT ![t] = @ + 1]
             R == Threads \ {t}
  <2>1. IsFiniteSet(R) /\ NatOn(f, R)
    BY <1>1, FS_RemoveElement DEF NatOn
  <2>2. NatOn(g, Threads) /\ g[t] = f[t] + 1 /\ \A u \in R : g[u] = f[u]
    BY DEF NatOn
  <2> HIDE DEF g
  <2>3. Sigma(g, Threads) = g[t] + Sigma(g, R)
    BY <1>1, <2>2, SigmaRemove
  <2>4. Sigma(f, Threads) = f[t] + Sigma(f, R)
    BY <1>1, SigmaRemove
  <2>5. Sigma(g, R) = Sigma(f, R)
    <3> HIDE DEF R
    <3> QED BY <2>2, SigmaSame
  <2>6. Sigma(f, R) \in Nat /\ f[t] \in Nat
    BY <2>1, SigmaNat
  <2>7. f[t] <= Sigma(f, Threads)
    BY <2>4, <2>6
  <2>8. Sigma(g, Threads) = Sigma(f, Threads) + 1
    BY <2>2, <2>3, <2>4, <2>5, <2>6
  <2> QED BY <2>7, <2>8 DEF g
<1> QED BY <1>1, <1>2, <1>3

\* The histograms of the latencies are those of the samples.
LatenciesKept ==
  /\ DOMAIN samples = Threads
  /\ DOMAIN latency_histogram = Threads /\ DOMAIN u_latency_histogram = Threads
  /\ \A t \in Threads :
       /\ IsSamples(samples[t].latency) /\ IsSamples(samples[t].u_latency)
       /\ latency_histogram[t] = HistogramOf(samples[t].latency)
       /\ u_latency_histogram[t] = HistogramOf(samples[t].u_latency)

\* The rates that can be, at most those of all requests in the shortest interval,
\* are in the range of the histogram.
RatesFit == \A e \in Elapsed : (MaxRequests * 1000) \div e <= highest_trackable_value

RatesKept ==
  /\ IsSamples(rates) /\ statistics.histogram = HistogramOf(rates)
  /\ \A t \in Threads : local[t].rate <= highest_trackable_value
  /\ Sigma(complete, Threads) <= MaxRequests

LEMMA InitKept == Init => LatenciesKept /\ RatesKept
<1> SUFFICES ASSUME Init PROVE LatenciesKept /\ RatesKept
  OBVIOUS
<1>1. LatenciesKept
  BY ResetIsEmpty DEF Init, LatenciesKept, Each, NoSamples
<1>2. IsSamples(rates) /\ statistics.histogram = HistogramOf(rates)
  BY ResetIsEmpty DEF Init, stats_alloc
<1>3. \A t \in Threads : local[t].rate <= highest_trackable_value
  BY HighestIs DEF Init, Each, NoLocal
<1>4. Sigma(complete, Threads) <= MaxRequests
  <2>1. \A t \in Threads : complete[t] = 0
    BY DEF Init, Each
  <2>2. Sigma(complete, Threads) = 0
    BY <2>1, SigmaZero
  <2> QED BY <2>2, RunAssumption
<1> QED BY <1>1, <1>2, <1>3, <1>4 DEF RatesKept

LEMMA LatenciesStep ==
  ASSUME Fits, Inv, LatenciesKept, [Next]_vars
  PROVE  LatenciesKept'
<1>1. ASSUME UNCHANGED <<latency_histogram, u_latency_histogram, samples>>
      PROVE  LatenciesKept'
  BY <1>1 DEF LatenciesKept
<1>2. CASE UNCHANGED vars
  BY <1>1, <1>2 DEF vars, threadVars
<1>3. CASE Main \/ CreateFails \/ handler \/ Expire \/ Terminated
  BY <1>1, <1>3 DEF Main, script_init, sigaction, CreateFails, handler, Expire,
     pthread_create, pthread_join, AddUp, Terminated, threadVars, vars
<1>4. ASSUME NEW t \in Threads, stats_request_completed(t)
      PROVE  LatenciesKept'
  <2>1. CASE UNCHANGED <<latency_histogram, u_latency_histogram, samples>>
    BY <1>1, <2>1
  <2>2. CASE \E l \in Latencies :
               /\ latency_histogram' =
                    [latency_histogram EXCEPT ![t] = hdr_record_value(@, l[1])]
               /\ u_latency_histogram' =
                    [u_latency_histogram EXCEPT ![t] = hdr_record_value(@, l[2])]
               /\ samples' =
                    [samples EXCEPT ![t] = [latency |-> @.latency (+) SetToBag({l[1]}),
                                            u_latency |-> @.u_latency (+) SetToBag({l[2]})]]
    <3>1. PICK l \in Latencies :
               /\ latency_histogram' =
                    [latency_histogram EXCEPT ![t] = hdr_record_value(@, l[1])]
               /\ u_latency_histogram' =
                    [u_latency_histogram EXCEPT ![t] = hdr_record_value(@, l[2])]
               /\ samples' =
                    [samples EXCEPT ![t] = [latency |-> @.latency (+) SetToBag({l[1]}),
                                            u_latency |-> @.u_latency (+) SetToBag({l[2]})]]
      BY <2>2
    <3>2. l[1] \in 0 .. highest_trackable_value /\ l[2] \in 0 .. highest_trackable_value
      <4>1. ASSUME NEW S, l \in Seq(S), Len(l) = 2 PROVE l[1] \in S /\ l[2] \in S
        BY <4>1
      <4>2. l \in Seq(0 .. highest_trackable_value) /\ Len(l) = 2
        BY RunAssumption
      <4> QED BY <4>1, <4>2
    <3>3. PICK a, b : /\ a = samples[t].latency /\ b = samples[t].u_latency
                      /\ IsSamples(a) /\ IsSamples(b)
                      /\ latency_histogram[t] = HistogramOf(a)
                      /\ u_latency_histogram[t] = HistogramOf(b)
      BY DEF LatenciesKept
    <3>4. /\ hdr_record_value(HistogramOf(a), l[1]) = HistogramOf(a (+) SetToBag({l[1]}))
          /\ IsSamples(a (+) SetToBag({l[1]}))
          /\ hdr_record_value(HistogramOf(b), l[2]) = HistogramOf(b (+) SetToBag({l[2]}))
          /\ IsSamples(b (+) SetToBag({l[2]}))
      BY <3>2, <3>3, RecordOne
    <3>5. /\ DOMAIN samples' = Threads
          /\ DOMAIN latency_histogram' = Threads /\ DOMAIN u_latency_histogram' = Threads
          /\ samples'[t] = [latency |-> a (+) SetToBag({l[1]}),
                            u_latency |-> b (+) SetToBag({l[2]})]
          /\ latency_histogram'[t] = HistogramOf(a (+) SetToBag({l[1]}))
          /\ u_latency_histogram'[t] = HistogramOf(b (+) SetToBag({l[2]}))
      BY <3>1, <3>3, <3>4 DEF LatenciesKept
    <3>6. \A u \in Threads \ {t} :
            /\ samples'[u] = samples[u]
            /\ latency_histogram'[u] = latency_histogram[u]
            /\ u_latency_histogram'[u] = u_latency_histogram[u]
      BY <3>1 DEF LatenciesKept
    <3> QED BY <3>4, <3>5, <3>6 DEF LatenciesKept
  <2> QED BY <1>4, <2>1, <2>2 DEF stats_request_completed
<1>5. ASSUME NEW t \in Threads, calibrate(t) PROVE LatenciesKept'
  <2>1. /\ latency_histogram' = [latency_histogram EXCEPT ![t] = HistogramOf(EmptyBag)]
        /\ u_latency_histogram' = [u_latency_histogram EXCEPT ![t] = HistogramOf(EmptyBag)]
        /\ samples' = [samples EXCEPT ![t] = NoSamples] /\ IsSamples(EmptyBag)
    BY <1>5, ResetIsEmpty DEF calibrate
  <2> QED BY <2>1 DEF LatenciesKept, NoSamples
<1>6. ASSUME NEW t \in Threads,
             check_timeouts(t) \/ script_thread_stop(t) \/ LeaveLoop(t) \/ sample_rate(t)
               \/ Section(t)
      PROVE  LatenciesKept'
  BY <1>1, <1>6 DEF Section, check_timeouts, script_thread_stop, LeaveLoop, sample_rate,
     pthread_mutex_lock, ReadStatistics, WriteStatistics, pthread_mutex_unlock
<1> QED BY <1>2, <1>3, <1>4, <1>5, <1>6 DEF Next, ThreadStep

LEMMA QuotientRises ==
  ASSUME NEW a \in Nat, NEW b \in Nat, a <= b, NEW e \in Nat, e > 0
  PROVE  a \div e <= b \div e
<1>1. PICK q \in Nat, r \in Nat : q = a \div e /\ r = b \div e
  OBVIOUS
<1>2. q * e <= a /\ b < r * e + e
  BY <1>1
<1>3. ~(r < q)
  <2> SUFFICES ASSUME r < q PROVE FALSE
    OBVIOUS
  <2>1. (r + 1) * e <= q * e
    OBVIOUS
  <2>2. (r + 1) * e = r * e + e
    BY OneMore
  <2> QED BY <1>2, <2>1, <2>2
<1> QED BY <1>1, <1>3

LEMMA RatesStep ==
  ASSUME Fits, RatesFit, Inv, RatesKept, [Next]_vars
  PROVE  RatesKept'
<1>1. /\ complete \in [Threads -> Nat] /\ IsFiniteSet(Threads)
      /\ SumFunction(complete) = Sigma(complete, Threads) /\ Sigma(complete, Threads) \in Nat
      /\ Sigma(complete, Threads) <= MaxRequests
      /\ \A t \in Threads :
           /\ complete[t] <= Sigma(complete, Threads)
           /\ Sigma([complete EXCEPT ![t] = @ + 1], Threads) = Sigma(complete, Threads) + 1
  BY ThreadSums DEF Inv, Typed, RatesKept
<1>2. ASSUME UNCHANGED <<sharedVars, local, complete>> PROVE RatesKept'
  BY <1>2 DEF RatesKept, sharedVars
<1>3. CASE UNCHANGED vars
  BY <1>2, <1>3 DEF vars, threadVars
<1>4. CASE Main \/ CreateFails \/ handler \/ Expire \/ Terminated
  BY <1>2, <1>4 DEF Main, script_init, sigaction, CreateFails, handler, Expire,
     pthread_create, pthread_join, AddUp, Terminated, threadVars, vars
<1>5. ASSUME NEW t \in Threads, stats_request_completed(t) PROVE RatesKept'
  <2>1. UNCHANGED <<sharedVars, local>>
    BY <1>5 DEF stats_request_completed
  <2>2. CASE UNCHANGED complete
    BY <1>2, <2>1, <2>2
  <2>3. CASE /\ SumFunction(complete) < MaxRequests
             /\ complete' = [complete EXCEPT ![t] = @ + 1]
    <3>1. Sigma(complete', Threads) <= MaxRequests
      <4>1. Sigma(complete', Threads) = Sigma(complete, Threads) + 1
        BY <1>1, <2>3, Zenon
      <4>2. Sigma(complete, Threads) < MaxRequests
        BY <1>1, <2>3
      <4> QED BY <1>1, <4>1, <4>2, RunAssumption
    <3>2. UNCHANGED <<rates, statistics>>
      BY <2>1 DEF sharedVars
    <3> QED BY <2>1, <3>1, <3>2 DEF RatesKept
  <2> QED BY <1>5, <2>2, <2>3 DEF stats_request_completed
<1>6. ASSUME NEW t \in Threads,
             calibrate(t) \/ check_timeouts(t) \/ script_thread_stop(t) \/ LeaveLoop(t)
               \/ pthread_mutex_lock(t) \/ pthread_mutex_unlock(t)
      PROVE  RatesKept'
  <2>1. UNCHANGED <<rates, statistics, local, complete>>
    BY <1>6 DEF calibrate, check_timeouts, script_thread_stop, LeaveLoop, sharedVars,
       pthread_mutex_lock, pthread_mutex_unlock
  <2> QED BY <2>1 DEF RatesKept
<1>7. ASSUME NEW t \in Threads, sample_rate(t) PROVE RatesKept'
  <2>1. PICK e \in Elapsed :
          local' = [local EXCEPT ![t].rate = (requests[t] * 1000) \div e]
    BY <1>7 DEF sample_rate
  <2>2. section[t] = "none" /\ UNCHANGED <<rates, statistics, complete>>
    BY <1>7 DEF sample_rate, InLoop, sharedVars
  <2>3. requests[t] \in Nat /\ requests[t] <= complete[t]
    BY <2>2 DEF Inv, Typed, Tallied, Unsampled
  <2>4. requests[t] * 1000 <= MaxRequests * 1000 /\ MaxRequests \in Nat /\ e \in Nat /\ e > 0
    <3>1. PICK n \in Nat : n = Sigma(complete, Threads) /\ n <= MaxRequests /\ complete[t] <= n
      BY <1>1
    <3>2. MaxRequests \in Nat /\ e \in Nat /\ e > 0
      BY RunAssumption
    <3>3. PICK m \in Nat : m = complete[t]
      BY <1>1
    <3> QED BY <2>3, <3>1, <3>2, <3>3
  <2>5. (requests[t] * 1000) \div e <= (MaxRequests * 1000) \div e
    <3>1. PICK a \in Nat, b \in Nat : a = requests[t] * 1000 /\ b = MaxRequests * 1000
      BY <2>3, <2>4
    <3> QED BY <2>4, <3>1, QuotientRises
  <2>6. (MaxRequests * 1000) \div e <= highest_trackable_value
    BY DEF RatesFit
  <2>7. /\ (requests[t] * 1000) \div e \in Int /\ (MaxRequests * 1000) \div e \in Int
        /\ highest_trackable_value \in Int
    BY <2>3, <2>4, HighestIs
  <2>8. (requests[t] * 1000) \div e <= highest_trackable_value
    BY <2>5, <2>6, <2>7
  <2>9. /\ local'[t].rate = (requests[t] * 1000) \div e
        /\ \A u \in Threads \ {t} : local'[u] = local[u]
    BY <2>1 DEF Inv, Current
  <2> QED BY <2>2, <2>8, <2>9 DEF RatesKept
<1>8. ASSUME NEW t \in Threads, ReadStatistics(t) PROVE RatesKept'
  <2>1. UNCHANGED <<rates, statistics, complete>>
    BY <1>8 DEF ReadStatistics, sharedVars
  <2>2. /\ local'[t].rate = local[t].rate
        /\ \A u \in Threads \ {t} : local'[u] = local[u]
    BY <1>8 DEF ReadStatistics, Inv, Current
  <2> QED BY <2>1, <2>2 DEF RatesKept
<1>9. ASSUME NEW t \in Threads, WriteStatistics(t) PROVE RatesKept'
  <2>1. local[t].statistics = statistics /\ local[t].rate \in Nat
    BY <1>9 DEF Inv, Current, WriteStatistics, InSection
  <2>2. PICK r : r = local[t].rate
    OBVIOUS
  <2>3. r \in 0 .. highest_trackable_value
    BY <2>1, <2>2, HighestIs DEF RatesKept
  <2>4. /\ statistics' = stats_record(statistics, r)
        /\ rates' = rates (+) SetToBag({r})
        /\ local' = [local EXCEPT ![t] = NoLocal] /\ UNCHANGED complete
    BY <1>9, <2>1, <2>2 DEF WriteStatistics
  <2>5. statistics'.histogram = hdr_record_value(statistics.histogram, r)
    BY <2>4 DEF stats_record
  <2>6. PICK b : b = rates /\ IsSamples(b) /\ statistics.histogram = HistogramOf(b)
    BY DEF RatesKept
  <2>7. /\ hdr_record_value(HistogramOf(b), r) = HistogramOf(b (+) SetToBag({r}))
        /\ IsSamples(b (+) SetToBag({r}))
    BY <2>3, <2>6, RecordOne
  <2>8. rates' = b (+) SetToBag({r})
    BY <2>4, <2>6
  <2>9. IsSamples(rates') /\ statistics'.histogram = HistogramOf(rates')
    BY <2>5, <2>6, <2>7, <2>8, Zenon
  <2>10. \A u \in Threads : local'[u].rate <= highest_trackable_value
    BY <2>4, HighestIs DEF RatesKept, Inv, Current, NoLocal
  <2> QED BY <2>4, <2>9, <2>10 DEF RatesKept
<1> QED BY <1>3, <1>4, <1>5, <1>6, <1>7, <1>8, <1>9 DEF Next, ThreadStep, Section

-----------------------------------------------------------------------------
(* What main has added up.                                                     *)

Summed ==
  IF At("report") THEN 1 .. main.thread - 1 ELSE IF At("done") THEN Threads ELSE {}

ReportSoFar ==
  /\ report = [complete |-> Sigma(complete, Summed),
               latency |-> HistogramOf(Together(KindOf("latency"), Summed)),
               u_latency |-> HistogramOf(Together(KindOf("u_latency"), Summed))]

Empty == [complete |-> 0, latency |-> HistogramOf(EmptyBag), u_latency |-> HistogramOf(EmptyBag)]

LEMMA InitReport == Init => ReportSoFar
<1> SUFFICES ASSUME Init PROVE ReportSoFar
  OBVIOUS
<1>1. Summed = {}
  BY DEF Init, Summed, At
<1>2. report = Empty
  BY ResetIsEmpty DEF Init, NoReport, Empty
<1> QED BY <1>1, <1>2, SigmaEmpty, TogetherNone DEF ReportSoFar, Empty

LEMMA AddUpSums ==
  ASSUME Fits, Inv, LatenciesKept, ReportSoFar, AddUp
  PROVE  ReportSoFar'
<1> DEFINE t == main.thread
           S == 1 .. t - 1
           N == S \cup {t}
<1>1. /\ At("report") /\ t \in Threads /\ UNCHANGED <<complete, samples>>
      /\ Summed = S
  BY DEF AddUp, threadVars, Inv, Typed, Summed
<1>2. S \in SUBSET Threads /\ N \in SUBSET Threads /\ N \ {t} = S /\ t \in N /\ IsFiniteSet(N)
  <2>1. S \in SUBSET Threads /\ N \in SUBSET Threads /\ N \ {t} = S /\ t \in N
    BY <1>1, RunAssumption DEF Threads
  <2>2. IsFiniteSet(Threads)
    BY RunAssumption, FS_Interval DEF Threads
  <2> QED BY <2>1, <2>2, FS_Subset
<1>3. Summed' = N
  <2>1. threads \in Nat /\ t \in 1 .. threads
    BY <1>1, RunAssumption DEF Threads
  <2>2. CASE t < threads
    <3>1. main' = [at |-> "report", thread |-> t + 1]
      BY <2>2 DEF AddUp, Goto
    <3>2. Summed' = 1 .. (t + 1) - 1
      BY <3>1 DEF Summed, At
    <3>3. 1 .. (t + 1) - 1 = N
      BY <2>1
    <3> QED BY <3>2, <3>3
  <2>3. CASE ~(t < threads)
    <3>1. main' = [at |-> "done", thread |-> 1]
      BY <2>3 DEF AddUp, Goto
    <3>2. Summed' = Threads
      BY <3>1 DEF Summed, At
    <3>3. Threads = N
      BY <2>1, <2>3 DEF Threads
    <3> QED BY <3>2, <3>3
  <2> QED BY <2>2, <2>3
<1> HIDE DEF S, N
<1>4. PICK c : c = complete /\ c \in [Threads -> Nat]
  BY DEF Inv, Typed
<1>5. report.complete + c[t] = Sigma(c, N)
  <2>1. NatOn(c, N) /\ NatOn(c, S) /\ IsFiniteSet(S)
    BY <1>2, <1>4, FS_Subset DEF NatOn
  <2>2. Sigma(c, N) = c[t] + Sigma(c, S)
    BY <1>2, <2>1, SigmaRemove
  <2>3. report.complete = Sigma(c, S)
    BY <1>1, <1>4 DEF ReportSoFar
  <2>4. Sigma(c, S) \in Nat /\ c[t] \in Nat
    BY <1>1, <1>4, <2>1, SigmaNat
  <2> QED BY <2>2, <2>3, <2>4
<1>6. ASSUME NEW B, DOMAIN B = Threads, \A u \in Threads : IsSamples(B[u])
      PROVE  hdr_add(HistogramOf(Together(B, S)), HistogramOf(B[t]))
               = HistogramOf(Together(B, N))
  <2>1. IsFiniteSet(Threads)
    BY RunAssumption, FS_Interval DEF Threads
  <2>2. IsSamples(Together(B, S)) /\ IsSamples(B[t])
    BY <1>1, <1>2, <1>6, <2>1, TogetherIsSamples
  <2>3. Together(B, N) = B[t] (+) Together(B, N \ {t})
    BY <1>2, <1>6, <2>1, TogetherOne
  <2>4. B[t] (+) Together(B, S) = Together(B, S) (+) B[t]
    BY <2>2, Commutes
  <2>5. hdr_add(HistogramOf(Together(B, S)), HistogramOf(B[t]))
          = HistogramOf(Together(B, S) (+) B[t])
    BY <2>2, AddHistograms
  <2> QED BY <1>2, <2>3, <2>4, <2>5, Zenon
<1>7. hdr_add(report.latency, latency_histogram[t])
        = HistogramOf(Together(KindOf("latency"), N))
  <2>1. PICK B : B = KindOf("latency")
    OBVIOUS
  <2>2. DOMAIN B = Threads /\ \A u \in Threads : B[u] = samples[u].latency
    BY <2>1 DEF KindOf, LatenciesKept
  <2>3. \A u \in Threads : IsSamples(B[u])
    BY <2>2 DEF LatenciesKept
  <2>4. report.latency = HistogramOf(Together(B, S))
    BY <1>1, <2>1 DEF ReportSoFar
  <2>5. latency_histogram[t] = HistogramOf(B[t])
    BY <1>1, <2>2 DEF LatenciesKept
  <2> QED BY <1>6, <2>1, <2>2, <2>3, <2>4, <2>5, Zenon
<1>8. hdr_add(report.u_latency, u_latency_histogram[t])
        = HistogramOf(Together(KindOf("u_latency"), N))
  <2>1. PICK B : B = KindOf("u_latency")
    OBVIOUS
  <2>2. DOMAIN B = Threads /\ \A u \in Threads : B[u] = samples[u].u_latency
    BY <2>1 DEF KindOf, LatenciesKept
  <2>3. \A u \in Threads : IsSamples(B[u])
    BY <2>2 DEF LatenciesKept
  <2>4. report.u_latency = HistogramOf(Together(B, S))
    BY <1>1, <2>1 DEF ReportSoFar
  <2>5. u_latency_histogram[t] = HistogramOf(B[t])
    BY <1>1, <2>2 DEF LatenciesKept
  <2> QED BY <1>6, <2>1, <2>2, <2>3, <2>4, <2>5, Zenon
<1>9. report' = [complete |-> Sigma(c, N),
                 latency |-> HistogramOf(Together(KindOf("latency"), N)),
                 u_latency |-> HistogramOf(Together(KindOf("u_latency"), N))]
  BY <1>4, <1>5, <1>7, <1>8 DEF AddUp
<1>10. complete' = c /\ KindOf("latency")' = KindOf("latency")
       /\ KindOf("u_latency")' = KindOf("u_latency")
  BY <1>1, <1>4 DEF KindOf
<1> QED BY <1>3, <1>9, <1>10 DEF ReportSoFar

LEMMA ReportStep ==
  ASSUME Fits, Inv, LatenciesKept, ReportSoFar, [Next]_vars
  PROVE  ReportSoFar'
<1>1. ASSUME Summed = {}, Summed' = {}, UNCHANGED report
      PROVE  ReportSoFar'
  <2>1. report = Empty
    BY <1>1, SigmaEmpty, TogetherNone DEF ReportSoFar, Empty
  <2>2. report' = Empty
    BY <1>1, <2>1
  <2>3. Sigma(complete', {}) = 0
    BY SigmaEmpty
  <2>4. \A B : Together(B, {}) = EmptyBag
    BY TogetherNone
  <2>5. Together(KindOf("latency")', {}) = EmptyBag /\ Together(KindOf("u_latency")', {}) = EmptyBag
    BY <2>4
  <2> QED BY <1>1, <2>2, <2>3, <2>5 DEF ReportSoFar, Empty
<1>2. ASSUME UNCHANGED <<main, complete, samples, report>> PROVE ReportSoFar'
  BY <1>2 DEF ReportSoFar, Summed, At, KindOf
<1>3. CASE UNCHANGED vars \/ handler \/ Expire \/ Terminated
  BY <1>2, <1>3 DEF vars, threadVars, handler, Expire, Terminated
<1>4. CASE script_init \/ pthread_create \/ sigaction \/ pthread_join \/ CreateFails
  <2>1. UNCHANGED report
    BY <1>4 DEF script_init, pthread_create, sigaction, pthread_join, CreateFails
  <2>2. Summed = {}
    BY <1>4 DEF script_init, pthread_create, sigaction, pthread_join, CreateFails, Summed, At
  <2>3. main'.at \notin {"report", "done"} \/ (main'.at = "report" /\ main'.thread = 1)
    BY <1>4 DEF script_init, pthread_create, sigaction, pthread_join, CreateFails, Goto
  <2>4. Summed' = {}
    <3>1. 1 .. 1 - 1 = {}
      OBVIOUS
    <3> QED BY <2>3, <3>1 DEF Summed, At
  <2> QED BY <1>1, <2>1, <2>2, <2>4
<1>5. CASE AddUp
  BY <1>5, AddUpSums
<1>6. ASSUME NEW t \in Threads, ThreadStep(t) PROVE ReportSoFar'
  <2>1. UNCHANGED <<main, report>>
    BY <1>6 DEF ThreadStep, Section, stats_request_completed, calibrate, check_timeouts,
       script_thread_stop, LeaveLoop, sample_rate, pthread_mutex_lock, ReadStatistics,
       WriteStatistics, pthread_mutex_unlock
  <2>2. main.at \notin {"report", "done"}
    <3>1. worker[t] # "ended"
      BY <1>6 DEF Inv, Typed, Placed, ThreadStep, Section, stats_request_completed, calibrate,
         check_timeouts, script_thread_stop, LeaveLoop, sample_rate, pthread_mutex_lock,
         ReadStatistics, WriteStatistics, pthread_mutex_unlock, InLoop, InSection
    <3> QED BY <3>1 DEF Inv, Waited
  <2>3. Summed = {} /\ Summed' = {}
    BY <2>1, <2>2 DEF Summed, At
  <2> QED BY <1>1, <2>1, <2>3
<1> QED BY <1>3, <1>4, <1>5, <1>6 DEF Next, Main

LEMMA ReportKept ==
  ASSUME Fits
  PROVE  Spec => [](Inv /\ LatenciesKept /\ ReportSoFar)
<1> DEFINE Kept == LatenciesKept /\ ReportSoFar
<1>1. Init => Kept
  BY InitKept, InitReport
<1>2. Inv /\ Kept /\ [Next]_vars => Kept'
  BY LatenciesStep, ReportStep
<1>3. Inv /\ Kept => Inv /\ LatenciesKept /\ ReportSoFar
  OBVIOUS
<1> HIDE DEF Kept
<1> QED BY <1>1, <1>2, <1>3, Invariant, PTL DEF Spec

LEMMA RatesAreKept ==
  ASSUME Fits, RatesFit
  PROVE  Spec => []RatesKept
<1>1. Init => RatesKept
  BY InitKept
<1>2. Inv /\ RatesKept /\ [Next]_vars => RatesKept'
  BY RatesStep
<1> QED BY <1>1, <1>2, Invariant, PTL DEF Spec

\* At the end the histograms of the report are those of the samples of all threads.
LEMMA ReportIs ==
  ASSUME Fits, Inv, LatenciesKept, ReportSoFar, At("done"),
         NEW kind \in {"latency", "u_latency"}
  PROVE  IsSamples(AllSamples(kind)) /\ report[kind] = HistogramOf(AllSamples(kind))
<1>1. IsFiniteSet(Threads)
  BY RunAssumption, FS_Interval DEF Threads
<1>2. DOMAIN samples = Threads /\ \A t \in Threads : IsSamples(samples[t][kind])
  BY DEF LatenciesKept
<1>3. AllSamples(kind) = Together(KindOf(kind), Threads)
  BY <1>1, <1>2, AllSamplesAre
<1>4. PICK B : B = KindOf(kind)
  OBVIOUS
<1>5. DOMAIN B = Threads /\ \A t \in Threads : IsSamples(B[t])
  BY <1>2, <1>4 DEF KindOf
<1>6. IsSamples(Together(B, Threads))
  BY <1>1, <1>5, TogetherIsSamples
<1>7. report[kind] = HistogramOf(Together(KindOf(kind), Threads))
  BY DEF ReportSoFar, Summed, At
<1> QED BY <1>3, <1>4, <1>6, <1>7

\* The report, at whatever precision and for any number of threads and latencies:
\* it counts every request of every thread once, and every latency since the
\* calibration and every rate is in the histograms once and in the slot of its
\* range (wrk.c:279-284, hdr_add and the iterators of hdr_histogram.c).
THEOREM ReportIsRight ==
  ASSUME Fits, RatesFit
  PROVE  Spec => []ReportAddsUp
<1>1. ASSUME Inv, LatenciesKept, RatesKept, ReportSoFar
      PROVE  ReportAddsUp
  <2> SUFFICES ASSUME At("done") PROVE ReportAddsUp
    BY DEF ReportAddsUp
  <2>1. report.complete = SumFunction(complete)
    <3>1. complete \in [Threads -> Nat] /\ Summed = Threads
      BY <1>1 DEF Inv, Typed, Summed, At
    <3>2. SumFunction(complete) = Sigma(complete, Threads)
      BY <3>1, ThreadSums
    <3> QED BY <1>1, <3>1, <3>2 DEF ReportSoFar
  <2>2. \A kind \in {"latency", "u_latency"} : Holds(report[kind], AllSamples(kind))
    BY <1>1, ReportIs, HistogramHolds
  <2>3. Holds(report.latency, AllSamples("latency"))
        /\ Holds(report.u_latency, AllSamples("u_latency"))
    BY <2>2
  <2>4. Holds(statistics.histogram, rates)
    BY <1>1, HistogramHolds DEF RatesKept
  <2> QED BY <2>1, <2>3, <2>4 DEF ReportAddsUp
<1> QED BY <1>1, ReportKept, RatesAreKept, PTL

-----------------------------------------------------------------------------
(* Counting up to a value.                                                     *)

AtMost(b, v) == {w \in DOMAIN b : w <= v}
UpToThis(b, v) == Sigma(b, AtMost(b, v))
SizeOf(b) == Sigma(b, DOMAIN b)

LEMMA UpToValueIs ==
  ASSUME NEW b, IsSamples(b), NEW v \in Int
  PROVE  UpToValue(b, v) = UpToThis(b, v) /\ UpToThis(b, v) \in Nat
<1>1. AtMost(b, v) \in SUBSET DOMAIN b
  BY DEF AtMost
<1>2. IsFiniteSet(AtMost(b, v)) /\ NatOn(b, AtMost(b, v)) /\ UpToThis(b, v) \in Nat
  BY <1>1, SamplesCount DEF UpToThis
<1>3. MapThenSumSet(LAMBDA w : b[w], AtMost(b, v)) = Sigma(b, AtMost(b, v))
  BY <1>2, MapThenSum
<1> QED BY <1>2, <1>3 DEF UpToValue, UpToThis, AtMost, BagToSet

LEMMA UpToRises ==
  ASSUME NEW b, IsSamples(b)
  PROVE  /\ SizeOf(b) \in Nat
         /\ \A v \in Int : UpToThis(b, v) \in Nat /\ UpToThis(b, v) <= SizeOf(b)
         /\ \A v, w \in Int : v <= w => UpToThis(b, v) <= UpToThis(b, w)
         /\ \A v \in DOMAIN b : UpToThis(b, v) = b[v] + UpToThis(b, v - 1)
         /\ \A v \in Int : v \notin DOMAIN b => UpToThis(b, v) = UpToThis(b, v - 1)
         /\ UpToThis(b, highest_trackable_value) = SizeOf(b)
         /\ UpToThis(b, -1) = 0
<1>1. DOMAIN b \subseteq Int /\ \A w \in DOMAIN b : w >= 0 /\ w <= highest_trackable_value
  BY HighestIs DEF IsSamples
<1>2. \A v : AtMost(b, v) \in SUBSET DOMAIN b
  BY DEF AtMost
<1>3. \A X \in SUBSET DOMAIN b : IsFiniteSet(X) /\ NatOn(b, X) /\ Sigma(b, X) \in Nat
  BY SamplesCount
<1>4. \A X \in SUBSET DOMAIN b : \A Y \in SUBSET X : Sigma(b, Y) <= Sigma(b, X)
  BY <1>3, SigmaLess
<1>5. SizeOf(b) \in Nat
  BY <1>3 DEF SizeOf
<1>6. ASSUME NEW v \in Int PROVE UpToThis(b, v) \in Nat /\ UpToThis(b, v) <= SizeOf(b)
  BY <1>2, <1>3, <1>4 DEF UpToThis, SizeOf
<1>7. ASSUME NEW v \in Int, NEW w \in Int, v <= w PROVE UpToThis(b, v) <= UpToThis(b, w)
  <2>1. AtMost(b, v) \in SUBSET AtMost(b, w)
    BY <1>1, <1>7 DEF AtMost
  <2> QED BY <1>2, <1>4, <2>1 DEF UpToThis
<1>8. ASSUME NEW v \in DOMAIN b PROVE UpToThis(b, v) = b[v] + UpToThis(b, v - 1)
  <2>1. AtMost(b, v) \ {v} = AtMost(b, v - 1) /\ v \in AtMost(b, v)
    BY <1>1 DEF AtMost
  <2>2. Sigma(b, AtMost(b, v)) = b[v] + Sigma(b, AtMost(b, v) \ {v})
    BY <1>2, <1>3, <2>1, SigmaRemove
  <2> QED BY <2>1, <2>2, Zenon DEF UpToThis
<1>9. ASSUME NEW v \in Int, v \notin DOMAIN b PROVE UpToThis(b, v) = UpToThis(b, v - 1)
  <2>1. AtMost(b, v) = AtMost(b, v - 1)
    BY <1>1, <1>9 DEF AtMost
  <2> QED BY <2>1, Zenon DEF UpToThis
<1>10. UpToThis(b, highest_trackable_value) = SizeOf(b)
  <2>1. AtMost(b, highest_trackable_value) = DOMAIN b
    BY <1>1 DEF AtMost
  <2> QED BY <2>1, Zenon DEF UpToThis, SizeOf
<1>11. UpToThis(b, -1) = 0
  <2>1. AtMost(b, -1) = {}
    BY <1>1 DEF AtMost
  <2> QED BY <2>1, SigmaEmpty, Zenon DEF UpToThis
<1> QED BY <1>5, <1>6, <1>7, <1>8, <1>9, <1>10, <1>11

\* Slots are in the order of their values and do not overlap.
LEMMA SlotOrder ==
  ASSUME Fits, NEW s \in Slots, NEW t \in Slots
  PROVE  /\ s.value_from_index \in Nat /\ s.highest_equivalent_value \in Nat
         /\ s.value_from_index <= s.highest_equivalent_value
         /\ s.value_from_index < t.value_from_index
              => s.highest_equivalent_value < t.value_from_index
         /\ s.value_from_index = t.value_from_index => s = t
         /\ lowest_equivalent_value(s.highest_equivalent_value) = s.value_from_index
         /\ highest_equivalent_value(s.value_from_index) = s.highest_equivalent_value
         /\ \A x, v \in s.value_from_index .. s.highest_equivalent_value : Close(x, v)
<1>1. PICK b, p : IsPlace(b, p) /\ s = Slot(b, p)
  BY SlotsAre
<1>2. PICK c, q : IsPlace(c, q) /\ t = Slot(c, q)
  BY SlotsAre
<1>3. PICK lo \in Nat, w \in Nat : lo = p * Pow[b] /\ w = Pow[b] /\ w > 0
  BY <1>1, ValuesFit
<1>4. PICK lo2 \in Nat, w2 \in Nat : lo2 = q * Pow[c] /\ w2 = Pow[c] /\ w2 > 0
  BY <1>2, ValuesFit
<1>5. /\ s.value_from_index = lo /\ s.highest_equivalent_value = lo + w - 1
      /\ t.value_from_index = lo2
  BY <1>1, <1>2, <1>3, <1>4 DEF Slot
<1>6. lo + w - 1 \in Nat /\ lo <= lo + w - 1 /\ lo + w - 1 < lo + w
  BY <1>3
<1>7. \A v \in Nat : InSlot(v, b, p) <=> lo <= v /\ v < lo + w
  BY <1>3 DEF InSlot
<1>8. InSlot(lo2, c, q)
  BY <1>4 DEF InSlot
<1>9. ASSUME NEW v \in Nat, InSlot(v, b, p), InSlot(v, c, q) PROVE s = t
  <2>1. b = c /\ p = q
    BY <1>1, <1>2, <1>9, PlaceOf
  <2> QED BY <1>1, <1>2, <2>1
<1>10. ASSUME lo < lo2 PROVE lo + w - 1 < lo2
  <2> SUFFICES ASSUME ~(lo + w - 1 < lo2) PROVE FALSE
    OBVIOUS
  <2>1. InSlot(lo2, b, p)
    BY <1>3, <1>4, <1>7, <1>10
  <2>2. s = t
    BY <1>8, <1>9, <2>1
  <2> QED BY <1>5, <1>10, <2>2
<1>11. ASSUME lo = lo2 PROVE s = t
  <2>1. InSlot(lo, b, p)
    BY <1>3, <1>7
  <2> QED BY <1>8, <1>9, <1>11, <2>1
<1>12. InSlot(lo, b, p) /\ InSlot(lo + w - 1, b, p)
  BY <1>3, <1>6, <1>7
<1>13. lowest_equivalent_value(lo + w - 1) = lo /\ highest_equivalent_value(lo) = lo + w - 1
  BY <1>1, <1>3, <1>6, <1>12, SlotValues
<1>14. ASSUME NEW x \in lo .. lo + w - 1, NEW v \in lo .. lo + w - 1 PROVE Close(x, v)
  <2>1. x \in Nat /\ v \in Nat /\ InSlot(x, b, p) /\ InSlot(v, b, p)
    BY <1>3, <1>7, <1>14
  <2> QED BY <1>1, <2>1, SlotIsClose
<1> QED BY <1>5, <1>6, <1>10, <1>11, <1>13, <1>14

\* The slot a sample is counted in.
LEMMA SampleSlot ==
  ASSUME Fits, NEW b, IsSamples(b), NEW v \in DOMAIN b
  PROVE  \E s \in Counted(HistogramOf(b)) :
           /\ s \in Slots /\ s.index = counts_index_for(v)
           /\ v \in s.value_from_index .. s.highest_equivalent_value
           /\ \A t \in Slots : t.index = counts_index_for(v) => t = s
<1>1. v \in 0 .. highest_trackable_value
  BY DEF IsSamples
<1>2. PICK s \in Counted(HistogramOf(b)) : s \in Slots /\ s.index = counts_index_for(v)
  BY RecordedIsCounted DEF InSlots
<1>3. {x \in Slots : x.index = counts_index_for(v)}
        = {x \in Slots : v \in x.value_from_index .. x.highest_equivalent_value}
  BY <1>1, SlotOfValue
<1>4. v \in s.value_from_index .. s.highest_equivalent_value
  BY <1>2, <1>3
<1>5. \A t \in Slots : t.index = counts_index_for(v) => t = s
  BY <1>2, SlotIsUnique
<1> QED BY <1>2, <1>4, <1>5

LEMMA CountTo ==
  ASSUME Fits, NEW b, IsSamples(b), NEW s \in Slots
  PROVE  count_to_index(HistogramOf(b), s) = UpToThis(b, s.highest_equivalent_value)
<1> DEFINE h == HistogramOf(b)
           X == UpTo(Counted(h), s)
<1>1. Counted(h) \in SUBSET Slots
  BY RecordedIsCounted
<1>2. X \in SUBSET Slots
  BY <1>1 DEF UpTo
<1>3. CountOf(h, X) = Sigma(b, InSlots(b, X))
  <2> HIDE DEF X
  <2> QED BY <1>2, CountOfSlots
<1>4. ASSUME NEW v \in DOMAIN b
      PROVE  v \in InSlots(b, X) <=> v <= s.highest_equivalent_value
  <2>1. PICK t \in Counted(h) :
           /\ t \in Slots /\ t.index = counts_index_for(v)
           /\ v \in t.value_from_index .. t.highest_equivalent_value
           /\ \A u \in Slots : u.index = counts_index_for(v) => u = t
    BY SampleSlot
  <2>2. v \in InSlots(b, X) <=> t \in X
    BY <1>2, <2>1 DEF InSlots
  <2>3. t \in X <=> t.value_from_index <= s.value_from_index
    BY <2>1 DEF UpTo
  <2>4. /\ s.value_from_index \in Nat /\ s.highest_equivalent_value \in Nat
        /\ s.value_from_index <= s.highest_equivalent_value
        /\ t.value_from_index \in Nat /\ t.highest_equivalent_value \in Nat
        /\ s.value_from_index < t.value_from_index
             => s.highest_equivalent_value < t.value_from_index
        /\ t.value_from_index < s.value_from_index
             => t.highest_equivalent_value < s.value_from_index
        /\ t.value_from_index = s.value_from_index => t = s
    BY <2>1, SlotOrder
  <2> HIDE DEF X
  <2> QED BY <2>1, <2>2, <2>3, <2>4
<1>5. InSlots(b, X) = AtMost(b, s.highest_equivalent_value)
  <2>1. InSlots(b, X) \in SUBSET DOMAIN b
    BY DEF InSlots
  <2> HIDE DEF X
  <2> QED BY <1>4, <2>1 DEF AtMost
<1> QED BY <1>3, <1>5 DEF count_to_index, UpToThis

-----------------------------------------------------------------------------
(* The sample of a rank, and the slot the iterator finds for it.               *)

RankOf(b, i) ==
  CHOOSE v \in BagToSet(b) : UpToValue(b, v) >= i /\ UpToValue(b, v) - b[v] < i

IsRank(b, i, r) == r \in DOMAIN b /\ UpToThis(b, r) >= i /\ UpToThis(b, r - 1) < i

LEMMA RankIs ==
  ASSUME NEW b, IsSamples(b), NEW i \in 1 .. SizeOf(b)
  PROVE  IsRank(b, i, RankOf(b, i))
<1>1. DOMAIN b \subseteq Int /\ \A v \in DOMAIN b : v \in Nat /\ b[v] \in Nat
  BY HighestIs DEF IsSamples
<1>2. highest_trackable_value \in Nat /\ i \in Nat /\ i > 0 /\ i <= SizeOf(b) /\ SizeOf(b) \in Nat
  BY HighestIs, UpToRises
<1>3. PICK f : f = [v \in Int |-> UpToThis(b, v)]
  OBVIOUS
<1>4. /\ \A v \in Int : f[v] = UpToThis(b, v) /\ f[v] \in Nat
      /\ \A v \in DOMAIN b : f[v] = b[v] + f[v - 1]
      /\ \A v \in Int : v \notin DOMAIN b => f[v] = f[v - 1]
      /\ f[highest_trackable_value] = SizeOf(b) /\ f[-1] = 0
  <2>1. \A v \in Int : v - 1 \in Int
    OBVIOUS
  <2>2. \A v \in Int : f[v] = UpToThis(b, v)
    BY <1>3
  <2>3. highest_trackable_value \in Int /\ -1 \in Int
    BY <1>2
  <2> QED BY <1>1, <2>1, <2>2, <2>3, UpToRises
<1> DEFINE T == {v \in Nat : f[v] >= i}
<1>5. PICK r \in T : \A v \in T : r <= v
  <2>1. highest_trackable_value \in T /\ T \in SUBSET Nat
    BY <1>2, <1>4
  <2> HIDE DEF T
  <2> QED BY <2>1, Least
<1>6. r \in Nat /\ f[r] >= i
  OBVIOUS
<1>7. f[r - 1] < i
  <2>1. CASE r = 0
    <3>1. r - 1 = -1
      BY <2>1
    <3> QED BY <1>2, <1>4, <3>1
  <2>2. CASE r # 0
    <3>1. r - 1 \in Nat /\ r - 1 \notin T
      BY <1>5, <1>6, <2>2
    <3>2. r - 1 \in Int /\ f[r - 1] \in Nat /\ ~(f[r - 1] >= i)
      BY <1>4, <3>1
    <3> QED BY <1>2, <3>2
  <2> QED BY <2>1, <2>2
<1>8. r \in DOMAIN b
  <2> SUFFICES ASSUME r \notin DOMAIN b PROVE FALSE
    OBVIOUS
  <2>1. f[r] = f[r - 1] /\ f[r] \in Nat
    BY <1>4, <1>6
  <2> QED BY <1>2, <1>6, <1>7, <2>1
<1>9. \A v \in DOMAIN b : UpToValue(b, v) = f[v]
  BY <1>1, <1>4, UpToValueIs
<1>10. \A v \in DOMAIN b :
         (UpToValue(b, v) >= i /\ UpToValue(b, v) - b[v] < i) <=> IsRank(b, i, v)
  <2> SUFFICES ASSUME NEW v \in DOMAIN b
               PROVE  (UpToValue(b, v) >= i /\ UpToValue(b, v) - b[v] < i)
                        <=> IsRank(b, i, v)
    OBVIOUS
  <2>1. v \in Int /\ v - 1 \in Int /\ b[v] \in Nat
    BY <1>1
  <2>2. f[v - 1] \in Nat /\ f[v] = b[v] + f[v - 1]
    BY <1>4, <2>1
  <2>3. f[v] - b[v] = f[v - 1]
    BY <2>1, <2>2
  <2>4. UpToThis(b, v) = f[v] /\ UpToThis(b, v - 1) = f[v - 1]
    BY <1>4, <2>1
  <2> QED BY <1>9, <2>3, <2>4 DEF IsRank
<1>11. IsRank(b, i, r)
  <2>1. r - 1 \in Int /\ r \in Int
    BY <1>6
  <2> QED BY <1>4, <1>6, <1>7, <1>8, <2>1 DEF IsRank
<1>12. /\ RankOf(b, i) \in DOMAIN b
       /\ UpToValue(b, RankOf(b, i)) >= i
       /\ UpToValue(b, RankOf(b, i)) - b[RankOf(b, i)] < i
  BY <1>8, <1>10, <1>11 DEF RankOf, BagToSet
<1> QED BY <1>10, <1>12

LEMMA FirstIs ==
  ASSUME Fits, NEW X \in SUBSET Slots, X # {}
  PROVE  /\ First(X) \in X
         /\ \A t \in X : First(X).value_from_index <= t.value_from_index
<1> DEFINE N == {s.value_from_index : s \in X}
<1>1. \A s \in X : s.value_from_index \in Nat
  BY SlotOrder
<1>2. PICK n \in N : \A m \in N : n <= m
  <2>1. N \in SUBSET Nat /\ N # {}
    BY <1>1
  <2> HIDE DEF N
  <2> QED BY <2>1, Least
<1>3. PICK s \in X : n = s.value_from_index
  OBVIOUS
<1>4. UpTo(X, s) = {s}
  <2>1. \A t \in X : t.value_from_index <= s.value_from_index => t = s
    <3> SUFFICES ASSUME NEW t \in X, t.value_from_index <= s.value_from_index PROVE t = s
      OBVIOUS
    <3>1. s.value_from_index <= t.value_from_index
      BY <1>2, <1>3
    <3>2. s.value_from_index = t.value_from_index
      BY <1>1, <3>1
    <3> QED BY <3>2, SlotOrder
  <2>2. s.value_from_index <= s.value_from_index
    BY <1>1
  <2> QED BY <2>1, <2>2 DEF UpTo
<1>5. First(X) \in X /\ UpTo(X, First(X)) = {First(X)}
  BY <1>4 DEF First
<1>6. ASSUME NEW t \in X PROVE First(X).value_from_index <= t.value_from_index
  <2> SUFFICES ASSUME ~(First(X).value_from_index <= t.value_from_index) PROVE FALSE
    OBVIOUS
  <2>1. First(X).value_from_index \in Nat /\ t.value_from_index \in Nat
    BY <1>1, <1>5
  <2>2. t \in UpTo(X, First(X))
    BY <2>1 DEF UpTo
  <2>3. t = First(X)
    BY <1>5, <2>2
  <2> QED BY <2>1, <2>3
<1> QED BY <1>5, <1>6

LEMMA CountedHolds ==
  ASSUME Fits, NEW b, IsSamples(b), NEW s \in Counted(HistogramOf(b))
  PROVE  \E v \in DOMAIN b : v \in s.value_from_index .. s.highest_equivalent_value
<1>1. s \in Slots /\ count_at_index(HistogramOf(b), s) # 0
  BY DEF Counted
<1>2. Sigma(b, InIndex(b, s.index)) # 0
  BY <1>1, SlotCount
<1>3. PICK v \in InIndex(b, s.index) : TRUE
  BY <1>2, SigmaEmpty
<1>4. v \in DOMAIN b /\ counts_index_for(v) = s.index
  BY <1>3 DEF InIndex
<1>5. PICK t \in Slots : /\ v \in t.value_from_index .. t.highest_equivalent_value
                         /\ \A u \in Slots : u.index = counts_index_for(v) => u = t
  BY <1>4, SampleSlot
<1> QED BY <1>1, <1>4, <1>5

Reached(b, i) ==
  {s \in Recorded(HistogramOf(b)) : count_to_index(HistogramOf(b), s) >= i}

LEMMA ReachedSlot ==
  ASSUME Fits, NEW b, IsSamples(b), NEW i \in 1 .. SizeOf(b), NEW s, s = First(Reached(b, i))
  PROVE  /\ Reached(b, i) # {} /\ s \in Slots /\ s \in Counted(HistogramOf(b))
         /\ s \in Reached(b, i)
         /\ \A t \in Reached(b, i) : s.value_from_index <= t.value_from_index
         /\ UpToThis(b, s.highest_equivalent_value) >= i
         /\ UpToThis(b, s.value_from_index - 1) < i
         /\ RankOf(b, i) \in s.value_from_index .. s.highest_equivalent_value
<1> DEFINE h == HistogramOf(b)
<1>1. Recorded(h) = Counted(h) /\ Counted(h) \in SUBSET Slots
  BY RecordedIsCounted
<1>2. \A t \in Slots : count_to_index(h, t) = UpToThis(b, t.highest_equivalent_value)
  BY CountTo
<1>3. PICK r : r = RankOf(b, i) /\ IsRank(b, i, r)
  BY RankIs
<1>4. r \in DOMAIN b /\ UpToThis(b, r) >= i /\ UpToThis(b, r - 1) < i /\ r \in Nat
  BY <1>3 DEF IsRank, IsSamples
<1>5. PICK t \in Counted(h) :
        t \in Slots /\ r \in t.value_from_index .. t.highest_equivalent_value
  BY <1>4, SampleSlot
<1>6. /\ t.value_from_index \in Nat /\ t.highest_equivalent_value \in Nat
      /\ t.value_from_index <= r /\ r <= t.highest_equivalent_value
  BY <1>5, SlotOrder
<1>7. /\ \A v \in Int : UpToThis(b, v) \in Nat
      /\ \A v, w \in Int : v <= w => UpToThis(b, v) <= UpToThis(b, w)
  BY UpToRises
<1>8. i \in Nat
  OBVIOUS
<1>9. t \in Reached(b, i)
  <2>1. UpToThis(b, t.highest_equivalent_value) >= UpToThis(b, r)
        /\ UpToThis(b, t.highest_equivalent_value) \in Nat /\ UpToThis(b, r) \in Nat
    BY <1>4, <1>6, <1>7
  <2>2. UpToThis(b, t.highest_equivalent_value) >= i
    BY <1>4, <1>8, <2>1
  <2>3. count_to_index(h, t) >= i
    BY <1>2, <1>5, <2>2
  <2> QED BY <1>1, <1>5, <2>3 DEF Reached
<1>10. Reached(b, i) \in SUBSET Slots
  BY <1>1 DEF Reached
<1>11. s \in Reached(b, i) /\ \A u \in Reached(b, i) : s.value_from_index <= u.value_from_index
  BY <1>9, <1>10, FirstIs
<1>12. s \in Slots /\ s \in Counted(h) /\ UpToThis(b, s.highest_equivalent_value) >= i
  <2>1. s \in Counted(h) /\ count_to_index(h, s) >= i
    BY <1>1, <1>11 DEF Reached
  <2> QED BY <1>1, <1>2, <2>1
<1>13. s = t
  <2>1. /\ s.value_from_index \in Nat /\ s.highest_equivalent_value \in Nat
        /\ s.value_from_index < t.value_from_index
             => s.highest_equivalent_value < t.value_from_index
        /\ s.value_from_index = t.value_from_index => s = t
    BY <1>5, <1>12, SlotOrder
  <2>2. s.value_from_index <= t.value_from_index
    BY <1>9, <1>11
  <2>3. ~(s.value_from_index < t.value_from_index)
    <3> SUFFICES ASSUME s.value_from_index < t.value_from_index PROVE FALSE
      OBVIOUS
    <3>1. s.highest_equivalent_value <= r - 1 /\ r - 1 \in Int
      BY <1>4, <1>6, <2>1
    <3>2. UpToThis(b, s.highest_equivalent_value) <= UpToThis(b, r - 1)
          /\ UpToThis(b, s.highest_equivalent_value) \in Nat /\ UpToThis(b, r - 1) \in Nat
      BY <1>7, <2>1, <3>1
    <3> QED BY <1>4, <1>8, <1>12, <3>2
  <2> QED BY <1>6, <2>1, <2>2, <2>3
<1>14. UpToThis(b, s.value_from_index - 1) < i
  <2>1. s.value_from_index - 1 <= r - 1 /\ s.value_from_index - 1 \in Int /\ r - 1 \in Int
    BY <1>4, <1>6, <1>13
  <2>2. /\ UpToThis(b, s.value_from_index - 1) <= UpToThis(b, r - 1)
        /\ UpToThis(b, s.value_from_index - 1) \in Nat /\ UpToThis(b, r - 1) \in Nat
    BY <1>7, <2>1
  <2> QED BY <1>4, <1>8, <2>2
<1>15. r \in s.value_from_index .. s.highest_equivalent_value
  BY <1>5, <1>13
<1> QED BY <1>3, <1>9, <1>11, <1>12, <1>14, <1>15

\* The extremes that were counted.
LEMMA MinSlot ==
  ASSUME Fits, NEW b, IsSamples(b), SizeOf(b) > 0
  PROVE  /\ Reached(b, 1) = Recorded(HistogramOf(b))
         /\ hdr_min(HistogramOf(b)) = First(Reached(b, 1)).value_from_index
<1> DEFINE h == HistogramOf(b)
<1>1. Recorded(h) = Counted(h) /\ Counted(h) \in SUBSET Slots
  BY RecordedIsCounted
<1>2. 1 \in 1 .. SizeOf(b)
  <2>1. SizeOf(b) \in Nat
    BY UpToRises
  <2> QED BY <2>1
<1>3. ASSUME NEW s \in Counted(h) PROVE count_to_index(h, s) >= 1
  <2>1. PICK v \in DOMAIN b : v \in s.value_from_index .. s.highest_equivalent_value
    BY CountedHolds
  <2>2. s.value_from_index \in Nat /\ s.highest_equivalent_value \in Nat /\ s \in Slots
    BY <1>1, SlotOrder
  <2>3. v \in Int /\ v - 1 \in Int /\ v <= s.highest_equivalent_value
        /\ b[v] \in Nat /\ b[v] > 0
    BY <2>1, <2>2 DEF IsSamples
  <2>4. /\ UpToThis(b, v) = b[v] + UpToThis(b, v - 1) /\ UpToThis(b, v - 1) \in Nat
        /\ UpToThis(b, v) <= UpToThis(b, s.highest_equivalent_value)
        /\ UpToThis(b, s.highest_equivalent_value) \in Nat
    BY <2>2, <2>3, UpToRises
  <2>5. UpToThis(b, s.highest_equivalent_value) >= 1
    BY <2>3, <2>4
  <2> QED BY <2>2, <2>5, CountTo
<1>4. Reached(b, 1) = Recorded(h)
  BY <1>1, <1>3 DEF Reached
<1>5. Recorded(h) # {}
  BY <1>2, <1>4, ReachedSlot
<1> QED BY <1>4, <1>5 DEF hdr_min

LEMMA LastIs ==
  ASSUME Fits, NEW X \in SUBSET Slots, NEW s \in X, UpTo(X, s) = X
  PROVE  Last(X) = s
<1>1. Last(X) \in X /\ UpTo(X, Last(X)) = X
  BY DEF Last
<1>2. s.value_from_index <= Last(X).value_from_index
      /\ Last(X).value_from_index <= s.value_from_index
  BY <1>1 DEF UpTo
<1>3. s \in Slots /\ Last(X) \in Slots
  BY <1>1
<1>4. s.value_from_index \in Nat /\ Last(X).value_from_index \in Nat
  BY <1>3, SlotOrder
<1>5. s.value_from_index = Last(X).value_from_index
  BY <1>2, <1>4
<1> QED BY <1>3, <1>5, SlotOrder

LEMMA MaxSlot ==
  ASSUME Fits, NEW b, IsSamples(b), SizeOf(b) > 0, NEW s, s = First(Reached(b, SizeOf(b)))
  PROVE  /\ Last(Recorded(HistogramOf(b))) = s
         /\ hdr_max(HistogramOf(b)) = s.value_from_index
         /\ \A t \in Recorded(HistogramOf(b)) : t # s =>
              t.value_from_index < s.value_from_index
<1> DEFINE h == HistogramOf(b)
<1>1. Recorded(h) = Counted(h) /\ Counted(h) \in SUBSET Slots
  BY RecordedIsCounted
<1>2. PICK n \in Nat : n = SizeOf(b) /\ n > 0
  BY UpToRises
<1>3. /\ s \in Slots /\ s \in Counted(h) /\ UpToThis(b, s.highest_equivalent_value) >= n
  <2>1. n \in 1 .. SizeOf(b)
    BY <1>2
  <2> QED BY <1>2, <2>1, ReachedSlot
<1>4. ASSUME NEW t \in Counted(h) PROVE ~(s.value_from_index < t.value_from_index)
  <2> SUFFICES ASSUME s.value_from_index < t.value_from_index PROVE FALSE
    OBVIOUS
  <2>1. PICK v \in DOMAIN b : v \in t.value_from_index .. t.highest_equivalent_value
    BY CountedHolds
  <2>2. /\ s.highest_equivalent_value \in Nat /\ t.value_from_index \in Nat
        /\ t.highest_equivalent_value \in Nat
        /\ s.highest_equivalent_value < t.value_from_index
    BY <1>1, <1>3, SlotOrder
  <2>3. v \in Int /\ v - 1 \in Int /\ s.highest_equivalent_value <= v - 1
        /\ b[v] \in Nat /\ b[v] > 0
    BY <2>1, <2>2 DEF IsSamples
  <2>4. /\ UpToThis(b, v) = b[v] + UpToThis(b, v - 1)
        /\ UpToThis(b, v - 1) \in Nat /\ UpToThis(b, v) \in Nat /\ UpToThis(b, v) <= n
        /\ UpToThis(b, s.highest_equivalent_value) <= UpToThis(b, v - 1)
        /\ UpToThis(b, s.highest_equivalent_value) \in Nat
    BY <1>2, <2>2, <2>3, UpToRises
  <2> QED BY <1>3, <2>3, <2>4
<1>5. ASSUME NEW t \in Counted(h)
      PROVE  t.value_from_index <= s.value_from_index
             /\ (t # s => t.value_from_index < s.value_from_index)
  <2>1. /\ t.value_from_index \in Nat /\ s.value_from_index \in Nat
        /\ t.value_from_index = s.value_from_index => t = s
    BY <1>1, <1>3, SlotOrder
  <2> QED BY <1>4, <2>1
<1>6. UpTo(Counted(h), s) = Counted(h)
  BY <1>5 DEF UpTo
<1>7. Last(Recorded(h)) = s
  BY <1>1, <1>3, <1>6, LastIs
<1>8. hdr_max(h) = s.value_from_index
  <2>1. lowest_equivalent_value(s.highest_equivalent_value) = s.value_from_index
    BY <1>3, SlotOrder
  <2>2. Recorded(h) # {}
    BY <1>1, <1>3
  <2> QED BY <1>7, <2>1, <2>2 DEF hdr_max
<1> QED BY <1>1, <1>5, <1>7, <1>8

-----------------------------------------------------------------------------
(* What the report says of the latencies.                                      *)

LEMMA RankInSlot ==
  ASSUME Fits, NEW b, IsSamples(b), NEW i \in 1 .. SizeOf(b), NEW s, s = First(Reached(b, i))
  PROVE  /\ Close(s.highest_equivalent_value, RankOf(b, i))
         /\ Close(s.value_from_index, RankOf(b, i))
<1>1. s \in Slots /\ RankOf(b, i) \in s.value_from_index .. s.highest_equivalent_value
  BY ReachedSlot
<1>2. /\ s.value_from_index \in s.value_from_index .. s.highest_equivalent_value
      /\ s.highest_equivalent_value \in s.value_from_index .. s.highest_equivalent_value
  <2>1. /\ s.value_from_index \in Nat /\ s.highest_equivalent_value \in Nat
        /\ s.value_from_index <= s.highest_equivalent_value
    BY <1>1, SlotOrder
  <2> QED BY <2>1
<1>3. \A x, v \in s.value_from_index .. s.highest_equivalent_value : Close(x, v)
  BY <1>1, SlotOrder
<1> QED BY <1>1, <1>2, <1>3

LEMMA PercentileIs ==
  ASSUME Fits, NEW b, IsSamples(b), NEW num \in Nat, NEW den \in Nat, num <= den, den > 0,
         NEW i \in 1 .. SizeOf(b),
         i = Max({(2 * num * SizeOf(b) + den) \div (2 * den), 1}),
         NEW s, s = First(Reached(b, i))
  PROVE  hdr_value_at_percentile(HistogramOf(b), num, den) = s.highest_equivalent_value
<1> DEFINE h == HistogramOf(b)
<1>1. h.total_count = SizeOf(b)
  BY DEF HistogramOf, SizeOf
<1>2. Min({num, den}) = num
  BY MinOfTwo
<1>3. Max({(2 * Min({num, den}) * h.total_count + den) \div (2 * den), 1}) = i
  BY <1>1, <1>2, Zenon
<1>4. {t \in Recorded(h) : count_to_index(h, t)
          >= Max({(2 * Min({num, den}) * h.total_count + den) \div (2 * den), 1})}
        = Reached(b, i)
  BY <1>3, Zenon DEF Reached
<1>5. Reached(b, i) # {} /\ s \in Slots
  BY ReachedSlot
<1>6. highest_equivalent_value(s.value_from_index) = s.highest_equivalent_value
  BY <1>5, SlotOrder
<1> HIDE DEF h
<1>7. hdr_value_at_percentile(h, num, den)
        = IF Reached(b, i) = {} THEN 0
          ELSE highest_equivalent_value(First(Reached(b, i)).value_from_index)
  BY <1>4, Zenon DEF hdr_value_at_percentile
<1> QED BY <1>5, <1>6, <1>7 DEF h

LEMMA GetIsClose ==
  ASSUME Fits, NEW b, IsSamples(b), NEW i \in 1 .. SizeOf(b)
  PROVE  Close(hdr_value_at_percentile(HistogramOf(b), i, SizeOf(b)), RankOf(b, i))
<1>1. PICK n \in Nat : n = SizeOf(b)
  BY UpToRises
<1>2. i \in Nat /\ i > 0 /\ i <= n /\ n > 0
  BY <1>1
<1>3. (2 * i * n + n) \div (2 * n) = i
  <2>1. PICK p \in Nat, v \in Nat : p = 2 * n /\ v = 2 * i * n + n
    BY <1>2
  <2>2. i * p = 2 * i * n /\ i * p \in Nat
    BY <1>2, <2>1
  <2>3. i * p <= v /\ v < i * p + p /\ p > 0
    BY <1>2, <2>1, <2>2
  <2> QED BY <1>2, <2>1, <2>3, Divide
<1>4. Max({i, 1}) = i
  BY <1>2, MaxOfTwo
<1>5. i = Max({(2 * i * SizeOf(b) + SizeOf(b)) \div (2 * SizeOf(b)), 1})
  BY <1>1, <1>3, <1>4, Zenon
<1>6. PICK s : s = First(Reached(b, i))
  OBVIOUS
<1>7. hdr_value_at_percentile(HistogramOf(b), i, SizeOf(b)) = s.highest_equivalent_value
  BY <1>1, <1>2, <1>5, <1>6, PercentileIs
<1> QED BY <1>6, <1>7, RankInSlot

\* The counts up to a percentile and below its slot, in a bag of n.
IsNear(b, n, p, v) ==
  /\ UpToValue(b, v) * 2000 + 1000 >= 2 * p * n
  /\ UpToValue(b, lowest_equivalent_value(v) - 1) * 1000 <= p * n

LEMMA PercentileIsNear ==
  ASSUME Fits, NEW b, IsSamples(b), SizeOf(b) > 0, NEW p \in 0 .. 1000,
         NEW n, n = SizeOf(b), NEW v, v = hdr_value_at_percentile(HistogramOf(b), p, 1000)
  PROVE  IsNear(b, n, p, v)
<1>1. n \in Nat /\ n = SizeOf(b) /\ n > 0
  BY UpToRises
<1>2. PICK m \in Nat : m = p * n /\ m <= 1000 * n
  <2>1. p * n \in Nat /\ p * n <= 1000 * n
    BY <1>1
  <2> QED BY <2>1
<1>3. 2 * p * n = 2 * m
  BY <1>1, <1>2
<1>4. PICK q \in Nat : q = (2 * m + 1000) \div 2000
  BY <1>2
<1>5. 2000 * q <= 2 * m + 1000 /\ 2 * m + 1000 < 2000 * q + 2000
  BY <1>2, <1>4
<1>6. q <= n
  BY <1>1, <1>2, <1>5
<1>7. PICK i \in 1 .. n : i = (IF q >= 1 THEN q ELSE 1)
  BY <1>1, <1>6
<1>8. i = Max({(2 * p * SizeOf(b) + 1000) \div (2 * 1000), 1})
  <2>1. Max({q, 1}) = i
    BY <1>7, MaxOfTwo
  <2>2. (2 * p * SizeOf(b) + 1000) \div (2 * 1000) = q
    BY <1>1, <1>3, <1>4
  <2> QED BY <2>1, <2>2
<1>9. PICK s : s = First(Reached(b, i))
  OBVIOUS
<1>10. v = s.highest_equivalent_value
  <2>1. p \in Nat /\ p <= 1000 /\ 1000 \in Nat /\ 1000 > 0
    OBVIOUS
  <2> QED BY <1>1, <1>8, <1>9, <2>1, PercentileIs
<1>11. /\ s \in Slots /\ UpToThis(b, s.highest_equivalent_value) >= i
       /\ UpToThis(b, s.value_from_index - 1) < i
  BY <1>1, <1>9, ReachedSlot
<1>12. /\ s.value_from_index \in Nat /\ s.highest_equivalent_value \in Nat
       /\ lowest_equivalent_value(v) = s.value_from_index
  BY <1>10, <1>11, SlotOrder
<1>13. PICK x \in Nat, y \in Nat :
         /\ x = UpToValue(b, v) /\ y = UpToValue(b, lowest_equivalent_value(v) - 1)
         /\ x >= i /\ y < i
  <2>1. v \in Int /\ s.value_from_index - 1 \in Int
    BY <1>10, <1>12
  <2>2. /\ UpToValue(b, v) = UpToThis(b, v) /\ UpToThis(b, v) \in Nat
        /\ UpToValue(b, s.value_from_index - 1) = UpToThis(b, s.value_from_index - 1)
        /\ UpToThis(b, s.value_from_index - 1) \in Nat
    BY <2>1, UpToValueIs
  <2> QED BY <1>10, <1>11, <1>12, <2>2
<1>14. x * 2000 + 1000 >= 2 * m
  BY <1>2, <1>5, <1>7, <1>13
<1>15. y * 1000 <= m
  BY <1>2, <1>5, <1>7, <1>13
<1> QED BY <1>1, <1>2, <1>3, <1>13, <1>14, <1>15 DEF IsNear

\* What done() of the script and the table of latencies are given: latency(i) is
\* the i-th of the latencies, every percentile and both extremes are right, within
\* the precision, whatever the latencies (hdr_value_at_percentile, hdr_min and
\* hdr_max of hdr_histogram.c, script.c and wrk.c:286).
THEOREM PercentilesAreRight ==
  ASSUME Fits
  PROVE  Spec => []LatencyInReport
<1>1. ASSUME Inv, LatenciesKept, ReportSoFar
      PROVE  LatencyInReport
  <2> SUFFICES ASSUME At("done") PROVE LatencyInReport
    BY DEF LatencyInReport
  <2>1. PICK b : b = AllSamples(Reported)
    OBVIOUS
  <2>2. PICK h : h = latency_stats.histogram
    OBVIOUS
  <2>3. IsSamples(b) /\ h = HistogramOf(b)
    <3>1. Reported \in {"latency", "u_latency"} /\ h = report[Reported]
      BY <2>2 DEF Reported, latency_stats
    <3> QED BY <1>1, <2>1, <3>1, ReportIs
  <2>4. PICK n \in Nat : n = SizeOf(b)
    BY <2>3, UpToRises
  <2>5. SumFunction(b) = n
    <3>1. IsFiniteSet(DOMAIN b) /\ NatOn(b, DOMAIN b)
      BY <2>3, SamplesCount
    <3> QED BY <2>4, <3>1, SumOfFunction DEF SizeOf
  <2>6. h.total_count = n
    BY <2>3, <2>4 DEF HistogramOf, SizeOf
  <2>7. script_stats_len(latency_stats) = n
    BY <2>2, <2>6 DEF script_stats_len
  <2>8. ASSUME NEW i \in 1 .. n
        PROVE  Close(script_stats_get(latency_stats, i), RankOf(b, i))
    <3>1. Close(hdr_value_at_percentile(h, i, n), RankOf(b, i))
      BY <2>3, <2>4, GetIsClose
    <3> QED BY <2>2, <2>6, <3>1 DEF script_stats_get
  <2>9. ASSUME n > 0
        PROVE  Close(latency_stats.min, RankOf(b, 1)) /\ Close(latency_stats.max, RankOf(b, n))
    <3>1. 1 \in 1 .. SizeOf(b) /\ n \in 1 .. SizeOf(b) /\ SizeOf(b) > 0
      BY <2>4, <2>9
    <3>2. latency_stats.min = hdr_min(h) /\ latency_stats.max = hdr_max(h)
      BY <2>2 DEF latency_stats
    <3>3. hdr_min(h) = First(Reached(b, 1)).value_from_index
      BY <2>3, <3>1, MinSlot
    <3>4. hdr_max(h) = First(Reached(b, n)).value_from_index
      BY <2>3, <2>4, <3>1, MaxSlot
    <3>5. Close(First(Reached(b, 1)).value_from_index, RankOf(b, 1))
      BY <2>3, <3>1, RankInSlot
    <3>6. Close(First(Reached(b, n)).value_from_index, RankOf(b, n))
      BY <2>3, <3>1, RankInSlot
    <3> QED BY <3>2, <3>3, <3>4, <3>5, <3>6
  <2>10. ASSUME n > 0, NEW p, p \in 0 .. 1000
         PROVE  IsNear(b, n, p, hdr_value_at_percentile(HistogramOf(b), p, 1000))
    BY <2>3, <2>4, <2>10, PercentileIsNear
  <2>11. ASSUME NEW p, p \in {0, 500, 750, 900, 990, 999, 1000}, n > 0,
                NEW v, v = stats_percentile(latency_stats, p, 1000)
         PROVE  /\ UpToValue(b, v) * 2000 + 1000 >= 2 * p * n
                /\ UpToValue(b, lowest_equivalent_value(v) - 1) * 1000 <= p * n
    <3>1. v = hdr_value_at_percentile(HistogramOf(b), p, 1000)
      <4>1. \A d : stats_percentile(latency_stats, p, d) = hdr_value_at_percentile(h, p, d)
        BY <2>2 DEF stats_percentile
      <4>2. stats_percentile(latency_stats, p, 1000) = hdr_value_at_percentile(h, p, 1000)
        BY <4>1
      <4> QED BY <2>3, <2>11, <4>2
    <3>2. p \in 0 .. 1000 /\ n > 0
      BY <2>11
    <3>3. IsNear(b, n, p, v)
      <4>1. IsNear(b, n, p, hdr_value_at_percentile(HistogramOf(b), p, 1000))
        BY <2>10, <3>2
      <4> QED BY <3>1, <4>1, Zenon
    <3> QED BY <3>3 DEF IsNear
  <2>12. \A p \in {0, 500, 750, 900, 990, 999, 1000} :
           LET v == stats_percentile(latency_stats, p, 1000)
               below == UpToValue(b, lowest_equivalent_value(v) - 1)
           IN n > 0 => /\ UpToValue(b, v) * 2000 + 1000 >= 2 * p * n
                       /\ below * 1000 <= p * n
    BY <2>11
  <2> QED BY <2>1, <2>5, <2>7, <2>8, <2>9, <2>12, At("done") DEF LatencyInReport, RankOf
<1> QED BY <1>1, ReportKept, PTL

-----------------------------------------------------------------------------
(* The ticks of the percentile table.                                          *)

LEMMA AllIs ==
  ASSUME NEW n \in Nat
  PROVE  /\ Pow[n] \in Nat /\ Pow[n] > 0
         /\ Unit(n) = 32 * Pow[n] /\ All(n) = 3200 * Pow[n]
         /\ Unit(n) \in Nat /\ All(n) \in Nat /\ Unit(n) > 0 /\ All(n) > 0
         /\ All(n) = 100 * Unit(n)
<1>1. Pow[n] \in Nat /\ Pow[n] > 0
  BY PowPositive
<1>2. Unit(n) = 32 * Pow[n]
  BY PowIs, Zenon DEF Unit
<1>3. All(n) = 100 * (32 * Pow[n])
  BY <1>2 DEF All
<1> QED BY <1>1, <1>2, <1>3

IsHalf(n, j, d) == 2^j * d <= All(n) /\ 2^(j + 1) * d > All(n)

LEMMA HalfExists ==
  ASSUME NEW n \in Nat, NEW d \in 1 .. All(n)
  PROVE  \E j \in 0 .. n + 11 : IsHalf(n, j, d)
<1>1. PICK a \in Nat : a = All(n) /\ a = 3200 * Pow[n] /\ Pow[n] \in Nat /\ Pow[n] > 0
  BY AllIs
<1>2. Pow[0] = 1 /\ Pow[12] = 4096 /\ d \in Nat /\ d >= 1 /\ d <= a
  BY <1>1, PowValues
<1> DEFINE T == {j \in Nat : Pow[j + 1] * d > a}
<1>3. n + 11 \in T /\ T \in SUBSET Nat
  <2>1. Pow[n + 12] = Pow[n] * 4096
    <3>1. 12 \in Nat
      OBVIOUS
    <3>2. Pow[n + 12] = Pow[n] * Pow[12]
      BY <3>1, PowSum, Zenon
    <3> QED BY <1>2, <3>2
  <2>2. PICK x \in Nat : x = Pow[n] * 4096 /\ x > a
    BY <1>1
  <2>3. x * d >= x
    BY <1>2, <2>2
  <2>4. Pow[n + 12] * d > a /\ (n + 11) + 1 = n + 12
    BY <1>1, <1>2, <2>1, <2>2, <2>3
  <2> QED BY <2>4
<1>4. \A k \in Nat : k \in T <=> Pow[k + 1] * d > a
  OBVIOUS
<1> HIDE DEF T
<1>5. PICK j \in T : \A k \in T : j <= k
  BY <1>3, Least
<1>6. j \in 0 .. n + 11 /\ j \in Nat /\ Pow[j + 1] * d > a
  BY <1>3, <1>4, <1>5
<1>7. Pow[j] * d <= a
  <2>1. CASE j = 0
    BY <1>2, <2>1
  <2>2. CASE j # 0
    <3>1. j - 1 \in Nat /\ j - 1 < j /\ (j - 1) + 1 = j
      BY <1>6, <2>2
    <3>2. j - 1 \notin T
      BY <1>5, <1>6, <3>1
    <3>3. ~(Pow[j] * d > a)
      BY <1>4, <3>1, <3>2
    <3>4. Pow[j] * d \in Nat
      BY <1>2, <1>6, PowNat
    <3> QED BY <1>1, <3>3, <3>4
  <2> QED BY <2>1, <2>2
<1>8. 2^j = Pow[j] /\ 2^(j + 1) = Pow[j + 1]
  <2>1. j \in Nat /\ j + 1 \in Nat
    BY <1>6
  <2> QED BY <2>1, PowIs, Zenon
<1>9. IsHalf(n, j, d)
  BY <1>1, <1>6, <1>7, <1>8 DEF IsHalf
<1> QED BY <1>6, <1>9

\* A step: the distance d to 100 percent has a number of halves, and a fifth of the
\* next half is at most a fifth of the distance.
IsStep(n, p, d, half, q) ==
  /\ Pow[half] * d <= All(n)
  /\ Pow[half + 1] \in Nat /\ Pow[half + 1] > 0
  /\ q = All(n) \div (5 * Pow[half + 1])
  /\ Step(n, p) = (IF Unit(n) <= q THEN Unit(n) ELSE q)
  /\ 5 * q <= d

LEMMA StepIs ==
  ASSUME NEW n \in Nat, NEW p \in 0 .. All(n) - 1, NEW d, d = All(n) - p
  PROVE  \E half \in 0 .. n + 11, q \in Nat : IsStep(n, p, d, half, q)
<1>1. All(n) \in Nat /\ Unit(n) \in Nat
  BY AllIs
<1>2. d \in 1 .. All(n) /\ d \in Nat
  BY <1>1
<1>3. PICK half : half = CHOOSE j \in 0 .. n + 11 : IsHalf(n, j, d)
  OBVIOUS
<1>4. half \in 0 .. n + 11 /\ IsHalf(n, half, d)
  BY <1>2, <1>3, HalfExists
<1>5. half \in Nat /\ half + 1 \in Nat
  BY <1>4
<1>6. 2^half = Pow[half] /\ 2^(half + 1) = Pow[half + 1]
  BY <1>5, PowIs, Zenon
<1>7. PICK P \in Nat : P = Pow[half + 1] /\ P > 0
  BY <1>5, PowPositive
<1>8. P * d > All(n) /\ Pow[half] * d <= All(n)
  BY <1>4, <1>6, <1>7 DEF IsHalf
<1>9. PICK q \in Nat : q = All(n) \div (5 * P)
  <2>1. PICK e \in Nat, a \in Nat : e = 5 * P /\ e > 0 /\ a = All(n)
    BY <1>1, <1>7
  <2>2. a \div e \in Nat
    BY <2>1
  <2> QED BY <2>1, <2>2
<1>10. 5 * q <= d
  <2> SUFFICES ASSUME ~(5 * q <= d) PROVE FALSE
    OBVIOUS
  <2>1. PICK e \in Nat, a \in Nat : e = 5 * P /\ e > 0 /\ a = All(n)
    BY <1>1, <1>7
  <2>2. q * e <= a
    BY <1>9, <2>1
  <2>3. PICK k \in Nat : k = 5 * q /\ d <= k
    BY <1>2, <1>9
  <2>4. P * d <= P * k
    BY <1>2, <1>7, <2>3
  <2>5. P * k = q * e
    BY <1>7, <1>9, <2>1, <2>3
  <2>6. P * d \in Nat /\ P * k \in Nat /\ q * e \in Nat
    BY <1>2, <1>7, <1>9, <2>1, <2>3
  <2> QED BY <1>8, <2>1, <2>2, <2>4, <2>5, <2>6
<1>11. Step(n, p) = Min({Unit(n), q})
  <2>1. half = CHOOSE j \in 0 .. n + 11 :
                 2^j * (All(n) - p) <= All(n) /\ 2^(j + 1) * (All(n) - p) > All(n)
    BY <1>3, Zenon DEF IsHalf
  <2>2. All(n) \div (ticks_per_half_distance * 2^(half + 1)) = q
    <3>1. ticks_per_half_distance = 5
      BY DEF ticks_per_half_distance
    <3> QED BY <1>6, <1>7, <1>9, <3>1
  <2> QED BY <2>1, <2>2, Zenon DEF Step
<1>12. Min({Unit(n), q}) = IF Unit(n) <= q THEN Unit(n) ELSE q
  BY <1>1, <1>9, MinOfTwo
<1> QED BY <1>4, <1>7, <1>8, <1>9, <1>10, <1>11, <1>12 DEF IsStep

\* No step is longer than one percent, nor than a fifth of the way to 100 percent.
LEMMA StepFits ==
  ASSUME NEW n \in Nat, NEW p \in 0 .. All(n) - 1
  PROVE  /\ Step(n, p) \in Nat /\ Step(n, p) <= Unit(n)
         /\ 5 * Step(n, p) <= All(n) - p
         /\ p + Step(n, p) \in 0 .. All(n) - 1
<1>1. PICK a \in Nat, u \in Nat : a = All(n) /\ u = Unit(n)
  BY AllIs
<1>2. PICK d \in Nat : d = a - p /\ d >= 1
  BY <1>1
<1>3. PICK q \in Nat : Step(n, p) = (IF u <= q THEN u ELSE q) /\ 5 * q <= d
  <2>1. d = All(n) - p
    BY <1>1, <1>2
  <2>2. PICK half \in 0 .. n + 11, q \in Nat : IsStep(n, p, d, half, q)
    BY <2>1, StepIs
  <2> QED BY <1>1, <2>2 DEF IsStep
<1>4. PICK s \in Nat : s = Step(n, p) /\ s <= u /\ s <= q
  BY <1>1, <1>3
<1> QED BY <1>1, <1>2, <1>3, <1>4

\* Up to 94 percent the step is one percent.
LEMMA StepLow ==
  ASSUME NEW n \in Nat, NEW p \in 0 .. All(n) - 1, All(n) - p >= 7 * Unit(n)
  PROVE  Step(n, p) = Unit(n)
<1>1. PICK w \in Nat : w = Pow[n] /\ w > 0 /\ Unit(n) = 32 * w /\ All(n) = 3200 * w
  BY AllIs
<1>2. PICK d \in Nat : d = All(n) - p /\ d >= 224 * w
  BY <1>1
<1>3. PICK half \in 0 .. n + 11, q \in Nat :
        /\ Pow[half] * d <= All(n) /\ Pow[half + 1] \in Nat /\ Pow[half + 1] > 0
        /\ q = All(n) \div (5 * Pow[half + 1])
        /\ Step(n, p) = (IF Unit(n) <= q THEN Unit(n) ELSE q)
  <2>1. d = All(n) - p
    BY <1>2
  <2>2. PICK half \in 0 .. n + 11, q \in Nat : IsStep(n, p, d, half, q)
    BY <2>1, StepIs
  <2> QED BY <2>2 DEF IsStep
<1>4. half \in Nat /\ Pow[half] \in Nat /\ Pow[half + 1] = 2 * Pow[half]
  BY <1>3, PowNat, PowNext
<1>5. Pow[half] < 15
  <2> SUFFICES ASSUME Pow[half] >= 15 PROVE FALSE
    BY <1>4
  <2>1. Pow[half] * d >= 15 * d
    BY <1>2, <1>4
  <2>2. Pow[half] * d \in Nat
    BY <1>2, <1>4
  <2> QED BY <1>1, <1>2, <1>3, <2>1, <2>2
<1>6. half < 4
  <2> SUFFICES ASSUME ~(half < 4) PROVE FALSE
    OBVIOUS
  <2>1. half = 4 \/ 4 < half
    BY <1>4
  <2>2. 4 < half => 2 * Pow[4] <= Pow[half]
    BY <1>4, PowRises
  <2> QED BY <1>4, <1>5, <2>1, <2>2, PowValues
<1>7. Pow[half + 1] <= 16
  <2>1. half = 3 \/ half < 3
    BY <1>4, <1>6
  <2>2. half < 3 => 2 * Pow[half] <= Pow[3]
    BY <1>4, PowRises
  <2> QED BY <1>4, <2>1, <2>2, PowValues
<1>8. q >= 32 * w
  <2>1. PICK e \in Nat : e = 5 * Pow[half + 1] /\ e > 0 /\ e <= 80
    BY <1>3, <1>7
  <2>2. PICK x \in Nat : x = 40 * w
    BY <1>1
  <2>3. e * x <= 80 * x /\ 80 * x = 3200 * w
    BY <1>1, <2>1, <2>2
  <2>4. (3200 * w) \div e >= x
    <3>1. PICK y \in Nat : y = 3200 * w /\ e * x <= y
      BY <1>1, <2>1, <2>2, <2>3
    <3>2. y \div e >= x
      BY <2>1, <2>2, <3>1
    <3> QED BY <3>1, <3>2
  <2> QED BY <1>1, <1>3, <2>1, <2>2, <2>4
<1> QED BY <1>1, <1>3, <1>8

\* Above it the step is at least a tenth of the distance, if that is not less than
\* what n samples can tell apart: the division leaves no rest.
LEMMA StepHigh ==
  ASSUME NEW n \in Nat, NEW p \in 0 .. All(n) - 1, All(n) - p <= 6 * Unit(n),
         NEW e \in 1 .. n + 7, Pow[e] * (All(n) - p) > All(n)
  PROVE  Step(n, p) >= 1 /\ 10 * Step(n, p) >= All(n) - p
<1>1. PICK w \in Nat, a \in Nat, u \in Nat :
        /\ w = Pow[n] /\ w > 0 /\ u = Unit(n) /\ a = All(n) /\ u = 32 * w /\ a = 3200 * w
  BY AllIs
<1>2. PICK d \in Nat : d = a - p /\ d >= 1 /\ d <= 6 * u /\ Pow[e] * d > a
  BY <1>1
<1>3. PICK half \in 0 .. n + 11, q \in Nat :
        /\ Pow[half] * d <= a /\ Pow[half + 1] \in Nat /\ Pow[half + 1] > 0
        /\ q = a \div (5 * Pow[half + 1])
        /\ Step(n, p) = (IF u <= q THEN u ELSE q)
  <2>1. d = All(n) - p
    BY <1>1, <1>2
  <2>2. PICK half \in 0 .. n + 11, q \in Nat : IsStep(n, p, d, half, q)
    BY <2>1, StepIs
  <2>3. a = All(n) /\ u = Unit(n)
    BY <1>1
  <2> QED BY <2>2, <2>3 DEF IsStep
<1>4. /\ half \in Nat /\ e \in Nat /\ Pow[half] \in Nat /\ Pow[e] \in Nat
      /\ Pow[half + 1] = 2 * Pow[half]
  BY <1>3, PowNat, PowNext
<1>5. half < e
  <2> SUFFICES ASSUME ~(half < e) PROVE FALSE
    OBVIOUS
  <2>1. Pow[e] <= Pow[half]
    <3>1. e = half \/ e < half
      BY <1>4
    <3>2. e < half => 2 * Pow[e] <= Pow[half]
      BY <1>4, PowRises
    <3> QED BY <1>4, <3>1, <3>2
  <2>2. Pow[e] * d <= Pow[half] * d
    BY <1>2, <1>4, <2>1
  <2>3. Pow[e] * d \in Nat /\ Pow[half] * d \in Nat
    BY <1>2, <1>4
  <2> QED BY <1>2, <1>3, <2>2, <2>3
<1>6. PICK k \in Nat : n + 7 = k + (half + 1)
  <2>1. (n + 7) - (half + 1) \in Nat
    BY <1>4, <1>5
  <2> QED BY <1>4, <2>1
<1>7. PICK x \in Nat, y \in Nat : x = Pow[k] /\ y = Pow[half] /\ x > 0 /\ y > 0
  BY <1>4, <1>6, PowPositive
<1>8. 128 * w = x * (2 * y)
  <2>1. 7 \in Nat /\ half + 1 \in Nat
    BY <1>4
  <2>2. Pow[n + 7] = Pow[n] * Pow[7] /\ Pow[k + (half + 1)] = Pow[k] * Pow[half + 1]
    BY <2>1, PowSum, Zenon
  <2>3. Pow[n + 7] = w * 128 /\ Pow[n + 7] = x * (2 * y)
    BY <1>1, <1>4, <1>6, <1>7, <2>2, PowValues
  <2> QED BY <1>1, <1>7, <2>3
<1>9. q = 5 * x
  <2>1. PICK z \in Nat : z = 5 * (2 * y) /\ z > 0 /\ z = 5 * Pow[half + 1]
    BY <1>4, <1>7
  <2>2. a = z * (5 * x)
    <3>1. z * (5 * x) = 25 * (x * (2 * y))
      BY <1>7, <2>1
    <3> QED BY <1>1, <1>8, <3>1
  <2>3. (z * (5 * x)) \div z = 5 * x
    BY <1>7, <2>1
  <2> QED BY <1>3, <2>1, <2>2, <2>3
<1>10. 10 * q >= d
  <2>1. y * d <= a /\ a = y * (50 * x)
    <3>1. y * (50 * x) = 25 * (x * (2 * y))
      BY <1>7
    <3> QED BY <1>1, <1>3, <1>7, <1>8, <3>1
  <2>2. ~(50 * x < d)
    <3> SUFFICES ASSUME 50 * x < d PROVE FALSE
      OBVIOUS
    <3>1. PICK m \in Nat : m = 50 * x /\ m + 1 <= d
      BY <1>2, <1>7
    <3>2. y * (m + 1) <= y * d /\ y * (m + 1) = y * m + y
      BY <1>2, <1>7, <3>1
    <3>3. y * m \in Nat /\ y * d \in Nat
      BY <1>2, <1>7, <3>1
    <3> QED BY <1>7, <2>1, <3>1, <3>2, <3>3
  <2> QED BY <1>2, <1>7, <1>9, <2>2
<1>11. q >= 1
  BY <1>7, <1>9
<1> QED BY <1>1, <1>2, <1>3, <1>10, <1>11

IsTick(n, f, k) ==
  f = [i \in 0 .. k |-> IF i = 0 THEN 0 ELSE f[i - 1] + Step(n, f[i - 1])]

LEMMA TickExists == ASSUME NEW n, NEW k \in Nat PROVE \E f : IsTick(n, f, k)
<1> DEFINE T == {m \in Nat : ~\E f : IsTick(n, f, m)}
<1>1. SUFFICES ASSUME T # {} PROVE FALSE
  OBVIOUS
<1>2. PICK m \in T : \A l \in T : m <= l
  <2>1. T \in SUBSET Nat
    OBVIOUS
  <2> HIDE DEF T
  <2> QED BY <1>1, <2>1, Least
<1>3. m \in Nat /\ ~\E f : IsTick(n, f, m)
  OBVIOUS
<1>4. m # 0
  <2>1. IsTick(n, [i \in 0 .. 0 |-> 0], 0)
    BY DEF IsTick
  <2> QED BY <1>3, <2>1
<1>5. m - 1 \in Nat /\ m - 1 \notin T
  BY <1>2, <1>3, <1>4
<1>6. PICK f : IsTick(n, f, m - 1)
  BY <1>5
<1> DEFINE g == [i \in 0 .. m |-> IF i = m THEN f[m - 1] + Step(n, f[m - 1]) ELSE f[i]]
<1>7. \A i \in 0 .. m - 1 : g[i] = f[i]
  BY <1>3
<1>8. \A i \in 0 .. m : g[i] = IF i = 0 THEN 0 ELSE g[i - 1] + Step(n, g[i - 1])
  <2> SUFFICES ASSUME NEW i \in 0 .. m
               PROVE  g[i] = IF i = 0 THEN 0 ELSE g[i - 1] + Step(n, g[i - 1])
    OBVIOUS
  <2>1. CASE i = m
    <3>1. g[i] = f[m - 1] + Step(n, f[m - 1]) /\ m - 1 \in 0 .. m - 1
      BY <1>3, <1>5, <2>1
    <3> HIDE DEF g
    <3> QED BY <1>4, <1>7, <2>1, <3>1
  <2>2. CASE i # m
    <3>1. i \in 0 .. m - 1 /\ (i # 0 => i - 1 \in 0 .. m - 1)
      BY <1>3, <2>2
    <3>2. f[i] = IF i = 0 THEN 0 ELSE f[i - 1] + Step(n, f[i - 1])
      BY <1>6, <3>1 DEF IsTick
    <3> HIDE DEF g
    <3> QED BY <1>7, <3>1, <3>2
  <2> QED BY <2>1, <2>2
<1>9. g = [i \in 0 .. m |-> g[i]]
  OBVIOUS
<1> HIDE DEF g
<1>10. IsTick(n, g, m)
  BY <1>8, <1>9 DEF IsTick
<1> QED BY <1>3, <1>10

\* The ticks one after the other.
Ticking(n, f) ==
  /\ Ticks(n) = {f[i] : i \in 0 .. 94 + n}
  /\ f[0] = 0
  /\ \A i \in 0 .. 93 + n : f[i + 1] = f[i] + Step(n, f[i])

LEMMA TicksAre == ASSUME NEW n \in Nat PROVE \E f : Ticking(n, f)
<1>1. PICK k \in Nat : k = 94 + n
  OBVIOUS
<1>2. PICK f : f = CHOOSE Tick : Tick = [i \in 0 .. 94 + n |->
                 IF i = 0 THEN 0 ELSE LET p == Tick[i - 1] IN p + Step(n, p)]
  OBVIOUS
<1>3. \E g : g = [i \in 0 .. 94 + n |->
                   IF i = 0 THEN 0 ELSE LET p == g[i - 1] IN p + Step(n, p)]
  <2>1. PICK g : IsTick(n, g, 94 + n)
    BY <1>1, TickExists
  <2> QED BY <2>1, Zenon DEF IsTick
<1>4. f = [i \in 0 .. 94 + n |-> IF i = 0 THEN 0 ELSE LET p == f[i - 1] IN p + Step(n, p)]
  BY <1>2, <1>3
<1>5. Ticks(n) = {f[i] : i \in 0 .. 94 + n}
  BY <1>2, Zenon DEF Ticks
<1>6. \A i \in 0 .. 94 + n : f[i] = IF i = 0 THEN 0 ELSE f[i - 1] + Step(n, f[i - 1])
  BY <1>4
<1>7. f[0] = 0
  <2>1. 0 \in 0 .. 94 + n
    OBVIOUS
  <2> QED BY <1>6, <2>1
<1>8. ASSUME NEW i \in 0 .. 93 + n PROVE f[i + 1] = f[i] + Step(n, f[i])
  <2>1. i + 1 \in 0 .. 94 + n /\ i + 1 # 0 /\ (i + 1) - 1 = i
    OBVIOUS
  <2> QED BY <1>6, <2>1
<1> QED BY <1>5, <1>7, <1>8 DEF Ticking

LEMMA TicksFit ==
  ASSUME NEW n \in Nat, NEW f, Ticking(n, f)
  PROVE  \A i \in 0 .. 94 + n : f[i] \in 0 .. All(n) - 1
<1>1. All(n) \in Nat /\ All(n) > 0
  BY AllIs
<1> DEFINE T == {i \in Nat : i <= 94 + n /\ f[i] \notin 0 .. All(n) - 1}
<1>2. T \in SUBSET Nat
  OBVIOUS
<1>3. \A i : i \in T <=> i \in Nat /\ i <= 94 + n /\ f[i] \notin 0 .. All(n) - 1
  OBVIOUS
<1> HIDE DEF T
<1>4. T = {}
  <2> SUFFICES ASSUME T # {} PROVE FALSE
    OBVIOUS
  <2>1. PICK m \in T : \A k \in T : m <= k
    BY <1>2, Least
  <2>2. m \in Nat /\ m <= 94 + n
    BY <1>3, <2>1, Zenon
  <2>3. f[m] \notin 0 .. All(n) - 1
    BY <1>3, <2>1, Zenon
  <2>4. m # 0
    <3>1. 0 \in 0 .. All(n) - 1
      BY <1>1
    <3> QED BY <2>3, <3>1 DEF Ticking
  <2>5. m - 1 \in Nat /\ m - 1 <= 94 + n /\ ~(m <= m - 1)
    BY <2>2, <2>4
  <2>6. m - 1 \notin T
    BY <2>1, <2>5, Zenon
  <2>7. f[m - 1] \in 0 .. All(n) - 1
    BY <1>3, <2>5, <2>6, Zenon
  <2>8. f[m] = f[m - 1] + Step(n, f[m - 1])
    <3>1. m - 1 \in 0 .. 93 + n /\ (m - 1) + 1 = m
      BY <2>2, <2>4
    <3> QED BY <3>1 DEF Ticking
  <2> QED BY <2>3, <2>7, <2>8, StepFits
<1>5. ASSUME NEW i \in 0 .. 94 + n PROVE f[i] \in 0 .. All(n) - 1
  <2>1. i \in Nat /\ i <= 94 + n
    OBVIOUS
  <2> QED BY <1>3, <1>4, <2>1, Zenon
<1> QED BY <1>5

LEMMA TicksLow ==
  ASSUME NEW n \in Nat, NEW f, Ticking(n, f)
  PROVE  \A i \in 0 .. 94 : f[i] = i * Unit(n)
<1>1. PICK u \in Nat : u = Unit(n) /\ All(n) = 100 * u /\ u > 0
  BY AllIs
<1> DEFINE T == {i \in Nat : i <= 94 /\ f[i] # i * u}
<1>2. T \in SUBSET Nat
  OBVIOUS
<1>3. \A i : i \in T <=> i \in Nat /\ i <= 94 /\ f[i] # i * u
  OBVIOUS
<1> HIDE DEF T
<1>4. T = {}
  <2> SUFFICES ASSUME T # {} PROVE FALSE
    OBVIOUS
  <2>1. PICK m \in T : \A k \in T : m <= k
    BY <1>2, Least
  <2>2. m \in Nat /\ m <= 94 /\ f[m] # m * u
    BY <1>3, <2>1, Zenon
  <2>3. m # 0
    <3>1. f[0] = 0 /\ 0 * u = 0
      BY <1>1 DEF Ticking
    <3> QED BY <2>2, <3>1
  <2>4. PICK k \in Nat : m = k + 1 /\ k <= 93
    <3>1. m - 1 \in Nat /\ m = (m - 1) + 1 /\ m - 1 <= 93
      BY <2>2, <2>3
    <3> QED BY <3>1
  <2>5. k \notin T
    BY <2>1, <2>4
  <2>6. f[k] = k * u
    BY <1>3, <2>4, <2>5
  <2>7. k \in 0 .. 94 + n /\ k \in 0 .. 93 + n
    BY <2>4
  <2>8. f[k] \in 0 .. All(n) - 1 /\ f[m] = f[k] + Step(n, f[k])
    BY <2>4, <2>7, TicksFit DEF Ticking
  <2>9. All(n) - f[k] >= 7 * u
    <3>1. k * u <= 93 * u /\ k * u \in Nat
      BY <1>1, <2>4
    <3> QED BY <1>1, <2>6, <3>1
  <2>10. f[m] = k * u + u
    BY <1>1, <2>6, <2>8, <2>9, StepLow
  <2>11. (k + 1) * u = k * u + u
    BY <1>1, <2>4
  <2> QED BY <2>2, <2>4, <2>10, <2>11
<1>5. ASSUME NEW i \in 0 .. 94 PROVE f[i] = i * u
  <2>1. i \in Nat /\ i <= 94
    OBVIOUS
  <2> QED BY <1>3, <1>4, <2>1, Zenon
<1> QED BY <1>1, <1>5

\* Where tick 94 + k may be: it comes closer to 100 percent with every tick, but
\* does not halve the distance.
Nears(n, d, k) ==
  /\ d \in 1 .. All(n) /\ d <= 6 * Unit(n)
  /\ d * (k + 16) <= All(n) /\ Pow[k + 5] * d > All(n)

LEMMA NearsNext ==
  ASSUME NEW n \in Nat, NEW k \in 0 .. n, NEW p \in 0 .. All(n) - 1, Nears(n, All(n) - p, k)
  PROVE  Step(n, p) >= 1 /\ Nears(n, All(n) - (p + Step(n, p)), k + 1)
<1>1. PICK a \in Nat, u \in Nat : a = All(n) /\ u = Unit(n)
  BY AllIs
<1>2. PICK d \in Nat : /\ d = a - p /\ d >= 1 /\ d <= 6 * u /\ d * (k + 16) <= a
                       /\ Pow[k + 5] * d > a
  BY <1>1 DEF Nears
<1>3. k \in Nat /\ k + 5 \in 1 .. n + 7
  OBVIOUS
<1>4. PICK s \in Nat : s = Step(n, p) /\ s >= 1 /\ 10 * s >= d /\ 5 * s <= d
  BY <1>1, <1>2, <1>3, StepFits, StepHigh
<1>5. PICK c \in Nat : c = d - s /\ c >= 1 /\ c <= d /\ 10 * c <= 9 * d /\ 2 * c >= d
  BY <1>2, <1>4
<1>6. c * (k + 17) <= a
  <2>1. PICK m \in Nat : m = k + 16 /\ m >= 16
    BY <1>3
  <2>2. (10 * c) * (m + 1) <= (9 * d) * (m + 1)
    BY <1>2, <1>5, <2>1
  <2>3. (9 * d) * (m + 1) <= 10 * (d * m)
    <3>1. (9 * d) * (m + 1) = 9 * (d * m) + 9 * d
      BY <1>2, <2>1
    <3>2. d * m >= 16 * d /\ d * m \in Nat
      BY <1>2, <2>1
    <3> QED BY <1>2, <3>1, <3>2
  <2>4. (10 * c) * (m + 1) = 10 * (c * (m + 1)) /\ c * (m + 1) \in Nat /\ d * m \in Nat
    BY <1>2, <1>5, <2>1
  <2>5. 10 * (c * (m + 1)) <= 10 * (d * m)
    <3>1. (9 * d) * (m + 1) \in Nat
      BY <1>2, <2>1
    <3> QED BY <2>2, <2>3, <2>4, <3>1
  <2>6. c * (m + 1) <= d * m /\ m + 1 = k + 17
    BY <1>3, <2>1, <2>4, <2>5
  <2> QED BY <1>1, <1>2, <2>1, <2>4, <2>6
<1>7. Pow[k + 6] * c > a
  <2>1. PICK x \in Nat : x = Pow[k + 5] /\ Pow[k + 6] = 2 * x
    <3>1. k + 5 \in Nat /\ (k + 5) + 1 = k + 6
      BY <1>3
    <3> QED BY <3>1, PowNat, PowNext
  <2>2. x * d <= x * (2 * c)
    BY <1>2, <1>5, <2>1
  <2>3. x * (2 * c) = (2 * x) * c /\ x * d \in Nat /\ (2 * x) * c \in Nat
    BY <1>2, <1>5, <2>1
  <2> QED BY <1>1, <1>2, <2>1, <2>2, <2>3
<1>8. (k + 1) + 16 = k + 17 /\ (k + 1) + 5 = k + 6
  BY <1>3
<1>9. Nears(n, c, k + 1)
  BY <1>1, <1>2, <1>5, <1>6, <1>7, <1>8 DEF Nears
<1>10. c = All(n) - (p + Step(n, p))
  BY <1>1, <1>2, <1>4, <1>5
<1> QED BY <1>4, <1>9, <1>10

LEMMA TicksHigh ==
  ASSUME NEW n \in Nat, NEW f, Ticking(n, f)
  PROVE  \A k \in 0 .. n : Nears(n, All(n) - f[94 + k], k)
<1> DEFINE T == {k \in Nat : k <= n /\ ~Nears(n, All(n) - f[94 + k], k)}
<1>1. T \in SUBSET Nat
  OBVIOUS
<1>2. \A k : k \in T <=> k \in Nat /\ k <= n /\ ~Nears(n, All(n) - f[94 + k], k)
  OBVIOUS
<1> HIDE DEF T
<1>3. T = {}
  <2> SUFFICES ASSUME T # {} PROVE FALSE
    OBVIOUS
  <2>1. PICK m \in T : \A k \in T : m <= k
    BY <1>1, Least
  <2>2. m \in Nat /\ m <= n /\ ~Nears(n, All(n) - f[94 + m], m)
    BY <1>2, <2>1, Zenon
  <2>3. m # 0
    <3>1. f[94] = 94 * Unit(n)
      BY TicksLow
    <3>2. PICK u \in Nat : u = Unit(n) /\ All(n) = 100 * u /\ u > 0
      BY AllIs
    <3>3. All(n) - f[94] = 6 * u
      BY <3>1, <3>2
    <3>4. Nears(n, 6 * u, 0)
      <4>1. /\ 6 * u \in 1 .. All(n) /\ 6 * u <= 6 * Unit(n)
            /\ (6 * u) * (0 + 16) <= All(n)
        BY <3>2
      <4>2. 0 + 5 = 5 /\ Pow[5] = 32
        BY PowValues
      <4>3. Pow[0 + 5] * (6 * u) > All(n)
        BY <3>2, <4>2
      <4> QED BY <4>1, <4>3 DEF Nears
    <3>5. 94 + 0 = 94
      OBVIOUS
    <3> QED BY <2>2, <3>3, <3>4, <3>5
  <2>4. PICK k \in Nat : m = k + 1 /\ k <= n
    <3>1. m - 1 \in Nat /\ m = (m - 1) + 1 /\ m - 1 <= n
      BY <2>2, <2>3
    <3> QED BY <3>1
  <2>5. k \notin T
    BY <2>1, <2>4
  <2>6. Nears(n, All(n) - f[94 + k], k)
    BY <1>2, <2>4, <2>5
  <2>7. 94 + k \in 0 .. 93 + n /\ 94 + k \in 0 .. 94 + n /\ 94 + m = (94 + k) + 1
    BY <2>2, <2>4
  <2>8. f[94 + k] \in 0 .. All(n) - 1 /\ f[94 + m] = f[94 + k] + Step(n, f[94 + k])
    BY <2>7, TicksFit DEF Ticking
  <2>9. Nears(n, All(n) - f[94 + m], k + 1)
    <3>1. k \in 0 .. n
      BY <2>4
    <3> QED BY <2>6, <2>8, <3>1, NearsNext
  <2> QED BY <2>2, <2>4, <2>9
<1>4. ASSUME NEW k \in 0 .. n PROVE Nears(n, All(n) - f[94 + k], k)
  <2>1. k \in Nat /\ k <= n
    OBVIOUS
  <2> QED BY <1>2, <1>3, <2>1, Zenon
<1> QED BY <1>4

\* Every tick but the last is followed by one above it.
LEMMA TicksRise ==
  ASSUME NEW n \in Nat, NEW f, Ticking(n, f), NEW i \in 0 .. 93 + n
  PROVE  /\ f[i] \in 0 .. All(n) - 1 /\ f[i + 1] \in 0 .. All(n) - 1
         /\ f[i + 1] - f[i] >= 1 /\ f[i + 1] - f[i] <= Unit(n)
         /\ 5 * (f[i + 1] - f[i]) <= All(n) - f[i]
<1>1. i \in 0 .. 94 + n /\ i + 1 \in 0 .. 94 + n
  OBVIOUS
<1>2. PICK p \in 0 .. All(n) - 1 : p = f[i] /\ f[i + 1] = p + Step(n, p)
  BY <1>1, TicksFit DEF Ticking
<1>3. f[i + 1] \in 0 .. All(n) - 1
  BY <1>1, TicksFit
<1>4. PICK s \in Nat : s = Step(n, p) /\ s <= Unit(n) /\ 5 * s <= All(n) - p
  BY <1>2, StepFits
<1>5. s >= 1
  <2>1. CASE i < 94
    <3>1. PICK u \in Nat : u = Unit(n) /\ All(n) = 100 * u /\ u > 0
      BY AllIs
    <3>2. i \in 0 .. 94 /\ i \in Nat /\ i <= 93
      BY <2>1
    <3>3. p = i * u
      BY <1>2, <3>1, <3>2, TicksLow
    <3>4. i * u <= 93 * u /\ i * u \in Nat
      BY <3>1, <3>2
    <3>5. All(n) - p >= 7 * Unit(n)
      BY <3>1, <3>3, <3>4
    <3> QED BY <1>2, <1>4, <3>1, <3>5, StepLow
  <2>2. CASE ~(i < 94)
    <3>1. PICK k \in 0 .. n : i = 94 + k
      <4>1. i - 94 \in 0 .. n /\ i = 94 + (i - 94)
        BY <2>2
      <4> QED BY <4>1
    <3>2. Nears(n, All(n) - p, k)
      BY <1>2, <3>1, TicksHigh
    <3> QED BY <1>2, <1>4, <3>2, NearsNext
  <2> QED BY <2>1, <2>2
<1>6. p \in Int /\ f[i + 1] - f[i] = s
  BY <1>2, <1>4
<1> QED BY <1>2, <1>3, <1>4, <1>5, <1>6

LEMMA TicksSorted ==
  ASSUME NEW n \in Nat, NEW f, Ticking(n, f), NEW j \in 0 .. 94 + n, NEW i \in 0 .. j
  PROVE  f[i] <= f[j]
<1>1. i \in Nat /\ i <= j /\ j <= 94 + n /\ j \in Nat
  OBVIOUS
<1> DEFINE T == {k \in Nat : i <= k /\ k <= 94 + n /\ ~(f[i] <= f[k])}
<1>2. T \in SUBSET Nat
  OBVIOUS
<1>3. \A k : k \in T <=> k \in Nat /\ i <= k /\ k <= 94 + n /\ ~(f[i] <= f[k])
  OBVIOUS
<1> HIDE DEF T
<1>4. ASSUME T # {} PROVE FALSE
  <2>1. PICK m \in T : \A k \in T : m <= k
    BY <1>2, <1>4, Least
  <2>2. m \in Nat /\ i <= m /\ m <= 94 + n /\ ~(f[i] <= f[m])
    BY <1>3, <2>1, Zenon
  <2>3. f[i] \in Nat
    <3>1. i \in 0 .. 94 + n
      BY <1>1
    <3>2. f[i] \in 0 .. All(n) - 1
      BY <3>1, TicksFit
    <3> QED BY <3>2
  <2>4. m # i
    BY <2>2, <2>3
  <2>5. PICK k \in Nat : m = k + 1 /\ i <= k /\ k \in 0 .. 93 + n
    <3>1. m - 1 \in Nat /\ m = (m - 1) + 1 /\ i <= m - 1 /\ m - 1 \in 0 .. 93 + n
      BY <1>1, <2>2, <2>4
    <3> QED BY <3>1
  <2>6. k \notin T
    BY <2>1, <2>5
  <2>7. f[i] <= f[k]
    <3>1. k <= 94 + n
      BY <2>2, <2>5
    <3> QED BY <1>3, <2>5, <2>6, <3>1
  <2>8. f[k] \in 0 .. All(n) - 1 /\ f[m] \in 0 .. All(n) - 1 /\ f[m] - f[k] >= 1
    BY <2>5, TicksRise
  <2> QED BY <2>2, <2>3, <2>7, <2>8
<1>5. j \notin T
  BY <1>4
<1> QED BY <1>1, <1>3, <1>5

\* Only the last sample is above the last tick.
LEMMA TicksEnd ==
  ASSUME NEW n \in Nat, n > 0, NEW f, Ticking(n, f), NEW x \in Nat, x < n
  PROVE  ~ReachedTick(x, n, f[94 + n])
<1>1. PICK a \in Nat : a = All(n) /\ a > 0
  BY AllIs
<1>2. n \in 0 .. n /\ 94 + n \in 0 .. 94 + n
  OBVIOUS
<1>3. PICK p \in Nat : p = f[94 + n] /\ p < a
  BY <1>1, <1>2, TicksFit
<1>4. PICK d \in Nat : d = a - p /\ d >= 1 /\ d * (n + 16) <= a
  BY <1>1, <1>2, <1>3, TicksHigh DEF Nears
<1>5. d * n < a
  <2>1. d * (n + 16) = d * n + 16 * d /\ d * n \in Nat
    BY <1>4
  <2> QED BY <1>4, <2>1
<1>6. x * a < p * n
  <2>1. PICK y \in Nat : n = y + 1 /\ x <= y
    <3>1. n - 1 \in Nat /\ n = (n - 1) + 1 /\ x <= n - 1
      OBVIOUS
    <3> QED BY <3>1
  <2>2. x * a <= y * a /\ y * a \in Nat /\ x * a \in Nat
    BY <1>1, <2>1
  <2>3. n * a = y * a + a
    BY <1>1, <2>1
  <2>4. p * n + d * n = a * n /\ a * n = n * a
    BY <1>3, <1>4
  <2>5. p * n \in Nat /\ d * n \in Nat
    BY <1>3, <1>4
  <2> QED BY <1>1, <1>5, <2>2, <2>3, <2>4, <2>5
<1>7. x * a \in Nat /\ p * n \in Nat
  BY <1>1, <1>3
<1> QED BY <1>1, <1>3, <1>6, <1>7 DEF ReachedTick

-----------------------------------------------------------------------------
(* The table of percentiles: every row is that of a slot.                      *)

LEMMA TickCounts ==
  ASSUME NEW n \in Nat, NEW p \in 0 .. All(n)
  PROVE  /\ ReachedTick(n, n, p)
         /\ \A x \in Nat, q \in 0 .. p : ReachedTick(x, n, p) => ReachedTick(x, n, q)
         /\ \A y \in Nat : n > 0 /\ p > 0 /\ ReachedTick(y, n, p) => y > 0
<1>1. PICK a \in Nat : a = All(n) /\ p \in Nat /\ p <= a
  BY AllIs
<1>2. n * a >= p * n
  BY <1>1
<1>3. ASSUME NEW x \in Nat, NEW q \in 0 .. p, x * a >= p * n PROVE x * a >= q * n
  <2>1. q \in Nat /\ q <= p
    BY <1>1
  <2>2. q * n <= p * n /\ q * n \in Nat /\ p * n \in Nat /\ x * a \in Nat
    BY <1>1, <2>1
  <2> QED BY <1>3, <2>2
<1>4. ASSUME NEW y \in Nat, n > 0, p > 0, y * a >= p * n PROVE y > 0
  <2>1. p * n > 0
    BY <1>1, <1>4
  <2>2. 0 * a = 0
    BY <1>1
  <2> QED BY <1>1, <1>4, <2>1, <2>2
<1>5. \A x, q : ReachedTick(x, n, q) <=> x * a >= q * n
  BY <1>1 DEF ReachedTick
<1> QED BY <1>2, <1>3, <1>4, <1>5

\* Of two slots that were counted the later has the greater count.
LEMMA CountsRise ==
  ASSUME Fits, NEW b, IsSamples(b),
         NEW s \in Counted(HistogramOf(b)), NEW t \in Counted(HistogramOf(b))
  PROVE  /\ UpToThis(b, s.highest_equivalent_value) \in Nat
         /\ UpToThis(b, s.value_from_index - 1) \in Nat
         /\ UpToThis(b, s.value_from_index - 1) < UpToThis(b, s.highest_equivalent_value)
         /\ UpToThis(b, s.highest_equivalent_value) <= UpToThis(b, t.highest_equivalent_value)
              => s.highest_equivalent_value <= t.highest_equivalent_value
<1>1. s \in Slots /\ t \in Slots
  BY RecordedIsCounted
<1>2. /\ s.value_from_index \in Nat /\ s.highest_equivalent_value \in Nat
      /\ t.value_from_index \in Nat /\ t.highest_equivalent_value \in Nat
      /\ s.value_from_index <= s.highest_equivalent_value
      /\ t.value_from_index < s.value_from_index
           => t.highest_equivalent_value < s.value_from_index
      /\ s.value_from_index < t.value_from_index
           => s.highest_equivalent_value < t.value_from_index
      /\ t.value_from_index <= t.highest_equivalent_value
      /\ s.value_from_index = t.value_from_index => s = t
  BY <1>1, SlotOrder
<1>3. /\ \A v \in Int : UpToThis(b, v) \in Nat
      /\ \A v, w \in Int : v <= w => UpToThis(b, v) <= UpToThis(b, w)
  BY UpToRises
<1>4. s.value_from_index - 1 \in Int
  BY <1>2
<1>5. UpToThis(b, s.value_from_index - 1) < UpToThis(b, s.highest_equivalent_value)
  <2>1. PICK v \in DOMAIN b : v \in s.value_from_index .. s.highest_equivalent_value
    BY CountedHolds
  <2>2. /\ v \in Int /\ v - 1 \in Int /\ s.value_from_index - 1 <= v - 1
        /\ v <= s.highest_equivalent_value /\ b[v] \in Nat /\ b[v] > 0
    BY <1>2, <2>1 DEF IsSamples
  <2>3. UpToThis(b, v) = b[v] + UpToThis(b, v - 1)
    BY UpToRises
  <2>4. /\ UpToThis(b, s.value_from_index - 1) <= UpToThis(b, v - 1)
        /\ UpToThis(b, v) <= UpToThis(b, s.highest_equivalent_value)
        /\ UpToThis(b, v) \in Nat /\ UpToThis(b, v - 1) \in Nat
        /\ UpToThis(b, s.value_from_index - 1) \in Nat
        /\ UpToThis(b, s.highest_equivalent_value) \in Nat
    BY <1>2, <1>3, <1>4, <2>2
  <2> QED BY <2>2, <2>3, <2>4
<1>6. ASSUME UpToThis(b, s.highest_equivalent_value) <= UpToThis(b, t.highest_equivalent_value)
      PROVE  s.highest_equivalent_value <= t.highest_equivalent_value
  <2>1. CASE t.value_from_index < s.value_from_index
    <3>1. t.highest_equivalent_value <= s.value_from_index - 1
      BY <1>2, <2>1
    <3>2. /\ UpToThis(b, t.highest_equivalent_value) <= UpToThis(b, s.value_from_index - 1)
          /\ UpToThis(b, t.highest_equivalent_value) \in Nat
          /\ UpToThis(b, s.value_from_index - 1) \in Nat
          /\ UpToThis(b, s.highest_equivalent_value) \in Nat
      BY <1>2, <1>3, <1>4, <3>1
    <3> QED BY <1>5, <1>6, <3>2
  <2>2. CASE ~(t.value_from_index < s.value_from_index)
    BY <1>2, <2>2
  <2> QED BY <2>1, <2>2
<1> QED BY <1>2, <1>3, <1>4, <1>5, <1>6

\* A row of a slot that reaches p, and for a tick the first that does.
IsRow(b, n, r, s, p) ==
  LET total == UpToThis(b, s.highest_equivalent_value)
  IN /\ s \in Counted(HistogramOf(b)) /\ p \in 0 .. All(n)
     /\ r = [value |-> s.highest_equivalent_value, percentile |-> p, total_count |-> total]
     /\ ReachedTick(total, n, p)
     /\ p < All(n) => \A t \in Counted(HistogramOf(b)) :
                     ReachedTick(UpToThis(b, t.highest_equivalent_value), n, p)
                       => total <= UpToThis(b, t.highest_equivalent_value)

SlotRow(b, s) ==
  [value |-> s.highest_equivalent_value,
   total_count |-> UpToThis(b, s.highest_equivalent_value)]

SlotRows(b) == {SlotRow(b, s) : s \in Counted(HistogramOf(b))}

TheLeast(at) == CHOOSE s \in at : \A r \in at : s.total_count <= r.total_count
TheRow(s, p) == [value |-> s.value, percentile |-> p, total_count |-> s.total_count]

LEMMA TheLeastIs ==
  ASSUME NEW at, at # {}, \A s \in at : s.total_count \in Nat
  PROVE  TheLeast(at) \in at /\ \A r \in at : TheLeast(at).total_count <= r.total_count
<1> DEFINE T == {s.total_count : s \in at}
<1>1. PICK x \in T : \A y \in T : x <= y
  <2>1. T \in SUBSET Nat /\ T # {}
    OBVIOUS
  <2> HIDE DEF T
  <2> QED BY <2>1, Least
<1>2. PICK s \in at : s.total_count = x
  OBVIOUS
<1>3. \A r \in at : s.total_count <= r.total_count
  BY <1>1, <1>2
<1> QED BY <1>2, <1>3 DEF TheLeast

\* The row of a tick at p.
TickRow(b, n, p) ==
  TheRow(TheLeast({r \in SlotRows(b) : ReachedTick(r.total_count, n, p)}), p)

LEMMA RowOfTick ==
  ASSUME Fits, NEW b, IsSamples(b), NEW n, n = SizeOf(b), n > 0, NEW p \in 0 .. All(n) - 1
  PROVE  \E s : IsRow(b, n, TickRow(b, n, p), s, p)
<1> DEFINE at == {r \in SlotRows(b) : ReachedTick(r.total_count, n, p)}
<1>1. p \in 0 .. All(n) /\ p < All(n)
  <2>1. n \in Nat
    BY UpToRises
  <2>2. All(n) \in Nat
    BY <2>1, AllIs
  <2> QED BY <2>2
<1>2. n \in Nat /\ n \in 1 .. SizeOf(b)
  BY UpToRises
<1> DEFINE C == Counted(HistogramOf(b))
<1>3. \A s \in C : UpToThis(b, s.highest_equivalent_value) \in Nat
  BY CountsRise
<1>4. \A s \in C : SlotRow(b, s).total_count = UpToThis(b, s.highest_equivalent_value)
                   /\ SlotRow(b, s).value = s.highest_equivalent_value
  BY DEF SlotRow
<1>5. PICK l \in C : UpToThis(b, l.highest_equivalent_value) = n
  <2>1. PICK l : l = First(Reached(b, n))
    OBVIOUS
  <2>2. l \in Slots /\ l \in C /\ UpToThis(b, l.highest_equivalent_value) >= n
    BY <1>2, <2>1, ReachedSlot
  <2>3. l.highest_equivalent_value \in Int
    BY <2>2, SlotOrder
  <2>4. UpToThis(b, l.highest_equivalent_value) <= n
        /\ UpToThis(b, l.highest_equivalent_value) \in Nat
    BY <2>3, UpToRises
  <2> QED BY <1>2, <2>2, <2>4
<1>6. ReachedTick(n, n, p)
  BY <1>1, <1>2, TickCounts
<1>7. SlotRow(b, l) \in at
  BY <1>4, <1>5, <1>6 DEF SlotRows
<1>8. \A r \in at : r.total_count \in Nat
  BY <1>3, <1>4 DEF SlotRows
<1>14. TickRow(b, n, p) = TheRow(TheLeast(at), p)
  BY DEF TickRow
<1> HIDE DEF at
<1>9. TheLeast(at) \in at /\ \A r \in at : TheLeast(at).total_count <= r.total_count
  BY <1>7, <1>8, TheLeastIs
<1>10. PICK s \in C : TheLeast(at) = SlotRow(b, s)
  BY <1>9 DEF at, SlotRows
<1>11. ReachedTick(UpToThis(b, s.highest_equivalent_value), n, p)
  BY <1>4, <1>9, <1>10 DEF at
<1>12. TheRow(TheLeast(at), p)
         = [value |-> s.highest_equivalent_value, percentile |-> p,
            total_count |-> UpToThis(b, s.highest_equivalent_value)]
  BY <1>4, <1>10 DEF TheRow
<1>13. ASSUME NEW t \in C, ReachedTick(UpToThis(b, t.highest_equivalent_value), n, p)
       PROVE  UpToThis(b, s.highest_equivalent_value) <= UpToThis(b, t.highest_equivalent_value)
  <2>1. SlotRow(b, t) \in at
    BY <1>4, <1>13 DEF at, SlotRows
  <2> QED BY <1>4, <1>9, <1>10, <2>1
<1> QED BY <1>1, <1>10, <1>11, <1>12, <1>13, <1>14 DEF IsRow

TicksOf(n, slots) ==
  {TheRow(TheLeast({s \in slots : ReachedTick(s.total_count, n, p)}), p)
     : p \in Ticks(n)}

End(n, slots) ==
  Min({r.percentile : r \in {q \in TicksOf(n, slots) : q.total_count = n}})

Table(n, slots) ==
  {r \in TicksOf(n, slots) : r.percentile <= End(n, slots)}
    \cup {TheRow(s, All(n)) : s \in {q \in slots : q.total_count = n}}

LEMMA TableIs ==
  ASSUME NEW h
  PROVE  hdr_percentiles_print(h)
           = IF h.total_count = 0
             THEN {[value |-> 0, percentile |-> All(h.total_count), total_count |-> 0]}
             ELSE Table(h.total_count,
                        {[value |-> s.highest_equivalent_value,
                          total_count |-> count_to_index(h, s)] : s \in Recorded(h)})
BY Zenon DEF hdr_percentiles_print, Table, End, TicksOf, TheRow, TheLeast

\* The table of a report that counted something.
LEMMA RowsOf ==
  ASSUME Fits, NEW b, IsSamples(b), NEW n, n = SizeOf(b), n > 0
  PROVE  hdr_percentiles_print(HistogramOf(b))
           = Table(n, SlotRows(b))
<1> DEFINE h == HistogramOf(b)
           C == Counted(h)
           slots == {SlotRow(b, s) : s \in C}
<1>1. h.total_count = n
  BY DEF HistogramOf, SizeOf
<1>2. Recorded(h) = C
  BY RecordedIsCounted
<1>3. \A s \in C : [value |-> s.highest_equivalent_value,
                    total_count |-> count_to_index(h, s)] = SlotRow(b, s)
  <2>1. \A s \in C : s \in Slots
    BY RecordedIsCounted
  <2> QED BY <2>1, CountTo DEF SlotRow
<1>4. {[value |-> s.highest_equivalent_value,
        total_count |-> count_to_index(h, s)] : s \in Recorded(h)} = slots
  BY <1>2, <1>3
<1>5. n # 0
  BY UpToRises
<1> HIDE DEF h, slots
<1>6. PICK c : c = {[value |-> s.highest_equivalent_value,
                     total_count |-> count_to_index(h, s)] : s \in Recorded(h)}
  OBVIOUS
<1>7. hdr_percentiles_print(h)
        = IF h.total_count = 0
          THEN {[value |-> 0, percentile |-> All(h.total_count), total_count |-> 0]}
          ELSE Table(h.total_count, c)
  BY <1>6, TableIs, Zenon
<1>8. hdr_percentiles_print(h) = Table(n, slots)
  BY <1>1, <1>4, <1>5, <1>6, <1>7
<1> QED BY <1>8 DEF h, slots, SlotRows

\* The count of a row is at most n, and n for the last tick and for 100 percent.
LEMMA RowCounts ==
  ASSUME Fits, NEW b, IsSamples(b), NEW n, n = SizeOf(b), n > 0, NEW f, Ticking(n, f)
  PROVE  /\ \A i \in 0 .. 94 + n :
              LET r == TickRow(b, n, f[i]) IN
              /\ f[i] \in 0 .. All(n) - 1 /\ r.percentile = f[i]
              /\ r.total_count \in Nat /\ r.total_count <= n
              /\ \E s : IsRow(b, n, r, s, f[i])
         /\ TickRow(b, n, f[94 + n]).total_count = n
<1>1. n \in Nat
  BY UpToRises
<1>2. ASSUME NEW i \in 0 .. 94 + n, NEW r, r = TickRow(b, n, f[i])
      PROVE  /\ f[i] \in 0 .. All(n) - 1 /\ r.percentile = f[i]
             /\ r.total_count \in Nat /\ r.total_count <= n
             /\ \E s : IsRow(b, n, r, s, f[i])
             /\ ReachedTick(r.total_count, n, f[i])
  <2>1. f[i] \in 0 .. All(n) - 1
    BY <1>1, <1>2, TicksFit
  <2>2. PICK s : IsRow(b, n, r, s, f[i])
    BY <1>2, <2>1, RowOfTick
  <2>3. /\ s \in Counted(HistogramOf(b)) /\ r.percentile = f[i]
        /\ r.total_count = UpToThis(b, s.highest_equivalent_value)
        /\ ReachedTick(r.total_count, n, f[i])
    BY <2>2 DEF IsRow
  <2>4. s.highest_equivalent_value \in Int
    BY <2>3, RecordedIsCounted, SlotOrder
  <2>5. r.total_count \in Nat /\ r.total_count <= n
    BY <2>3, <2>4, UpToRises
  <2> QED BY <2>1, <2>2, <2>3, <2>5
<1>3. TickRow(b, n, f[94 + n]).total_count = n
  <2>1. PICK r : r = TickRow(b, n, f[94 + n])
    OBVIOUS
  <2>2. 94 + n \in 0 .. 94 + n
    BY <1>1
  <2>3. r.total_count \in Nat /\ r.total_count <= n /\ ReachedTick(r.total_count, n, f[94 + n])
    BY <1>2, <2>1, <2>2
  <2>4. ~(r.total_count < n)
    BY <1>1, <2>3, TicksEnd
  <2> QED BY <1>1, <2>1, <2>3, <2>4
<1> QED BY <1>2, <1>3

\* The last tick of the table is the first that only all samples reach.
LEMMA EndIs ==
  ASSUME Fits, NEW b, IsSamples(b), NEW n, n = SizeOf(b), n > 0, NEW f, Ticking(n, f)
  PROVE  /\ TicksOf(n, SlotRows(b)) = {TickRow(b, n, f[i]) : i \in 0 .. 94 + n}
         /\ \E k \in 0 .. 94 + n :
              /\ TickRow(b, n, f[k]).total_count = n
              /\ End(n, SlotRows(b)) = f[k]
<1>1. n \in Nat /\ 94 + n \in 0 .. 94 + n
  <2>1. n \in Nat
    BY UpToRises
  <2> QED BY <2>1
<1>2. TicksOf(n, SlotRows(b)) = {TickRow(b, n, p) : p \in Ticks(n)}
  BY DEF TicksOf, TickRow
<1>3. Ticks(n) = {f[i] : i \in 0 .. 94 + n}
  BY DEF Ticking
<1>4. TicksOf(n, SlotRows(b)) = {TickRow(b, n, f[i]) : i \in 0 .. 94 + n}
  <2> HIDE DEF Ticking
  <2> QED BY <1>2, <1>3
<1> DEFINE E == {r.percentile : r \in {q \in TicksOf(n, SlotRows(b)) : q.total_count = n}}
<1>5. ASSUME NEW e
      PROVE  e \in E <=>
               \E i \in 0 .. 94 + n : e = f[i] /\ TickRow(b, n, f[i]).total_count = n
  <2>1. \A i \in 0 .. 94 + n : TickRow(b, n, f[i]).percentile = f[i]
    BY RowCounts
  <2>2. e \in E <=> \E r \in TicksOf(n, SlotRows(b)) : r.total_count = n /\ e = r.percentile
    OBVIOUS
  <2>3. \A r : r \in TicksOf(n, SlotRows(b)) <=> \E i \in 0 .. 94 + n : r = TickRow(b, n, f[i])
    BY <1>4
  <2> HIDE DEF E
  <2> QED BY <2>1, <2>2, <2>3
<1> HIDE DEF E
<1>6. E \in SUBSET Nat
  <2>1. ASSUME NEW e \in E PROVE e \in Nat
    <3>1. PICK i \in 0 .. 94 + n : e = f[i]
      BY <1>5, <2>1
    <3>2. f[i] \in 0 .. All(n) - 1
      BY RowCounts
    <3> QED BY <3>1, <3>2
  <2> QED BY <2>1
<1>7. f[94 + n] \in E
  <2>1. TickRow(b, n, f[94 + n]).total_count = n
    BY RowCounts
  <2> QED BY <1>1, <1>5, <2>1
<1>8. PICK m \in E : \A x \in E : m <= x
  BY <1>6, <1>7, Least
<1>9. Min(E) = m
  <2>1. E \in SUBSET Int
    BY <1>6
  <2> QED BY <1>8, <2>1, MinIs
<1>10. PICK k \in 0 .. 94 + n : m = f[k] /\ TickRow(b, n, f[k]).total_count = n
  BY <1>5, <1>8
<1>11. End(n, SlotRows(b)) = f[k]
  BY <1>9, <1>10 DEF E, End
<1> QED BY <1>4, <1>10, <1>11

\* All rows of the table are rows of slots, one is of tick 0 and one of all samples,
\* and a row that does not count all samples is followed by the next tick's.
LEMMA RowsAre ==
  ASSUME Fits, NEW b, IsSamples(b), NEW n, n = SizeOf(b), n > 0,
         NEW rows, rows = hdr_percentiles_print(HistogramOf(b))
  PROVE  /\ \A r \in rows : \E s, p : IsRow(b, n, r, s, p)
         /\ \E r \in rows : r.percentile = 0
         /\ \E r \in rows : \E s : IsRow(b, n, r, s, All(n)) /\ r.total_count = n
         /\ \A r \in rows : r.total_count < n =>
              \E q \in rows : LET step == q.percentile - r.percentile IN
                step > 0 /\ step <= Unit(n) /\ 5 * step <= All(n) - r.percentile
<1> DEFINE C == Counted(HistogramOf(b))
<1> DEFINE end == End(n, SlotRows(b))
           early == {r \in TicksOf(n, SlotRows(b)) : r.percentile <= end}
           last == {TheRow(s, All(n)) : s \in {q \in SlotRows(b) : q.total_count = n}}
<1>2. rows = early \cup last
  <2>1. rows = Table(n, SlotRows(b))
    BY RowsOf
  <2> QED BY <2>1 DEF Table
<1>3. n \in Nat /\ n \in 1 .. SizeOf(b)
  BY UpToRises
<1>4. PICK f : Ticking(n, f)
  BY <1>3, TicksAre
<1>5. /\ TicksOf(n, SlotRows(b)) = {TickRow(b, n, f[i]) : i \in 0 .. 94 + n}
      /\ \E k \in 0 .. 94 + n :
           TickRow(b, n, f[k]).total_count = n /\ End(n, SlotRows(b)) = f[k]
  BY <1>4, EndIs
<1>6. PICK k \in 0 .. 94 + n : TickRow(b, n, f[k]).total_count = n /\ end = f[k]
  BY <1>5
<1> HIDE DEF end
<1>7. \A i \in 0 .. 94 + n :
        LET r == TickRow(b, n, f[i]) IN
        /\ f[i] \in 0 .. All(n) - 1 /\ r.percentile = f[i]
        /\ r.total_count \in Nat /\ r.total_count <= n
        /\ \E s : IsRow(b, n, r, s, f[i])
  BY <1>4, RowCounts
<1>8. ASSUME NEW r \in last
      PROVE  r.total_count = n /\ \E s : IsRow(b, n, r, s, All(n))
  <2>1. PICK s \in C : r = TheRow(SlotRow(b, s), All(n)) /\ SlotRow(b, s).total_count = n
    BY <1>8 DEF SlotRows
  <2>2. UpToThis(b, s.highest_equivalent_value) = n
    BY <2>1 DEF SlotRow
  <2>3. r = [value |-> s.highest_equivalent_value, percentile |-> All(n),
             total_count |-> UpToThis(b, s.highest_equivalent_value)]
    BY <2>1 DEF TheRow, SlotRow
  <2>4. All(n) \in 0 .. All(n) /\ ~(All(n) < All(n))
    <3>1. All(n) \in Nat
      BY <1>3, AllIs
    <3> QED BY <3>1
  <2>5. ReachedTick(n, n, All(n))
    BY <1>3, <2>4, TickCounts
  <2> QED BY <2>2, <2>3, <2>4, <2>5 DEF IsRow
<1>9. last # {}
  <2>1. PICK l : l = First(Reached(b, n))
    OBVIOUS
  <2>2. l \in Slots /\ l \in C /\ UpToThis(b, l.highest_equivalent_value) >= n
    BY <1>3, <2>1, ReachedSlot
  <2>3. l.highest_equivalent_value \in Int
    BY <2>2, SlotOrder
  <2>4. UpToThis(b, l.highest_equivalent_value) <= n
        /\ UpToThis(b, l.highest_equivalent_value) \in Nat
    BY <2>3, UpToRises
  <2>5. SlotRow(b, l).total_count = n
    BY <1>3, <2>2, <2>4 DEF SlotRow
  <2>6. SlotRow(b, l) \in SlotRows(b)
    BY <2>2 DEF SlotRows
  <2> QED BY <2>5, <2>6
<1> HIDE DEF last
<1>10. ASSUME NEW i \in 0 .. 94 + n, f[i] <= f[k] PROVE TickRow(b, n, f[i]) \in rows
  BY <1>2, <1>5, <1>6, <1>7, <1>10
<1>11. ASSUME NEW r \in rows, r \notin last
       PROVE  \E i \in 0 .. 94 + n : r = TickRow(b, n, f[i])
  BY <1>2, <1>5, <1>11
<1>12. \E r \in rows : r.percentile = 0
  <2>1. 0 \in 0 .. 94 + n /\ f[0] = 0
    BY <1>3, <1>4 DEF Ticking
  <2>2. f[0] <= f[k]
    <3>1. f[k] \in 0 .. All(n) - 1
      BY <1>7
    <3> QED BY <2>1, <3>1
  <2> QED BY <1>7, <1>10, <2>1, <2>2
<1>13. ASSUME NEW r \in rows, r.total_count < n
       PROVE  \E q \in rows : LET step == q.percentile - r.percentile IN
                step > 0 /\ step <= Unit(n) /\ 5 * step <= All(n) - r.percentile
  <2>1. r \notin last
    BY <1>3, <1>8, <1>13
  <2>2. PICK i \in 0 .. 94 + n : r = TickRow(b, n, f[i])
    BY <1>11, <2>1
  <2>3. i \in 0 .. 93 + n /\ i + 1 \in 0 .. 94 + n
    <3>1. i # 94 + n
      BY <1>3, <1>4, <1>13, <2>2, RowCounts
    <3> QED BY <1>3, <3>1
  <2>4. /\ f[i + 1] - f[i] >= 1 /\ f[i + 1] - f[i] <= Unit(n)
        /\ 5 * (f[i + 1] - f[i]) <= All(n) - f[i]
        /\ f[i] \in 0 .. All(n) - 1 /\ f[i + 1] \in 0 .. All(n) - 1
    BY <1>3, <1>4, <2>3, TicksRise
  <2>5. f[i + 1] <= f[k]
    <3>1. CASE i + 1 <= k
      BY <1>3, <1>4, <1>6, <2>3, <3>1, TicksSorted
    <3>2. CASE ~(i + 1 <= k)
      <4>1. f[k] <= f[i]
        <5>1. k <= i
          BY <1>3, <1>6, <2>2, <3>2
        <5> QED BY <1>3, <1>4, <1>6, <2>2, <5>1, TicksSorted
      <4>2. f[i] # f[k]
        BY <1>3, <1>6, <1>13, <2>2
      <4>3. i \in 0 .. 94 + n /\ r.percentile = f[i]
        BY <1>7, <2>2
      <4>4. f[i] <= f[k]
        BY <1>2, <1>6, <2>1, <4>3
      <4> QED BY <1>7, <2>4, <4>1, <4>2, <4>4
    <3> QED BY <3>1, <3>2
  <2>6. PICK q : q = TickRow(b, n, f[i + 1])
    OBVIOUS
  <2>7. q \in rows /\ q.percentile = f[i + 1] /\ r.percentile = f[i]
    BY <1>7, <1>10, <2>2, <2>3, <2>5, <2>6
  <2>8. q.percentile - r.percentile > 0
    BY <2>4, <2>7
  <2> QED BY <2>4, <2>7, <2>8
<1>14. ASSUME NEW r \in rows PROVE \E s, p : IsRow(b, n, r, s, p)
  <2>1. CASE r \in last
    BY <1>8, <2>1
  <2>2. CASE r \notin last
    BY <1>7, <1>11, <2>2
  <2> QED BY <2>1, <2>2
<1>15. \E r \in rows : \E s : IsRow(b, n, r, s, All(n)) /\ r.total_count = n
  <2>1. PICK r \in last : TRUE
    BY <1>9
  <2> QED BY <1>2, <1>8, <2>1
<1> QED BY <1>12, <1>13, <1>14, <1>15

LEMMA RowIsFirst ==
  ASSUME Fits, NEW b, IsSamples(b), NEW n, n = SizeOf(b), n > 0,
         NEW r, NEW s, NEW p, IsRow(b, n, r, s, p)
  PROVE  /\ r.value = s.highest_equivalent_value /\ r.percentile = p
         /\ r.total_count = UpToThis(b, s.highest_equivalent_value)
         /\ r.value \in Int /\ r.total_count \in Nat
         /\ r.total_count = UpToValue(b, r.value)
         /\ ReachedTick(r.total_count, n, p)
         /\ p \in 1 .. All(n) - 1 =>
              /\ UpToValue(b, lowest_equivalent_value(r.value) - 1) \in Nat
              /\ ~ReachedTick(UpToValue(b, lowest_equivalent_value(r.value) - 1), n, p)
<1> DEFINE C == Counted(HistogramOf(b))
           total == UpToThis(b, s.highest_equivalent_value)
           y == UpToThis(b, s.value_from_index - 1)
<1>1. /\ s \in C /\ p \in 0 .. All(n) /\ ReachedTick(total, n, p)
      /\ r.value = s.highest_equivalent_value /\ r.percentile = p /\ r.total_count = total
  BY DEF IsRow
<1>2. s \in Slots /\ s.value_from_index \in Nat /\ s.highest_equivalent_value \in Nat
      /\ lowest_equivalent_value(r.value) = s.value_from_index
  BY <1>1, RecordedIsCounted, SlotOrder
<1>3. r.value \in Int /\ s.value_from_index - 1 \in Int /\ All(n) \in Nat
  <2>1. n \in Nat
    BY UpToRises
  <2>2. All(n) \in Nat
    BY <2>1, AllIs
  <2> QED BY <1>1, <1>2, <2>2
<1>4. /\ UpToValue(b, r.value) = total /\ total \in Nat
      /\ UpToValue(b, s.value_from_index - 1) = y /\ y \in Nat
  BY <1>1, <1>3, UpToValueIs
<1>5. ASSUME p \in 1 .. All(n) - 1 PROVE ~ReachedTick(y, n, p)
  <2> SUFFICES ASSUME ReachedTick(y, n, p) PROVE FALSE
    OBVIOUS
  <2>1. p > 0 /\ p < All(n) /\ p \in 0 .. All(n) /\ n \in Nat
    BY <1>3, <1>5, UpToRises
  <2>2. \A z \in Nat : n > 0 /\ p > 0 /\ ReachedTick(z, n, p) => z > 0
    BY <2>1, TickCounts
  <2>3. y > 0
    BY <1>4, <2>1, <2>2
  <2>4. y <= n /\ y \in 1 .. SizeOf(b)
    BY <1>3, <1>4, <2>1, <2>3, UpToRises
  <2>5. PICK t : t = First(Reached(b, y))
    OBVIOUS
  <2>6. /\ t \in C /\ t \in Slots /\ UpToThis(b, t.highest_equivalent_value) >= y
        /\ UpToThis(b, t.value_from_index - 1) < y
    BY <2>4, <2>5, ReachedSlot
  <2>7. /\ t.value_from_index \in Nat /\ t.highest_equivalent_value \in Nat
        /\ t.value_from_index < s.value_from_index
             => t.highest_equivalent_value < s.value_from_index
    BY <1>2, <2>6, SlotOrder
  <2>8. \A v, w \in Int : v <= w => UpToThis(b, v) <= UpToThis(b, w)
    BY UpToRises
  <2>9. t.value_from_index < s.value_from_index
    <3> SUFFICES ASSUME ~(t.value_from_index < s.value_from_index) PROVE FALSE
      OBVIOUS
    <3>1. s.value_from_index - 1 <= t.value_from_index - 1 /\ t.value_from_index - 1 \in Int
      BY <1>2, <2>7
    <3>2. y <= UpToThis(b, t.value_from_index - 1)
      BY <1>3, <2>8, <3>1
    <3>3. UpToThis(b, t.value_from_index - 1) \in Nat
      BY <3>1, UpToRises
    <3> QED BY <1>4, <2>6, <3>2, <3>3
  <2>10. t.highest_equivalent_value <= s.value_from_index - 1
         /\ t.highest_equivalent_value \in Int
    BY <1>2, <2>7, <2>9
  <2>11. UpToThis(b, t.highest_equivalent_value) <= y
         /\ UpToThis(b, t.highest_equivalent_value) \in Nat
    BY <1>3, <2>8, <2>10, UpToRises
  <2>12. UpToThis(b, t.highest_equivalent_value) = y
    BY <1>4, <2>6, <2>11
  <2>13. total <= UpToThis(b, t.highest_equivalent_value)
    <3>1. ReachedTick(UpToThis(b, t.highest_equivalent_value), n, p)
      BY <2>12
    <3> QED BY <2>1, <2>6, <3>1 DEF IsRow
  <2>14. y < total
    BY <1>1, CountsRise
  <2> QED BY <1>4, <2>12, <2>13, <2>14
<1> QED BY <1>1, <1>2, <1>3, <1>4, <1>5

LEMMA RowsRise ==
  ASSUME Fits, NEW b, IsSamples(b), NEW n, n = SizeOf(b), n > 0,
         NEW r, NEW s, NEW p, IsRow(b, n, r, s, p),
         NEW q, NEW t, NEW o, IsRow(b, n, q, t, o), p < o
  PROVE  r.value <= q.value /\ r.total_count <= q.total_count
<1> DEFINE C == Counted(HistogramOf(b))
<1>1. /\ r.value = s.highest_equivalent_value
      /\ r.total_count = UpToThis(b, s.highest_equivalent_value)
      /\ q.value = t.highest_equivalent_value
      /\ q.total_count = UpToThis(b, t.highest_equivalent_value)
      /\ q.total_count \in Nat /\ ReachedTick(q.total_count, n, o)
  BY RowIsFirst
<1>2. s \in C /\ t \in C /\ p \in 0 .. All(n) /\ o \in 0 .. All(n)
  BY DEF IsRow
<1>3. p < All(n) /\ p \in 0 .. o
  <2>1. n \in Nat
    BY UpToRises
  <2>2. All(n) \in Nat
    BY <2>1, AllIs
  <2> QED BY <1>2, <2>2
<1>4. ReachedTick(q.total_count, n, p)
  <2>1. n \in Nat
    BY UpToRises
  <2>2. \A x \in Nat, k \in 0 .. o : ReachedTick(x, n, o) => ReachedTick(x, n, k)
    BY <1>2, <2>1, TickCounts
  <2> QED BY <1>1, <1>3, <2>2
<1>5. UpToThis(b, s.highest_equivalent_value) <= UpToThis(b, t.highest_equivalent_value)
  BY <1>1, <1>2, <1>3, <1>4 DEF IsRow
<1>6. s.highest_equivalent_value <= t.highest_equivalent_value
  BY <1>2, <1>5, CountsRise
<1> QED BY <1>1, <1>5, <1>6

\* The table of percentiles that main prints (hdr_percentile_iter_next, wrk.c:310): every
\* row counts the samples up to its value and is of the first slot that reaches its
\* percentage, values and counts rise with the percentage, it begins at 0 percent, goes on
\* by at most one percent and at most a fifth of what is left, and ends with all samples.
THEOREM SpectrumIsRight ==
  ASSUME Fits
  PROVE  Spec => []SpectrumRises
<1>1. ASSUME Inv, LatenciesKept, ReportSoFar
      PROVE  SpectrumRises
  <2> SUFFICES ASSUME At("done") PROVE SpectrumRises
    BY DEF SpectrumRises
  <2>1. PICK b : b = AllSamples("latency")
    OBVIOUS
  <2>2. IsSamples(b) /\ report.latency = HistogramOf(b)
    <3>1. "latency" \in {"latency", "u_latency"} /\ report.latency = report["latency"]
      OBVIOUS
    <3> QED BY <1>1, <2>1, <3>1, ReportIs
  <2>3. PICK n \in Nat : n = SizeOf(b)
    BY <2>2, UpToRises
  <2>4. SumFunction(b) = n
    <3>1. IsFiniteSet(DOMAIN b) /\ NatOn(b, DOMAIN b)
      BY <2>2, SamplesCount
    <3> QED BY <2>3, <3>1, SumOfFunction DEF SizeOf
  <2>5. PICK rows : rows = hdr_percentiles_print(report.latency)
    OBVIOUS
  <2> DEFINE RowFits(r) ==
        /\ r.total_count = UpToValue(b, r.value)
        /\ n > 0 => /\ r.total_count * All(n) >= r.percentile * n
                    /\ r.percentile \in 1 .. All(n) - 1 /\ r.total_count < n =>
                         UpToValue(b, lowest_equivalent_value(r.value) - 1) * All(n)
                           < r.percentile * n
             Follows(q, r) == LET step == q.percentile - r.percentile IN
                                step > 0 /\ step <= Unit(n) /\ 5 * step <= All(n) - r.percentile
             GoesOn(r) == r.total_count < n => \E q \in rows : Follows(q, r)
             Rise(r, q) == r.percentile < q.percentile =>
                             r.value <= q.value /\ r.total_count <= q.total_count
             Ends(r) == r.percentile = All(n) /\ r.total_count = n
  <2>6. CASE n = 0
    <3>1. rows = {[value |-> 0, percentile |-> All(n), total_count |-> 0]}
      <4>1. HistogramOf(b).total_count = 0
        BY <2>3, <2>6 DEF HistogramOf, SizeOf
      <4> QED BY <2>2, <2>5, <2>6, <4>1, TableIs
    <3>2. UpToValue(b, 0) = 0
      <4>1. /\ UpToValue(b, 0) = UpToThis(b, 0)
            /\ UpToThis(b, 0) \in Nat /\ UpToThis(b, 0) <= n
        BY <2>2, <2>3, UpToRises, UpToValueIs
      <4> QED BY <2>6, <4>1
    <3>3. \A r \in rows : r.value = 0 /\ r.percentile = All(n) /\ r.total_count = 0
      BY <3>1
    <3>4. \A r \in rows : RowFits(r)
      BY <2>6, <3>2, <3>3
    <3>5. ~(All(n) < All(n))
      <4>1. All(n) \in Nat
        BY <2>3, AllIs
      <4> QED BY <4>1
    <3>6. \A r, q \in rows : Rise(r, q)
      BY <3>3, <3>5
    <3>7. \E r \in rows : Ends(r)
      BY <2>6, <3>1, <3>3
    <3>8. (\A r \in rows : GoesOn(r)) /\ ~(n > 0)
      BY <2>6, <3>3
    <3> HIDE DEF GoesOn, Rise, Ends, RowFits
    <3> QED
      BY <2>1, <2>4, <2>5, <3>4, <3>6, <3>7, <3>8, Zenon
      DEF SpectrumRises, GoesOn, Follows, Rise, Ends, RowFits
  <2>7. CASE n > 0
    <3>1. \A r \in rows : \E s, p : IsRow(b, n, r, s, p)
      BY <2>2, <2>3, <2>5, <2>7, RowsAre
    <3>2. PICK e \in rows : \E l : IsRow(b, n, e, l, All(n)) /\ e.total_count = n
      BY <2>2, <2>3, <2>5, <2>7, RowsAre
    <3>3. ASSUME NEW r \in rows PROVE RowFits(r)
      <4>1. PICK s, p : IsRow(b, n, r, s, p)
        BY <3>1
      <4>2. /\ r.percentile = p /\ r.total_count = UpToValue(b, r.value)
            /\ ReachedTick(r.total_count, n, p)
        BY <2>2, <2>3, <2>7, <4>1, RowIsFirst
      <4>3. PICK low : low = UpToValue(b, lowest_equivalent_value(r.value) - 1)
        OBVIOUS
      <4>4. p \in 1 .. All(n) - 1 => low \in Nat /\ ~ReachedTick(low, n, p)
        BY <2>2, <2>3, <2>7, <4>1, <4>3, RowIsFirst
      <4>5. p \in 1 .. All(n) - 1 => low * All(n) < p * n
        <5> SUFFICES ASSUME p \in 1 .. All(n) - 1 PROVE low * All(n) < p * n
          OBVIOUS
        <5>1. All(n) \in Nat
          BY <2>3, AllIs
        <5>5. All(n) \in Nat /\ p \in Nat /\ low \in Nat
          BY <4>4, <5>1
        <5>2. PICK a \in Nat, x \in Nat, k \in Nat : a = All(n) /\ x = low /\ k = p
          BY <5>5, Zenon
        <5>3. ~(x * a >= k * n)
          BY <4>4, <5>2 DEF ReachedTick
        <5>4. x * a < k * n
          BY <5>2, <5>3
        <5> QED BY <5>2, <5>4
      <4> QED BY <4>2, <4>3, <4>4, <4>5 DEF ReachedTick
    <3>4. ASSUME NEW r \in rows, NEW q \in rows PROVE Rise(r, q)
      <4>1. PICK s, p : IsRow(b, n, r, s, p)
        BY <3>1
      <4>2. PICK t, o : IsRow(b, n, q, t, o)
        BY <3>1
      <4>3. r.percentile = p /\ q.percentile = o
        BY <4>1, <4>2 DEF IsRow
      <4>4. ASSUME p < o PROVE r.value <= q.value /\ r.total_count <= q.total_count
        BY <2>2, <2>3, <2>7, <4>1, <4>2, <4>4, RowsRise
      <4> QED BY <4>3, <4>4
    <3>5. Ends(e)
      BY <3>2 DEF IsRow
    <3> HIDE DEF Ends
    <3>6. \E r \in rows : Ends(r)
      BY <3>5
    <3>7. \A r \in rows : GoesOn(r)
      BY <2>2, <2>3, <2>5, <2>7, RowsAre
    <3>8. \E r \in rows : r.percentile = 0
      BY <2>2, <2>3, <2>5, <2>7, RowsAre
    <3> HIDE DEF GoesOn, Rise, RowFits
    <3> QED
      BY <2>1, <2>4, <2>5, <3>3, <3>4, <3>6, <3>7, <3>8, Zenon
      DEF SpectrumRises, GoesOn, Follows, Rise, Ends, RowFits
  <2> QED BY <2>6, <2>7
<1> QED BY <1>1, ReportKept, PTL

-----------------------------------------------------------------------------
(* The mean and the standard deviation of a histogram.                         *)

Weight(h, s) == count_at_index(h, s) * Median(s)

LEMMA TotalIsSum ==
  ASSUME NEW h, NEW X, X = Recorded(h), IsFiniteSet(X), NEW g, NatOn(g, X),
         \A x \in X : g[x] = Weight(h, x)
  PROVE  Total(h) = Sigma(g, X)
<1>1. PICK G : IsSum(G, g, X)
  BY SumExists
<1>2. \A s \in SUBSET X :
        (IF s = {} THEN 0 ELSE g[Some(s)] + G[s \ {Some(s)}])
          = IF s = {} THEN 0 ELSE Weight(h, Some(s)) + G[s \ {Some(s)}]
  BY SomeIs
<1>3. G = [s \in SUBSET X |->
            IF s = {} THEN 0 ELSE Weight(h, Some(s)) + G[s \ {Some(s)}]]
  BY <1>1, <1>2 DEF IsSum
<1>4. \E F : F = [s \in SUBSET X |->
                    IF s = {} THEN 0
                    ELSE LET x == CHOOSE x \in s : TRUE
                         IN Weight(h, x) + F[s \ {x}]]
  BY <1>3 DEF Some
<1>5. \E F : /\ F = [s \in SUBSET X |->
                      IF s = {} THEN 0
                      ELSE LET x == CHOOSE x \in s : TRUE
                           IN Weight(h, x) + F[s \ {x}]]
             /\ Total(h) = F[X]
  <2>1. Total(h) = (CHOOSE F : F = [s \in SUBSET X |->
                                     IF s = {} THEN 0
                                     ELSE LET x == CHOOSE x \in s : TRUE
                                          IN Weight(h, x) + F[s \ {x}]])[X]
    BY DEF Total, Weight, MapThenSumSet, MapThenFoldSet
  <2> QED BY <1>4, <2>1
<1>6. \E F : /\ F = [s \in SUBSET X |->
                      IF s = {} THEN 0
                      ELSE Weight(h, Some(s)) + F[s \ {Some(s)}]]
             /\ Total(h) = F[X]
  BY <1>5 DEF Some
<1>7. PICK F : /\ F = [s \in SUBSET X |->
                        IF s = {} THEN 0
                        ELSE Weight(h, Some(s)) + F[s \ {Some(s)}]]
               /\ Total(h) = F[X]
  BY <1>6
<1>8. \A s \in SUBSET X :
        (IF s = {} THEN 0 ELSE g[Some(s)] + F[s \ {Some(s)}])
          = IF s = {} THEN 0 ELSE Weight(h, Some(s)) + F[s \ {Some(s)}]
  BY SomeIs
<1>9. IsSum(F, g, X)
  BY <1>7, <1>8 DEF IsSum
<1> QED BY <1>7, <1>9, SumIs

Term(h, t, s) == count_at_index(h, s) * Square(Median(s) * h.total_count - t)

LEMMA DeviationIsSum ==
  ASSUME NEW h, NEW t, NEW X, X = Recorded(h), IsFiniteSet(X), NEW g, NatOn(g, X),
         \A x \in X : g[x] = Term(h, t, x)
  PROVE  Deviation(h, t) = Sigma(g, X)
<1>1. PICK G : IsSum(G, g, X)
  BY SumExists
<1>2. \A s \in SUBSET X :
        (IF s = {} THEN 0 ELSE g[Some(s)] + G[s \ {Some(s)}])
          = IF s = {} THEN 0 ELSE Term(h, t, Some(s)) + G[s \ {Some(s)}]
  BY SomeIs
<1>3. G = [s \in SUBSET X |->
            IF s = {} THEN 0 ELSE Term(h, t, Some(s)) + G[s \ {Some(s)}]]
  BY <1>1, <1>2 DEF IsSum
<1>4. \E F : F = [s \in SUBSET X |->
                    IF s = {} THEN 0
                    ELSE LET x == CHOOSE x \in s : TRUE
                         IN Term(h, t, x) + F[s \ {x}]]
  BY <1>3 DEF Some
<1>5. \E F : /\ F = [s \in SUBSET X |->
                      IF s = {} THEN 0
                      ELSE LET x == CHOOSE x \in s : TRUE
                           IN Term(h, t, x) + F[s \ {x}]]
             /\ Deviation(h, t) = F[X]
  BY <1>4 DEF Deviation, Term, MapThenSumSet, MapThenFoldSet
<1>6. \E F : /\ F = [s \in SUBSET X |->
                      IF s = {} THEN 0
                      ELSE Term(h, t, Some(s)) + F[s \ {Some(s)}]]
             /\ Deviation(h, t) = F[X]
  BY <1>5 DEF Some
<1>7. PICK F : /\ F = [s \in SUBSET X |->
                        IF s = {} THEN 0
                        ELSE Term(h, t, Some(s)) + F[s \ {Some(s)}]]
               /\ Deviation(h, t) = F[X]
  BY <1>6
<1>8. \A s \in SUBSET X :
        (IF s = {} THEN 0 ELSE g[Some(s)] + F[s \ {Some(s)}])
          = IF s = {} THEN 0 ELSE Term(h, t, Some(s)) + F[s \ {Some(s)}]
  BY SomeIs
<1>9. IsSum(F, g, X)
  BY <1>7, <1>8 DEF IsSum
<1> QED BY <1>7, <1>9, SumIs

LEMMA MedianIsNat == ASSUME Fits, NEW s \in Slots PROVE Median(s) \in Nat
<1>1. PICK b, p : IsPlace(b, p) /\ s = Slot(b, p)
  BY SlotsAre
<1>2. PICK w \in Nat : w = Pow[b] /\ w > 0 /\ p \in Nat
  BY <1>1, ValuesFit
<1>3. PICK v \in Nat : v = p * w /\ s.value_from_index = v
  BY <1>1, <1>2 DEF Slot
<1>4. InSlot(v, b, p)
  BY <1>2, <1>3 DEF InSlot
<1>5. lowest_equivalent_value(v) = v /\ size_of_equivalent_value_range(v) = w
  BY <1>1, <1>2, <1>3, <1>4, SlotValues
<1>6. w \div 2 \in Nat
  BY <1>2
<1>7. v + w \div 2 \in Nat
  BY <1>6
<1>8. median_equivalent_value(v) = v + w \div 2
  BY <1>5, Zenon DEF median_equivalent_value
<1> QED BY <1>3, <1>7, <1>8, Zenon DEF Median

LEMMA SquareIsNat == ASSUME NEW x \in Int PROVE Square(x) \in Nat
<1>1. PICK y \in Nat : x = y \/ x = -y
  OBVIOUS
<1>2. x * x = y * y /\ y * y \in Nat
  BY <1>1
<1> QED BY <1>2 DEF Square

LEMMA MeanIsNat ==
  ASSUME Fits, NEW b, IsSamples(b), NEW h, h = HistogramOf(b)
  PROVE  Total(h) \in Nat /\ Deviation(h, Total(h)) \in Nat
<1>1. Recorded(h) \in SUBSET Slots /\ IsFiniteSet(Recorded(h))
  BY RecordedIsCounted, SlotsFinite, FS_Subset
<1>2. h.total_count \in Nat
  <2>1. h.total_count = SizeOf(b)
    BY DEF HistogramOf, SizeOf
  <2> QED BY <2>1, UpToRises
<1>3. \A s \in Recorded(h) : count_at_index(h, s) \in Nat /\ Median(s) \in Nat
  <2>1. \A s : InIndex(b, s.index) \in SUBSET DOMAIN b
    BY DEF InIndex
  <2> QED BY <1>1, <2>1, MedianIsNat, SlotCount, SamplesCount
<1>4. Total(h) \in Nat
  <2>1. PICK g : g = [s \in Recorded(h) |-> Weight(h, s)]
    OBVIOUS
  <2>2. \A s \in Recorded(h) : g[s] = Weight(h, s) /\ g[s] \in Nat
    BY <1>3, <2>1 DEF Weight
  <2>3. NatOn(g, Recorded(h))
    BY <2>2 DEF NatOn
  <2>4. Total(h) = Sigma(g, Recorded(h))
    BY <1>1, <2>2, <2>3, TotalIsSum
  <2> QED BY <1>1, <2>3, <2>4, SigmaNat
<1>5. PICK t \in Nat : t = Total(h)
  BY <1>4
<1>6. Deviation(h, t) \in Nat
  <2>1. PICK g : g = [s \in Recorded(h) |-> Term(h, t, s)]
    OBVIOUS
  <2>2. ASSUME NEW s \in Recorded(h) PROVE g[s] = Term(h, t, s) /\ g[s] \in Nat
    <3>1. g[s] = Term(h, t, s)
      BY <2>1
    <3>2. PICK c \in Nat, m \in Nat, n \in Nat :
            c = count_at_index(h, s) /\ m = Median(s) /\ n = h.total_count
      BY <1>2, <1>3
    <3>3. m * n - t \in Int
      BY <1>5, <3>2
    <3>4. PICK q \in Nat : q = Square(m * n - t)
      BY <3>3, SquareIsNat
    <3>5. c * q \in Nat
      BY <3>2, <3>4
    <3>6. Term(h, t, s) = c * q
      BY <3>2, <3>4, Zenon DEF Term
    <3> QED BY <3>1, <3>5, <3>6
  <2>3. NatOn(g, Recorded(h))
    BY <2>2 DEF NatOn
  <2>4. Deviation(h, t) = Sigma(g, Recorded(h))
    BY <1>1, <2>2, <2>3, DeviationIsSum
  <2> QED BY <1>1, <2>3, <2>4, SigmaNat
<1> QED BY <1>4, <1>5, <1>6

-----------------------------------------------------------------------------
(* Counting the slots within a range.                                          *)

LEMMA CountsAre ==
  ASSUME Fits, NEW b, IsSamples(b), NEW h, h = HistogramOf(b)
  PROVE  /\ \A Z \in SUBSET Slots : CountOf(h, Z) = Sigma(b, InSlots(b, Z))
         /\ \A Z : InSlots(b, Z) \in SUBSET DOMAIN b
         /\ \A Z \in SUBSET DOMAIN b : IsFiniteSet(Z) /\ NatOn(b, Z) /\ Sigma(b, Z) \in Nat
<1>1. \A Z \in SUBSET Slots : CountOf(h, Z) = Sigma(b, InSlots(b, Z))
  BY CountOfSlots
<1>2. \A Z : InSlots(b, Z) \in SUBSET DOMAIN b
  BY DEF InSlots
<1>3. \A Z \in SUBSET DOMAIN b : IsFiniteSet(Z) /\ NatOn(b, Z) /\ Sigma(b, Z) \in Nat
  BY SamplesCount
<1> QED BY <1>1, <1>2, <1>3

LEMMA CountsLess ==
  ASSUME Fits, NEW b, IsSamples(b), NEW h, h = HistogramOf(b),
         NEW Y \in SUBSET Slots, NEW X \in SUBSET Y
  PROVE  CountOf(h, Y) - CountOf(h, X) = CountOf(h, Y \ X)
<1>1. X \in SUBSET Slots /\ Y \ X \in SUBSET Slots
  OBVIOUS
<1>2. InSlots(b, X) \cup InSlots(b, Y \ X) = InSlots(b, Y)
  BY DEF InSlots
<1>3. InSlots(b, X) \cap InSlots(b, Y \ X) = {}
  BY <1>1, SlotIsUnique DEF InSlots
<1>4. PICK A, B : A = InSlots(b, X) /\ B = InSlots(b, Y \ X)
  OBVIOUS
<1>5. A \in SUBSET DOMAIN b /\ B \in SUBSET DOMAIN b
  BY <1>4, CountsAre
<1>6. /\ IsFiniteSet(A) /\ NatOn(b, A) /\ Sigma(b, A) \in Nat
      /\ IsFiniteSet(B) /\ NatOn(b, B) /\ Sigma(b, B) \in Nat
  BY <1>5, SamplesCount
<1>7. Sigma(b, A \cup B) = Sigma(b, A) + Sigma(b, B)
  BY <1>3, <1>4, <1>6, SigmaUnion
<1>8. CountOf(h, X) = Sigma(b, A) /\ CountOf(h, Y \ X) = Sigma(b, B)
      /\ CountOf(h, Y) = Sigma(b, A \cup B)
  BY <1>1, <1>2, <1>4, CountsAre
<1> QED BY <1>6, <1>7, <1>8

LEMMA CountsAdd ==
  ASSUME Fits, NEW b, IsSamples(b), NEW h, h = HistogramOf(b), NEW Y \in SUBSET Slots
  PROVE  /\ CountOf(h, Y) \in Nat /\ CountOf(h, Y) <= SizeOf(b)
         /\ \A X \in SUBSET Y : CountOf(h, X) \in Nat /\ CountOf(h, X) <= CountOf(h, Y)
         /\ CountOf(h, Y) = CountOf(h, Y \cap Counted(h))
<1>1. \A Z \in SUBSET Slots : CountOf(h, Z) = Sigma(b, InSlots(b, Z))
  BY CountsAre
<1>2. \A Z : InSlots(b, Z) \in SUBSET DOMAIN b
  BY CountsAre
<1>3. \A Z \in SUBSET DOMAIN b : IsFiniteSet(Z) /\ NatOn(b, Z) /\ Sigma(b, Z) \in Nat
  BY SamplesCount
<1>4. \A Z \in SUBSET DOMAIN b : \A V \in SUBSET Z : Sigma(b, V) <= Sigma(b, Z)
  BY <1>3, SigmaLess
<1>5. CountOf(h, Y) \in Nat /\ CountOf(h, Y) <= SizeOf(b)
  BY <1>1, <1>2, <1>3, <1>4 DEF SizeOf
<1>6. ASSUME NEW X \in SUBSET Y
      PROVE  CountOf(h, X) \in Nat /\ CountOf(h, X) <= CountOf(h, Y)
  <2>1. X \in SUBSET Slots /\ InSlots(b, X) \in SUBSET InSlots(b, Y)
    BY DEF InSlots
  <2> QED BY <1>1, <1>2, <1>3, <1>4, <2>1
<1>7. CountOf(h, Y) = CountOf(h, Y \cap Counted(h))
  <2>1. InSlots(b, Counted(h)) = DOMAIN b /\ Counted(h) \in SUBSET Slots
    BY RecordedIsCounted
  <2>2. InSlots(b, Y) = InSlots(b, Y \cap Counted(h))
    BY <2>1, SlotIsUnique DEF InSlots
  <2>3. Y \cap Counted(h) \in SUBSET Slots
    OBVIOUS
  <2> QED BY <1>1, <2>2, <2>3
<1> QED BY <1>5, <1>6, <1>7

\* The iterator meets every slot that counts and all before it.
LEMMA VisitedAre ==
  ASSUME Fits, NEW b, IsSamples(b), NEW h, h = HistogramOf(b)
  PROVE  /\ Visited(h) \in SUBSET Slots /\ Counted(h) \in SUBSET Visited(h)
         /\ \A s \in Counted(h), t \in Slots :
              t.value_from_index < s.value_from_index => t \in Visited(h)
<1>1. Recorded(h) = Counted(h) /\ Counted(h) \in SUBSET Slots
  BY RecordedIsCounted
<1>2. \A s \in Counted(h) : CountOf(h, UpTo(Counted(h), s) \ {s}) < h.total_count
  BY <1>1 DEF Recorded, Reaches
<1>3. \A s : s \in Visited(h) <=>
        s \in Slots /\ CountOf(h, UpTo(Counted(h), s) \ {s}) < h.total_count
  BY DEF Visited, Reaches
<1>4. ASSUME NEW s \in Counted(h), NEW t \in Slots,
             t.value_from_index < s.value_from_index
      PROVE  t \in Visited(h)
  <2> DEFINE X == UpTo(Counted(h), t) \ {t}
             Y == UpTo(Counted(h), s) \ {s}
  <2>1. \A u \in Slots : u.value_from_index \in Nat
    BY SlotOrder
  <2>2. X \in SUBSET Y /\ Y \in SUBSET Slots
    BY <1>1, <1>4, <2>1 DEF UpTo
  <2>3. CountOf(h, X) \in Nat /\ CountOf(h, X) <= CountOf(h, Y) /\ CountOf(h, Y) \in Nat
    <3> HIDE DEF X, Y
    <3> QED BY <2>2, CountsAdd
  <2>4. CountOf(h, Y) < h.total_count
    BY <1>2
  <2>5. h.total_count \in Nat
    <3>1. h.total_count = SizeOf(b)
      BY DEF HistogramOf, SizeOf
    <3> QED BY <3>1, UpToRises
  <2>6. CountOf(h, X) < h.total_count
    <3> HIDE DEF X, Y
    <3> QED BY <2>3, <2>4, <2>5
  <2> QED BY <1>3, <2>6
<1> QED BY <1>1, <1>2, <1>3, <1>4

\* Those it has met when it stops: no slot before them reaches beyond the range.
LEMMA SeenAre ==
  ASSUME Fits, NEW V \in SUBSET Slots, NEW u \in Int
  PROVE  /\ UpToUpper(V, u) \in SUBSET V
         /\ \A s \in UpToUpper(V, u), t \in V :
              t.value_from_index < s.value_from_index => t.highest_equivalent_value <= u
         /\ \A s \in V :
              (\A t \in V : t.value_from_index < s.value_from_index
                              => t.highest_equivalent_value <= u)
                => s \in UpToUpper(V, u)
<1> DEFINE above == {s \in V : u < s.highest_equivalent_value}
<1>1. \A s \in V : s.value_from_index \in Nat /\ s.highest_equivalent_value \in Nat
  BY SlotOrder
<1>2. CASE above = {}
  <2>1. UpToUpper(V, u) = V
    BY <1>2 DEF UpToUpper
  <2>2. \A t \in V : t.highest_equivalent_value <= u
    BY <1>1, <1>2
  <2> QED BY <2>1, <2>2
<1>3. CASE above # {}
  <2>1. PICK f : f = First(above)
    OBVIOUS
  <2>2. UpToUpper(V, u) = UpTo(V, f)
    BY <1>3, <2>1 DEF UpToUpper
  <2>3. f \in above /\ \A t \in above : f.value_from_index <= t.value_from_index
    <3>1. above \in SUBSET Slots
      OBVIOUS
    <3> HIDE DEF above
    <3> QED BY <1>3, <2>1, <3>1, FirstIs
  <2>4. f \in V /\ u < f.highest_equivalent_value
    BY <2>3
  <2>5. UpTo(V, f) = {s \in V : s.value_from_index <= f.value_from_index}
    BY DEF UpTo
  <2>6. ASSUME NEW s \in UpTo(V, f), NEW t \in V, t.value_from_index < s.value_from_index
        PROVE  t.highest_equivalent_value <= u
    <3>1. t \notin above
      BY <1>1, <2>3, <2>4, <2>5, <2>6
    <3> QED BY <1>1, <3>1
  <2>7. ASSUME NEW s \in V, \A t \in V : t.value_from_index < s.value_from_index
                                          => t.highest_equivalent_value <= u
        PROVE  s \in UpTo(V, f)
    BY <1>1, <2>4, <2>5, <2>7
  <2> QED BY <2>2, <2>5, <2>6, <2>7
<1> QED BY <1>2, <1>3

LEMMA GreatestIs ==
  ASSUME NEW k \in Nat, NEW S \in SUBSET (0 .. k), S # {}
  PROVE  Max(S) \in S /\ \A y \in S : y <= Max(S)
<1> DEFINE T == {d \in Nat : k - d \in S}
<1>1. PICK d \in T : \A e \in T : d <= e
  <2>1. PICK x \in S : TRUE
    OBVIOUS
  <2>2. k - x \in Nat /\ k - (k - x) = x
    OBVIOUS
  <2>3. k - x \in T /\ T \in SUBSET Nat
    BY <2>2
  <2> HIDE DEF T
  <2> QED BY <2>3, Least
<1>2. d \in Nat /\ k - d \in S
  OBVIOUS
<1>3. ASSUME NEW y \in S PROVE y <= k - d
  <2>1. k - y \in Nat /\ k - (k - y) = y
    OBVIOUS
  <2>2. d <= k - y
    BY <1>1, <2>1
  <2> QED BY <1>2, <2>2
<1>4. S \in SUBSET Int
  OBVIOUS
<1>5. Max(S) = k - d
  BY <1>2, <1>3, <1>4, MaxIs
<1> QED BY <1>2, <1>3, <1>5

\* What the code takes for mean + stdev and mean - stdev.
LEMMA UpperIs ==
  ASSUME NEW n \in Nat, NEW t \in Nat, NEW dev \in Nat
  PROVE  /\ Upper(n, t, dev) \in Nat
         /\ \A x \in 0 .. 2 * highest_trackable_value :
              Square(x * n - t) * n <= dev => x <= Upper(n, t, dev)
<1> DEFINE S == {u \in 0 .. 2 * highest_trackable_value :
                   u * n <= t \/ Square(u * n - t) * n <= dev}
<1>1. PICK k \in Nat : k = 2 * highest_trackable_value
  BY HighestIs
<1>2. 0 \in S
  <2>1. 0 * n = 0 /\ 0 \in 0 .. k
    BY <1>1
  <2> QED BY <1>1, <2>1
<1>3. S \in SUBSET (0 .. k)
  BY <1>1
<1>4. Max(S) = Upper(n, t, dev)
  BY DEF Upper
<1>5. \A x \in 0 .. 2 * highest_trackable_value : Square(x * n - t) * n <= dev => x \in S
  OBVIOUS
<1> HIDE DEF S
<1>6. PICK m \in S : m = Max(S) /\ \A y \in S : y <= m
  BY <1>2, <1>3, GreatestIs
<1>7. m \in Nat
  BY <1>3
<1>8. \A x \in 0 .. 2 * highest_trackable_value : Square(x * n - t) * n <= dev => x <= m
  BY <1>5, <1>6
<1> QED BY <1>4, <1>6, <1>7, <1>8, Zenon

LEMMA LowerIs ==
  ASSUME NEW n \in Nat, NEW t \in Nat, NEW dev \in Nat, NEW w, w = Lower(n, t, dev)
  PROVE  w \in Nat /\ (w = 0 \/ (w * n <= t /\ Square(t - w * n) * n >= dev))
<1> DEFINE S == {0} \cup {u \in 0 .. 2 * highest_trackable_value :
                            u * n <= t /\ Square(t - u * n) * n >= dev}
<1>1. PICK k \in Nat : k = 2 * highest_trackable_value
  BY HighestIs
<1>2. 0 \in S /\ S \in SUBSET (0 .. k)
  BY <1>1
<1>3. Max(S) = w
  BY DEF Lower
<1>4. \A x \in S : x = 0 \/ (x * n <= t /\ Square(t - x * n) * n >= dev)
  OBVIOUS
<1> HIDE DEF S
<1>5. w \in S
  BY <1>2, <1>3, GreatestIs
<1>6. w \in Nat
  BY <1>2, <1>5
<1> QED BY <1>4, <1>5, <1>6, Zenon

LEMMA FartherBelow ==
  ASSUME NEW n \in Nat, n > 0, NEW t \in Nat, NEW dev \in Nat, NEW w \in Nat, NEW x \in Nat,
         x < w, w * n <= t, Square(t - w * n) * n >= dev
  PROVE  ~(Square(x * n - t) * n <= dev)
<1>1. x * n \in Nat /\ w * n \in Nat /\ x * n < w * n
  OBVIOUS
<1>2. PICK p \in Nat, q \in Nat : p = t - w * n /\ q = t - x * n /\ p < q
  BY <1>1
<1>3. p * p \in Nat /\ q * q \in Nat /\ p * p < q * q
  BY <1>2
<1>4. (p * p) * n < (q * q) * n
  BY <1>3
<1>5. Square(t - w * n) = p * p
  BY <1>2 DEF Square
<1>6. Square(x * n - t) = q * q
  <2>1. PICK i \in Int : i = x * n - t /\ i = -q
    BY <1>1, <1>2
  <2>2. i * i = q * q
    BY <2>1
  <2> QED BY <2>1, <2>2 DEF Square
<1>7. PICK y \in Nat, z \in Nat : y = (p * p) * n /\ z = (q * q) * n /\ y < z
  BY <1>3, <1>4
<1>8. y >= dev
  BY <1>5, <1>7
<1>9. ~(z <= dev)
  BY <1>7, <1>8
<1> QED BY <1>6, <1>7, <1>9

LEMMA WithinIs ==
  ASSUME Fits, NEW b, IsSamples(b), NEW h, h = HistogramOf(b), NEW t \in Nat, NEW dev \in Nat
  PROVE  WithinStdev(h, t, dev)
<1> DEFINE C == Counted(h)
           V == Visited(h)
<1>1. PICK n \in Nat : n = SizeOf(b) /\ n = h.total_count
  <2>1. h.total_count = SizeOf(b)
    BY DEF HistogramOf, SizeOf
  <2> QED BY <2>1, UpToRises
<1>2. PICK u \in Nat : u = Upper(n, t, dev) /\
        \A x \in 0 .. 2 * highest_trackable_value : Square(x * n - t) * n <= dev => x <= u
  BY UpperIs
<1>3. PICK w \in Nat : w = Lower(n, t, dev) /\
        (w = 0 \/ (w * n <= t /\ Square(t - w * n) * n >= dev))
  BY LowerIs
<1> DEFINE seen == UpToUpper(V, u)
           below == Below(seen, w)
           inner == {s \in C : /\ Square(s.value_from_index * n - t) * n <= dev
                               /\ Square(s.highest_equivalent_value * n - t) * n <= dev}
           outer == {s \in C : s.highest_equivalent_value >= w /\ s.value_from_index <= u + 1}
<1>4. /\ V \in SUBSET Slots /\ C \in SUBSET V
      /\ \A s \in C, r \in Slots : r.value_from_index < s.value_from_index => r \in V
  BY VisitedAre
<1>5. /\ seen \in SUBSET V
      /\ \A s \in seen, r \in V :
           r.value_from_index < s.value_from_index => r.highest_equivalent_value <= u
      /\ \A s \in V :
           (\A r \in V : r.value_from_index < s.value_from_index
                           => r.highest_equivalent_value <= u) => s \in seen
  <2>1. u \in Int
    OBVIOUS
  <2> HIDE DEF V
  <2> QED BY <1>4, <2>1, SeenAre
<1>6. \A s \in Slots :
        /\ s.value_from_index \in Nat /\ s.highest_equivalent_value \in Nat
        /\ s.value_from_index <= s.highest_equivalent_value
        /\ \A r \in Slots : r.value_from_index < s.value_from_index
                              => r.highest_equivalent_value < s.value_from_index
  BY SlotOrder
<1>7. below = {s \in seen : w > s.value_from_index}
  BY DEF Below
<1>8. n = 0 \/ inner \subseteq seen \ below
  <2> SUFFICES ASSUME n > 0, NEW s \in inner PROVE s \in seen \ below
    OBVIOUS
  <2>1. s \in C /\ s \in Slots /\ s \in V
        /\ Square(s.value_from_index * n - t) * n <= dev
        /\ Square(s.highest_equivalent_value * n - t) * n <= dev
    BY <1>4
  <2>2. PICK lo \in Nat, hi \in Nat :
          lo = s.value_from_index /\ hi = s.highest_equivalent_value /\ lo <= hi
    BY <1>6, <2>1
  <2>3. ~(w > lo)
    <3> SUFFICES ASSUME lo < w PROVE FALSE
      OBVIOUS
    <3>1. w * n <= t /\ Square(t - w * n) * n >= dev
      BY <1>3
    <3>2. ~(Square(lo * n - t) * n <= dev)
      BY <3>1, FartherBelow
    <3> QED BY <2>1, <2>2, <3>2
  <2>4. hi \in 0 .. 2 * highest_trackable_value
    <3>1. PICK v \in DOMAIN b : v \in lo .. hi
      BY <2>1, <2>2, CountedHolds
    <3>2. v \in Nat /\ v <= highest_trackable_value /\ highest_trackable_value \in Nat
          /\ v <= hi
      BY <2>2, <3>1, HighestIs DEF IsSamples
    <3>3. Close(hi, v)
      <4>1. hi \in lo .. hi
        BY <2>2
      <4> QED BY <2>1, <2>2, <3>1, <4>1, SlotOrder
    <3>4. PICK ten \in Nat : ten = 10^significant_figures /\ ten > 0
      BY Precision
    <3>5. PICK apart \in Nat : apart = (IF hi < v THEN v - hi ELSE hi - v) /\ apart = hi - v
      BY <2>2, <3>2
    <3>6. apart * ten <= v
      BY <3>3, <3>4, <3>5, Zenon DEF Close
    <3>7. apart <= apart * ten
      BY <3>4
    <3>8. apart <= v
      BY <3>2, <3>4, <3>6, <3>7
    <3> QED BY <2>2, <3>2, <3>5, <3>8
  <2>5. hi <= u
    BY <1>2, <2>1, <2>2, <2>4
  <2>6. ASSUME NEW r \in V, r.value_from_index < s.value_from_index
        PROVE  r.highest_equivalent_value <= u
    <3>1. r \in Slots /\ r.highest_equivalent_value \in Nat
          /\ r.highest_equivalent_value < s.value_from_index
      BY <1>4, <1>6, <2>1, <2>6
    <3> QED BY <2>2, <2>5, <3>1
  <2>7. s \in seen
    <3> HIDE DEF seen, V
    <3> QED BY <1>5, <2>1, <2>6
  <2> QED BY <1>7, <2>2, <2>3, <2>7
<1>9. (seen \ below) \cap C \subseteq outer
  <2> SUFFICES ASSUME NEW s \in (seen \ below) \cap C PROVE s \in outer
    OBVIOUS
  <2>1. s \in C /\ s \in Slots /\ s \in seen /\ ~(w > s.value_from_index)
    BY <1>4, <1>7
  <2>2. PICK lo \in Nat, hi \in Nat :
          lo = s.value_from_index /\ hi = s.highest_equivalent_value /\ lo <= hi
    BY <1>6, <2>1
  <2>3. lo <= u + 1
    <3>1. CASE lo = 0
      BY <3>1
    <3>2. CASE lo # 0
      <4>1. PICK x \in DOMAIN b : x \in lo .. hi
        BY <2>1, <2>2, CountedHolds
      <4>2. PICK v \in 0 .. highest_trackable_value : v = lo - 1
        <5>1. x \in Nat /\ x <= highest_trackable_value /\ highest_trackable_value \in Nat
              /\ lo <= x
          BY <2>2, <4>1, HighestIs DEF IsSamples
        <5> QED BY <2>2, <3>2, <5>1
      <4>3. PICK r \in Slots : v \in r.value_from_index .. r.highest_equivalent_value
        <5>1. PICK r \in Slots : r.index = counts_index_for(v)
          BY SlotOf
        <5>2. {y \in Slots : y.index = counts_index_for(v)}
                = {y \in Slots : v \in y.value_from_index .. y.highest_equivalent_value}
          BY SlotOfValue
        <5> QED BY <5>1, <5>2
      <4>4. /\ r.value_from_index \in Nat /\ r.highest_equivalent_value \in Nat
            /\ r.value_from_index <= v /\ v <= r.highest_equivalent_value
        BY <1>6, <4>2, <4>3
      <4>5. r.value_from_index < s.value_from_index
        BY <2>2, <4>2, <4>4
      <4>6. r \in V
        BY <1>4, <2>1, <4>5
      <4>7. r.highest_equivalent_value <= u
        <5> HIDE DEF seen, V
        <5> QED BY <1>5, <2>1, <4>5, <4>6
      <4> QED BY <2>2, <4>2, <4>4, <4>7
    <3> QED BY <3>1, <3>2
  <2>4. hi >= w
    BY <2>1, <2>2
  <2> QED BY <2>1, <2>2, <2>3, <2>4
<1>10. /\ seen \in SUBSET Slots /\ below \in SUBSET seen /\ seen \ below \in SUBSET Slots
       /\ inner \in SUBSET Slots /\ outer \in SUBSET Slots
  BY <1>4, <1>5, <1>7
<1>11. stats_within_stdev(h, t, dev) = CountOf(h, seen \ below)
  <2>1. stats_within_stdev(h, t, dev) = CountOf(h, seen) - CountOf(h, below)
    BY <1>1, <1>2, <1>3, Zenon DEF stats_within_stdev, CountWithin
  <2> HIDE DEF seen, below
  <2>2. PICK Y \in SUBSET Slots : Y = seen
    BY <1>10
  <2>3. PICK X \in SUBSET Y : X = below
    BY <1>10, <2>2
  <2>4. CountOf(h, Y) - CountOf(h, X) = CountOf(h, Y \ X)
    BY CountsLess
  <2> QED BY <2>1, <2>2, <2>3, <2>4
<1>12. CountOf(h, seen \ below) \in CountOf(h, inner) .. CountOf(h, outer)
  <2> HIDE DEF seen, below, inner, outer
  <2>1. \A X \in SUBSET Slots : CountOf(h, X) \in Nat /\ CountOf(h, X) <= n
    <3>1. \A X \in SUBSET Slots : CountOf(h, X) \in Nat /\ CountOf(h, X) <= SizeOf(b)
      BY CountsAdd
    <3> QED BY <1>1, <3>1
  <2>2. \A Y \in SUBSET Slots : \A X \in SUBSET Y : CountOf(h, X) <= CountOf(h, Y)
    BY CountsAdd
  <2>3. CountOf(h, inner) <= CountOf(h, seen \ below)
    <3>1. CASE n = 0
      BY <1>10, <2>1, <3>1
    <3>2. CASE n # 0
      BY <1>8, <1>10, <2>2, <3>2
    <3> QED BY <3>1, <3>2
  <2>4. CountOf(h, seen \ below) <= CountOf(h, outer)
    <3>1. CountOf(h, seen \ below) = CountOf(h, (seen \ below) \cap C)
      BY <1>10, CountsAdd
    <3>2. CountOf(h, (seen \ below) \cap C) <= CountOf(h, outer)
      BY <1>9, <1>10, <2>2
    <3> QED BY <3>1, <3>2
  <2> QED BY <1>10, <2>1, <2>3, <2>4
<1>13. stats_within_stdev(h, t, dev) \in CountOf(h, inner) .. CountOf(h, outer)
  BY <1>11, <1>12, Zenon
<1> QED BY <1>1, <1>2, <1>3, <1>13, Zenon DEF WithinStdev

\* What the report says of the standard deviation (stats_within_stdev, stats.c:83):
\* whatever was recorded, every slot within one deviation of the mean is counted, and
\* none that is more than one away from that range.
THEOREM DeviationIsRight ==
  ASSUME Fits, RatesFit
  PROVE  Spec => []DeviationInReport
<1>1. ASSUME Inv, LatenciesKept, RatesKept, ReportSoFar
      PROVE  DeviationInReport
  <2> SUFFICES ASSUME At("done"), NEW h \in {latency_stats.histogram, statistics.histogram}
               PROVE  WithinStdev(h, Total(h), Deviation(h, Total(h)))
    BY DEF DeviationInReport
  <2>1. PICK b : IsSamples(b) /\ h = HistogramOf(b)
    <3>1. CASE h = statistics.histogram
      BY <1>1, <3>1 DEF RatesKept
    <3>2. CASE h = latency_stats.histogram
      <4>1. Reported \in {"latency", "u_latency"} /\ h = report[Reported]
        BY <3>2 DEF Reported, latency_stats
      <4> QED BY <1>1, <4>1, ReportIs
    <3> QED BY <3>1, <3>2
  <2>2. Total(h) \in Nat /\ Deviation(h, Total(h)) \in Nat
    BY <2>1, MeanIsNat
  <2> QED BY <2>1, <2>2, WithinIs
<1> QED BY <1>1, ReportKept, RatesAreKept, PTL
===============================================================================
