---------------------------------- MODULE Run ----------------------------------
(* A run of the program (wrk.c): main starts the threads, waits for all of     *)
(* them and reports. A thread counts and records what its connections answer   *)
(* (their protocol is TcpClient.tla and Quic.tla), throws away what it         *)
(* recorded before it was calibrated, and from then on adds a rate to the      *)
(* statistics all threads share.                                               *)
EXTENDS Stats, Bags

CONSTANTS
  threads,               \* cfg.threads
  Paced,                 \* a rate was given with -R
  record_all_responses,  \* cfg.record_all_responses
  Latencies,             \* responses: pairs of the corrected latency and of the
                         \* one since the request was sent, in microseconds
  Elapsed,               \* milliseconds between two samples of the rate
  CanFail,               \* pthread_create may fail
  MaxRequests, MaxRates  \* bounds: requests and samples of the rate of the run

ASSUME RunAssumption ==
  /\ threads \in Nat \ {0}
  /\ {Paced, record_all_responses, CanFail} \subseteq BOOLEAN
  /\ \A l \in Latencies : l \in Seq(0 .. highest_trackable_value) /\ Len(l) = 2
  /\ Elapsed \subseteq Nat \ {0}
  /\ {MaxRequests, MaxRates} \subseteq Nat

Threads == 1 .. threads
Nobody == 0

VARIABLES
  main,         \* where main is, and the thread it is about
  stop,         \* set by the SIGINT handler
  over,         \* the clock has reached stop_at
  worker,       \* where a thread is: none, loop, stop_loop or ended
  section,      \* what it does next inside sample_rate: lock, read, write or
                \* unlock, or none when it is not there
  calibrated,   \* the timer of the thread is sample_rate instead of calibrate
  complete, requests, latency_histogram, u_latency_histogram,
  mutex,        \* the thread that holds statistics.mutex, or Nobody
  statistics,   \* statistics.requests
  local,        \* the rate of sample_rate, and what it has read of statistics
  report,       \* what main has summed up
  samples,      \* ghost: latencies recorded since the calibration, as bags
  rates,        \* ghost: the rates recorded, as a bag
  sampled       \* ghost: requests of a thread that went into a rate, or were
                \* left out by its calibration

threadVars == <<worker, section, local, calibrated, complete, requests, latency_histogram,
                u_latency_histogram, samples, sampled>>
sharedVars == <<mutex, statistics, rates>>
vars == <<main, stop, over, threadVars, sharedVars, report>>

NoReport == [complete |-> 0, latency |-> hdr_reset, u_latency |-> hdr_reset]
NoSamples == [latency |-> EmptyBag, u_latency |-> EmptyBag]
Each(x) == [t \in Threads |-> x]
NoLocal == [rate |-> 0, statistics |-> stats_alloc]

Init ==
  /\ main = [at |-> "script_init", thread |-> 1]
  /\ stop = FALSE /\ over = FALSE
  /\ worker = Each("none") /\ calibrated = Each(FALSE)
  /\ complete = Each(0) /\ requests = Each(0) /\ sampled = Each(0)
  /\ latency_histogram = Each(hdr_reset) /\ u_latency_histogram = Each(hdr_reset)
  /\ section = Each("none") /\ local = Each(NoLocal)
  /\ mutex = Nobody /\ statistics = stats_alloc
  /\ report = NoReport
  /\ samples = Each(NoSamples) /\ rates = EmptyBag

-----------------------------------------------------------------------------
(* main.                                                                       *)

At(place) == main.at = place
Goto(place, t) == main' = [at |-> place, thread |-> t]

\* setup() and init() of the script, while the threads before this one run.
script_init ==
  /\ At("script_init") /\ Goto("pthread_create", main.thread)
  /\ UNCHANGED <<stop, over, threadVars, sharedVars, report>>

pthread_create ==
  LET t == main.thread IN
  /\ At("pthread_create")
  /\ worker' = [worker EXCEPT ![t] = "loop"]
  /\ IF t < threads THEN Goto("script_init", t + 1) ELSE Goto("sigaction", 1)
  /\ UNCHANGED <<stop, over, calibrated, complete, requests, latency_histogram,
                 u_latency_histogram, samples, sampled, section, local,
                 sharedVars, report>>

\* exit(2) takes the threads that run with it.
CreateFails ==
  /\ CanFail /\ At("pthread_create") /\ Goto("exit", main.thread)
  /\ UNCHANGED <<stop, over, threadVars, sharedVars, report>>

sigaction ==
  /\ At("sigaction") /\ Goto("pthread_join", 1)
  /\ UNCHANGED <<stop, over, threadVars, sharedVars, report>>

\* A fault for the checks: main does not wait.
JoinAnyway(t) == TRUE

Joinable(t) == worker[t] = "ended"

pthread_join ==
  LET t == main.thread IN
  /\ At("pthread_join") /\ Joinable(t)
  /\ IF t < threads THEN Goto("pthread_join", t + 1) ELSE Goto("report", 1)
  /\ UNCHANGED <<stop, over, threadVars, sharedVars, report>>

\* The sums over the threads, one per turn of the loop.
AddUp ==
  LET t == main.thread IN
  /\ At("report")
  /\ report' = [complete |-> report.complete + complete[t],
                latency |-> hdr_add(report.latency, latency_histogram[t]),
                u_latency |-> hdr_add(report.u_latency, u_latency_histogram[t])]
  /\ IF t < threads THEN Goto("report", t + 1) ELSE Goto("done", 1)
  /\ UNCHANGED <<stop, over, threadVars, sharedVars>>

latency_stats ==
  LET h == IF Paced THEN report.latency ELSE report.u_latency
  IN [min |-> hdr_min(h), max |-> hdr_max(h), histogram |-> h]

\* The handler of SIGINT; before sigaction the signal is ignored.
handler ==
  /\ main.at \in {"pthread_join", "report"} /\ ~stop /\ stop' = TRUE
  /\ UNCHANGED <<main, over, threadVars, sharedVars, report>>

-----------------------------------------------------------------------------
(* A thread. Its callbacks run one after the other, and those of a round also  *)
(* after one of them has called aeStop.                                        *)

Alive == main.at \notin {"exit", "done"}
InLoop(t) ==
  Alive /\ worker[t] \in {"loop", "stop_loop"} /\ section[t] = "none"

\* stats_request_completed.
stats_request_completed(t) ==
  /\ InLoop(t)
  /\ UNCHANGED <<main, stop, over, calibrated, sampled, section, local, sharedVars,
                 report>>
  /\ \/ /\ over
        /\ worker' = [worker EXCEPT ![t] = "stop_loop"]
        /\ UNCHANGED <<complete, requests, latency_histogram, u_latency_histogram,
                       samples>>
     \/ /\ ~over /\ SumFunction(complete) < MaxRequests
        /\ complete' = [complete EXCEPT ![t] = @ + 1]
        /\ requests' = [requests EXCEPT ![t] = @ + 1]
        /\ UNCHANGED worker
        /\ \E has_pending \in {FALSE, ~record_all_responses}, l \in Latencies :
             IF has_pending
               THEN UNCHANGED <<latency_histogram, u_latency_histogram, samples>>
               ELSE
                 /\ latency_histogram' =
                      [latency_histogram EXCEPT ![t] = hdr_record_value(@, l[1])]
                 /\ u_latency_histogram' =
                      [u_latency_histogram EXCEPT ![t] = hdr_record_value(@, l[2])]
                 /\ samples' =
                      [samples EXCEPT ![t] = [latency |-> @.latency (+) SetToBag({l[1]}),
                                              u_latency |-> @.u_latency (+) SetToBag({l[2]})]]

ForgetRequests(t) == requests' = [requests EXCEPT ![t] = 0]

\* A mean of zero makes the thread wait; that of an empty histogram is not a
\* number, and does not.
calibrate(t) ==
  /\ InLoop(t) /\ ~calibrated[t] /\ ~MeanIsZero(latency_histogram[t])
  /\ calibrated' = [calibrated EXCEPT ![t] = TRUE]
  /\ latency_histogram' = [latency_histogram EXCEPT ![t] = hdr_reset]
  /\ u_latency_histogram' = [u_latency_histogram EXCEPT ![t] = hdr_reset]
  /\ ForgetRequests(t)
  /\ sampled' = [sampled EXCEPT ![t] = complete[t]]
  /\ samples' = [samples EXCEPT ![t] = NoSamples]
  /\ UNCHANGED <<main, stop, over, worker, section, local, complete, sharedVars, report>>

\* A fault for the checks: only the interrupt ends the loop.
InterruptOnly == stop

Ending == stop \/ over

\* check_timeouts: the only place that looks at the interrupt and the end.
check_timeouts(t) ==
  /\ InLoop(t) /\ Ending
  /\ worker' = [worker EXCEPT ![t] = "stop_loop"]
  /\ UNCHANGED <<main, stop, over, calibrated, complete, requests, latency_histogram,
                 u_latency_histogram, samples, sampled, section, local,
                 sharedVars, report>>

\* thread:stop() of the script, in response().
script_thread_stop(t) ==
  /\ InLoop(t) /\ worker[t] = "loop"
  /\ worker' = [worker EXCEPT ![t] = "stop_loop"]
  /\ UNCHANGED <<main, stop, over, calibrated, complete, requests, latency_histogram,
                 u_latency_histogram, samples, sampled, section, local,
                 sharedVars, report>>

\* aeMain returns.
LeaveLoop(t) ==
  /\ Alive /\ worker[t] = "stop_loop" /\ section[t] = "none"
  /\ worker' = [worker EXCEPT ![t] = "ended"]
  /\ UNCHANGED <<main, stop, over, calibrated, complete, requests, latency_histogram,
                 u_latency_histogram, samples, sampled, section, local,
                 sharedVars, report>>

-----------------------------------------------------------------------------
(* sample_rate. stats_record reads and writes statistics, which every thread   *)
(* does, so these are steps of their own.                                      *)

InSection(t, at) == Alive /\ section[t] = at

sample_rate(t) ==
  /\ InLoop(t) /\ calibrated[t] /\ BagCardinality(rates) < MaxRates
  /\ \E elapsed_ms \in Elapsed :
       local' = [local EXCEPT ![t].rate = (requests[t] * 1000) \div elapsed_ms]
  /\ section' = [section EXCEPT ![t] = "lock"]
  /\ sampled' = [sampled EXCEPT ![t] = @ + requests[t]]
  /\ UNCHANGED <<main, stop, over, worker, calibrated, complete, requests,
                 latency_histogram, u_latency_histogram, samples, sharedVars, report>>

\* A fault for the checks: the lock is not taken.
FreeAnyway(t) == TRUE

Free(t) == mutex = Nobody

pthread_mutex_lock(t) ==
  /\ InSection(t, "lock") /\ Free(t)
  /\ mutex' = t
  /\ section' = [section EXCEPT ![t] = "read"]
  /\ UNCHANGED <<main, stop, over, worker, local, calibrated, complete, requests,
                 latency_histogram, u_latency_histogram, samples, sampled,
                 statistics, rates, report>>

ReadStatistics(t) ==
  /\ InSection(t, "read")
  /\ local' = [local EXCEPT ![t].statistics = statistics]
  /\ section' = [section EXCEPT ![t] = "write"]
  /\ UNCHANGED <<main, stop, over, worker, calibrated, complete, requests,
                 latency_histogram, u_latency_histogram, samples, sampled,
                 sharedVars, report>>

WriteStatistics(t) ==
  /\ InSection(t, "write")
  /\ statistics' = stats_record(local[t].statistics, local[t].rate)
  /\ rates' = rates (+) SetToBag({local[t].rate})
  /\ local' = [local EXCEPT ![t] = NoLocal]
  /\ section' = [section EXCEPT ![t] = "unlock"]
  /\ UNCHANGED <<main, stop, over, worker, calibrated, complete, requests, mutex,
                 latency_histogram, u_latency_histogram, samples, sampled, report>>

pthread_mutex_unlock(t) ==
  /\ InSection(t, "unlock")
  /\ mutex' = Nobody
  /\ requests' = [requests EXCEPT ![t] = 0]
  /\ section' = [section EXCEPT ![t] = "none"]
  /\ UNCHANGED <<main, stop, over, worker, local, calibrated, complete,
                 latency_histogram, u_latency_histogram, samples, sampled,
                 statistics, rates, report>>

-----------------------------------------------------------------------------
\* The clock reaches stop_at.
Expire ==
  /\ Alive /\ ~over /\ over' = TRUE
  /\ UNCHANGED <<main, stop, threadVars, sharedVars, report>>

Terminated == ~Alive /\ UNCHANGED vars

Main ==
  \/ script_init \/ pthread_create \/ sigaction \/ pthread_join \/ AddUp

Section(t) ==
  \/ pthread_mutex_lock(t) \/ ReadStatistics(t) \/ WriteStatistics(t)
  \/ pthread_mutex_unlock(t)

ThreadStep(t) ==
  \/ stats_request_completed(t) \/ calibrate(t) \/ check_timeouts(t)
  \/ script_thread_stop(t) \/ LeaveLoop(t) \/ sample_rate(t) \/ Section(t)

Next ==
  \/ Main \/ CreateFails \/ handler \/ Expire
  \/ \E t \in Threads : ThreadStep(t)
  \/ Terminated

\* The system runs main and every thread. The timer of check_timeouts comes back
\* every two seconds (EventLoop.tla). MaxRates stands for the interval between two
\* samples, without which a thread could wait for the mutex forever.
Fairness ==
  /\ WF_vars(Main)
  /\ \A t \in Threads :
       WF_vars(check_timeouts(t)) /\ WF_vars(LeaveLoop(t)) /\ WF_vars(Section(t))

Spec == Init /\ [][Next]_vars /\ Fairness

-----------------------------------------------------------------------------
(* Properties.                                                                 *)

\* Every variable keeps its type; a thread holds the mutex exactly between lock
\* and unlock, and has nothing to do before main has started it.
TypeOK ==
  /\ main.at \in {"script_init", "pthread_create", "exit", "sigaction",
                  "pthread_join", "report", "done"}
  /\ main.thread \in Threads /\ {stop, over} \subseteq BOOLEAN
  /\ worker \in [Threads -> {"none", "loop", "stop_loop", "ended"}]
  /\ section \in [Threads -> {"none", "lock", "read", "write", "unlock"}]
  /\ calibrated \in [Threads -> BOOLEAN]
  /\ {complete, requests, sampled} \subseteq [Threads -> Nat]
  /\ mutex \in Threads \cup {Nobody}
  /\ \A t \in Threads :
       /\ (mutex = t) = (section[t] \in {"read", "write", "unlock"})
       /\ section[t] # "none" => worker[t] \in {"loop", "stop_loop"} /\ calibrated[t]
       /\ worker[t] = "none" => complete[t] = 0 /\ ~calibrated[t]

\* The slots of a histogram hold the values of a bag, each in the range of its slot.
Holds(h, bag) ==
  /\ h.total_count = SumFunction(bag)
  /\ \A v \in BagToSet(bag) :
       \E s \in Slots :
         /\ v \in s.value_from_index .. s.highest_equivalent_value
         /\ count_at_index(h, s)
              = MapThenSumSet(LAMBDA w : bag[w],
                  BagToSet(bag) \cap s.value_from_index .. s.highest_equivalent_value)

\* stats_record (stats.c:34) between lock and unlock: the statistics change only by
\* one rate on top of what every thread has recorded, never by a rate on top of
\* what they were when the thread began.
RateAdded(rate) ==
  rates' = rates (+) SetToBag({rate}) /\ statistics' = stats_record(statistics, rate)

RatesAccumulate ==
  [][statistics' # statistics \/ rates' # rates =>
       \E rate \in BagToSet(rates') : RateAdded(rate)]_vars

\* The extremes are those of the rates recorded.
ExtremesAreRates ==
  /\ statistics.max = Max(BagToSet(rates) \cup {0})
  /\ statistics.min = Min(BagToSet(rates) \cup {UINT64_MAX})

\* Every request a thread has answered went into one rate, was left out by its
\* calibration, or counts for the next rate.
EveryRequestOnce ==
  \A t \in Threads : section[t] = "none" => complete[t] = sampled[t] + requests[t]

\* calibrate (wrk.c:445) and sample_rate (wrk.c:486) set requests back and
\* stats_record keeps the extremes: no request is lost to the rates or in two of
\* them, and the least and greatest rate are those of all threads together.
SamplesTally == EveryRequestOnce /\ ExtremesAreRates

\* main (wrk.c:271) reads what the threads have counted and recorded only when all
\* of them have ended: while it adds up and reports nothing of it changes.
StandsStill ==
  [][main.at \in {"report", "done"} => UNCHANGED <<threadVars, sharedVars>>]_vars

AllSamples(kind) ==
  FoldFunction(LAMBDA s, bag : s[kind] (+) bag, EmptyBag, samples)

\* The report of main (wrk.c:279): it counts every request of every thread, and its
\* histograms hold what the threads recorded since they were calibrated, and the
\* rates of all of them, each once and in its slot.
ReportAddsUp ==
  At("done") =>
    /\ report.complete = SumFunction(complete)
    /\ Holds(report.latency, AllSamples("latency"))
    /\ Holds(report.u_latency, AllSamples("u_latency"))
    /\ Holds(statistics.histogram, rates)

\* The counter of values up to v in a bag, and the precision of the histogram.
UpToValue(bag, v) == MapThenSumSet(LAMBDA w : bag[w],
                                   {w \in BagToSet(bag) : w <= v})
Close(v, exact) ==
  LET apart == IF v < exact THEN exact - v ELSE v - exact
  IN apart * 10^significant_figures <= exact

Reported == IF Paced THEN "latency" ELSE "u_latency"

\* What the script's done() and the table of latencies get to see: latency(i) is
\* the i-th of the latencies, p percent of them but for half a sample are at most
\* percentile(p) and no more than p percent are below its slot, and the extremes
\* are right, all within the histogram's precision.
LatencyInReport ==
  LET bag == AllSamples(Reported)
      n == SumFunction(bag)
      stats == latency_stats
      Rank(i) == CHOOSE v \in BagToSet(bag) :
                   UpToValue(bag, v) >= i /\ UpToValue(bag, v) - bag[v] < i
  IN At("done") =>
       /\ script_stats_len(stats) = n
       /\ \A i \in 1 .. n : Close(script_stats_get(stats, i), Rank(i))
       /\ n > 0 => Close(stats.min, Rank(1)) /\ Close(stats.max, Rank(n))
       /\ \A p \in {0, 500, 750, 900, 990, 999, 1000} :
            LET v == stats_percentile(stats, p, 1000)
                below == UpToValue(bag, lowest_equivalent_value(v) - 1)
            IN n > 0 => /\ UpToValue(bag, v) * 2000 + 1000 >= 2 * p * n
                        /\ below * 1000 <= p * n

\* The table of percentiles (hdr_percentile_iter_next): a row's count is that of the
\* samples up to its value, the first to reach its percentage, and both rise
\* together. The first row is that of 0 percent; as long as samples are left above a
\* row the next one is at most one percent on, and at most a fifth of the way to 100
\* percent; and the table ends with all samples at 100 percent.
SpectrumRises ==
  LET bag == AllSamples("latency")
      n == SumFunction(bag)
      all == All(n)
      rows == hdr_percentiles_print(report.latency)
  IN At("done") =>
       /\ \A r \in rows :
            /\ r.total_count = UpToValue(bag, r.value)
            /\ n > 0 => /\ r.total_count * all >= r.percentile * n
                        /\ r.percentile \in 1 .. all - 1 /\ r.total_count < n =>
                             UpToValue(bag, lowest_equivalent_value(r.value) - 1) * all
                               < r.percentile * n
            /\ r.total_count < n =>
                 \E q \in rows : LET step == q.percentile - r.percentile IN
                   step > 0 /\ step <= Unit(n) /\ 5 * step <= all - r.percentile
       /\ \A r, q \in rows : r.percentile < q.percentile =>
            r.value <= q.value /\ r.total_count <= q.total_count
       /\ n > 0 => \E r \in rows : r.percentile = 0
       /\ \E r \in rows : r.percentile = all /\ r.total_count = n

\* stats_within_stdev (stats.c:83) counts every slot that lies within one standard
\* deviation of the mean, and none that is more than one away from that range.
WithinStdev(h, total, dev) ==
  LET n == h.total_count
      In(x) == Square(x * n - total) * n <= dev
      lower == Lower(n, total, dev)
      upper == Upper(n, total, dev)
  IN stats_within_stdev(h, total, dev) \in
       CountOf(h, {s \in Counted(h) : In(s.value_from_index) /\ In(s.highest_equivalent_value)})
       .. CountOf(h, {s \in Counted(h) : s.highest_equivalent_value >= lower
                                      /\ s.value_from_index <= upper + 1})

DeviationInReport ==
  At("done") =>
    \A h \in {latency_stats.histogram, statistics.histogram} :
      \A total \in {Total(h)} : WithinStdev(h, total, Deviation(h, total))

\* The histograms as hdr_init sets them up before a thread starts
\* (hdr_histogram.c:41): every value up to the highest has a slot of its own range,
\* which passes the assertions of counts_index and the check of its bounds, and no
\* range is wider than the precision allows.
EquivalentRanges ==
  At("script_init") /\ main.thread = 1 =>
    /\ \A v \in 0 .. highest_trackable_value :
         LET b == get_bucket_index(v) IN
         /\ InBuckets(b, get_sub_bucket_index(v, b))
         /\ {s \in Slots : s.index = counts_index_for(v)}
              = {s \in Slots : v \in s.value_from_index .. s.highest_equivalent_value}
         /\ Close(lowest_equivalent_value(v), v)
         /\ Close(highest_equivalent_value(v), v)
    /\ {s.index : s \in Slots} = 0 .. counts_len - 1

\* Once the time is up or the handler has seen an interrupt the program ends:
\* no thread goes on without looking and none waits for the mutex forever.
RunEnds == stop \/ over ~> ~Alive
===============================================================================
