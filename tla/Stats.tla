-------------------------------- MODULE Stats --------------------------------
(* A statistics object of stats.c over a histogram, as both of wrk's are: the  *)
(* report's latencies and the rates all threads record. script.c hands them to *)
(* the script's done().                                                        *)
EXTENDS Hdr

\* What min starts with; more than any value that can be recorded.
UINT64_MAX == highest_trackable_value + 1

stats_alloc == [min |-> UINT64_MAX, max |-> 0, histogram |-> hdr_reset]

\* A fault for the checks: a rate that is the least so far is never the greatest.
RecordElse(stats, x) ==
  [min |-> Min({x, stats.min}), max |-> IF x < stats.min THEN stats.max ELSE Max({x, stats.max}),
   histogram |-> hdr_record_value(stats.histogram, x)]

stats_record(stats, x) ==
  [min |-> Min({x, stats.min}), max |-> Max({x, stats.max}),
   histogram |-> hdr_record_value(stats.histogram, x)]

\* mean + stdev and mean - stdev as integers, without the fractions: the mean is
\* total / n and the variance dev / n^3. Below zero is as good as zero.
Upper(n, total, dev) ==
  Max({u \in 0 .. 2 * highest_trackable_value :
         u * n <= total \/ Square(u * n - total) * n <= dev})

Lower(n, total, dev) ==
  Max({0} \cup {u \in 0 .. 2 * highest_trackable_value :
                  u * n <= total /\ Square(total - u * n) * n >= dev})

\* A fault for the checks: the counts below the range are those up to its first slot.
LowerIncluded(slots, lower) == {s \in slots : lower >= s.value_from_index}

Below(slots, lower) == {s \in slots : lower > s.value_from_index}

\* The first slot that reaches beyond the range ends the loop, and is still counted.
UpToUpper(slots, upper) ==
  LET above == {s \in slots : upper < s.highest_equivalent_value}
  IN IF above = {} THEN slots ELSE UpTo(slots, First(above))

CountWithin(h, seen, lower) == CountOf(h, seen) - CountOf(h, Below(seen, lower))

\* How many were counted within one standard deviation of the mean.
stats_within_stdev(h, total, dev) ==
  CountWithin(h, UpToUpper(Visited(h), Upper(h.total_count, total, dev)),
              Lower(h.total_count, total, dev))

stats_percentile(stats, num, den) == hdr_value_at_percentile(stats.histogram, num, den)

-----------------------------------------------------------------------------
(* Lua: latency(i), #latency.                                                  *)

script_stats_get(stats, i) ==
  hdr_value_at_percentile(stats.histogram, i, stats.histogram.total_count)

script_stats_len(stats) == stats.histogram.total_count
===============================================================================
