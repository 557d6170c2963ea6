-------------------------------- MODULE Hdr --------------------------------
(* The histogram of hdr_histogram.c as wrk uses it, with the formulas of       *)
(* hdr_init for any precision and range. All histograms of wrk have the same   *)
(* geometry, so it is a set of constants here, and a histogram is its counts   *)
(* (a function on the indices that were counted) and their total. A loop over  *)
(* an iterator is a set of slots, the positions hdr_iter_next passes through.  *)
EXTENDS Integers, Sequences, FiniteSetsExt, Functions

CONSTANTS
  lowest_trackable_value,
  highest_trackable_value,
  significant_figures

ASSUME HdrAssumption ==
  /\ lowest_trackable_value \in Nat \ {0}
  /\ highest_trackable_value \in Nat /\ highest_trackable_value > lowest_trackable_value
  /\ significant_figures \in 1 .. 5

\* The number of binary digits of x (64 less the leading zeros).
Bits(x) == CHOOSE b \in 0 .. 64 : 2^b > x /\ (b = 0 \/ 2^(b - 1) <= x)

-----------------------------------------------------------------------------
(* hdr_init.                                                                   *)

largest_value_with_single_unit_resolution == 2 * 10^significant_figures
sub_bucket_half_count_magnitude ==
  Max({1, Bits(largest_value_with_single_unit_resolution - 1)}) - 1
unit_magnitude == Bits(lowest_trackable_value) - 1
sub_bucket_count == 2^(sub_bucket_half_count_magnitude + 1)
sub_bucket_half_count == sub_bucket_count \div 2
sub_bucket_mask == (sub_bucket_count - 1) * 2^unit_magnitude

\* The values tracked double with every bucket.
bucket_count ==
  CHOOSE n \in 1 .. 64 :
    /\ sub_bucket_mask * 2^(n - 1) >= highest_trackable_value
    /\ \A k \in 1 .. n - 1 : sub_bucket_mask * 2^(k - 1) < highest_trackable_value

counts_len == (bucket_count + 1) * sub_bucket_half_count

-----------------------------------------------------------------------------
(* Buckets.                                                                    *)

get_bucket_index(value) ==
  Max({Bits(value), Bits(sub_bucket_mask)})
    - unit_magnitude - (sub_bucket_half_count_magnitude + 1)

get_sub_bucket_index(value, bucket_index) == value \div 2^(bucket_index + unit_magnitude)

\* What counts_index asserts.
InBuckets(bucket_index, sub_bucket_index) ==
  /\ bucket_index < bucket_count
  /\ sub_bucket_index < sub_bucket_count
  /\ bucket_index = 0 \/ sub_bucket_index >= sub_bucket_half_count

\* A fault for the checks: the lower half that later buckets do not have is left
\* out of their start as well.
IndexOverlaps(bucket_index, sub_bucket_index) ==
  IF bucket_index = 0 THEN sub_bucket_index
  ELSE bucket_index * sub_bucket_half_count + sub_bucket_index - sub_bucket_half_count

counts_index(bucket_index, sub_bucket_index) ==
  (bucket_index + 1) * 2^sub_bucket_half_count_magnitude
    + sub_bucket_index - sub_bucket_half_count

counts_index_for(value) ==
  LET b == get_bucket_index(value) IN counts_index(b, get_sub_bucket_index(value, b))

value_from_index(bucket_index, sub_bucket_index) ==
  sub_bucket_index * 2^(bucket_index + unit_magnitude)

\* The code shifts an int: this is its result below 31 buckets (bucket_count is 27 for
\* the three figures and the day of wrk).
size_of_equivalent_value_range(value) ==
  LET b == get_bucket_index(value)
      s == get_sub_bucket_index(value, b)
  IN 2^(unit_magnitude + (IF s >= sub_bucket_count THEN b + 1 ELSE b))

lowest_equivalent_value(value) ==
  LET b == get_bucket_index(value) IN value_from_index(b, get_sub_bucket_index(value, b))

next_non_equivalent_value(value) ==
  lowest_equivalent_value(value) + size_of_equivalent_value_range(value)

highest_equivalent_value(value) == next_non_equivalent_value(value) - 1

median_equivalent_value(value) ==
  lowest_equivalent_value(value) + size_of_equivalent_value_range(value) \div 2

-----------------------------------------------------------------------------
(* Recording.                                                                  *)

hdr_reset == [counts |-> <<>>, total_count |-> 0]

\* A value whose index is out of bounds is not recorded. One far out of range does not
\* come so far: it breaks InBuckets, and the program ends in the assertion.
hdr_record_values(h, value, count) ==
  LET i == counts_index_for(value) IN
  IF i \notin 0 .. counts_len - 1 THEN h
  ELSE [counts |-> [j \in DOMAIN h.counts \cup {i} |->
                      (IF j \in DOMAIN h.counts THEN h.counts[j] ELSE 0)
                        + (IF j = i THEN count ELSE 0)],
        total_count |-> h.total_count + count]

hdr_record_value(h, value) == hdr_record_values(h, value, 1)

-----------------------------------------------------------------------------
(* Iterators. A slot is what hdr_iter_next stops at.                           *)

\* increment_bucket: the buckets after the first have upper halves only.
Slots ==
  {[index |-> counts_index(p[1], p[2]),
    value_from_index |-> value_from_index(p[1], p[2]),
    highest_equivalent_value |-> highest_equivalent_value(value_from_index(p[1], p[2]))]
     : p \in {q \in (0 .. bucket_count - 1) \X (0 .. sub_bucket_count - 1) :
               q[1] = 0 \/ q[2] >= sub_bucket_half_count}}

count_at_index(h, s) == IF s.index \in DOMAIN h.counts THEN h.counts[s.index] ELSE 0

CountOf(h, slots) == MapThenSumSet(LAMBDA s : count_at_index(h, s), slots)
Counted(h) == {s \in Slots : count_at_index(h, s) # 0}
UpTo(slots, s) == {r \in slots : r.value_from_index <= s.value_from_index}

count_to_index(h, s) == CountOf(h, UpTo(Counted(h), s))

\* has_next: the iterator goes on until it has seen all that was counted.
Reaches(h, slots) ==
  LET counted == Counted(h)
  IN {s \in slots : CountOf(h, UpTo(counted, s) \ {s}) < h.total_count}

Visited(h) == Reaches(h, Slots)

\* hdr_recorded_iter: those with a count.
Recorded(h) == Reaches(h, Counted(h))

First(slots) == CHOOSE s \in slots : UpTo(slots, s) = {s}
Last(slots) == CHOOSE s \in slots : UpTo(slots, s) = slots

hdr_add(h, from) ==
  FoldSet(LAMBDA s, sum : hdr_record_values(sum, s.value_from_index,
                                            count_at_index(from, s)),
          h, Recorded(from))

-----------------------------------------------------------------------------
(* Values.                                                                     *)

hdr_max(h) ==
  LET recorded == Recorded(h) IN
  lowest_equivalent_value(
    IF recorded = {} THEN 0 ELSE Last(recorded).highest_equivalent_value)

hdr_min(h) ==
  LET recorded == Recorded(h) IN
  IF recorded = {} THEN 0 ELSE First(recorded).value_from_index

\* A fault for the checks: the rank is cut off instead of rounded.
PercentileCutOff(h, num, den) ==
  LET rank == Max({(Min({num, den}) * h.total_count) \div den, 1})
      reached == {s \in Recorded(h) : count_to_index(h, s) >= rank}
  IN IF reached = {} THEN 0 ELSE highest_equivalent_value(First(reached).value_from_index)

\* The value at 100 * num / den percent: of the sample whose rank is nearest.
hdr_value_at_percentile(h, num, den) ==
  LET rank == Max({(2 * Min({num, den}) * h.total_count + den) \div (2 * den), 1})
      reached == {s \in Recorded(h) : count_to_index(h, s) >= rank}
  IN IF reached = {} THEN 0 ELSE highest_equivalent_value(First(reached).value_from_index)

Median(s) == median_equivalent_value(s.value_from_index)

\* The mean is Total / total_count, and not a number for an empty histogram.
Total(h) == MapThenSumSet(LAMBDA s : count_at_index(h, s) * Median(s), Recorded(h))
MeanIsZero(h) == h.total_count > 0 /\ Total(h) = 0

\* hdr_stddev: the variance, times the third power of the count; total is Total(h).
Square(dev) == dev * dev

Deviation(h, total) ==
  MapThenSumSet(LAMBDA s : count_at_index(h, s) * Square(Median(s) * h.total_count - total),
                Recorded(h))

-----------------------------------------------------------------------------
(* The percentile spectrum of print_hdr_latency for a histogram of n samples.  *)
(* Percentiles are in parts that are fine enough for every tick that n samples *)
(* can tell apart, so a step is exact, as it is in a double.                   *)

Unit(n) == 32 * 2^n
All(n) == 100 * Unit(n)
ticks_per_half_distance == 5

\* The less is left to 100 percent the smaller is the step.
Step(n, p) ==
  LET half == CHOOSE j \in 0 .. n + 11 :
                2^j * (All(n) - p) <= All(n) /\ 2^(j + 1) * (All(n) - p) > All(n)
  IN Min({Unit(n), All(n) \div (ticks_per_half_distance * 2^(half + 1))})

\* percentile_to_iterate_to, until only the last sample is left above it.
Ticks(n) ==
  LET Tick[i \in 0 .. 94 + n] ==
        IF i = 0 THEN 0 ELSE LET p == Tick[i - 1] IN p + Step(n, p)
  IN {Tick[i] : i \in 0 .. 94 + n}

\* A fault for the checks: a slot answers for the ticks above its count.
TickLate(reached, n, p) == reached * All(n) >= (p - Unit(n)) * n

ReachedTick(reached, n, p) == reached * All(n) >= p * n

\* hdr_percentile_iter: every tick has a row, for the first slot whose count
\* reaches it, up to the first tick that only the last slot reaches. A row for 100
\* percent ends the table.
hdr_percentiles_print(h) ==
  LET n == h.total_count
      slots == {[value |-> s.highest_equivalent_value,
                 total_count |-> count_to_index(h, s)] : s \in Recorded(h)}
      Least(at) == CHOOSE s \in at : \A r \in at : s.total_count <= r.total_count
      Row(s, p) == [value |-> s.value, percentile |-> p, total_count |-> s.total_count]
      rows == {Row(Least({s \in slots : ReachedTick(s.total_count, n, p)}), p)
                 : p \in Ticks(n)}
      end == Min({r.percentile : r \in {q \in rows : q.total_count = n}})
  IN IF n = 0 THEN {[value |-> 0, percentile |-> All(n), total_count |-> 0]}
     ELSE {r \in rows : r.percentile <= end}
            \cup {Row(s, All(n)) : s \in {q \in slots : q.total_count = n}}
===============================================================================
