-------------------------- MODULE LatencyRecorder --------------------------
(***************************************************************************)
(* The latency recorder (src/metrics.cpp) and the figures print_summary    *)
(* prints of the samples its owner has recorded.  A percentage p is given  *)
(* in thousandths: p99_9 is 999.                                           *)
(*                                                                         *)
(* percentile computes in doubles.  Three roundings make up its index, and *)
(* floor and ceil are taken of what comes out.  An operator here is        *)
(* therefore the set of values the build may return: index_errors says on  *)
(* which sides of the exact index the double may lie, and Resolution how   *)
(* far from it.  The interpolation then adds roundings of its own.  For    *)
(* samples below a second they are too small to show, except that a value  *)
(* which is exactly a whole number may fall just short of it: the 90th     *)
(* percentile of 8 samples that end in 1, 11 is 3 and not 4.               *)
(***************************************************************************)
EXTENDS Integers, Sequences, SequencesExt, FiniteSetsExt

CONSTANTS Latencies,    \* the latencies a program may record
          U64,          \* the modulus of mean's accumulator: 2^64 in the code
          Resolution    \* the index is off by at most 1 / (1000 * Resolution):
                        \* 5000000 in the code, up to a million samples

ASSUME LatenciesAssumption == U64 \in Nat /\ Latencies \subseteq 0 .. (U64 - 1)
ASSUME ResolutionAssumption == Resolution \in Nat \ {0}

VARIABLE samples_

\* A recorder as its constructor, or clear, leaves it.
EmptyRecorder == <<>>

record(samples, latency_ns) == Append(samples, latency_ns)

-----------------------------------------------------------------------------
\* Mutated form of sorted: the samples are taken as they were recorded.
sorted_Unsorted == samples_

\* The sorted copy of the samples: rearranged so that none comes before a
\* smaller one.
sorted ==
    LET place == CHOOSE f \in Bijection(DOMAIN samples_, DOMAIN samples_) :
                   \A j, k \in DOMAIN samples_ :
                      j < k => samples_[f[j]] <= samples_[f[k]]
    IN  [k \in DOMAIN samples_ |-> samples_[place[k]]]

\* Mutated form of index_errors: a whole index may come out below or above.
index_errors_Any(p, index) ==
    {e \in {-1, 0, 1} : e # 0 => index # 0 /\ p # 1000}

\* Where the double (p / 100.0) * (size - 1) may lie: below (-1), at (0) or above
\* (1) the exact index, given in thousandths.  P50 and the ends come out exactly.
\* 0.9 and 0.99 are so close to doubles that a whole product is met; 99.9 / 100.0
\* is above 0.999, by enough to lift a product off a whole number.
index_errors(p, index) ==
    {e \in {-1, 0, 1} :
       e # 0 => /\ index # 0 /\ p \notin {500, 1000}
                /\ index % 1000 = 0 => e = 1 /\ p = 999}

\* What the conversion to uint64_t may leave of the interpolation.  It lies
\* between the two samples, since rounding keeps the order of numbers; an exact
\* index has a fraction with which the interpolation is exact as well.
interpolate(s, index, e) ==
    LET lower == (IF e < 0 THEN index - 1 ELSE index) \div 1000
        upper == ((IF e > 0 THEN index + 1 ELSE index) + 999) \div 1000
        fraction == index - 1000 * lower
        a == s[lower + 1]
        b == s[upper + 1]
        exact == 1000 * a + fraction * (b - a)
        error == (b - a) \div Resolution
    IN  IF e = 0 THEN {exact \div 1000}
        ELSE {value \in a .. b : /\ 1000 * value <= exact + error
                                /\ exact <= 1000 * (value + 1) + error}

\* Of a sorted sequence s.
percentile(s, p) ==
    LET index == p * (Len(s) - 1)
    IN  IF s = <<>> THEN {0}
        ELSE UNION {interpolate(s, index, e) : e \in index_errors(p, index)}

min == IF samples_ = <<>> THEN 0 ELSE sorted[1]

max == IF samples_ = <<>> THEN 0 ELSE sorted[Len(sorted)]

total == FoldLeft(LAMBDA a, b : a + b, 0, samples_)

\* The mean as it is printed, without its fraction; the sum wraps.
mean == IF samples_ = <<>> THEN 0 ELSE (total % U64) \div Len(samples_)

\* What print_summary prints between "Min" and "Max".
printed_percentiles == <<0, 500, 900, 990, 999, 1000>>

-----------------------------------------------------------------------------
(***************************************************************************)
(* However the interpolations round, the printed figures never contradict  *)
(* each other: from min() over P50, P90, P99 and P99.9 to max() none is    *)
(* below the one before it, "Min" and "Max" are min() and max(), and the   *)
(* mean lies between them as long as the sum of the samples fits in its 64 *)
(* bits.                                                                   *)
(***************************************************************************)
SummaryOrdered ==
    /\ percentile(sorted, 0) = {min} /\ percentile(sorted, 1000) = {max}
    /\ \A k \in 1 .. (Len(printed_percentiles) - 1) :
         \A low \in percentile(sorted, printed_percentiles[k]),
            high \in percentile(sorted, printed_percentiles[k + 1]) : low <= high
    /\ total < U64 => min <= mean /\ mean <= max

\* The k-th smallest sample, defined by counting instead of sorting.
kth_smallest(k) ==
    Min({v \in ToSet(samples_) :
           Cardinality({n \in DOMAIN samples_ : samples_[n] <= v}) >= k})

\* The samples are so close together that the error of the index is worth less
\* than a nanosecond between any two: within five seconds, with the code's
\* Resolution.
Close == max - min < 1000 * Resolution

(***************************************************************************)
(* Whatever the doubles do to the index and to the interpolation, and in   *)
(* whatever order the samples were recorded: a percentile lies between the *)
(* two samples around its rank, is the sample itself where the rank is     *)
(* whole, and is less than a nanosecond above and less than two below the  *)
(* linear interpolation between them, unless the samples are spread over   *)
(* so long a time that the error of the index alone is worth one.          *)
(***************************************************************************)
PercentileInterpolates ==
    samples_ # <<>> /\ Close =>
      \A p \in ToSet(printed_percentiles) : \A value \in percentile(sorted, p) :
        LET rank == p * (Len(samples_) - 1)
            below == kth_smallest(rank \div 1000 + 1)
            above == kth_smallest((rank + 999) \div 1000 + 1)
            exact == 1000 * below + (rank % 1000) * (above - below)
        IN  /\ below <= value /\ value <= above
            /\ 1000 * value < exact + 1000 /\ exact < 1000 * value + 2000

=============================================================================
