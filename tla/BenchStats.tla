------------------------------ MODULE BenchStats ------------------------------
(***************************************************************************)
(* The decisions that src/bench/stats.ts and src/ci/baseline.ts take on    *)
(* samples, in exact arithmetic.                                           *)
(*                                                                         *)
(* A median is doubled to be a whole number; a coefficient of variation is *)
(* the square of it, as a fraction; percentages are compared by            *)
(* multiplying out.  Simplifications: values are naturals; what is only    *)
(* displayed (p95, interval ends, effect size, texts) is left out, but not *)
(* the medians the interval is made of.                                    *)
(***************************************************************************)
EXTENDS Integers, Sequences, FiniteSets

CONSTANTS
  MinImprovementPct,   \* search.minImprovementPct
  MaxNoisePct          \* benchmark.maxNoisePct

ASSUME StatsAssumption == MinImprovementPct \in Nat /\ MaxNoisePct \in Nat

Abs(x) == IF x < 0 THEN -x ELSE x

-----------------------------------------------------------------------------
(* summarize *)

\* The values of s in ascending order: fewer than k of them are less than the
\* k-th, and k or more are not greater.
Sorted(s) ==
  LET places == 1..Len(s)
  IN [k \in places |-> CHOOSE v \in {s[i] : i \in places} :
        /\ Cardinality({i \in places : s[i] < v}) < k
        /\ k <= Cardinality({i \in places : s[i] <= v})]

Total(s) ==
  LET upto[k \in 0..Len(s)] == IF k = 0 THEN 0 ELSE upto[k - 1] + s[k]
  IN upto[Len(s)]

\* The two middle positions of n, idx = (n - 1) / 2 rounded down and up.
Lower(n) == (n - 1) \div 2 + 1
Upper(n) == n \div 2 + 1

\* Twice percentile(sorted, 50).
Median2(s) == Sorted(s)[Lower(Len(s))] + Sorted(s)[Upper(Len(s))]

\* cvPct / 100, squared: zero when the mean is.
Noise(s) ==
  LET n == Len(s)
      sum == Total(s)
      squares == Total([i \in 1..n |-> s[i] * s[i]])
  IN IF sum = 0 \/ n = 1 THEN [num |-> 0, den |-> 1]
     ELSE [num |-> n * (n * squares - sum * sum), den |-> (n - 1) * sum * sum]

\* p / q, a fraction of one, exceeds the noise.
AboveNoise(p, q, noise) == p > 0 /\ p * p * noise.den > noise.num * q * q

-----------------------------------------------------------------------------
(* compare, judgeRegression, assessStability *)

\* What the candidate gained, and what it is a fraction of (`|| 1`).
Gain(b, c, direction) ==
  LET delta == Median2(b) - Median2(c) IN IF direction = "minimize" THEN delta ELSE -delta
Unit(b) == IF Median2(b) = 0 THEN 2 ELSE Abs(Median2(b))

\* Above the noise of either sample set and a minimum in percent.
Beyond(p, q, b, c, pct) ==
  AboveNoise(p, q, Noise(b)) /\ AboveNoise(p, q, Noise(c)) /\ 100 * p > pct * q

\* Mutant of Meaningful: only the baseline's noise counts.
MeaningfulOneSided(b, c, direction) ==
  LET p == Gain(b, c, direction) q == Unit(b)
  IN AboveNoise(p, q, Noise(b)) /\ 100 * p > MinImprovementPct * q

\* compare(...).meaningful.
Meaningful(b, c, direction) ==
  Beyond(Gain(b, c, direction), Unit(b), b, c, MinImprovementPct)

\* judgeRegression is not ok: the current samples lost, beyond noise and
\* tolerance, against the snapshot.
Regressed(snapshot, current, direction, tolerancePct) ==
  Beyond(-Gain(snapshot, current, direction), Unit(snapshot), snapshot, current, tolerancePct)

\* assessStability.
Stable(s) ==
  /\ Len(s) >= 3
  /\ 10000 * Noise(s).num <= MaxNoisePct * MaxNoisePct * Noise(s).den
  /\ Median2(s) # 0

-----------------------------------------------------------------------------
(* bootstrapCI *)

\* rankOf: the place of index i in the order of the values.
RankOf(s) ==
  [i \in 1..Len(s) |->
     1 + Cardinality({j \in 1..Len(s) : s[j] < s[i] \/ (s[j] = s[i] /\ j < i)})]

\* How many of the picked indices have a rank up to r.
CountTo(s, picks, r) == Cardinality({k \in DOMAIN picks : RankOf(s)[picks[k]] <= r})

\* Mutant of Scan: it stops one short.
ScanShort(s, picks, idx) ==
  CHOOSE r \in 1..Len(s) : CountTo(s, picks, r) >= idx /\
    \A q \in 1..(r - 1) : CountTo(s, picks, q) < idx

\* The scan over the counts to order statistic idx (from zero).
Scan(s, picks, idx) ==
  CHOOSE r \in 1..Len(s) : CountTo(s, picks, r) > idx /\
    \A q \in 1..(r - 1) : CountTo(s, picks, q) <= idx

\* Twice resampleMedian, of the values at the picked indices.
ResampleMedian2(s, picks) ==
  Sorted(s)[Scan(s, picks, Lower(Len(s)) - 1)] + Sorted(s)[Scan(s, picks, Upper(Len(s)) - 1)]

=============================================================================
