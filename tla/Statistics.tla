----------------------------- MODULE Statistics -----------------------------
(* compute_stats and percentile of run_bench.py, over integers.  Results    *)
(* are in hundredths, which is exact for the percentiles that are asked.    *)
EXTENDS Integers, Sequences, FiniteSetsExt, SequencesExt

\* sorted(values).  Seeded bug: the values as they came.
Arrangements(values) ==
  {[i \in DOMAIN values |-> values[p[i]]] : p \in Bijection(DOMAIN values, DOMAIN values)}
Ascending(s) == \A i, j \in DOMAIN s : i <= j => s[i] <= s[j]
sorted_Not(values) == values
sorted(values) == CHOOSE s \in Arrangements(values) : Ascending(s)

\* Python's floor and ceil of k hundredths.
floor(k) == k \div 100
ceil(k) == (k + 99) \div 100

\* The weight of the lower of the two neighbours.
Weight(k) == 100 * ceil(k) - k

\* percentile: between the two values next to position k = (n-1)p/100.
percentile(s, p) ==
  LET k == (Len(s) - 1) * p
  IN  IF floor(k) = ceil(k) THEN 100 * s[floor(k) + 1]
      ELSE s[floor(k) + 1] * Weight(k) + s[ceil(k) + 1] * (100 - Weight(k))

\* statistics.median, the reference for the 50th percentile.
median(s) ==
  LET n == Len(s)
  IN  IF n % 2 = 1 THEN 100 * s[(n + 1) \div 2]
      ELSE 50 * (s[n \div 2] + s[n \div 2 + 1])

\* compute_stats of a non-empty list; the mean is total / count.
compute_stats(values) ==
  LET s == sorted(values)
  IN  [count  |-> Len(values),
       total  |-> FoldLeft(LAMBDA a, b : a + b, 0, values),
       median |-> median(s),
       min    |-> 100 * Min(ToSet(values)),
       max    |-> 100 * Max(ToSet(values)),
       p25    |-> percentile(s, 25),
       p50    |-> percentile(s, 50),
       p95    |-> percentile(s, 95)]
=============================================================================
