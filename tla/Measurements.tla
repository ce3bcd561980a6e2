---------------------------- MODULE Measurements ----------------------------
(* What a campaign measures: measure_idle_energy.py takes the idle baseline *)
(* of the machine, run_bench.py reads it, brackets every macro case with    *)
(* readings of the energy counter and of the clock, and summarises.         *)
EXTENDS Energy, Statistics

CONSTANTS IdlePower,           \* what the machine uses in a second by itself
          Loads,               \* what the benchmarks add to that in a second
          SAMPLE_SECONDS, REPETITIONS,     \* of the idle measurement
          Cases,               \* the length of MACRO_BENCH_CASES
          MACRO_REPETITIONS,   \* of each case
          MaxSeconds           \* bound on the length of a repetition

\* No window is as long as one turn of the counter (tens of minutes).
ASSUME MeasurementsAssumption ==
  /\ IdlePower \in Nat /\ Loads \subseteq Nat
  /\ SAMPLE_SECONDS \in Nat \ {0} /\ REPETITIONS \in Nat \ {0}
  /\ Cases \in Nat \ {0} /\ MACRO_REPETITIONS \in Nat \ {0} /\ MaxSeconds \in Nat \ {0}
  /\ IdlePower * SAMPLE_SECONDS <= MaxRange
  /\ \A l \in Loads : (IdlePower + l) * MaxSeconds <= MaxRange

VARIABLES
  counter,    \* energy_uj
  window,     \* what is being measured: "none", "idle", "case"
  e1,         \* the counter at the start of the window
  elapsed,    \* seconds since
  used,       \* history: the energy really used since, by load and idle
  samples,    \* the idle measurement's readings so far
  baseline,   \* idle_baseline.json: "absent", "unreadable", "written"
  settled,    \* whether the case has begun: the machine has settled
  results,    \* the repetitions so far: elapsed, energy_j_raw, energy_j, and
              \*   as history the energy the load has really used
  summary     \* compute_stats of elapsed_s by case, once all are done

windowVars == <<window, e1, elapsed, used>>
measureVars == <<counter, windowVars, samples, baseline, settled, results, summary>>

\* Power is kept in units of microjoules per Scale seconds.
Scale == SAMPLE_SECONDS * REPETITIONS

MeasureInit ==
  /\ counter \in 0 .. MaxRange
  /\ window = "none" /\ e1 = 0 /\ elapsed = 0 /\ used = 0
  /\ samples = <<>> /\ baseline \in {"absent", "unreadable"}
  /\ settled = FALSE
  /\ results = <<>> /\ summary = <<>>

\* read_energy at the start of a window.
Open(w) == /\ window = "none" /\ window' = w
           /\ e1' = counter /\ elapsed' = 0 /\ used' = 0
           /\ UNCHANGED <<counter, samples, baseline, settled, results, summary>>

\* A second goes by.
Second(load) ==
  /\ counter' = Turned(counter, IdlePower + load)
  /\ elapsed' = elapsed + 1 /\ used' = used + load
  /\ UNCHANGED <<window, e1, samples, baseline, settled, results, summary>>

Sleep == window = "idle" /\ elapsed < SAMPLE_SECONDS /\ Second(0)

Work == window = "case" /\ elapsed < MaxSeconds /\ \E l \in Loads : Second(l)

-----------------------------------------------------------------------------
(* measure_idle_energy.py, at most once and before the cases.               *)

StartSample == /\ results = <<>> /\ ~settled /\ Len(samples) < REPETITIONS /\ Open("idle")

EndSample == /\ window = "idle" /\ elapsed = SAMPLE_SECONDS
             /\ samples' = Append(samples, energy_delta(e1, counter))
             /\ window' = "none"
             /\ UNCHANGED <<counter, e1, elapsed, used, baseline, settled, results, summary>>

WriteBaseline == /\ window = "none" /\ Len(samples) = REPETITIONS
                 /\ baseline # "written" /\ baseline' = "written"
                 /\ UNCHANGED <<counter, windowVars, samples, settled, results, summary>>

-----------------------------------------------------------------------------
(* run_bench.py.                                                            *)

\* load_idle_power_w: the mean of the samples, or DEFAULT_IDLE_POWER_W.
IDLE_POWER_W ==
  IF baseline = "written" THEN FoldLeft(LAMBDA a, b : a + b, 0, samples) ELSE 0

\* case_level_cache_trash and settle_between_cases, before the repetitions of a
\* case: time goes by, outside of any window.
settle ==
  /\ window = "none" /\ ~settled /\ settled' = TRUE
  /\ Len(results) < Cases * MACRO_REPETITIONS
  /\ samples # <<>> => baseline = "written"
  /\ counter' = Turned(counter, IdlePower)
  /\ UNCHANGED <<windowVars, samples, baseline, results, summary>>

StartCase == settled /\ Open("case")

EndCase ==
  /\ window = "case" /\ elapsed > 0 /\ window' = "none"
  /\ LET raw == energy_delta(e1, counter)
     IN  results' = Append(results,
           [elapsed |-> elapsed, raw |-> raw, load |-> used,
            net |-> energy_net(raw, IDLE_POWER_W, elapsed, Scale)])
  /\ settled' = (Len(results') % MACRO_REPETITIONS # 0)
  /\ UNCHANGED <<counter, e1, elapsed, used, samples, baseline, summary>>

\* summarize_results.
Summarize ==
  /\ Len(results) = Cases * MACRO_REPETITIONS /\ window = "none" /\ summary = <<>>
  /\ summary' = [k \in 1 .. Cases |->
       compute_stats([i \in 1 .. MACRO_REPETITIONS |->
                       results[(k - 1) * MACRO_REPETITIONS + i].elapsed])]
  /\ UNCHANGED <<counter, windowVars, samples, baseline, settled, results>>

MeasureNext ==
  \/ Sleep \/ Work \/ StartSample \/ EndSample \/ WriteBaseline
  \/ settle \/ StartCase \/ EndCase \/ Summarize

MeasureSpec == MeasureInit /\ [][MeasureNext]_measureVars

-----------------------------------------------------------------------------
\* energy_j is what the load has used: with the baseline it is off by at most
\* one microjoule for the turn of the counter in the case and one for each turn
\* in the idle samples; without it, energy_j is all the energy of the case.
EnergyIsTheLoads ==
  \A i \in DOMAIN results :
    LET r == results[i]
        real == r.load + (IF baseline = "written" THEN 0 ELSE IdlePower * r.elapsed)
    IN  /\ r.net >= (real - 1) * Scale
        /\ r.net <= real * Scale + REPETITIONS * r.elapsed

\* The summary is in order, and its 50th percentile is the median.
StatsInOrder ==
  \A i \in DOMAIN summary :
    LET s == summary[i]
    IN  /\ s.min <= s.p25 /\ s.p25 <= s.p50 /\ s.p50 <= s.p95 /\ s.p95 <= s.max
        /\ s.p50 = s.median
        /\ s.min * s.count <= 100 * s.total /\ 100 * s.total <= s.max * s.count
=============================================================================
