---------------------------- MODULE MCEvaluation ----------------------------
(* Constants of the model-checking run of Evaluation.                       *)
EXTENDS Evaluation

ByName == <<"clang", "gcc">>

Config(compilers, threads, cases, repetitions, made) ==
  [compilers |-> compilers, threads |-> threads, cases |-> cases,
   repetitions |-> repetitions, plots |-> made]

\* Both compilers with two numbers of threads and two cases; three repetitions;
\* one compiler alone; more rows than a page holds, exactly full pages, and
\* pages that are not full.
SmallConfigs ==
  {Config(<<"gcc", "clang">>, <<1, 2>>, <<1, 2>>, 1, TRUE),
   Config(<<"gcc", "clang">>, <<2>>, <<1, 4>>, 2, TRUE),
   Config(<<"clang">>, <<1, 2>>, <<1>>, 3, TRUE),
   Config(<<"gcc">>, <<1>>, <<1, 2, 4>>, 2, FALSE)}

\* Two values of a case: all succeed, or one fails and nothing else is equal.
Value(k, failed) ==
  [elapsed_ms |-> 5 + 4 * failed, energy_j_raw |-> 30 + failed,
   energy_j |-> 20 - 3 * failed, throughput_mib_s |-> 10 * k - 7 * failed,
   downloads_per_process |-> 2 - failed, total_iterations |-> 2 * k - failed,
   success |-> k - failed, failed |-> failed]
TwoValues == [k \in {1, 2, 4} |-> {Value(k, 0), Value(k, 1)}]
=============================================================================
