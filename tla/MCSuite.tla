------------------------------ MODULE MCSuite ------------------------------
(* Constants of the model-checking runs of GlobalResults.                   *)
EXTENDS GlobalResults

\* Suite.
TwoProjects == <<"taps-asio", "bsd-sockets">>

\* MasterSummary.
Compilers == <<"clang", "gcc">>
TwoKnown == <<"bsd-sockets", "taps-asio">>

Stats(s, ms, energy, throughput) ==
  [elapsed_s |-> [mean |-> s, p95 |-> s + 1], elapsed_ms |-> [mean |-> ms, p95 |-> ms + 900],
   energy_j |-> [mean |-> energy, p95 |-> 3],
   throughput_mib_s |-> [mean |-> throughput, p95 |-> 4]]
Without(stats, prefix) == [p \in DOMAIN stats \ {prefix} |-> stats[p]]

\* A quick and a slow case, one without energy, one of a script that knew no
\* milliseconds, one without statistics of the energy.
SomeStats == {Stats(1, 1000, 2, 4), Stats(2, 2000, 1, 2), Stats(1, 1000, 0, 2),
              Without(Stats(3, 3000, 1, 4), "elapsed_ms"),
              Without(Stats(1, 1000, 1, 4), "energy_j")}

Of(library, cases) ==
  {<<[library |-> library, torn |-> FALSE, items |-> [i \in DOMAIN cases |->
       [case |-> cases[i], stats |-> s[i]]]]>> : s \in [DOMAIN cases -> SomeStats]}

Torn(library) == <<[library |-> library, torn |-> TRUE, items |-> <<>>]>>
EarlierTable == <<[library |-> "master", torn |-> FALSE, items |-> <<>>]>>

\* A library with all cases, one that lacks some or all, and an unknown one,
\* found in another order than that of the tables; instead of the last a torn
\* summary, or the master table of an earlier run, whole or torn.
SmallInputs ==
  {a \o b \o c :
     a \in {<<>>, Torn("zeromq"), EarlierTable, Torn("master")}
            \cup Of("zeromq", <<<<"gcc", 1, 2>>>>),
     b \in {<<>>} \cup Of("taps-asio", <<<<"gcc", 1, 1>>, <<"gcc", 2, 1>>>>),
     c \in {<<>>} \cup Of("bsd-sockets", <<<<"clang", 1, 1>>, <<"gcc", 1, 1>>>>)}

\* Merge: two reports of one directory, one of a preferred one that comes
\* earlier in the combined file and later by name, and the global report.
SomeReports == {<<"comparison_with_raw", "asio">>, <<"comparison_with_raw", "taps">>,
                <<"main_without_raw", "asio">>, <<"global", "master">>}
Directories == <<"comparison_with_raw", "global", "main_without_raw", "merged">>
AllNames == <<"asio", "benchmark_global_report_all", "comparison_with_raw", "global",
              "main_without_raw", "master", "merged", "taps">>
Preferred == <<"main_without_raw", "comparison_without_raw", "main_with_raw",
               "comparison_with_raw", "per_library", "misc">>
=============================================================================
