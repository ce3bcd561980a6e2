------------------------------ MODULE Project ------------------------------
(* One project directory: its build_release.sh, called by hand or by        *)
(* build.sh any number of times, then a campaign of its run_bench.py with   *)
(* the executables that are there.                                          *)
EXTENDS Campaign

CONSTANTS BuildOrder, MaxSource     \* see Build

\* What is measured is also built.
ASSUME ProjectAssumption == /\ BuildOrder \in Seq(Compilers) /\ MaxSource \in Nat \ {0}
                            /\ {BuildOrder[i] : i \in DOMAIN BuildOrder} = Compilers

VARIABLES source, todo, tree, library

B == INSTANCE Build

builderVars == <<source, todo, tree, library>>
campaignVars == <<scriptVars, machineVars, historyVars, faults>>
projectVars == <<builderVars, vars>>

ProjectInit == Init /\ B!Init

\* The campaign has not begun.
Before == run = 1 /\ pc = "prepare"

Building == Before /\ B!Next /\ UNCHANGED campaignVars

Measuring == ~B!Building /\ Next /\ UNCHANGED builderVars

ProjectNext == Building \/ Measuring

ProjectSpec == /\ ProjectInit /\ [][ProjectNext]_projectVars
               /\ B!Fairness /\ Fairness

-----------------------------------------------------------------------------
\* Whatever was measured, the server and the benches were built from the same
\* sources: a build that failed between the two leaves no server of one
\* version to be measured by the bench of another.
MeasuredTogether ==
  \A r \in ready : LET e == executables[Runs[r]]
                   IN  e.bench # 0 => e.server = e.bench
=============================================================================
