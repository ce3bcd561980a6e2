------------------------------ MODULE RunBench ------------------------------
(* run_bench.py broken off: the processes it leaves (Shutdown) and the      *)
(* files it leaves (Outputs).  It has none of the processes any more when   *)
(* it writes, so each is looked at by itself: a behaviour is one of either. *)
EXTENDS Shutdown

CONSTANTS Configs, ScatterNames, ComparisonNames, MaxCampaigns    \* see Outputs

ASSUME RunBenchAssumption ==
  /\ MaxCampaigns \in Nat
  /\ ScatterNames \in Seq(ToSet(ScatterNames)) /\ ComparisonNames \in Seq(ToSet(ComparisonNames))
  /\ \A config \in Configs : /\ config.compilers \in Seq(ToSet(config.compilers))
                            /\ config.threads \in Seq(ToSet(config.threads))

VARIABLES part,    \* whose behaviour it is: "processes", "files"
          configs, main_pc, todo, disk, disturbed

Files == INSTANCE Outputs WITH pc <- main_pc

fileVars == <<configs, main_pc, todo, disk, disturbed>>
allVars == <<part, vars, fileVars>>

\* The other one is as it begins.
AnyInit ==
  /\ part \in {"processes", "files"}
  /\ Init /\ Files!Init
  /\ part = "files" => tools = {} /\ kind = CHOOSE k \in Kinds : TRUE

AnyNext ==
  /\ \/ part = "processes" /\ Next /\ UNCHANGED fileVars
     \/ part = "files" /\ Files!Next /\ UNCHANGED vars
  /\ UNCHANGED part

\* As in Shutdown, and main goes on writing if nothing ends it.
AnyFairness ==
  /\ WF_vars(part = "processes" /\ Script)
  /\ \A p \in Procs : WF_vars(Dies(p))
  /\ \A b \in ToSet(Benches) : WF_vars(BenchEnds(b))
  /\ WF_fileVars(Files!Script)

AnySpec == AnyInit /\ [][AnyNext]_allVars /\ AnyFairness

-----------------------------------------------------------------------------
\* The files of several campaigns, which have the same names, are not mixed:
\* with plots on, a report shows no image of another campaign, and no file is
\* newer than the results it is made of, so what is shown can be looked up.
NothingMixed == Files!OwnImages /\ Files!ResultsAreNewest

\* A campaign that finishes has all its files, whole, and its reports have all
\* its images, whatever the broken campaigns before it left.
FinishedIsComplete == Files!FinishedIsComplete

\* With plots on, a campaign that nothing disturbs finishes, whatever torn files
\* there are.
NoLastingDamage == Files!NoLastingDamage
=============================================================================
