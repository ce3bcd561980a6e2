----------------------------- MODULE Evaluation -----------------------------
(* What run_bench.py makes of its downloads.  MacroCase has the downloads   *)
(* of one case and what it counts of them, Measurements the windows of      *)
(* energy and time around the cases, Reports the way of all results into    *)
(* the tables, plots and pages.  What one of them has found, the next only  *)
(* hands on, so each is looked at by itself: a behaviour is one of any.     *)
EXTENDS MacroCase, Measurements, Reports

\* The configuration is made of literals of run_bench.py, and so are the sizes
\* of its pages; a case counts every one of its benches as successful or
\* failed (see MacroCase, CountsOwnRuns).
ASSUME EvaluationAssumption ==
  /\ {TABLE_ROWS, RAW_ROWS, COMPARISON_RAW_ROWS} \subseteq Nat \ {0}
  /\ \A c \in Configs :
       /\ c.compilers \in Seq({"gcc", "clang"}) /\ IsInjective(c.compilers)
       /\ c.threads \in Seq(Nat) /\ IsInjective(c.threads)
       /\ c.cases \in Seq(Nat) /\ IsInjective(c.cases)
       /\ c.repetitions \in Nat \ {0}
       /\ \A k \in ToSet(c.cases) : \A v \in Measured[k] :
            /\ \A m \in Metrics : v[m] \in Int
            /\ v["success"] + v["failed"] = k

VARIABLE part    \* whose behaviour it is: "case", "measuring", "reporting"

\* The others are as they begin.
AnyInit ==
  /\ part \in {"case", "measuring", "reporting"}
  /\ CaseInit /\ MeasureInit /\ ReportInit
  /\ part # "case" => /\ case = "none" /\ program = CHOOSE x \in Programs : TRUE
                      /\ json = [p \in Procs |-> "none"]
  /\ part # "measuring" => counter = 0 /\ baseline = "absent"
  /\ part # "reporting" => config = CHOOSE c \in Configs : TRUE

AnyNext ==
  /\ \/ part = "case" /\ CaseNext /\ UNCHANGED <<measureVars, reportVars>>
     \/ part = "measuring" /\ MeasureNext /\ UNCHANGED <<macroVars, reportVars>>
     \/ part = "reporting" /\ ReportNext /\ UNCHANGED <<macroVars, measureVars>>
  /\ UNCHANGED part

AnySpec == AnyInit /\ [][AnyNext]_<<part, macroVars, measureVars, reportVars>>
=============================================================================
