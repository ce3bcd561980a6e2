--------------------------- MODULE GlobalResults ---------------------------
(* What works on global_results: run.sh, which takes the two Python scripts *)
(* at its end for one step each (Suite), and these scripts in detail,       *)
(* build_master_summary.py (MasterSummary) and merge.py (Merge).  They      *)
(* share files only, so each is looked at by itself: a behaviour is one of  *)
(* any of them.                                                             *)
EXTENDS Suite

CONSTANTS NameOrder, LIBRARY_ORDER, CHUNK_SIZE, Inputs,    \* see MasterSummary
          Reports, Sorted, Names, preferred_order,         \* see Merge
          Merged, All, MergeRuns

ASSUME GlobalResultsAssumption ==
  /\ CHUNK_SIZE \in Nat \ {0} /\ MergeRuns \in Nat
  /\ {Sorted, Names, preferred_order} \subseteq Seq(STRING)
  /\ IsInjective(Sorted) /\ IsInjective(Names) /\ IsInjective(preferred_order)
  /\ Merged \in ToSet(Sorted) /\ All \notin ToSet(Sorted)
  /\ ToSet(Sorted) \cup {All} \subseteq ToSet(Names)
  /\ \A r \in Reports : r[1] \in ToSet(Sorted) \ {Merged} /\ r[2] \in ToSet(Names)

VARIABLES
  script,    \* whose behaviour it is: "run.sh", "tables", "merge"
  tables_pc, files, rows, best_by_case, library_overview, json, csv, plots, pages,
  merge_pc, merge_runs, groups, found, todo, disk

Tables == INSTANCE MasterSummary WITH pc <- tables_pc
Merging == INSTANCE Merge WITH pc <- merge_pc, runs <- merge_runs, MaxRuns <- MergeRuns

ASSUME TablesAssumption ==
  /\ NameOrder \in Seq(STRING) /\ None \notin Nat
  /\ \A input \in Inputs : Tables!Collected(input)

tablesVars == <<tables_pc, files, rows, best_by_case, library_overview, json, csv, plots, pages>>
mergeVars == <<merge_pc, merge_runs, groups, found, todo, disk>>
allVars == <<script, vars, tablesVars, mergeVars>>

\* The others have nothing to work on.
AnyInit ==
  /\ script \in {"run.sh", "tables", "merge"}
  /\ Init /\ Tables!Init /\ Merging!Init
  /\ script # "tables" => files = <<>>
  /\ script # "merge" => disk = <<>>

AnyNext ==
  /\ \/ script = "run.sh" /\ Next /\ UNCHANGED <<tablesVars, mergeVars>>
     \/ script = "tables" /\ Tables!Next /\ UNCHANGED <<vars, mergeVars>>
     \/ script = "merge" /\ Merging!Next /\ UNCHANGED <<vars, tablesVars>>
  /\ UNCHANGED script

AnySpec == AnyInit /\ [][AnyNext]_allVars

-----------------------------------------------------------------------------
\* Whatever statistics a summary lacks, build_master_summary.py fails only
\* where there is no summary or one cannot be read, and then before it has
\* written either of its tables.
TablesAreWritten == Tables!TablesAreWritten

\* A library is the best of a case only if no other is better, and one without
\* a value only if no library has one.
BestIsBest == Tables!BestIsBest

\* The parts of the global report agree, though each is made by itself: the
\* best of all cases is the best of all libraries, a row stands in its three
\* plots of a metric as the same value at its own tick, and the pages have
\* every library, every case and every plot once.
GlobalReportAgrees ==
  Tables!OverviewMatchesBest /\ Tables!PlotsAgree /\ Tables!ReportHasAll

\* merge.py leaves no report out but those that cannot be read, in the file of
\* a directory whatever earlier runs and breaks have left, and in the combined
\* file of the first run, which has each of them once and in order.
ReportsAreMerged == Merging!DirectoriesAreMerged /\ Merging!FirstRunHasAllOnce
=============================================================================
