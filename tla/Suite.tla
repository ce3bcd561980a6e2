------------------------------- MODULE Suite -------------------------------
(* run.sh, build_master_summary.py and no_taps.sh over the lifetime of      *)
(* global_results: the suite is run again and again, breaks off when a      *)
(* command fails (set -e) or on an interrupt, even in the middle of a file, *)
(* and directories of projects come and go in between.  A project has two   *)
(* artifacts here: its summary, which the tables are made of, and one of    *)
(* its reports, which are merged.  What the tables and the merged reports   *)
(* contain is in MasterSummary and Merge.                                   *)
EXTENDS Naturals, Sequences, FiniteSets, FiniteSetsExt, SequencesExt

CONSTANTS PROJECT_DIRS,     \* the sequence of projects
          Taps,             \* the one that no_taps.sh leaves out
          WARMUP_PROJECTS,  \* projects that are warmed up, if any
          None,             \* no file
          MaxRuns           \* bound on the runs of run.sh

Projects == ToSet(PROJECT_DIRS)

\* An artifact: the run it is of, whether it is whole, whether it comes from a
\* warmup, and the baseline that was subtracted.
Files == [run : Nat, state : {"whole", "torn"}, warm : BOOLEAN, baseline : Nat]

ASSUME SuiteAssumption ==
  /\ PROJECT_DIRS \in Seq(Projects) /\ Taps \in Projects
  /\ None \notin Files
  /\ WARMUP_PROJECTS \in Nat /\ MaxRuns \in Nat

VARIABLES
  runs,          \* times run.sh was started
  pc,            \* "off", "idle", "warmup", "projects", "copy summary",
                 \*   "copy report", "tables", "merge"
  queue,         \* the projects that are still to come in this phase
  there,         \* the projects whose directory and run_bench.py are there
  idle,          \* whether this run measures the idle baseline
  baseline,      \* idle_baseline.json: the run that measured it, 0 for none
                 \*   that can be read
  local,         \* local[p]: the artifacts in p's own results directory
  collected,     \* collected[p]: those in global_results
  master,        \* master_summary.json: its state, "none", "torn" or "whole",
                 \*   and the summaries it is made of, by project
  no_taps        \* projects shown in the combined report of no_taps.sh

scriptVars == <<runs, pc, queue, there, idle>>
resultVars == <<local, collected>>
vars == <<scriptVars, baseline, resultVars, master, no_taps>>

Nothing == [p \in Projects |-> [summary |-> None, report |-> None]]

Init == /\ runs = 0 /\ pc = "off" /\ queue = <<>> /\ there = Projects
        /\ idle = FALSE /\ baseline = 0
        /\ local = Nothing /\ collected = Nothing
        /\ master = [state |-> "none", rows |-> <<>>] /\ no_taps = {}

-----------------------------------------------------------------------------
(* run.sh.                                                                  *)

\* RANDOMIZE_ORDER: the projects in their order, or shuffled.
Orders == SetToSeqs(Projects)

\* The first WARMUP_PROJECTS of PROJECT_DIRS that are there.
ToWarm(S) == LET present == SelectSeq(PROJECT_DIRS, LAMBDA p : p \in S)
                 n == Min({WARMUP_PROJECTS, Len(present)})
             IN  SubSeq(present, 1, n)

Start ==
  /\ pc = "off" /\ runs < MaxRuns /\ runs' = runs + 1
  /\ there' \in SUBSET Projects
  /\ idle' \in BOOLEAN /\ pc' = "idle"
  /\ queue' \in {<<>>, ToWarm(there')}
  /\ UNCHANGED <<baseline, resultVars, master, no_taps>>

\* What follows a measurement of the baseline that failed.  Seeded bug: the
\* suite goes on.
AfterIdleFailure_GoOn == "warmup"
AfterIdleFailure == "off"

\* measure_idle_if_available: it is written anew, or torn, or left alone.
measure_idle_if_available ==
  /\ pc = "idle"
  /\ \/ ~idle /\ pc' = "warmup" /\ UNCHANGED baseline
     \/ idle /\ pc' = "warmup" /\ baseline' = runs
     \/ idle /\ pc' = AfterIdleFailure /\ baseline' \in {baseline, 0}
  /\ UNCHANGED <<runs, queue, there, idle, resultVars, master, no_taps>>

\* What a campaign writes, with the baseline it has read.
File(state, warm) == [run |-> runs, state |-> state, warm |-> warm, baseline |-> baseline]

Finished(p, warm) == local' = [local EXCEPT ![p] = [summary |-> File("whole", warm),
                                                    report  |-> File("whole", warm)]]

\* A campaign that fails leaves everything as it was, or its summary, or its
\* summary and a report that is not whole.
Failed(p, warm) ==
  \/ UNCHANGED local
  \/ \E s \in {"whole", "torn"} : local' = [local EXCEPT ![p].summary = File(s, warm)]
  \/ local' = [local EXCEPT ![p] = [summary |-> File("whole", warm),
                                    report  |-> File("torn", warm)]]

\* warmup_phase: a campaign of which neither the result nor a failure counts.
Warmup ==
  /\ pc = "warmup"
  /\ IF queue = <<>>
     THEN pc' = "projects" /\ queue' \in Orders /\ UNCHANGED local
     ELSE /\ Finished(Head(queue), TRUE) \/ Failed(Head(queue), TRUE)
          /\ queue' = Tail(queue) /\ UNCHANGED pc
  /\ UNCHANGED <<runs, there, idle, baseline, collected, master, no_taps>>

\* What follows a run_bench.py that failed.  Seeded bug: "|| true", as in the
\* warmup.
AfterFailure_Copy == "copy summary"
AfterFailure == "off"

\* run_project_once: skip the project, or run it.
run_project_once ==
  /\ pc = "projects" /\ queue # <<>>
  /\ \/ /\ Head(queue) \notin there
        /\ queue' = Tail(queue) /\ UNCHANGED <<pc, local>>
     \/ /\ Head(queue) \in there
        /\ pc' = "copy summary" /\ Finished(Head(queue), FALSE) /\ UNCHANGED queue
     \/ /\ Head(queue) \in there
        /\ pc' = AfterFailure /\ Failed(Head(queue), FALSE) /\ UNCHANGED queue
  /\ UNCHANGED <<runs, there, idle, baseline, collected, master, no_taps>>

\* copy_if_exists.  Seeded bug: a file that is there is kept.
Copied_KeepOld(old, new) == IF old = None THEN new ELSE old
Copied(old, new) == IF new = None THEN old ELSE new

\* copy_project_artifacts_if_exist: one file after the other.
CopySummary ==
  /\ pc = "copy summary" /\ pc' = "copy report"
  /\ LET p == Head(queue)
     IN  collected' = [collected EXCEPT ![p].summary = Copied(@, local[p].summary)]
  /\ UNCHANGED <<runs, queue, there, idle, baseline, local, master, no_taps>>

CopyReport ==
  /\ pc = "copy report"
  /\ LET p == Head(queue)
     IN  collected' = [collected EXCEPT ![p].report = Copied(@, local[p].report)]
  /\ queue' = Tail(queue)
  /\ pc' = IF queue' = <<>> THEN "tables" ELSE "projects"
  /\ UNCHANGED <<runs, there, idle, baseline, local, master, no_taps>>

\* ... or the copy breaks off and leaves a part of the file.
CopyBreaks ==
  /\ pc' = "off"
  /\ LET p == Head(queue)
     IN  \/ /\ pc = "copy summary" /\ local[p].summary # None
            /\ collected' = [collected EXCEPT ![p].summary = [local[p].summary EXCEPT !.state = "torn"]]
         \/ /\ pc = "copy report" /\ local[p].report # None
            /\ collected' = [collected EXCEPT ![p].report = [local[p].report EXCEPT !.state = "torn"]]
  /\ UNCHANGED <<runs, queue, there, idle, baseline, local, master, no_taps>>

\* The last project was skipped.
ProjectsDone ==
  /\ pc = "projects" /\ queue = <<>> /\ pc' = "tables"
  /\ UNCHANGED <<runs, queue, there, idle, baseline, resultVars, master, no_taps>>

-----------------------------------------------------------------------------
(* The tables.                                                              *)

\* The projects in S of which there is a summary.
Summarised(S) == {p \in S : collected[p].summary # None}

\* The *_summary.json files are those of the projects in S, and the master
\* table of an earlier run, which has no "summary" and adds no row; all of them
\* can be read.
Readable(S) == /\ master.state # "torn"
               /\ \A p \in Summarised(S) : collected[p].summary.state = "whole"

\* build_master_tables: no summary at all is an error, and so is one that
\* cannot be read; once they are read, the master table is written, which may
\* break off.
build_master_tables ==
  /\ pc = "tables"
  /\ IF Readable(Projects) /\ (Summarised(Projects) # {} \/ master.state # "none")
     THEN \/ pc' = "merge"
             /\ master' = [state |-> "whole",
                            rows |-> [p \in Summarised(Projects) |-> collected[p].summary]]
          \/ pc' = "off" /\ master' = [state |-> "torn", rows |-> <<>>]
     ELSE pc' = "off" /\ UNCHANGED master
  /\ UNCHANGED <<runs, queue, there, idle, baseline, resultVars, no_taps>>

\* merge_reports reads reports only.
merge_reports ==
  /\ pc = "merge" /\ pc' = "off"
  /\ UNCHANGED <<runs, queue, there, idle, baseline, resultVars, master, no_taps>>

\* An interrupt, or another command that fails, ends the script (set -e).
BreaksOff ==
  /\ pc # "off" /\ pc' = "off"
  /\ UNCHANGED <<runs, queue, there, idle, baseline, resultVars, master, no_taps>>

-----------------------------------------------------------------------------
(* no_taps.sh, between runs: tables of the summaries without taps-asio's,   *)
(* and one report of the PDF files whose name does not contain "taps": the  *)
(* other libraries' and the global one, which shows the rows of the master. *)
NoTaps ==
  /\ pc = "off" /\ Summarised(Projects \ {Taps}) # {} /\ Readable(Projects \ {Taps})
  /\ no_taps' = {p \in Projects \ {Taps} : /\ collected[p].report # None
                                           /\ collected[p].report.state = "whole"}
                \cup DOMAIN master.rows
  /\ UNCHANGED <<scriptVars, baseline, resultVars, master>>

Next == \/ Start \/ measure_idle_if_available \/ Warmup \/ run_project_once
        \/ CopySummary \/ CopyReport \/ CopyBreaks \/ ProjectsDone
        \/ build_master_tables \/ merge_reports \/ BreaksOff \/ NoTaps

Spec == Init /\ [][Next]_vars

-----------------------------------------------------------------------------
\* When the tables are written, the row of a project comes from the campaign
\* of this run, never from a warmup or an earlier run, unless the project was
\* skipped: then an older row of it may still be there.
MasterIsMeasured ==
  pc = "merge" =>
    /\ there \subseteq DOMAIN master.rows
    /\ \A p \in DOMAIN master.rows : /\ ~master.rows[p].warm
                                /\ p \in there => master.rows[p].run = runs

\* The reports that are merged with the tables tell of the same campaigns: the
\* report of a project that was run is whole and of the campaign of its row.
ArtifactsAgree ==
  pc = "merge" => \A p \in there : collected[p].report = master.rows[p]

\* The rows that are compared with each other subtract the same idle power,
\* and where the run measures it, what it has measured: nothing that failed or
\* was left by another run.
OneBaseline ==
  pc = "merge" =>
    \A p, q \in there : /\ master.rows[p].baseline = master.rows[q].baseline
                        /\ idle => master.rows[p].baseline = runs

\* "Merging existing PDFs without TAPS": what no_taps.sh says it does.
NoTapsWithoutTaps == Taps \notin no_taps
=============================================================================
