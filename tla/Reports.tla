------------------------------ MODULE Reports ------------------------------
(* main of run_bench.py, the data: the results of all campaigns collected   *)
(* one after the other, and everything that is computed from them.  What a  *)
(* failure leaves on the disk is in Outputs.                                *)
EXTENDS Reporting

CONSTANTS Configs,      \* the configurations: compilers, threads, cases,
                        \*   repetitions, plots (GENERATE_PLOTS)
          Measured      \* Measured[k]: the values a case of k benches may have

VARIABLES config, pc,
          all_results, all_summary, csv,   \* the results, their summary, the CSV
          figures,                         \* the plots: [scatter, comparison]
          reports                          \* the four PDF files, by name

reportVars == <<config, pc, all_results, all_summary, csv, figures, reports>>

NoFigures == [scatter |-> <<>>, comparison |-> <<>>]

ReportInit == /\ config \in Configs /\ pc = "run"
              /\ all_results = <<>> /\ all_summary = <<>> /\ csv = <<>>
              /\ figures = NoFigures /\ reports = <<>>

\* What is to be run, in the order of the loops of main and of
\* run_campaign_for_compiler_and_threads.
ToRun ==
  FlattenSeq([c \in DOMAIN config.compilers |->
    FlattenSeq([t \in DOMAIN config.threads |->
      FlattenSeq([k \in DOMAIN config.cases |->
        [rep \in 1 .. config.repetitions |->
          [compiler |-> config.compilers[c], threads |-> config.threads[t],
           clients |-> config.cases[k], repetition |-> rep]]])])])

\* A case ends with a result.
RunCase ==
  /\ pc = "run" /\ Len(all_results) < Len(ToRun)
  /\ LET next == ToRun[Len(all_results) + 1]
     IN  \E v \in Measured[next.clients] :
           all_results' = Append(all_results,
             [compiler |-> next.compiler, threads |-> next.threads,
              clients |-> next.clients, repetition |-> next.repetition, value |-> v])
  /\ UNCHANGED <<config, pc, all_summary, csv, figures, reports>>

\* An exception or an interrupt leaves main: what was measured is lost.
Raise ==
  /\ pc = "run" /\ pc' = "failed" /\ all_results' = <<>>
  /\ UNCHANGED <<config, all_summary, csv, figures, reports>>

\* All cases are done: the files are made, in this order.
Write ==
  /\ pc = "run" /\ Len(all_results) = Len(ToRun)
  /\ all_summary' = summarize_results(all_results)
  /\ csv' = write_csv(all_results)
  /\ pc' = "plots"
  /\ UNCHANGED <<config, all_results, figures, reports>>

Plot ==
  /\ pc = "plots" /\ pc' = "pdf"
  /\ figures' = IF config.plots THEN generate_plots(config, all_results, all_summary)
                ELSE NoFigures
  /\ UNCHANGED <<config, all_results, all_summary, csv, reports>>

Report ==
  /\ pc = "pdf" /\ pc' = "done"
  /\ LET main(raw) == generate_main_pdf_report(config, all_summary, all_results,
                                                DOMAIN figures.scatter, raw)
         comparison(raw) == generate_comparison_pdf_report(config, all_summary, all_results,
                                                DOMAIN figures.comparison, raw)
     IN  reports' = [MAIN_PDF_WITH_RAW |-> main(TRUE),
                     MAIN_PDF_NO_RAW |-> main(FALSE),
                     COMPARISON_PDF_WITH_RAW |-> comparison(TRUE),
                     COMPARISON_PDF_NO_RAW |-> comparison(FALSE)]
  /\ UNCHANGED <<config, all_results, all_summary, csv, figures>>

ReportNext == RunCase \/ Raise \/ Write \/ Plot \/ Report

ReportSpec == ReportInit /\ [][ReportNext]_reportVars

-----------------------------------------------------------------------------
CasesRun == ToSet(config.compilers) \X ToSet(config.threads) \X ToSet(config.cases)
CaseNamed(k) == [compiler |-> k[1], threads |-> k[2], clients |-> k[3]]
Main == reports.MAIN_PDF_WITH_RAW
Comparison == reports.COMPARISON_PDF_WITH_RAW

\* The rows of a table that are of a case.
RowsFor(table, k) == Select(table, {r \in ToSet(table) : r.case = CaseNamed(k)})

\* The points at k of the curve that a figure has under a legend.
PointsAt(curves, field, legend, k) ==
  UNION {{p[2] : p \in {q \in ToSet(curves[i].mean) : q[1] = k}} :
           i \in {j \in DOMAIN curves : curves[j][field] = legend}}

\* The metric of the tables and of the per-run plots that is the one of a plot
\* of the comparison.
TableMetric == [elapsed |-> "elapsed_ms", net_energy |-> "energy_j",
                throughput |-> "throughput_mib_s"]
RunPlot == [elapsed |-> "elapsed_time", net_energy |-> "net_energy",
            throughput |-> "throughput"]

\* The same mean of the same runs is shown everywhere: in the row of a case in
\* the main report, on the mean curve of the compiler's own plot (computed from
\* the results), and on the comparison's plot and in its table (computed from
\* the summary); the three names of a metric lead to the same metric.
MeansAgree ==
  pc = "done" /\ config.plots =>
    \A k \in CasesRun, f \in DOMAIN TableMetric :
      LET metric == TableMetric[f]
          mean == RowsFor(RowsUnder(Main, "Summary table"), k)[1].cells[metric].mean
          table == build_comparison_table_rows(config, all_summary, k[2])
          row == Select(table, {r \in ToSet(table) : r.clients = k[3]})[1]
      IN  /\ PointsAt(figures.scatter[<<RunPlot[f], k[1]>>], "threads", k[2], k[3]) = {mean}
          /\ PointsAt(figures.comparison[<<f, k[2]>>], "compiler", k[1], k[3]) = {mean}
          /\ (IF k[1] = "gcc" THEN row.gcc ELSE row.clang)[metric].mean = mean
          /\ mean[2] = config.repetitions

\* Every result is in the raw tables, in order, however many pages it takes;
\* every case in the tables of the main report and in the overview of its
\* compiler, once.
EverythingIsShown ==
  pc = "done" =>
    LET cases(title) == {r.case : r \in ToSet(RowsUnder(Main, title))}
        all == {CaseNamed(k) : k \in CasesRun}
    IN  /\ RowsUnder(Main, "Raw execution results") = build_raw_results_rows(all_results)
        /\ RowsUnder(Comparison, "Comparison raw results") = comparison_raw_rows(all_results)
        /\ \A title \in {"Summary table", "Reliability table", "overview"} :
             /\ cases(title) = all
             /\ Len(RowsUnder(Main, title)) = Cardinality(all)

\* The reliability table adds up.
ReliabilityAddsUp ==
  pc = "done" =>
    \A r \in ToSet(RowsUnder(Main, "Reliability table")) :
      r.cells["success"].mean[1] + r.cells["failed"].mean[1]
        = r.case.clients * config.repetitions

\* Nothing that was measured is missing in the reports or there twice, and the
\* successful and failed processes of a case are all the processes of its
\* repetitions and none of another case's.
ReportsShowAll == EverythingIsShown /\ ReliabilityAddsUp
=============================================================================
