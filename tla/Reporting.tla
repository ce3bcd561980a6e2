----------------------------- MODULE Reporting -----------------------------
(* run_bench.py, from the results of a campaign to what is shown of them:   *)
(* the summary by case, the curves of the plots, the rows of the tables and *)
(* how they are spread over the pages of the reports.  A result is a record *)
(* of its case, its repetition and its metrics; how a number is written is  *)
(* left out, which number stands where is not.                              *)
EXTENDS Statistics, Tables, FiniteSets

CONSTANTS TABLE_ROWS, RAW_ROWS, COMPARISON_RAW_ROWS,   \* rows on a page
          FirstLine, TopLine, LastLine    \* where the rows of a text page begin,
                        \*   below its heading and without, and the lowest line

\* The metrics of a result that are summarised, by their names in the code.
Metrics == {"elapsed_ms", "energy_j_raw", "energy_j", "throughput_mib_s",
            "downloads_per_process", "total_iterations", "success", "failed"}

-----------------------------------------------------------------------------
(* The summary.                                                             *)

\* The key a result is grouped by.
Key(r) == <<r.compiler, r.threads, r.clients>>

Values(rows, metric) == [i \in DOMAIN rows |-> rows[i].value[metric]]

\* The results of a case, in the order of its repetitions.
ResultsOf(results, case) == Select(results, {r \in ToSet(results) : Key(r) = case})

\* A mean, as the pair of the sum and the number of values.
Mean(values) == <<FoldLeft(LAMBDA a, b : a + b, 0, values), Len(values)>>
MeanOf(stats) == <<stats.total, stats.count>>

\* summarize_results: one item per case, sorted, with the statistics of all
\* its repetitions.
summarize_results(results) ==
  LET cases == Keys([i \in DOMAIN results |-> Key(results[i])])
      keys == SortedBy(cases, CaseOrder(cases))
      items(k) == ResultsOf(results, k)
  IN  [i \in DOMAIN keys |->
        [compiler |-> keys[i][1], threads |-> keys[i][2], clients |-> keys[i][3],
         runs  |-> Len(items(keys[i])),
         stats |-> [m \in Metrics |-> compute_stats(Values(items(keys[i]), m))]]]

\* write_csv: a row per result, in their order, without the list of files.
write_csv(results) == results

-----------------------------------------------------------------------------
(* Plots.  A curve is a sequence of points.                                 *)

\* The name of a per-run plot says which metric it shows, and so does that of
\* a comparison of the compilers.
ScatterMetric == [elapsed_time |-> "elapsed_ms", raw_energy |-> "energy_j_raw",
                  net_energy |-> "energy_j", throughput |-> "throughput_mib_s",
                  downloads_per_process |-> "downloads_per_process"]
ComparisonMetric_Raw == [elapsed |-> "elapsed_ms", net_energy |-> "energy_j_raw",
                         throughput |-> "throughput_mib_s"]   \* Seeded bug.
ComparisonMetric == [elapsed |-> "elapsed_ms", net_energy |-> "energy_j",
                     throughput |-> "throughput_mib_s"]

\* The rows of a compiler and a number of threads, and of these those of k
\* clients.
RunsOf(rows, compiler, threads) ==
  Select(rows, {r \in ToSet(rows) : r.compiler = compiler /\ r.threads = threads})
RunsAt(rows, k) == Select(rows, {r \in ToSet(rows) : r.clients = k})

\* What the rows of a plot are sorted by.
ByRun(rows) == {p \in ToSet(rows) \X ToSet(rows) :
  \/ p[1].clients < p[2].clients
  \/ p[1].clients = p[2].clients /\ p[1].repetition < p[2].repetition}
ByClients(rows) == {p \in ToSet(rows) \X ToSet(rows) : p[1].clients < p[2].clients}

\* make_per_run_scatter_with_mean: for each number of threads that was run, a
\* point per run and the curve of the means over the cases.
make_per_run_scatter_with_mean(config, results, compiler, metric) ==
  LET of(t) == SortedBy(RunsOf(results, compiler, t), ByRun(results))
      at(t, k) == Values(RunsAt(of(t), k), metric)
      cases(t) == Select(config.cases, {k \in ToSet(config.cases) : at(t, k) # <<>>})
      run == Select(config.threads, {t \in ToSet(config.threads) : of(t) # <<>>})
  IN  [i \in DOMAIN run |->
        [threads |-> run[i],
         runs |-> [j \in DOMAIN of(run[i]) |->
                    <<of(run[i])[j].clients, of(run[i])[j].value[metric]>>],
         mean |-> [j \in DOMAIN cases(run[i]) |->
                    <<cases(run[i])[j], Mean(at(run[i], cases(run[i])[j]))>>]]]

\* make_compiler_comparison_plot: for each compiler that was run, the curve of
\* the means in the summary.
make_compiler_comparison_plot(config, summary, threads, metric) ==
  LET of(c) == SortedBy(RunsOf(summary, c, threads), ByClients(summary))
      run == Select(config.compilers, {c \in ToSet(config.compilers) : of(c) # <<>>})
  IN  [i \in DOMAIN run |->
        [compiler |-> run[i],
         mean |-> [j \in DOMAIN of(run[i]) |->
                    <<of(run[i])[j].clients, MeanOf(of(run[i])[j].stats[metric])>>]]]

\* The files that generate_plots writes, in order.
ScatterFiles(config) ==
  LET names == <<"elapsed_time", "raw_energy", "net_energy", "throughput",
                 "downloads_per_process">>
  IN  FlattenSeq([i \in DOMAIN config.compilers |->
        [j \in DOMAIN names |-> <<names[j], config.compilers[i]>>]])
ComparisonFiles(config) ==
  LET names == <<"elapsed", "net_energy", "throughput">>
  IN  FlattenSeq([i \in DOMAIN config.threads |->
        [j \in DOMAIN names |-> <<names[j], config.threads[i]>>]])

\* Those of them that are of one compiler or number of threads.
FilesOf(files, of) == Select(files, {f \in ToSet(files) : f[2] = of})

\* generate_plots: what each file shows.
generate_plots(config, results, summary) ==
  LET shown(f) == make_per_run_scatter_with_mean(config, results, f[2], ScatterMetric[f[1]])
      compared(f) == make_compiler_comparison_plot(config, summary, f[2], ComparisonMetric[f[1]])
  IN  [scatter    |-> [f \in ToSet(ScatterFiles(config)) |-> shown(f)],
       comparison |-> [f \in ToSet(ComparisonFiles(config)) |-> compared(f)]]

-----------------------------------------------------------------------------
(* Tables.                                                                  *)

\* The numbers of short_stats_cell and stats_summary_line.
Cell(stats) == [mean |-> MeanOf(stats), median |-> stats.median, p95 |-> stats.p95,
                min |-> stats.min, max |-> stats.max]

Case(item) == [compiler |-> item.compiler, threads |-> item.threads,
               clients |-> item.clients]

\* A row of a table: a case, and the cells of some metrics.
Row(item, metrics) == [case |-> Case(item),
                       cells |-> [m \in metrics |-> Cell(item.stats[m])]]

build_summary_table_rows(summary) ==
  [i \in DOMAIN summary |->
    Row(summary[i], {"elapsed_ms", "energy_j", "throughput_mib_s",
                     "downloads_per_process"})]

build_reliability_table_rows(summary) ==
  [i \in DOMAIN summary |-> Row(summary[i], {"total_iterations", "success", "failed"})]

RawRows(results, metrics) ==
  [i \in DOMAIN results |-> [case |-> Case(results[i]),
                             repetition |-> results[i].repetition,
                             value |-> Restrict(results[i].value, metrics)]]
build_raw_results_rows(results) ==
  RawRows(results, Metrics \ {"downloads_per_process", "total_iterations"})
comparison_raw_rows(results) ==
  RawRows(results, {"elapsed_ms", "energy_j", "throughput_mib_s"})

\* build_comparison_table_rows: the compilers are named in the code.  Where
\* one was not run the cells are "-", here no cells.
build_comparison_table_rows(config, summary, threads) ==
  LET cells(c, k) ==
        LET found == RunsAt(RunsOf(summary, c, threads), k)    \* next() takes the first
        IN  IF found = <<>> THEN <<>>
            ELSE Row(found[1], {"elapsed_ms", "energy_j", "throughput_mib_s"}).cells
  IN  [i \in DOMAIN config.cases |->
        [clients |-> config.cases[i],
         gcc |-> cells("gcc", config.cases[i]), clang |-> cells("clang", config.cases[i])]]

-----------------------------------------------------------------------------
(* Pages.                                                                   *)

\* add_text_page: a line each; a page that is full is saved and a new one
\* begun, and what is begun is saved at the end, whatever is on it.
add_text_page(title, lines) ==
  LET upto[n \in 0 .. Len(lines)] ==
        IF n = 0 THEN [pages |-> <<>>, page |-> <<>>, y |-> FirstLine]
        ELSE LET acc == upto[n - 1]
                 page == Append(acc.page, lines[n])
             IN  IF acc.y - 1 < LastLine
                 THEN [pages |-> Append(acc.pages, page), page |-> <<>>, y |-> TopLine]
                 ELSE [pages |-> acc.pages, page |-> page, y |-> acc.y - 1]
      end == upto[Len(lines)]
      all == Append(end.pages, end.page)
  IN  [p \in DOMAIN all |-> [title |-> title, rows |-> all[p]]]

\* generate_main_pdf_report, after the cover page.  there: the plots on disk.
generate_main_pdf_report(config, summary, results, there, include_raw_results) ==
  LET overview(c) ==
        LET rows == Select(summary, {x \in ToSet(summary) : x.compiler = c})
        IN  add_text_page("overview", [i \in DOMAIN rows |->
              Row(rows[i], {"elapsed_ms", "energy_j", "throughput_mib_s"})])
      plots(c) == FilesOf(ScatterFiles(config), c)
  IN  TablePages("Summary table", build_summary_table_rows(summary), TABLE_ROWS)
      \o TablePages("Reliability table", build_reliability_table_rows(summary), TABLE_ROWS)
      \o FlattenSeq([i \in DOMAIN config.compilers |->
           overview(config.compilers[i])
           \o ImagePages("scatter", plots(config.compilers[i]), there)])
      \o (IF include_raw_results
          THEN TablePages("Raw execution results", build_raw_results_rows(results), RAW_ROWS)
          ELSE <<>>)

\* generate_comparison_pdf_report, likewise.
generate_comparison_pdf_report(config, summary, results, there, include_raw_results) ==
  LET table(t) == <<[title |-> "GCC vs Clang comparison",
                     rows |-> build_comparison_table_rows(config, summary, t)]>>
      plots(t) == FilesOf(ComparisonFiles(config), t)
  IN  FlattenSeq([i \in DOMAIN config.threads |->
        table(config.threads[i]) \o ImagePages("comparison", plots(config.threads[i]), there)])
      \o (IF include_raw_results
          THEN TablePages("Comparison raw results", comparison_raw_rows(results),
                          COMPARISON_RAW_ROWS)
          ELSE <<>>)
=============================================================================
