--------------------------- MODULE MasterSummary ---------------------------
(* build_master_summary.py: from the summaries of the libraries to the      *)
(* master table, the best library of each case, the overview of the         *)
(* libraries, the plots and the pages of the global report.  A value may be *)
(* missing (None), as in the summary of an older run_bench.py.              *)
EXTENDS Tables

CONSTANTS None,             \* Python's None
          LIBRARY_ORDER,    \* the libraries it knows, in the order of tables
          CHUNK_SIZE,       \* rows on a page
          Inputs            \* the summaries that may be there: sequences of a
                            \*   library, its items (case and statistics), and
                            \*   whether the file is torn

VARIABLES pc,               \* "read", "json", "csv", "pdf", "done", "failed"
          files,            \* the summaries, as they are found
          rows, best_by_case, library_overview,
          json, csv,        \* what it has written to the two files, or None
          plots, pages      \* the images, and the pages of the global report

vars == <<pc, files, rows, best_by_case, library_overview, json, csv, plots, pages>>

-----------------------------------------------------------------------------
(* Rows.  The fields of a row are pairs of a metric and a statistic.        *)

STAT_PREFIXES == {"elapsed_s", "elapsed_ms", "energy_j", "throughput_mib_s"}
STAT_KEYS == {"mean", "p95"}

\* The summaries that run_bench.py writes and run.sh collects: a file for each
\* library, an item for each case, and of the statistics those that its version
\* knew; and master_summary.json of an earlier run, which lies among them, has a
\* name like theirs and no items.  Any of them may be torn.
Known(item) ==
  /\ item.case \in ToSet(NameOrder) \X Nat \X Nat
  /\ DOMAIN item.stats \subseteq STAT_PREFIXES
  /\ \A prefix \in DOMAIN item.stats : \A key \in DOMAIN item.stats[prefix] :
       key \in STAT_KEYS /\ item.stats[prefix][key] \in Nat
Collected(summaries) ==
  /\ summaries \in Seq(ToSet(summaries))
  /\ \A i, j \in DOMAIN summaries : summaries[i].library = summaries[j].library => i = j
  /\ \A file \in ToSet(summaries) :
       /\ file.items \in Seq(ToSet(file.items)) /\ file.torn \in BOOLEAN
       /\ \A item \in ToSet(file.items) : Known(item)
       /\ \A j, k \in DOMAIN file.items : file.items[j].case = file.items[k].case => j = k

\* d.get(k).
Get(d, k) == IF k \in DOMAIN d THEN d[k] ELSE None

\* safe_div, for quotients that are whole.
safe_div(num, den) ==
  IF num = None \/ den \in {None, 0} THEN None ELSE num \div den

library_sort_key(id) ==
  IF id \in ToSet(LIBRARY_ORDER) THEN CHOOSE i \in DOMAIN LIBRARY_ORDER : LIBRARY_ORDER[i] = id
  ELSE Len(LIBRARY_ORDER) + 1

collect_summary_files(found) ==
  SortedBy(found, {p \in ToSet(found) \X ToSet(found) :
                    library_sort_key(p[1].library) < library_sort_key(p[2].library)})

\* flatten_stats: a field for each statistic, also where there are none.
\* Seeded bug: no fields then.
flatten_stats_Skip(prefix, stats) ==
  IF stats = None THEN <<>>
  ELSE [f \in {prefix} \X STAT_KEYS |-> Get(stats, f[2])]
flatten_stats(prefix, stats) ==
  [f \in {prefix} \X STAT_KEYS |-> IF stats = None THEN None ELSE Get(stats, f[2])]

Flattened(item) ==
  LET part(prefix) == flatten_stats(prefix, Get(item.stats, prefix))
  IN  [f \in UNION {DOMAIN part(prefix) : prefix \in STAT_PREFIXES} |-> part(f[1])[f]]

\* ensure_elapsed_ms_fields: milliseconds from seconds where only these are.
ensure_elapsed_ms_fields(row) ==
  LET missing == {f \in {"elapsed_ms"} \X STAT_KEYS :
                   Get(row, f) = None /\ Get(row, <<"elapsed_s", f[2]>>) # None}
  IN  [f \in DOMAIN row \cup missing |->
        IF f \in missing THEN 1000 * row[<<"elapsed_s", f[2]>>] ELSE row[f]]

Efficiency == <<"throughput_per_joule", "mean">>

Fields(item) ==
  LET row == ensure_elapsed_ms_fields(Flattened(item))
  IN  [f \in DOMAIN row \cup {Efficiency} |->
        IF f = Efficiency THEN safe_div(Get(row, <<"throughput_mib_s", "mean">>),
                                        Get(row, <<"energy_j", "mean">>))
        ELSE row[f]]

\* build_master_rows: one for each item of each file, sorted.
build_master_rows(summary_files) ==
  LET of(file) == [i \in DOMAIN file.items |->
        [library |-> file.library, case |-> file.items[i].case,
         fields |-> Fields(file.items[i])]]
      all == FlattenSeq([i \in DOMAIN summary_files |-> of(summary_files[i])])
      before == {p \in ToSet(all) \X ToSet(all) :
        \/ library_sort_key(p[1].library) < library_sort_key(p[2].library)
        \/ p[1].library = p[2].library /\ Precedes(p[1].case, p[2].case)}
  IN  SortedBy(all, before)

\* The groups of rows, by case and by library, in order.
Cases(rs) ==
  LET keys == Keys([i \in DOMAIN rs |-> rs[i].case])
  IN  SortedBy(keys, CaseOrder(keys))
Libraries(rs) ==
  LET keys == Keys([i \in DOMAIN rs |-> rs[i].library])
  IN  SortedBy(keys, {p \in ToSet(keys) \X ToSet(keys) :
                       library_sort_key(p[1]) < library_sort_key(p[2])})

-----------------------------------------------------------------------------
(* The best.                                                                *)

\* What is compared, and which of two values is the better one: None is
\* infinitely far away.  Seeded bug: max has the infinity of min.
Compared == [time |-> <<"elapsed_ms", "mean">>, energy |-> <<"energy_j", "mean">>,
             throughput |-> <<"throughput_mib_s", "mean">>, efficiency |-> Efficiency]
LessKey(a, b) == a # None /\ (b = None \/ a < b)
MoreKey_PlusInf(a, b) == b # None /\ (a = None \/ a > b)
MoreKey(a, b) == a # None /\ (b = None \/ a > b)
Better(what, a, b) == IF what \in {"time", "energy"} THEN LessKey(a, b) ELSE MoreKey(a, b)

\* Python's min and max with a key: the first of the best.
BestRow(what, items) ==
  LET value(r) == Get(r.fields, Compared[what])
      best[n \in DOMAIN items] ==
        IF n > 1 /\ ~Better(what, value(items[n]), value(best[n - 1]))
        THEN best[n - 1] ELSE items[n]
  IN  best[Len(items)]

build_best_by_case(rs) ==
  LET items(k) == Select(rs, {r \in ToSet(rs) : r.case = k})
      best(k, what) == LET row == BestRow(what, items(k))
                       IN  [library |-> row.library,
                            value |-> Get(row.fields, Compared[what])]
  IN  [i \in DOMAIN Cases(rs) |->
        [case |-> Cases(rs)[i],
         best |-> [what \in DOMAIN Compared |-> best(Cases(rs)[i], what)]]]

\* collect of build_library_overview: the values that are there.  Seeded bug:
\* a missing one counts as zero.
collect_Zero(items, f) ==
  [i \in DOMAIN items |-> IF Get(items[i].fields, f) = None THEN 0 ELSE items[i].fields[f]]
collect(items, f) ==
  LET there == Select(items, {r \in ToSet(items) : Get(r.fields, f) # None})
  IN  [i \in DOMAIN there |-> there[i].fields[f]]

\* The best of some values; None of none.
Extreme(what, values) ==
  IF values = {} THEN None ELSE CHOOSE v \in values : \A w \in values : ~Better(what, w, v)

\* build_library_overview; an average is the sum and the number of values.
build_library_overview(rs) ==
  LET items(id) == Select(rs, {r \in ToSet(rs) : r.library = id})
      values(id, what) == collect(items(id), Compared[what])
  IN  [i \in DOMAIN Libraries(rs) |->
        LET id == Libraries(rs)[i]
        IN  [library |-> id, cases |-> Len(items(id)),
             average |-> [what \in DOMAIN Compared |->
               <<FoldLeft(LAMBDA a, b : a + b, 0, values(id, what)), Len(values(id, what))>>],
             best |-> [what \in DOMAIN Compared |->
               Extreme(what, ToSet(values(id, what)))]]]

-----------------------------------------------------------------------------
(* Plots.                                                                   *)

\* The points of a curve: values that are missing are left out, the others
\* stay at their place.
Points(y) == {<<i, y[i]>> : i \in {j \in DOMAIN y : y[j] # None}}

\* A plot of some rows: a tick for each label of their cases, a curve for each
\* library, at each tick the value of the first row with that label.
PlotOf(selected, label, field) ==
  LET first == Keys([i \in DOMAIN Cases(selected) |-> label[Cases(selected)[i]]])
      at(id, tick) == LET match == Select(selected, {r \in ToSet(selected) :
                                     r.library = id /\ label[r.case] = tick})
                      IN  IF match = <<>> THEN None ELSE Get(match[1].fields, field)
  IN  [ticks  |-> first,
       curves |-> [id \in ToSet(Libraries(rows)) |->
                    Points([i \in DOMAIN first |-> at(id, first[i])])]]

plot_metric_grouped_by_case(field) ==
  PlotOf(rows, [k \in ToSet(Cases(rows)) |-> k], field)
plot_metric_by_compiler(compiler, field) ==
  PlotOf(Select(rows, {r \in ToSet(rows) : r.case[1] = compiler}),
         [k \in ToSet(Cases(rows)) |-> <<k[2], k[3]>>], field)
plot_metric_by_server_threads(threads, field) ==
  PlotOf(Select(rows, {r \in ToSet(rows) : r.case[2] = threads}),
         [k \in ToSet(Cases(rows)) |-> <<k[1], k[3]>>], field)

metric_specs == <<<<"elapsed_ms", "mean">>, <<"elapsed_ms", "p95">>, <<"energy_j", "mean">>,
                  <<"energy_j", "p95">>, <<"throughput_mib_s", "mean">>,
                  <<"throughput_mib_s", "p95">>, Efficiency>>

\* unique_values of the compilers and of the threads, sorted.
Compilers == Select(NameOrder, {r.case[1] : r \in ToSet(rows)})
Threads ==
  LET keys == Keys([i \in DOMAIN rows |-> rows[i].case[2]])
  IN  SortedBy(keys, {p \in ToSet(keys) \X ToSet(keys) : p[1] < p[2]})

\* generate_global_comparison_plots: the list of images.
generated ==
  LET each(kind, value) == [i \in DOMAIN metric_specs |-> <<kind, value, metric_specs[i]>>]
  IN  each("all", "cases")
      \o FlattenSeq([i \in DOMAIN Compilers |-> each("compiler", Compilers[i])])
      \o FlattenSeq([i \in DOMAIN Threads |-> each("threads", Threads[i])])

generate_global_comparison_plots ==
  [p \in ToSet(generated) |->
    CASE p[1] = "all" -> plot_metric_grouped_by_case(p[3])
      [] p[1] = "compiler" -> plot_metric_by_compiler(p[2], p[3])
      [] p[1] = "threads" -> plot_metric_by_server_threads(p[2], p[3])]

\* generate_global_pdf_report, after its cover page.
generate_global_pdf_report(there) ==
  TablePages("Library overview", library_overview, CHUNK_SIZE)
  \o TablePages("Best library by case", best_by_case, CHUNK_SIZE)
  \o ImagePages("plot", generated, there)

-----------------------------------------------------------------------------
(* main.                                                                    *)

Init == /\ pc = "read" /\ files \in Inputs
        /\ rows = <<>> /\ best_by_case = <<>> /\ library_overview = <<>>
        /\ json = None /\ csv = None /\ plots = <<>> /\ pages = <<>>

\* json.load raises on a torn file.
Readable == \A i \in DOMAIN files : ~files[i].torn

Build ==
  /\ pc = "read"
  /\ IF files = <<>> \/ ~Readable
     THEN pc' = "failed" /\ UNCHANGED <<rows, best_by_case, library_overview>>
     ELSE /\ pc' = "json"
          /\ rows' = build_master_rows(collect_summary_files(files))
          /\ best_by_case' = build_best_by_case(rows')
          /\ library_overview' = build_library_overview(rows')
  /\ UNCHANGED <<files, json, csv, plots, pages>>

write_json ==
  /\ pc = "json" /\ pc' = "csv"
  /\ json' = [rows |-> rows, best_by_case |-> best_by_case,
              library_overview |-> library_overview]
  /\ UNCHANGED <<files, rows, best_by_case, library_overview, csv, plots, pages>>

\* The fields are those of the first row; a row with another one is an error.
write_csv ==
  /\ pc = "csv"
  /\ IF \E i \in DOMAIN rows : ~(DOMAIN rows[i].fields \subseteq DOMAIN rows[1].fields)
     THEN pc' = "failed" /\ UNCHANGED csv
     ELSE pc' = "pdf" /\ csv' = rows
  /\ UNCHANGED <<files, rows, best_by_case, library_overview, json, plots, pages>>

WritePdf ==
  /\ pc = "pdf" /\ pc' = "done"
  /\ plots' = generate_global_comparison_plots
  /\ pages' = generate_global_pdf_report(DOMAIN plots')
  /\ UNCHANGED <<files, rows, best_by_case, library_overview, json, csv>>

Next == Build \/ write_json \/ write_csv \/ WritePdf

Spec == Init /\ [][Next]_vars

-----------------------------------------------------------------------------
\* Whatever statistics a summary lacks, the tables are written: the script
\* fails only where there is no summary or one of them, or the master table of
\* an earlier run, cannot be read, and then before it has written anything.  It
\* never leaves a new JSON table beside an old CSV.
TablesAreWritten == pc = "failed" => json = None /\ (files = <<>> \/ ~Readable)

\* A library is the best of a case only if no other is better, and one without
\* a value only if no library has one.
BestIsBest ==
  \A i \in DOMAIN best_by_case, what \in DOMAIN Compared :
    LET best == best_by_case[i].best[what]
    IN  \A j \in DOMAIN rows :
          rows[j].case = best_by_case[i].case =>
            /\ ~Better(what, rows[j].fields[Compared[what]], best.value)
            /\ rows[j].library = best.library => rows[j].fields[Compared[what]] = best.value
            /\ rows[j].fields[Compared[what]] # None => best.value # None

\* The two tables of the global report, made apart from one another, agree: the
\* best value of any case is the best value of any library.
OverviewMatchesBest ==
  LET known(S) == S \ {None}
  IN  \A what \in DOMAIN Compared :
        Extreme(what, known({best_by_case[i].best[what].value : i \in DOMAIN best_by_case}))
          = Extreme(what, known({library_overview[i].best[what] : i \in DOMAIN library_overview}))

\* Each row stands in its three plots of a metric, at the tick of its case, as
\* the same value, and is in none of them where it has no value.
PlotsAgree ==
  pc = "done" =>
    \A i \in DOMAIN rows, f \in ToSet(metric_specs) :
      LET r == rows[i]
          value == {r.fields[f]} \ {None}
          shown(plot, label) ==
            {p[2] : p \in {q \in plot.curves[r.library] : plot.ticks[q[1]] = label}}
      IN  /\ shown(plots[<<"all", "cases", f>>], r.case) = value
          /\ shown(plots[<<"compiler", r.case[1], f>>], <<r.case[2], r.case[3]>>) = value
          /\ shown(plots[<<"threads", r.case[2], f>>], <<r.case[1], r.case[3]>>) = value

\* The global report has every library, every case and every plot once.
ReportHasAll ==
  pc = "done" =>
    /\ RowsUnder(pages, "Library overview") = library_overview
    /\ RowsUnder(pages, "Best library by case") = best_by_case
    /\ RowsUnder(pages, "plot") = generated
    /\ Len(generated) = Len(metric_specs) * (1 + Len(Compilers) + Len(Threads))
=============================================================================
