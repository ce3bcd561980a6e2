------------------------------ MODULE Outputs ------------------------------
(* main of run_bench.py, the files: one campaign after the other writes the *)
(* same files, each of them after the measurements, in a fixed order, while *)
(* the configuration in the script is edited between campaigns and any of   *)
(* them may break off.  What stands in the files is in Reports.             *)
EXTENDS Naturals, Sequences, SequencesExt

CONSTANTS Configs,          \* compilers, threads, and the switches plots, pdf and
                            \*   comparison_pdf (GENERATE_...)
          ScatterNames,     \* the plots that are made for each compiler
          ComparisonNames,  \* ... and for each number of threads
          MaxCampaigns      \* bound on the campaigns of one behaviour

VARIABLES
  configs,   \* the configurations of the campaigns up to now
  pc,        \* "idle", "measure", "write", "done", "failed"
  todo,      \* the files that main has still to write, in order
  disk,      \* what is there under each name: the campaign that wrote it, its
             \*   state ("whole", "torn": unreadable, "cut": a PDF with fewer
             \*   pages) and the images in it
  disturbed  \* whether something outside the script has ended this campaign

vars == <<configs, pc, todo, disk, disturbed>>

Init == configs = <<>> /\ pc = "idle" /\ todo = <<>> /\ disk = <<>> /\ disturbed = FALSE

Campaign == Len(configs)
Config == configs[Campaign]

-----------------------------------------------------------------------------
(* The files.                                                               *)

Data == <<<<"data", "results">>, <<"data", "summary">>, <<"data", "csv">>>>
MainReports == <<<<"main", "with_raw">>, <<"main", "no_raw">>>>
ComparisonReports == <<<<"versus", "with_raw">>, <<"versus", "no_raw">>>>

\* The images of a configuration, in the order of generate_plots, which is the
\* order in which the reports look for them.
Scatter(config) ==
  FlattenSeq([i \in DOMAIN config.compilers |->
    [j \in DOMAIN ScatterNames |-> <<"scatter", ScatterNames[j], config.compilers[i]>>]])
Comparison(config) ==
  FlattenSeq([i \in DOMAIN config.threads |->
    [j \in DOMAIN ComparisonNames |-> <<"comparison", ComparisonNames[j], config.threads[i]>>]])

generate_plots(config) == IF config.plots THEN Scatter(config) \o Comparison(config) ELSE <<>>
generate_reports(config) ==
  (IF config.pdf THEN MainReports ELSE <<>>)
  \o (IF config.comparison_pdf THEN ComparisonReports ELSE <<>>)

IsReport(f) == f[1] \in {"main", "versus"}

\* What main writes once everything is measured.  Seeded bug: the reports
\* before the plots.
Order_ReportsFirst(config) == Data \o generate_reports(config) \o generate_plots(config)
Order(config) == Data \o generate_plots(config) \o generate_reports(config)

-----------------------------------------------------------------------------
\* The script is started, with the configuration it has by now.
Start(config) ==
  /\ pc \in {"idle", "done", "failed"} /\ Campaign < MaxCampaigns
  /\ configs' = Append(configs, config)
  /\ pc' = "measure" /\ disturbed' = FALSE
  /\ UNCHANGED <<todo, disk>>

\* The campaigns for all compilers and threads are over.
Measured ==
  /\ pc = "measure" /\ pc' = "write" /\ todo' = Order(Config)
  /\ UNCHANGED <<configs, disk, disturbed>>

\* ... or one raises: main writes nothing.
MeasureFails ==
  /\ pc = "measure" /\ pc' = "failed" /\ disturbed' = TRUE
  /\ UNCHANGED <<configs, todo, disk>>

Put(f, state, images) ==
  disk' = [g \in DOMAIN disk \cup {f} |->
            IF g = f THEN [of |-> Campaign, state |-> state, images |-> images] ELSE disk[g]]

\* A file is opened for writing, which empties it, and written.  Seeded bug: a
\* plot that is there is taken for done.
Write_IfMissing(f) == IF f \in DOMAIN disk THEN UNCHANGED disk ELSE Put(f, "whole", {})
Write(f) == Put(f, "whole", {})

\* The next file, data or image.
WriteFile ==
  /\ pc = "write" /\ todo # <<>> /\ ~IsReport(Head(todo))
  /\ IF Head(todo)[1] = "data" THEN Put(Head(todo), "whole", {}) ELSE Write(Head(todo))
  /\ todo' = Tail(todo)
  /\ UNCHANGED <<configs, pc, disturbed>>

\* ... and what becomes of it when the script ends here: it is as it was, or it
\* has been opened and is not finished.
WriteBreaks ==
  /\ pc = "write" /\ todo # <<>> /\ ~IsReport(Head(todo))
  /\ UNCHANGED disk \/ Put(Head(todo), "torn", {})
  /\ pc' = "failed" /\ disturbed' = TRUE /\ todo' = <<>>
  /\ UNCHANGED configs

-----------------------------------------------------------------------------
(* The reports.                                                             *)

\* The images a report asks for: those of the compilers or the threads of the
\* configuration that are there, by whichever campaign.
Candidates(f) == IF f[1] = "main" THEN Scatter(Config) ELSE Comparison(Config)
Wanted(f) == LET all == Candidates(f)
             IN  FlattenSeq([i \in DOMAIN all |->
                   IF all[i] \in DOMAIN disk THEN <<all[i]>> ELSE <<>>])

\* The images on its first n image pages, with the campaign each is of.
Shown(f, n) == {<<Wanted(f)[i], disk[Wanted(f)[i]].of>> : i \in 1 .. n}

Readable(n, f) == \A i \in 1 .. n : disk[Wanted(f)[i]].state = "whole"

\* add_image_page reads the images one after the other.
WriteReport ==
  /\ pc = "write" /\ todo # <<>> /\ IsReport(Head(todo))
  /\ Readable(Len(Wanted(Head(todo))), Head(todo))
  /\ Put(Head(todo), "whole", Shown(Head(todo), Len(Wanted(Head(todo)))))
  /\ todo' = Tail(todo)
  /\ UNCHANGED <<configs, pc, disturbed>>

\* An image cannot be read: the exception makes the with statement close the
\* file, which is a PDF with the pages up to there.
ReportRaises ==
  /\ pc = "write" /\ todo # <<>> /\ IsReport(Head(todo))
  /\ \E n \in 0 .. Len(Wanted(Head(todo))) - 1 :
       /\ Readable(n, Head(todo)) /\ ~Readable(n + 1, Head(todo))
       /\ Put(Head(todo), "cut", Shown(Head(todo), n))
  /\ pc' = "failed" /\ todo' = <<>>
  /\ UNCHANGED <<configs, disturbed>>

\* Something else raises, with the same effect, or the script is killed, which
\* leaves no PDF.
ReportBreaks ==
  /\ pc = "write" /\ todo # <<>> /\ IsReport(Head(todo))
  /\ \/ \E n \in 0 .. Len(Wanted(Head(todo))) :
          Readable(n, Head(todo)) /\ Put(Head(todo), "cut", Shown(Head(todo), n))
     \/ Put(Head(todo), "torn", {})
  /\ pc' = "failed" /\ disturbed' = TRUE /\ todo' = <<>>
  /\ UNCHANGED configs

Finish ==
  /\ pc = "write" /\ todo = <<>> /\ pc' = "done"
  /\ UNCHANGED <<configs, todo, disk, disturbed>>

Next == \/ \E config \in Configs : Start(config)
        \/ Measured \/ MeasureFails \/ WriteFile \/ WriteBreaks
        \/ WriteReport \/ ReportRaises \/ ReportBreaks \/ Finish

\* main goes on, without an interruption if none comes.
Script == Measured \/ WriteFile \/ WriteReport \/ ReportRaises \/ Finish

Spec == Init /\ [][Next]_vars /\ WF_vars(Script)

-----------------------------------------------------------------------------
\* With GENERATE_PLOTS on, a report that can be opened, a cut one too, shows no
\* image of another campaign, although the images of every campaign have the
\* same names and the reports take whatever is there.
OwnImages ==
  \A f \in DOMAIN disk :
    configs[disk[f].of].plots => \A image \in disk[f].images : image[2] = disk[f].of

\* The files never mix so that a derived file is newer than the results it is
\* derived from: whatever is shown can be looked up in results, or results are
\* those of a later campaign that broke off.
ResultsAreNewest ==
  \A f \in DOMAIN disk : /\ <<"data", "results">> \in DOMAIN disk
                         /\ disk[f].of <= disk[<<"data", "results">>].of

\* A campaign that finishes has all its files, whole, whatever the broken ones
\* before it left; with plots on, its reports have all the images.
FinishedIsComplete ==
  pc = "done" =>
    \A f \in ToSet(Order(Config)) :
      /\ f \in DOMAIN disk /\ disk[f].of = Campaign /\ disk[f].state = "whole"
      /\ Config.plots /\ IsReport(f) =>
           {image[1] : image \in disk[f].images} = ToSet(Candidates(f))

\* No damage lasts: with plots on, a campaign that nothing disturbs finishes,
\* whatever torn files there are.  (Without, a torn image of an earlier
\* campaign stops the reports of every later one.)
NoLastingDamage ==
  pc = "measure" /\ Config.plots ~> pc = "done" \/ disturbed
=============================================================================
