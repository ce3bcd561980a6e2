------------------------------- MODULE Merge -------------------------------
(* merge.py over the lifetime of global_results/reports: it walks the       *)
(* directory, merges the PDF files of each of its directories, and all of   *)
(* them into one.  run.sh has it write to reports/merged, inside of what it *)
(* walks.  Reports come, change and are torn between its runs.              *)
EXTENDS Lists, FiniteSets

CONSTANTS Reports,          \* the reports that may be there: <<directory, name>>
          Sorted,           \* the directories, reports/merged too, by name
          Names,            \* the names of all files without .pdf, sorted; a
                            \*   file in reports/merged has that of a directory
          preferred_order,  \* the order in the combined file, as the code has it
          Merged,           \* the directory that is written to
          All,              \* the name of the combined file
          MaxRuns           \* bound on the runs of merge.py

VARIABLES
  runs,    \* runs of merge.py that have begun
  pc,      \* "off", "groups", "all", "done"
  groups,  \* the files of each directory, as the walk found them
  found,   \* the directories with PDF files, in the order of the walk
  todo,    \* those that are still to be merged
  disk     \* the PDF files: whether any page can be taken from it, and the
           \*   reports whose pages these are, in order; of a report that fails
           \*   half way they are those before the failure

vars == <<runs, pc, groups, found, todo, disk>>

Init ==
  /\ runs = 0 /\ pc = "off" /\ groups = <<>> /\ found = <<>> /\ todo = <<>>
  /\ \E there \in SUBSET Reports, torn \in SUBSET Reports :
       disk = [r \in there |-> [readable |-> r \notin torn, pages |-> <<r>>]]

\* Between two runs a report is copied anew, whole, or is torn by an interrupt.
Copy ==
  /\ pc \in {"off", "done"} /\ 0 < runs /\ runs < MaxRuns
  /\ \E r \in Reports, whole \in BOOLEAN :
       disk' = [f \in DOMAIN disk \cup {r} |->
                 IF f = r THEN [readable |-> whole, pages |-> <<r>>] ELSE disk[f]]
  /\ pc' = "off"
  /\ UNCHANGED <<runs, groups, found, todo>>

-----------------------------------------------------------------------------
Readable == {f \in DOMAIN disk : disk[f].readable}

\* The files of a directory that are there, sorted by name.
FilesOf(d) == Select([i \in DOMAIN Names |-> <<d, Names[i]>>], DOMAIN disk)

\* collect_pdf_groups: os.walk comes to the directories in any order.
collect_pdf_groups ==
  /\ pc \in {"off", "done"} /\ runs < MaxRuns /\ runs' = runs + 1
  /\ LET dirs == {d \in ToSet(Sorted) : FilesOf(d) # <<>>}
     IN  /\ groups' = [d \in dirs |-> FilesOf(d)]
         /\ found' \in SetToSeqs(dirs)
         /\ todo' = Select(Sorted, dirs)
         /\ pc' = IF dirs = {} THEN "off" ELSE "groups"
  /\ UNCHANGED disk

\* merge_pdfs: all pages that can be taken; add_page is called page by page, and
\* an exception loses the rest of this file only.  Seeded bug: it ends at the
\* first file without any.
Pages_Stop(paths) ==
  LET bad == {i \in DOMAIN paths : ~disk[paths[i]].readable}
      n == IF bad = {} THEN Len(paths) ELSE (CHOOSE i \in bad : \A j \in bad : i <= j) - 1
  IN  FlattenSeq([i \in 1 .. n |-> disk[paths[i]].pages])
Pages(paths) ==
  LET good == Select(paths, Readable)
  IN  FlattenSeq([i \in DOMAIN good |-> disk[good[i]].pages])

\* ... and nothing is written where there are none.
merge_pdfs(paths, name) ==
  disk' = IF Pages(paths) = <<>> THEN disk
          ELSE [f \in DOMAIN disk \cup {<<Merged, name>>} |->
                 IF f = <<Merged, name>> THEN [readable |-> TRUE, pages |-> Pages(paths)]
                 ELSE disk[f]]

\* main: a file for each directory, in the order of their names.
MergeGroup ==
  /\ pc = "groups" /\ todo # <<>>
  /\ merge_pdfs(groups[Head(todo)], Head(todo))
  /\ todo' = Tail(todo)
  /\ pc' = IF todo' = <<>> THEN "all" ELSE "groups"
  /\ UNCHANGED <<runs, groups, found>>

\* The order of the combined file: the directories of the preferred order, then
\* the others.
Rest(used) == Select(Sorted, ToSet(Sorted) \ used)

ordered_paths ==
  LET first == FlattenSeq([i \in DOMAIN preferred_order |->
                 Select(found, {preferred_order[i]})])
      rest == Select(Rest(ToSet(first)), DOMAIN groups)
      order == first \o rest
  IN  FlattenSeq([i \in DOMAIN order |-> groups[order[i]]])

merge_all_combined ==
  /\ pc = "all" /\ pc' = "done"
  /\ merge_pdfs(ordered_paths, All)
  /\ UNCHANGED <<runs, groups, found, todo>>

\* An interrupt, also while a file is being written: of its pages the first n
\* can be taken later.
Breaks ==
  /\ pc \in {"groups", "all"} /\ pc' = "off" /\ todo' = <<>>
  /\ \/ UNCHANGED disk
     \/ LET name == IF pc = "all" THEN All ELSE Head(todo)
            pages == Pages(IF pc = "all" THEN ordered_paths ELSE groups[name])
        IN  \E n \in 0 .. Len(pages) - 1 :
              disk' = [f \in DOMAIN disk \cup {<<Merged, name>>} |->
                        IF f = <<Merged, name>>
                        THEN [readable |-> 0 < n, pages |-> SubSeq(pages, 1, n)]
                        ELSE disk[f]]
  /\ UNCHANGED <<runs, groups, found>>

Next == Copy \/ collect_pdf_groups \/ MergeGroup \/ merge_all_combined \/ Breaks

Spec == Init /\ [][Next]_vars

-----------------------------------------------------------------------------
\* The reports of a directory that can be read, all or in part.
Good(d) == Select(IF d \in DOMAIN groups THEN groups[d] ELSE <<>>, Readable)

\* What cannot be read of a report costs only itself: a directory's file has
\* the pages of all others, in order, whatever earlier runs and breaks left.
DirectoriesAreMerged ==
  pc = "done" =>
    \A d \in ToSet(Sorted) \ {Merged} :
      Good(d) # <<>> => /\ <<Merged, d>> \in DOMAIN disk
                        /\ disk[<<Merged, d>>] = [readable |-> TRUE, pages |-> Good(d)]

Times(r, pages) == Cardinality({i \in DOMAIN pages : pages[i] = r})

\* A first run puts every report that can be read into the combined file once,
\* those of the preferred directories in that order and before all others.
FirstRunHasAllOnce ==
  pc = "done" /\ Merged \notin DOMAIN groups /\ <<Merged, All>> \in DOMAIN disk =>
    LET pages == disk[<<Merged, All>>].pages
        at(d) == IF \E i \in DOMAIN preferred_order : preferred_order[i] = d
                 THEN CHOOSE i \in DOMAIN preferred_order : preferred_order[i] = d
                 ELSE Len(preferred_order) + 1
    IN  /\ \A r \in Reports : Times(r, pages) =
             IF r[1] \in DOMAIN groups /\ r \in ToSet(Good(r[1])) THEN 1 ELSE 0
        /\ \A i, j \in DOMAIN pages : i < j => at(pages[i][1]) <= at(pages[j][1])
=============================================================================
