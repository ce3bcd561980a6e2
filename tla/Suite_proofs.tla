---------------------------- MODULE Suite_proofs ----------------------------
(* What global_results has in the end, for any projects and reports, any    *)
(* number of runs and any break-offs: tables of this run's artifacts, over  *)
(* one baseline, merged reports without gaps, and a global report that has  *)
(* the best of all rows, each row in its plots and all tables on its pages. *)
(* First come the steps of merge.py, then those of build_master_summary.py, *)
(* those of run.sh, and the theorems.                                       *)
EXTENDS GlobalResults, Lists_proofs

-----------------------------------------------------------------------------
(* merge.py: the inductive invariant.                                       *)

\* Merge has the operators of lists under names of its own.
LEMMA SameLists ==
  /\ \A ss : Merging!FlattenSeq(ss) = FlattenSeq(ss)
  /\ \A s : Merging!ToSet(s) = ToSet(s)
  /\ \A s, S : Merging!Select(s, S) = Select(s, S)
  /\ \A S : Merging!Cardinality(S) = Cardinality(S)
  /\ \A S : Merging!SetToSeqs(S) = SetToSeqs(S)
<1>1. \A ss : Merging!FlattenSeq(ss) = FlattenSeq(ss)
  BY DEF Merging!FlattenSeq, FlattenSeq
<1>2. \A s : Merging!ToSet(s) = ToSet(s)
  BY DEF Merging!ToSet, ToSet
<1>3. \A S : Merging!Cardinality(S) = Cardinality(S)
  BY Zenon DEF Merging!Cardinality, Cardinality
<1>4. \A S : Merging!SetToSeqs(S) = SetToSeqs(S)
  BY <1>3 DEF Merging!SetToSeqs, SetToSeqs
<1>5. \A s, S : Merging!Select(s, S) = Select(s, S)
  BY <1>1 DEF Merging!Select, Select
<1> QED  BY <1>1, <1>2, <1>3, <1>4, <1>5

\* The files that a directory may have.
FilesIn(d) == {d} \X ToSet(Names)

At(d) == IF \E i \in DOMAIN preferred_order : preferred_order[i] = d
         THEN CHOOSE i \in DOMAIN preferred_order : preferred_order[i] = d
         ELSE Len(preferred_order) + 1

\* A file outside of reports/merged is a report and has its own pages.
ReportsOwn == \A f \in DOMAIN disk : f[1] # Merged => f \in Reports /\ disk[f].pages = <<f>>

\* While they are merged, the groups are those that the walk has found.
AtWork == {"groups", "all", "done"}
GroupsFound ==
  merge_pc \in AtWork =>
    /\ DOMAIN groups \subseteq ToSet(Sorted)
    /\ \A d \in DOMAIN groups : /\ groups[d] \in Seq(FilesIn(d))
                                /\ Chain(groups[d], Unlike(FilesIn(d)))
    /\ found \in SetToSeqs(DOMAIN groups)
    /\ todo \in Seq(DOMAIN groups)
    /\ merge_pc # "groups" => todo = <<>>

\* A directory is still to come, has nothing to merge, or has been merged.
IsMerged(d) ==
  Merging!Good(d) = <<>> \/ /\ <<Merged, d>> \in DOMAIN disk
                            /\ disk[<<Merged, d>>] = [readable |-> TRUE, pages |-> Merging!Good(d)]
GroupsMerged ==
  merge_pc \in AtWork => \A d \in DOMAIN groups \ {Merged} : d \in ToSet(todo) \/ IsMerged(d)

\* A first run finds no combined file, and writes none before its end.
NoneYet ==
  merge_pc \in {"groups", "all"} /\ Merged \notin DOMAIN groups => <<Merged, All>> \notin DOMAIN disk

MInv == /\ merge_pc \in AtWork \cup {"off"} /\ ReportsOwn /\ GroupsFound /\ GroupsMerged
        /\ NoneYet /\ Merging!FirstRunHasAllOnce

-----------------------------------------------------------------------------
(* merge.py: what is written to a file.                                     *)

\* Only a file of this name in reports/merged may have changed.
OnlyWrites(name) ==
  \A f : f # <<Merged, name>> => /\ f \in DOMAIN disk' <=> f \in DOMAIN disk
                                 /\ f \in DOMAIN disk => disk'[f] = disk[f]

LEMMA FileWritten ==
  ASSUME NEW name, NEW e,
         disk' = [f \in DOMAIN disk \cup {<<Merged, name>>} |->
                   IF f = <<Merged, name>> THEN e ELSE disk[f]]
  PROVE  /\ OnlyWrites(name)
         /\ <<Merged, name>> \in DOMAIN disk' /\ disk'[<<Merged, name>>] = e
BY DEF OnlyWrites

LEMMA MergeWrites ==
  ASSUME NEW paths, NEW name, Merging!merge_pdfs(paths, name)
  PROVE  /\ OnlyWrites(name)
         /\ IF Merging!Pages(paths) = <<>> THEN disk' = disk
            ELSE /\ <<Merged, name>> \in DOMAIN disk'
                 /\ disk'[<<Merged, name>>] = [readable |-> TRUE, pages |-> Merging!Pages(paths)]
<1>1. CASE Merging!Pages(paths) = <<>>
  BY <1>1 DEF Merging!merge_pdfs, OnlyWrites
<1>2. CASE Merging!Pages(paths) # <<>>
  BY <1>2, FileWritten DEF Merging!merge_pdfs
<1> QED  BY <1>1, <1>2

LEMMA ReportsStay ==
  ASSUME NEW name, OnlyWrites(name), ReportsOwn
  PROVE  /\ ReportsOwn'
         /\ \A f : f[1] # Merged => (f \in Merging!Readable' <=> f \in Merging!Readable)
<1>1. \A f : f[1] # Merged => f # <<Merged, name>>
  OBVIOUS
<1>2. \A f : f[1] # Merged => /\ f \in DOMAIN disk' <=> f \in DOMAIN disk
                              /\ f \in DOMAIN disk => disk'[f] = disk[f]
  BY <1>1 DEF OnlyWrites
<1> QED  BY <1>2 DEF ReportsOwn, Merging!Readable

\* What is good in a directory does not depend on reports/merged.
LEMMA GoodStays ==
  ASSUME NEW name, OnlyWrites(name), ReportsOwn, GroupsFound, merge_pc \in AtWork,
         groups' = groups, NEW d, d # Merged
  PROVE  Merging!Good(d)' = Merging!Good(d)
<1> DEFINE s == IF d \in DOMAIN groups THEN groups[d] ELSE <<>>
<1>1. \A i \in DOMAIN s : s[i][1] = d
  <2>1. CASE d \in DOMAIN groups
    <3>1. s \in Seq(FilesIn(d))
      BY <2>1 DEF GroupsFound
    <3>2. \A i \in DOMAIN s : s[i] \in FilesIn(d)
      BY <3>1, LenProperties, ElementOfSeq
    <3> QED  BY <3>2 DEF FilesIn
  <2>2. CASE d \notin DOMAIN groups
    BY <2>2, EmptySeq
  <2> QED  BY <2>1, <2>2
<1>2. Merging!Good(d) = Select(s, Merging!Readable)
      /\ Merging!Good(d)' = Select(s, Merging!Readable')
  BY SameLists DEF Merging!Good
<1> HIDE DEF s
<1>3. \A i \in DOMAIN s : s[i] \in Merging!Readable' <=> s[i] \in Merging!Readable
  BY <1>1, ReportsStay
<1> QED  BY <1>2, <1>3, SelectSame

\* From files outside of reports/merged, the pages are those files themselves.
LEMMA PagesAreReports ==
  ASSUME ReportsOwn, NEW S, NEW paths \in Seq(S), \A x \in ToSet(paths) : x[1] # Merged
  PROVE  Merging!Pages(paths) = Select(paths, Merging!Readable)
<1> DEFINE good == Select(paths, Merging!Readable)
<1>1. good \in Seq(S) /\ ToSet(good) = ToSet(paths) \cap Merging!Readable
  BY SelectedSet
<1> HIDE DEF good
<1>2. ASSUME NEW i \in DOMAIN good PROVE disk[good[i]].pages = <<good[i]>>
  <2>1. good[i] \in ToSet(good)
    BY DEF ToSet
  <2>2. good[i] \in DOMAIN disk /\ good[i][1] # Merged
    BY <1>1, <2>1 DEF Merging!Readable
  <2> QED  BY <2>2 DEF ReportsOwn
<1>3. [i \in DOMAIN good |-> disk[good[i]].pages] = [i \in DOMAIN good |-> <<good[i]>>]
  BY <1>2
<1>4. Merging!Pages(paths) = FlattenSeq([i \in DOMAIN good |-> disk[good[i]].pages])
  BY SameLists DEF Merging!Pages, good
<1> QED  BY <1>1, <1>3, <1>4, FlattenSingles DEF good

-----------------------------------------------------------------------------
(* merge.py: the order of the combined file.                                *)

LEMMA Directories ==
  /\ Sorted \in Seq(STRING) /\ Names \in Seq(STRING) /\ preferred_order \in Seq(STRING)
  /\ \A i, j \in 1 .. Len(Sorted) : i # j => Sorted[i] # Sorted[j]
  /\ \A i, j \in 1 .. Len(Names) : i # j => Names[i] # Names[j]
  /\ \A i, j \in 1 .. Len(preferred_order) : i # j => preferred_order[i] # preferred_order[j]
<1>1. Sorted \in Seq(STRING) /\ Names \in Seq(STRING) /\ preferred_order \in Seq(STRING)
  BY GlobalResultsAssumption
<1>2. IsInjective(Sorted) /\ IsInjective(Names) /\ IsInjective(preferred_order)
  BY GlobalResultsAssumption
<1>3. /\ DOMAIN Sorted = 1 .. Len(Sorted) /\ DOMAIN Names = 1 .. Len(Names)
      /\ DOMAIN preferred_order = 1 .. Len(preferred_order)
  BY <1>1, LenProperties
<1> QED  BY <1>1, <1>2, <1>3 DEF IsInjective

LEMMA DifferentChain ==
  ASSUME NEW S, NEW s \in Seq(S), \A i, j \in 1 .. Len(s) : i # j => s[i] # s[j]
  PROVE  Chain(s, Unlike(S))
<1>1. Len(s) \in Nat /\ \A i \in 1 .. Len(s) : s[i] \in S
  BY LenProperties, ElementOfSeq
<1> SUFFICES ASSUME NEW a \in 1 .. Len(s), NEW b \in 1 .. Len(s), a < b
             PROVE  <<s[a], s[b]>> \in Unlike(S)
  BY DEF Chain
<1>2. s[a] # s[b] /\ s[a] \in S /\ s[b] \in S
  BY <1>1
<1> QED  BY <1>2 DEF Unlike

\* What the walk finds in a directory.
LEMMA FilesFound ==
  ASSUME NEW d
  PROVE  /\ Merging!FilesOf(d) \in Seq(FilesIn(d))
         /\ Chain(Merging!FilesOf(d), Unlike(FilesIn(d)))
         /\ \A n \in ToSet(Names) : <<d, n>> \in DOMAIN disk => Merging!FilesOf(d) # <<>>
<1> DEFINE v == [i \in DOMAIN Names |-> <<d, Names[i]>>]
<1>1. /\ Len(Names) \in Nat /\ DOMAIN Names = 1 .. Len(Names)
      /\ ToSet(Names) = {Names[i] : i \in 1 .. Len(Names)}
  BY Directories, ElementsOf
<1>2. v \in Seq(FilesIn(d)) /\ Len(v) = Len(Names)
  <2>1. v \in [1 .. Len(Names) -> FilesIn(d)]
    BY <1>1 DEF FilesIn
  <2> QED  BY <1>1, <2>1, IsASeq, LenProperties
<1>3. \A i \in 1 .. Len(Names) : v[i] = <<d, Names[i]>>
  BY <1>1
<1>4. Merging!FilesOf(d) = Select(v, DOMAIN disk)
  BY SameLists DEF Merging!FilesOf
<1> HIDE DEF v
<1>5. Chain(v, Unlike(FilesIn(d)))
  <2>1. \A i, j \in 1 .. Len(v) : i # j => v[i] # v[j]
    BY <1>2, <1>3, Directories
  <2> QED  BY <1>2, <2>1, DifferentChain
<1>6. /\ Merging!FilesOf(d) \in Seq(FilesIn(d)) /\ Chain(Merging!FilesOf(d), Unlike(FilesIn(d)))
      /\ ToSet(Merging!FilesOf(d)) = ToSet(v) \cap DOMAIN disk
  BY <1>2, <1>4, <1>5, Selected
<1>7. ASSUME NEW n \in ToSet(Names), <<d, n>> \in DOMAIN disk
      PROVE  Merging!FilesOf(d) # <<>>
  <2>1. PICK i \in 1 .. Len(Names) : Names[i] = n
    BY <1>1
  <2>2. v[i] \in ToSet(v)
    BY <1>2, ElementsOf
  <2>3. <<d, n>> \in ToSet(Merging!FilesOf(d))
    BY <1>3, <1>6, <1>7, <2>1, <2>2
  <2> QED  BY <2>3, EmptyList
<1> QED  BY <1>6, <1>7

\* The place of a directory in the preferred order, or after all of it.
LEMMA Places ==
  /\ \A i \in 1 .. Len(preferred_order) : At(preferred_order[i]) = i
  /\ \A d : d \notin ToSet(preferred_order) => At(d) = Len(preferred_order) + 1
<1>1. /\ DOMAIN preferred_order = 1 .. Len(preferred_order)
      /\ ToSet(preferred_order) = {preferred_order[i] : i \in 1 .. Len(preferred_order)}
  BY Directories, ElementsOf
<1>2. ASSUME NEW i \in 1 .. Len(preferred_order) PROVE At(preferred_order[i]) = i
  <2>1. \A j \in 1 .. Len(preferred_order) : preferred_order[j] = preferred_order[i] => j = i
    BY Directories
  <2> QED  BY <1>1, <2>1 DEF At
<1>3. ASSUME NEW d, d \notin ToSet(preferred_order) PROVE At(d) = Len(preferred_order) + 1
  BY <1>1, <1>3 DEF At
<1> QED  BY <1>2, <1>3

\* One after the other, and never after a later one: directories, and files.
Ahead(S) == {x \in S \X S : x[1] # x[2] /\ At(x[1]) <= At(x[2])}
FilesAhead(S) == {x \in S \X S : x[1] # x[2] /\ At(x[1][1]) <= At(x[2][1])}

Leading == FlattenSeq([i \in DOMAIN preferred_order |-> Select(found, {preferred_order[i]})])
Trailing == Select(Merging!Rest(ToSet(Leading)), DOMAIN groups)
InOrder == Leading \o Trailing

LEMMA PathsAre ==
  Merging!ordered_paths = FlattenSeq([i \in DOMAIN InOrder |-> groups[InOrder[i]]])
<1>1. /\ \A ss : Merging!FlattenSeq(ss) = FlattenSeq(ss)
      /\ \A s : Merging!ToSet(s) = ToSet(s)
      /\ \A s, S : Merging!Select(s, S) = Select(s, S)
  BY SameLists
<1> QED  BY <1>1 DEF Merging!ordered_paths, InOrder, Trailing, Leading

\* The walk found each directory that has files once.
LEMMA FoundOnce ==
  ASSUME GroupsFound, merge_pc \in AtWork
  PROVE  /\ found \in Seq(DOMAIN groups) /\ ToSet(found) = DOMAIN groups
         /\ Chain(found, Unlike(DOMAIN groups))
<1>1. DOMAIN groups \subseteq ToSet(Sorted) /\ found \in SetToSeqs(DOMAIN groups)
  BY DEF GroupsFound
<1>2. IsFiniteSet(DOMAIN groups)
  BY <1>1, Directories, ElementsFinite, FS_Subset
<1> HIDE DEF GroupsFound
<1> QED  BY <1>1, <1>2, EachOnce, DifferentChain

LEMMA LeadingOrder ==
  ASSUME GroupsFound, merge_pc \in AtWork
  PROVE  /\ Leading \in Seq(DOMAIN groups) /\ Chain(Leading, Ahead(DOMAIN groups))
         /\ ToSet(Leading) = DOMAIN groups \cap ToSet(preferred_order)
<1> DEFINE m == Len(preferred_order)
           S == DOMAIN groups
           of(i) == Select(found, {preferred_order[i]})
           ss == [i \in DOMAIN preferred_order |-> of(i)]
<1>1. /\ m \in Nat /\ DOMAIN preferred_order = 1 .. m
      /\ ToSet(preferred_order) = {preferred_order[i] : i \in 1 .. m}
  BY Directories, ElementsOf
<1>2. found \in Seq(S) /\ ToSet(found) = S /\ Chain(found, Unlike(S))
  BY FoundOnce
<1>3. /\ \A i \in 1 .. m : At(preferred_order[i]) = i
      /\ \A i, j \in 1 .. m : i # j => preferred_order[i] # preferred_order[j]
  BY Places, Directories
<1>4. \A i \in 1 .. m : ss[i] = of(i)
  BY <1>1
<1>5. Leading = FlattenSeq(ss)
  BY DEF Leading
<1> HIDE DEF m, S
<1>6. ASSUME NEW i \in 1 .. m
      PROVE  /\ of(i) \in Seq(S) /\ Chain(of(i), Ahead(S))
             /\ ToSet(of(i)) = S \cap {preferred_order[i]}
  <2>1. /\ of(i) \in Seq(S) /\ Chain(of(i), Unlike(S))
        /\ ToSet(of(i)) = S \cap {preferred_order[i]}
    BY <1>2, Selected
  <2> HIDE DEF of
  <2>2. \A x, y \in ToSet(of(i)) : <<x, y>> \in Unlike(S) => <<x, y>> \in Ahead(S)
    <3>1. \A x \in ToSet(of(i)) : At(x) = i
      BY <1>3, <2>1
    <3> QED  BY <1>1, <3>1 DEF Unlike, Ahead
  <2>3. Chain(of(i), Ahead(S))
    BY <2>1, <2>2, ChainWeaker
  <2> QED  BY <2>1, <2>3
<1> HIDE DEF of
<1>7. ss \in [1 .. m -> Seq(S)] /\ \A i \in 1 .. m : Chain(ss[i], Ahead(S))
  BY <1>1, <1>4, <1>6
<1>8. ASSUME NEW i \in 1 .. m, NEW j \in 1 .. m, i < j
      PROVE  Before(ss[i], ss[j], Ahead(S))
  <2>1. ToSet(ss[i]) = S \cap {preferred_order[i]} /\ ToSet(ss[j]) = S \cap {preferred_order[j]}
    BY <1>4, <1>6
  <2>2. /\ preferred_order[i] # preferred_order[j] /\ i <= j
        /\ At(preferred_order[i]) = i /\ At(preferred_order[j]) = j
    BY <1>1, <1>3, <1>8
  <2> SUFFICES ASSUME NEW x \in ToSet(ss[i]), NEW y \in ToSet(ss[j])
               PROVE  <<x, y>> \in Ahead(S)
    BY DEF Before
  <2>3. x \in S /\ y \in S /\ x # y /\ At(x) <= At(y)
    BY <2>1, <2>2
  <2> QED  BY <2>3 DEF Ahead
<1> HIDE DEF ss
<1>9. HasFirst(FlattenSeq(ss), S, ss, m, Ahead(S))
  BY <1>1, <1>7, <1>8, Flattened
<1>10. ASSUME NEW x PROVE x \in ToSet(FlattenSeq(ss)) <=> x \in S \cap ToSet(preferred_order)
  <2>1. x \in ToSet(FlattenSeq(ss)) <=> \E i \in 1 .. m : x \in ToSet(ss[i])
    BY <1>9, Zenon DEF HasFirst
  <2> QED  BY <1>1, <1>4, <1>6, <2>1
<1> QED  BY <1>5, <1>9, <1>10 DEF HasFirst, S

LEMMA TrailingOrder ==
  ASSUME GroupsFound, merge_pc \in AtWork
  PROVE  /\ Trailing \in Seq(DOMAIN groups) /\ Chain(Trailing, Ahead(DOMAIN groups))
         /\ ToSet(Trailing) = DOMAIN groups \ ToSet(preferred_order)
<1> DEFINE S == DOMAIN groups
           used == ToSet(Leading)
           rest == Merging!Rest(used)
<1>1. Sorted \in Seq(STRING) /\ Chain(Sorted, Unlike(STRING)) /\ S \subseteq ToSet(Sorted)
  BY Directories, DifferentChain DEF GroupsFound
<1>2. rest = Select(Sorted, ToSet(Sorted) \ used)
  BY SameLists DEF Merging!Rest
<1>3. used = S \cap ToSet(preferred_order)
  BY LeadingOrder
<1>4. Trailing = Select(rest, S)
  BY DEF Trailing
<1> HIDE DEF rest, used, S
<1>5. /\ rest \in Seq(STRING) /\ Chain(rest, Unlike(STRING))
      /\ ToSet(rest) = ToSet(Sorted) \cap (ToSet(Sorted) \ used)
  BY <1>1, <1>2, Selected
<1>6. /\ Trailing \in Seq(STRING) /\ Chain(Trailing, Unlike(STRING))
      /\ ToSet(Trailing) = ToSet(rest) \cap S
  BY <1>4, <1>5, Selected
<1>7. ToSet(Trailing) = S \ ToSet(preferred_order)
  BY <1>1, <1>3, <1>5, <1>6
<1>8. Trailing \in Seq(S)
  BY <1>6, ListOfElements
<1>9. \A x, y \in ToSet(Trailing) : <<x, y>> \in Unlike(STRING) => <<x, y>> \in Ahead(S)
  <2>1. Len(preferred_order) \in Nat
    BY Directories, LenProperties
  <2>2. \A x \in ToSet(Trailing) : x \in S /\ At(x) = Len(preferred_order) + 1
    BY <1>7, Places
  <2> QED  BY <2>1, <2>2 DEF Unlike, Ahead
<1>10. Chain(Trailing, Ahead(S))
  BY <1>6, <1>9, ChainWeaker
<1> QED  BY <1>7, <1>8, <1>10 DEF S

LEMMA DirectoriesInOrder ==
  ASSUME GroupsFound, merge_pc \in AtWork
  PROVE  /\ InOrder \in Seq(DOMAIN groups) /\ Chain(InOrder, Ahead(DOMAIN groups))
         /\ ToSet(InOrder) = DOMAIN groups
<1> DEFINE S == DOMAIN groups
<1>1. /\ Leading \in Seq(S) /\ Chain(Leading, Ahead(S)) /\ ToSet(Leading) = S \cap ToSet(preferred_order)
      /\ Trailing \in Seq(S) /\ Chain(Trailing, Ahead(S)) /\ ToSet(Trailing) = S \ ToSet(preferred_order)
  BY LeadingOrder, TrailingOrder
<1> HIDE DEF S
<1>2. Before(Leading, Trailing, Ahead(S))
  <2>1. /\ Len(preferred_order) \in Nat
        /\ ToSet(preferred_order) = {preferred_order[i] : i \in 1 .. Len(preferred_order)}
    BY Directories, ElementsOf
  <2>2. \A x \in ToSet(Leading) : At(x) \in 1 .. Len(preferred_order)
    BY <1>1, <2>1, Places
  <2>3. \A y \in ToSet(Trailing) : At(y) = Len(preferred_order) + 1
    BY <1>1, Places
  <2>4. ASSUME NEW x \in ToSet(Leading), NEW y \in ToSet(Trailing) PROVE <<x, y>> \in Ahead(S)
    <3>1. At(x) <= At(y) /\ x \in S /\ y \in S /\ x # y
      BY <1>1, <2>1, <2>2, <2>3
    <3> QED  BY <3>1 DEF Ahead
  <2> QED  BY <2>4 DEF Before
<1>3. InOrder \in Seq(S) /\ ToSet(InOrder) = ToSet(Leading) \cup ToSet(Trailing)
  BY <1>1, SetOfConcat DEF InOrder
<1>4. Chain(InOrder, Ahead(S))
  BY <1>1, <1>2, ChainOfConcat DEF InOrder
<1> QED  BY <1>1, <1>3, <1>4 DEF S

\* The files that were found, each once, by directories in that order.
Found == (DOMAIN groups) \X ToSet(Names)

LEMMA PathsInOrder ==
  ASSUME GroupsFound, merge_pc \in AtWork
  PROVE  /\ Merging!ordered_paths \in Seq(Found)
         /\ Chain(Merging!ordered_paths, FilesAhead(Found))
         /\ \A f : f \in ToSet(Merging!ordered_paths) <=>
                     \E d \in DOMAIN groups : f \in ToSet(groups[d])
<1> DEFINE m == Len(InOrder)
           S == DOMAIN groups
           ss == [i \in DOMAIN InOrder |-> groups[InOrder[i]]]
           R == FilesAhead(Found)
<1>1. InOrder \in Seq(S) /\ Chain(InOrder, Ahead(S)) /\ ToSet(InOrder) = S
  BY DirectoriesInOrder
<1>2. /\ m \in Nat /\ DOMAIN InOrder = 1 .. m /\ ToSet(InOrder) = {InOrder[i] : i \in 1 .. m}
      /\ \A i \in 1 .. m : InOrder[i] \in S
  BY <1>1, ElementsOf, ElementOfSeq
<1>3. \A i \in 1 .. m : ss[i] = groups[InOrder[i]]
  BY <1>2
<1>4. Merging!ordered_paths = FlattenSeq(ss)
  BY PathsAre
<1> HIDE DEF ss
<1>5. ASSUME NEW d \in S
      PROVE  groups[d] \in Seq(Found) /\ Chain(groups[d], R) /\ \A x \in ToSet(groups[d]) : x[1] = d /\ x \in Found
  <2>1. groups[d] \in Seq(FilesIn(d)) /\ Chain(groups[d], Unlike(FilesIn(d)))
    BY <1>5 DEF GroupsFound
  <2>2. ToSet(groups[d]) \subseteq FilesIn(d)
    BY <2>1, ElementsOf
  <2>3. FilesIn(d) \subseteq Found /\ \A x \in FilesIn(d) : x[1] = d
    <3> SUFFICES ASSUME NEW x \in FilesIn(d) PROVE x \in Found /\ x[1] = d
      OBVIOUS
    <3> QED  BY <1>5 DEF FilesIn, Found
  <2>4. groups[d] \in Seq(Found)
    BY <2>1, <2>2, <2>3, ListOfElements
  <2>5. At(d) <= At(d)
    <3>1. At(d) \in Int
      <4>1. /\ Len(preferred_order) \in Nat
            /\ ToSet(preferred_order) = {preferred_order[i] : i \in 1 .. Len(preferred_order)}
        BY Directories, ElementsOf
      <4> QED  BY <4>1, Places
    <3> QED  BY <3>1
  <2>6. \A x, y \in ToSet(groups[d]) : <<x, y>> \in Unlike(FilesIn(d)) => <<x, y>> \in R
    BY <2>2, <2>3, <2>5 DEF Unlike, FilesAhead
  <2> QED  BY <2>1, <2>2, <2>3, <2>4, <2>6, ChainWeaker
<1> HIDE DEF m, R, S
<1>6. ss \in [1 .. m -> Seq(Found)] /\ \A i \in 1 .. m : Chain(ss[i], R)
  <2>1. \A i \in 1 .. m : ss[i] \in Seq(Found) /\ Chain(ss[i], R)
    BY <1>2, <1>3, <1>5
  <2>2. ss = [i \in 1 .. m |-> ss[i]]
    BY <1>2 DEF ss
  <2> QED  BY <2>1, <2>2
<1>7. ASSUME NEW i \in 1 .. m, NEW j \in 1 .. m, i < j
      PROVE  Before(ss[i], ss[j], R)
  <2> DEFINE d == InOrder[i]
             e == InOrder[j]
  <2>1. <<d, e>> \in Ahead(S) /\ d \in S /\ e \in S
    BY <1>1, <1>2, <1>7 DEF Chain, m
  <2>2. d # e /\ At(d) <= At(e)
    BY <2>1 DEF Ahead
  <2>3. ss[i] = groups[d] /\ ss[j] = groups[e]
    BY <1>3
  <2> HIDE DEF d, e
  <2>4. ASSUME NEW x \in ToSet(groups[d]), NEW y \in ToSet(groups[e])
        PROVE  <<x, y>> \in R
    <3>1. x[1] = d /\ y[1] = e /\ x \in Found /\ y \in Found
      BY <1>5, <2>1
    <3>2. x # y
      BY <2>2, <3>1
    <3> QED  BY <2>2, <3>1, <3>2 DEF R, FilesAhead
  <2> QED  BY <2>3, <2>4 DEF Before
<1>8. HasFirst(FlattenSeq(ss), Found, ss, m, R)
  BY <1>2, <1>6, <1>7, Flattened
<1>9. ASSUME NEW f PROVE f \in ToSet(FlattenSeq(ss)) <=> \E d \in S : f \in ToSet(groups[d])
  <2>1. f \in ToSet(FlattenSeq(ss)) <=> \E i \in 1 .. m : f \in ToSet(ss[i])
    BY <1>8, Zenon DEF HasFirst
  <2>2. \A d \in S : \E i \in 1 .. m : InOrder[i] = d
    BY <1>1, <1>2
  <2> QED  BY <1>2, <1>3, <2>1, <2>2
<1> QED  BY <1>4, <1>8, <1>9 DEF HasFirst, R, S

-----------------------------------------------------------------------------
(* merge.py: every step keeps the invariant.                                *)

LEMMA MergeInitInv == Merging!Init => MInv
<1> SUFFICES ASSUME Merging!Init PROVE MInv
  OBVIOUS
<1>1. merge_pc = "off" /\ ReportsOwn
  BY DEF Merging!Init, ReportsOwn
<1> QED  BY <1>1 DEF MInv, GroupsFound, GroupsMerged, NoneYet, AtWork, Merging!FirstRunHasAllOnce

\* Between two runs only the files matter.
LEMMA OffInv == ASSUME ReportsOwn', merge_pc' = "off" PROVE MInv'
BY DEF MInv, GroupsFound, GroupsMerged, NoneYet, AtWork, Merging!FirstRunHasAllOnce

LEMMA CopyInv == MInv /\ Merging!Copy => MInv'
<1> SUFFICES ASSUME MInv, Merging!Copy PROVE MInv'
  OBVIOUS
<1>1. PICK r \in Reports, whole \in BOOLEAN :
        disk' = [f \in DOMAIN disk \cup {r} |->
                  IF f = r THEN [readable |-> whole, pages |-> <<r>>] ELSE disk[f]]
  BY DEF Merging!Copy
<1>2. ReportsOwn'
  BY <1>1 DEF MInv, ReportsOwn
<1>3. merge_pc' = "off"
  BY DEF Merging!Copy
<1> QED  BY <1>2, <1>3, OffInv

LEMMA CollectInv == MInv /\ Merging!collect_pdf_groups => MInv'
<1> SUFFICES ASSUME MInv, Merging!collect_pdf_groups PROVE MInv'
  OBVIOUS
<1> DEFINE dirs == {d \in ToSet(Sorted) : Merging!FilesOf(d) # <<>>}
<1>1. /\ groups' = [d \in dirs |-> Merging!FilesOf(d)]
      /\ found' \in SetToSeqs(dirs) /\ todo' = Select(Sorted, dirs)
      /\ merge_pc' = (IF dirs = {} THEN "off" ELSE "groups") /\ disk' = disk
  BY SameLists DEF Merging!collect_pdf_groups
<1>2. ReportsOwn'
  BY <1>1 DEF MInv, ReportsOwn
<1>3. CASE dirs = {}
  BY <1>1, <1>2, <1>3, OffInv
<1>4. CASE dirs # {}
  <2>1. merge_pc' = "groups" /\ dirs \subseteq ToSet(Sorted)
    BY <1>1, <1>4
  <2>2. todo' \in Seq(dirs) /\ ToSet(todo') = dirs
    <3>1. todo' \in Seq(STRING) /\ ToSet(todo') = ToSet(Sorted) \cap dirs
      BY <1>1, Directories, SelectedSet
    <3> QED  BY <3>1, ListOfElements
  <2>3. <<Merged, All>> \in DOMAIN disk => Merged \in dirs
    <3>1. Merged \in ToSet(Sorted) /\ All \in ToSet(Names)
      BY GlobalResultsAssumption
    <3> QED  BY <3>1, FilesFound
  <2>4. \A d \in dirs : /\ Merging!FilesOf(d) \in Seq(FilesIn(d))
                        /\ Chain(Merging!FilesOf(d), Unlike(FilesIn(d)))
    BY FilesFound
  <2> HIDE DEF dirs
  <2>5. DOMAIN groups' = dirs /\ \A d \in dirs : groups'[d] = Merging!FilesOf(d)
    BY <1>1
  <2>6. GroupsFound'
    BY <1>1, <2>1, <2>2, <2>4, <2>5 DEF GroupsFound
  <2>7. GroupsMerged' /\ NoneYet'
    BY <1>1, <2>1, <2>2, <2>3, <2>5 DEF GroupsMerged, NoneYet
  <2>8. Merging!FirstRunHasAllOnce'
    BY <2>1 DEF Merging!FirstRunHasAllOnce
  <2> QED  BY <1>2, <2>1, <2>6, <2>7, <2>8 DEF MInv, AtWork
<1> QED  BY <1>3, <1>4

\* A directory that is merged stays so when another file is written.
LEMMA MergedStays ==
  ASSUME NEW name, OnlyWrites(name), ReportsOwn, GroupsFound, merge_pc \in AtWork,
         groups' = groups, NEW d, d # Merged, d # name, IsMerged(d)
  PROVE  IsMerged(d)'
<1>1. Merging!Good(d)' = Merging!Good(d)
  BY GoodStays
<1>2. <<Merged, d>> # <<Merged, name>>
  OBVIOUS
<1>3. <<Merged, d>> \in DOMAIN disk =>
        <<Merged, d>> \in DOMAIN disk' /\ disk'[<<Merged, d>>] = disk[<<Merged, d>>]
  BY <1>2 DEF OnlyWrites
<1> QED  BY <1>1, <1>3 DEF IsMerged

LEMMA MergeGroupInv == MInv /\ Merging!MergeGroup => MInv'
<1> SUFFICES ASSUME MInv, Merging!MergeGroup PROVE MInv'
  OBVIOUS
<1> DEFINE name == Head(todo)
<1>1. /\ merge_pc = "groups" /\ todo # <<>> /\ todo' = Tail(todo)
      /\ merge_pc' = (IF todo' = <<>> THEN "all" ELSE "groups")
      /\ groups' = groups /\ found' = found
      /\ Merging!merge_pdfs(groups[name], name)
  BY DEF Merging!MergeGroup
<1>2. ReportsOwn /\ GroupsFound /\ GroupsMerged /\ NoneYet /\ merge_pc \in AtWork
      /\ merge_pc' \in {"groups", "all"} /\ merge_pc' \in AtWork
  BY <1>1 DEF MInv, AtWork
<1>3. /\ name \in DOMAIN groups /\ Tail(todo) \in Seq(DOMAIN groups)
      /\ ToSet(todo) = {name} \cup ToSet(Tail(todo))
  BY <1>1, <1>2, HeadOrTail DEF GroupsFound
<1>4. name # All
  BY <1>2, <1>3, GlobalResultsAssumption DEF GroupsFound
<1>5. /\ OnlyWrites(name)
      /\ IF Merging!Pages(groups[name]) = <<>> THEN disk' = disk
         ELSE /\ <<Merged, name>> \in DOMAIN disk'
              /\ disk'[<<Merged, name>>] = [readable |-> TRUE, pages |-> Merging!Pages(groups[name])]
  BY <1>1, MergeWrites
<1> HIDE DEF name
<1>6. ReportsOwn'
  BY <1>2, <1>5, ReportsStay
<1>7. GroupsFound'
  BY <1>1, <1>2, <1>3 DEF GroupsFound
<1>8. ASSUME NEW d \in DOMAIN groups, d # Merged, d \notin ToSet(todo') PROVE IsMerged(d)'
  <2>1. CASE d = name
    <3>1. Merging!Good(d)' = Merging!Good(d)
      BY <1>1, <1>2, <1>5, <1>8, GoodStays
    <3>2. groups[d] \in Seq(FilesIn(d)) /\ ToSet(groups[d]) \subseteq FilesIn(d)
      BY <1>2, ElementsOf DEF GroupsFound
    <3>3. \A x \in ToSet(groups[d]) : x[1] # Merged
      BY <1>8, <3>2 DEF FilesIn
    <3>4. Merging!Pages(groups[d]) = Merging!Good(d)
      BY <1>2, <3>2, <3>3, PagesAreReports, SameLists DEF Merging!Good
    <3> QED  BY <1>5, <2>1, <3>1, <3>4 DEF IsMerged
  <2>2. CASE d # name
    <3>1. IsMerged(d)
      BY <1>1, <1>2, <1>3, <1>8, <2>2 DEF GroupsMerged
    <3> QED  BY <1>1, <1>2, <1>5, <1>8, <2>2, <3>1, MergedStays
  <2> QED  BY <2>1, <2>2
<1>9. GroupsMerged'
  BY <1>1, <1>8 DEF GroupsMerged
<1>10. NoneYet'
  <2>1. <<Merged, All>> # <<Merged, name>>
    BY <1>4
  <2> QED  BY <1>1, <1>2, <1>5, <2>1 DEF NoneYet, OnlyWrites
<1>11. Merging!FirstRunHasAllOnce'
  BY <1>2 DEF Merging!FirstRunHasAllOnce
<1> QED  BY <1>2, <1>6, <1>7, <1>9, <1>10, <1>11 DEF MInv

\* The combined file has what can be read of all that was found.
LEMMA FirstRunInv ==
  ASSUME MInv, Merging!merge_all_combined
  PROVE  Merging!FirstRunHasAllOnce'
<1> DEFINE f == <<Merged, All>>
           paths == Merging!ordered_paths
           list == Select(paths, Merging!Readable)
<1>1. /\ merge_pc = "all" /\ merge_pc' = "done" /\ groups' = groups
      /\ Merging!merge_pdfs(paths, All)
  BY DEF Merging!merge_all_combined
<1>2. ReportsOwn /\ GroupsFound /\ NoneYet /\ merge_pc \in AtWork
  BY <1>1 DEF MInv, AtWork
<1>3. /\ OnlyWrites(All)
      /\ IF Merging!Pages(paths) = <<>> THEN disk' = disk
         ELSE f \in DOMAIN disk' /\ disk'[f] = [readable |-> TRUE, pages |-> Merging!Pages(paths)]
  BY <1>1, MergeWrites
<1>4. /\ paths \in Seq(Found) /\ Chain(paths, FilesAhead(Found))
      /\ \A x : x \in ToSet(paths) <=> \E d \in DOMAIN groups : x \in ToSet(groups[d])
  BY <1>2, PathsInOrder
<1> SUFFICES ASSUME Merged \notin DOMAIN groups, f \in DOMAIN disk'
             PROVE  /\ \A r \in Reports : Merging!Times(r, disk'[f].pages) =
                         IF r[1] \in DOMAIN groups /\ r \in ToSet(Merging!Good(r[1])') THEN 1 ELSE 0
                    /\ \A i, j \in DOMAIN disk'[f].pages :
                         i < j => At(disk'[f].pages[i][1]) <= At(disk'[f].pages[j][1])
  BY <1>1, SameLists DEF Merging!FirstRunHasAllOnce, At
<1>5. f \notin DOMAIN disk
  BY <1>1, <1>2 DEF NoneYet
<1> HIDE DEF f, paths
<1>6. disk'[f].pages = Merging!Pages(paths)
  BY <1>3, <1>5
<1>7. \A x \in ToSet(paths) : x \in Found /\ x[1] # Merged
  <2>1. ToSet(paths) \subseteq Found
    BY <1>4, ElementsOf
  <2>2. \A x \in Found : x[1] # Merged
    BY DEF Found
  <2> QED  BY <2>1, <2>2
<1>8. disk'[f].pages = list
  BY <1>2, <1>4, <1>6, <1>7, PagesAreReports
<1>9. /\ list \in Seq(Found) /\ Chain(list, FilesAhead(Found))
      /\ ToSet(list) = ToSet(paths) \cap Merging!Readable
  BY <1>4, Selected
<1> HIDE DEF list
<1>10. ASSUME NEW d \in DOMAIN groups
       PROVE  /\ ToSet(Merging!Good(d)') = ToSet(groups[d]) \cap Merging!Readable
              /\ \A x \in ToSet(groups[d]) : x[1] = d
  <2>1. Merging!Good(d)' = Merging!Good(d)
    BY <1>1, <1>2, <1>3, GoodStays
  <2>2. groups[d] \in Seq(FilesIn(d))
    BY <1>2 DEF GroupsFound
  <2>3. ToSet(Merging!Good(d)) = ToSet(groups[d]) \cap Merging!Readable
    BY <2>2, SelectedSet, SameLists DEF Merging!Good
  <2>4. ToSet(groups[d]) \subseteq FilesIn(d)
    BY <2>2, ElementsOf
  <2> QED  BY <2>1, <2>3, <2>4 DEF FilesIn
<1>11. \A r : r \in ToSet(list) <=> r[1] \in DOMAIN groups /\ r \in ToSet(Merging!Good(r[1])')
  BY <1>4, <1>9, <1>10
<1>12. \A r : Merging!Times(r, list) = IF r \in ToSet(list) THEN 1 ELSE 0
  <2>1. \A x \in FilesAhead(Found) : x[1] # x[2]
    BY DEF FilesAhead
  <2>2. \A r : Cardinality({i \in DOMAIN list : list[i] = r}) = IF r \in ToSet(list) THEN 1 ELSE 0
    BY <1>9, <2>1, ChainOnce
  <2> QED  BY <2>2, SameLists DEF Merging!Times
<1>13. \A i, j \in DOMAIN list : i < j => At(list[i][1]) <= At(list[j][1])
  <2>1. DOMAIN list = 1 .. Len(list)
    BY <1>9, LenProperties
  <2>2. \A i, j \in 1 .. Len(list) : i < j => <<list[i], list[j]>> \in FilesAhead(Found)
    BY <1>9 DEF Chain
  <2> QED  BY <2>1, <2>2 DEF FilesAhead
<1> QED  BY <1>8, <1>11, <1>12, <1>13

LEMMA MergeAllInv == MInv /\ Merging!merge_all_combined => MInv'
<1> SUFFICES ASSUME MInv, Merging!merge_all_combined PROVE MInv'
  OBVIOUS
<1>1. /\ merge_pc = "all" /\ merge_pc' = "done"
      /\ groups' = groups /\ found' = found /\ todo' = todo
      /\ Merging!merge_pdfs(Merging!ordered_paths, All)
  BY DEF Merging!merge_all_combined
<1>2. ReportsOwn /\ GroupsFound /\ GroupsMerged /\ merge_pc \in AtWork
  BY <1>1 DEF MInv, AtWork
<1>3. OnlyWrites(All)
  BY <1>1, MergeWrites
<1>4. ReportsOwn'
  BY <1>2, <1>3, ReportsStay
<1>5. GroupsFound' /\ NoneYet'
  BY <1>1, <1>2 DEF GroupsFound, AtWork, NoneYet
<1>6. ASSUME NEW d \in DOMAIN groups, d # Merged, d \notin ToSet(todo) PROVE IsMerged(d)'
  <2>1. d # All
    BY <1>2, GlobalResultsAssumption DEF GroupsFound
  <2>2. IsMerged(d)
    BY <1>2, <1>6 DEF GroupsMerged
  <2> QED  BY <1>1, <1>2, <1>3, <1>6, <2>1, <2>2, MergedStays
<1>7. GroupsMerged'
  BY <1>1, <1>6 DEF GroupsMerged
<1> QED  BY <1>1, <1>4, <1>5, <1>7, FirstRunInv DEF MInv, AtWork

LEMMA MergeBreaksInv == MInv /\ Merging!Breaks => MInv'
<1> SUFFICES ASSUME MInv, Merging!Breaks PROVE MInv'
  OBVIOUS
<1> DEFINE name == IF merge_pc = "all" THEN All ELSE Head(todo)
<1>1. /\ merge_pc' = "off"
      /\ disk' = disk \/ \E e : disk' = [f \in DOMAIN disk \cup {<<Merged, name>>} |->
                                       IF f = <<Merged, name>> THEN e ELSE disk[f]]
  BY DEF Merging!Breaks
<1> HIDE DEF name
<1>2. OnlyWrites(name)
  <2>1. CASE disk' = disk
    BY <2>1 DEF OnlyWrites
  <2>2. ASSUME NEW e, disk' = [f \in DOMAIN disk \cup {<<Merged, name>>} |->
                                IF f = <<Merged, name>> THEN e ELSE disk[f]]
        PROVE  OnlyWrites(name)
    BY <2>2, FileWritten
  <2> QED  BY <1>1, <2>1, <2>2
<1>3. ReportsOwn'
  BY <1>2, ReportsStay DEF MInv
<1> QED  BY <1>1, <1>3, OffInv

LEMMA MergeStutterInv == MInv /\ UNCHANGED mergeVars => MInv'
<1> SUFFICES ASSUME MInv, UNCHANGED mergeVars PROVE MInv'
  OBVIOUS
<1>1. UNCHANGED <<merge_pc, merge_runs, groups, found, todo, disk>>
  BY DEF mergeVars
<1>2. ReportsOwn' /\ GroupsFound' /\ NoneYet'
  BY <1>1 DEF MInv, ReportsOwn, GroupsFound, NoneYet
<1>3. \A d : IsMerged(d)' <=> IsMerged(d)
  BY <1>1 DEF IsMerged, Merging!Good, Merging!Readable
<1>4. \A d : Merging!Good(d)' = Merging!Good(d)
  BY <1>1 DEF Merging!Good, Merging!Readable
<1>5. GroupsMerged'
  BY <1>1, <1>3, <1>4 DEF MInv, GroupsMerged
<1>6. Merging!FirstRunHasAllOnce'
  BY <1>1, <1>4 DEF MInv, Merging!FirstRunHasAllOnce
<1> QED  BY <1>1, <1>2, <1>5, <1>6 DEF MInv

LEMMA MergeInductive == AnySpec => []MInv
<1>1. AnyInit => MInv
  BY MergeInitInv DEF AnyInit
<1>2. MInv /\ [AnyNext]_allVars => MInv'
  <2> SUFFICES ASSUME MInv, [AnyNext]_allVars PROVE MInv'
    OBVIOUS
  <2>1. CASE UNCHANGED mergeVars
    BY <2>1, MergeStutterInv
  <2>2. CASE Merging!Next
    BY <2>2, CopyInv, CollectInv, MergeGroupInv, MergeAllInv, MergeBreaksInv DEF Merging!Next
  <2> QED  BY <2>1, <2>2 DEF AnyNext, allVars
<1> QED  BY <1>1, <1>2, PTL DEF AnySpec

-----------------------------------------------------------------------------
(* build_master_summary.py: the rows.                                       *)

\* MasterSummary has the operators of lists under names of its own.
LEMMA SameInTables ==
  /\ \A ss : Tables!FlattenSeq(ss) = FlattenSeq(ss)
  /\ \A s : Tables!ToSet(s) = ToSet(s)
  /\ \A s, S : Tables!Select(s, S) = Select(s, S)
  /\ \A s, R : Tables!SortedBy(s, R) = SortedBy(s, R)
  /\ \A s : Tables!Keys(s) = Keys(s)
<1>1. \A ss : Tables!FlattenSeq(ss) = FlattenSeq(ss)
  BY DEF Tables!FlattenSeq, FlattenSeq
<1>2. \A s : Tables!ToSet(s) = ToSet(s)
  BY DEF Tables!ToSet, ToSet
<1>3. \A s, S : Tables!Select(s, S) = Select(s, S)
  BY <1>1 DEF Tables!Select, Select
<1>4. \A s, x, R : Tables!After(s, x, R) = After(s, x, R)
  BY <1>2 DEF Tables!After, After
<1>5. ASSUME NEW s, NEW R PROVE Tables!SortedBy(s, R) = SortedBy(s, R)
  <2> DEFINE upto(u) == [k \in 0 .. Len(s) |->
               IF k = 0 THEN <<>>
               ELSE Tables!Select(u[k - 1],
                                  Tables!ToSet(u[k - 1]) \ Tables!After(u[k - 1], s[k], R))
                    \o <<s[k]>> \o Tables!Select(u[k - 1], Tables!After(u[k - 1], s[k], R))]
  <2>1. \A u : u = upto(u) <=> Sorts(u, s, R, Len(s))
    BY <1>2, <1>3, <1>4 DEF Sorts
  <2>2. Tables!SortedBy(s, R) = (CHOOSE u : u = upto(u))[Len(s)]
    BY DEF Tables!SortedBy
  <2>3. SortedBy(s, R) = (CHOOSE u : Sorts(u, s, R, Len(s)))[Len(s)]
    BY DEF SortedBy, Sorts
  <2> HIDE DEF upto
  <2> QED  BY <2>1, <2>2, <2>3
<1>6. \A s : Tables!Keys(s) = Keys(s)
  BY <1>1 DEF Tables!Keys, Keys
<1> QED  BY <1>1, <1>2, <1>3, <1>5, <1>6

\* The fields that every row has, and what stands in them.
RowFields == (Tables!STAT_PREFIXES \X Tables!STAT_KEYS) \cup {Tables!Efficiency}

Value == Nat \cup {None}

\* flatten_stats makes the same fields whatever statistics there are.
LEMMA FlattenedTyped ==
  ASSUME NEW item, Tables!Known(item)
  PROVE  Tables!Flattened(item) \in [Tables!STAT_PREFIXES \X Tables!STAT_KEYS -> Value]
<1> DEFINE part(prefix) == Tables!flatten_stats(prefix, Tables!Get(item.stats, prefix))
<1>1. ASSUME NEW prefix \in Tables!STAT_PREFIXES
      PROVE  part(prefix) \in [{prefix} \X Tables!STAT_KEYS -> Value]
  <2> DEFINE stats == Tables!Get(item.stats, prefix)
  <2>1. ASSUME stats # None, NEW key PROVE Tables!Get(stats, key) \in Value
    <3>1. prefix \in DOMAIN item.stats /\ stats = item.stats[prefix]
      BY <2>1 DEF Tables!Get
    <3>2. \A k \in DOMAIN stats : stats[k] \in Nat
      BY <3>1 DEF Tables!Known
    <3> HIDE DEF stats
    <3> QED  BY <3>2 DEF Tables!Get, Value
  <2>2. part(prefix) = [f \in {prefix} \X Tables!STAT_KEYS |->
                         IF stats = None THEN None ELSE Tables!Get(stats, f[2])]
    BY DEF Tables!flatten_stats
  <2> HIDE DEF stats, part
  <2>3. \A f : (IF stats = None THEN None ELSE Tables!Get(stats, f[2])) \in Value
    BY <2>1 DEF Value
  <2> QED  BY <2>2, <2>3
<1>2. Tables!Flattened(item) =
        [f \in UNION {DOMAIN part(prefix) : prefix \in Tables!STAT_PREFIXES} |-> part(f[1])[f]]
  BY DEF Tables!Flattened
<1> HIDE DEF part
<1>3. \A prefix \in Tables!STAT_PREFIXES : DOMAIN part(prefix) = {prefix} \X Tables!STAT_KEYS
  BY <1>1
<1>4. UNION {DOMAIN part(prefix) : prefix \in Tables!STAT_PREFIXES}
        = Tables!STAT_PREFIXES \X Tables!STAT_KEYS
  <2>1. UNION {DOMAIN part(prefix) : prefix \in Tables!STAT_PREFIXES}
          = UNION {{prefix} \X Tables!STAT_KEYS : prefix \in Tables!STAT_PREFIXES}
    BY <1>3
  <2>2. \A A, B : UNION {{a} \X B : a \in A} = A \X B
    OBVIOUS
  <2> QED  BY <2>1, <2>2
<1>5. \A f \in Tables!STAT_PREFIXES \X Tables!STAT_KEYS : part(f[1])[f] \in Value
  <2> SUFFICES ASSUME NEW f \in Tables!STAT_PREFIXES \X Tables!STAT_KEYS
               PROVE  part(f[1])[f] \in Value
    OBVIOUS
  <2>1. f[1] \in Tables!STAT_PREFIXES /\ f \in {f[1]} \X Tables!STAT_KEYS
    OBVIOUS
  <2> QED  BY <1>1, <2>1
<1> QED  BY <1>2, <1>4, <1>5

\* A row has all fields, each with a number or None.
LEMMA FieldsTyped ==
  ASSUME NEW item, Tables!Known(item)
  PROVE  Tables!Fields(item) \in [RowFields -> Value]
<1> DEFINE flat == Tables!Flattened(item)
           row == Tables!ensure_elapsed_ms_fields(flat)
           F == Tables!STAT_PREFIXES \X Tables!STAT_KEYS
<1>1. flat \in [F -> Value]
  BY FlattenedTyped
<1>2. row \in [F -> Value]
  <2> DEFINE missing == {f \in {"elapsed_ms"} \X Tables!STAT_KEYS :
                          /\ Tables!Get(flat, f) = None
                          /\ Tables!Get(flat, <<"elapsed_s", f[2]>>) # None}
  <2>1. row = [f \in DOMAIN flat \cup missing |->
                IF f \in missing THEN 1000 * flat[<<"elapsed_s", f[2]>>] ELSE flat[f]]
    BY DEF Tables!ensure_elapsed_ms_fields
  <2>2. missing \subseteq F
    BY DEF Tables!STAT_PREFIXES
  <2>3. ASSUME NEW f \in missing PROVE 1000 * flat[<<"elapsed_s", f[2]>>] \in Value
    <3>1. <<"elapsed_s", f[2]>> \in F
      BY DEF Tables!STAT_PREFIXES
    <3>2. flat[<<"elapsed_s", f[2]>>] \in Value /\ flat[<<"elapsed_s", f[2]>>] # None
      BY <1>1, <3>1 DEF Tables!Get
    <3>3. flat[<<"elapsed_s", f[2]>>] \in Nat
      BY <3>2 DEF Value
    <3> HIDE DEF flat
    <3> QED  BY <3>3 DEF Value
  <2> HIDE DEF missing, flat, row, F
  <2>4. DOMAIN flat = F /\ \A f \in F : flat[f] \in Value
    BY <1>1
  <2>5. DOMAIN flat \cup missing = F
    BY <2>2, <2>4
  <2>6. ASSUME NEW f \in F
        PROVE  (IF f \in missing THEN 1000 * flat[<<"elapsed_s", f[2]>>] ELSE flat[f]) \in Value
    <3>1. CASE f \in missing
      BY <2>3, <3>1, ZenonT(40)
    <3>2. CASE f \notin missing
      BY <2>4, <3>2, ZenonT(40)
    <3> QED  BY <3>1, <3>2
  <2> QED  BY <2>1, <2>5, <2>6
<1> DEFINE num == Tables!Get(row, <<"throughput_mib_s", "mean">>)
           den == Tables!Get(row, <<"energy_j", "mean">>)
<1>3. Tables!safe_div(num, den) \in Value
  <2>1. num \in Value /\ den \in Value
    BY <1>2 DEF Tables!Get, Value
  <2> HIDE DEF num, den
  <2>2. CASE num = None \/ den \in {None, 0}
    BY <2>2 DEF Tables!safe_div, Value
  <2>3. CASE ~(num = None \/ den \in {None, 0})
    <3>1. num \in Nat /\ den \in Nat \ {0}
      BY <2>1, <2>3 DEF Value
    <3>2. num \div den \in Nat
      BY <3>1
    <3> QED  BY <2>3, <3>2 DEF Tables!safe_div, Value
  <2> QED  BY <2>2, <2>3
<1>4. Tables!Fields(item) = [f \in DOMAIN row \cup {Tables!Efficiency} |->
                              IF f = Tables!Efficiency THEN Tables!safe_div(num, den) ELSE row[f]]
  BY DEF Tables!Fields
<1> HIDE DEF row, num, den, flat
<1>5. DOMAIN row = F
  BY <1>2
<1> QED  BY <1>2, <1>3, <1>4, <1>5 DEF RowFields

\* The rows of some summaries: one for each item of each file.
RowOf(file, item) ==
  [library |-> file.library, case |-> item.case, fields |-> Tables!Fields(item)]

RowsOf(summaries) ==
  UNION {{RowOf(file, item) : item \in ToSet(file.items)} : file \in ToSet(summaries)}

\* What it is to be one of these rows.
LEMMA InRowsOf ==
  ASSUME NEW summaries, NEW r
  PROVE  r \in RowsOf(summaries) <=>
           \E file \in ToSet(summaries) : \E item \in ToSet(file.items) : r = RowOf(file, item)
<1> DEFINE of(file) == {RowOf(file, item) : item \in ToSet(file.items)}
<1>1. \A file : r \in of(file) <=> \E item \in ToSet(file.items) : r = RowOf(file, item)
  OBVIOUS
<1>2. RowsOf(summaries) = UNION {of(file) : file \in ToSet(summaries)}
  BY DEF RowsOf
<1> HIDE DEF of
<1>3. r \in RowsOf(summaries) <=> \E file \in ToSet(summaries) : r \in of(file)
  BY <1>2
<1> QED  BY <1>1, <1>3, Zenon

\* The master table has the rows of all summaries, and no others.
LEMMA RowsBuilt ==
  ASSUME NEW summaries, Tables!Collected(summaries),
         NEW rs, rs = Tables!build_master_rows(Tables!collect_summary_files(summaries))
  PROVE  rs \in Seq(RowsOf(summaries)) /\ ToSet(rs) = RowsOf(summaries)
<1> DEFINE v == Tables!collect_summary_files(summaries)
           of(file) == [i \in DOMAIN file.items |-> RowOf(file, file.items[i])]
           ss == [i \in DOMAIN v |-> of(v[i])]
           S == RowsOf(summaries)
           m == Len(v)
<1>1. v \in Seq(ToSet(summaries)) /\ ToSet(v) = ToSet(summaries)
  <2>1. summaries \in Seq(ToSet(summaries))
    BY SameInTables DEF Tables!Collected
  <2> QED  BY <2>1, Sorting, SameInTables DEF Tables!collect_summary_files
<1> HIDE DEF v
<1>2. /\ m \in Nat /\ DOMAIN v = 1 .. m /\ ToSet(v) = {v[i] : i \in 1 .. m}
  BY <1>1, ElementsOf
<1>3. ASSUME NEW file \in ToSet(summaries)
      PROVE  /\ of(file) \in Seq(S)
             /\ ToSet(of(file)) = {RowOf(file, item) : item \in ToSet(file.items)}
  <2>1. file.items \in Seq(ToSet(file.items))
    BY SameInTables DEF Tables!Collected
  <2>2. /\ Len(file.items) \in Nat /\ DOMAIN file.items = 1 .. Len(file.items)
        /\ ToSet(file.items) = {file.items[i] : i \in 1 .. Len(file.items)}
    BY <2>1, ElementsOf
  <2>3. \A i \in 1 .. Len(file.items) : RowOf(file, file.items[i]) \in S
    BY <2>2, InRowsOf
  <2> HIDE DEF S
  <2>4. of(file) \in [1 .. Len(file.items) -> S]
    BY <2>2, <2>3
  <2>5. of(file) \in Seq(S) /\ DOMAIN of(file) = 1 .. Len(file.items)
    BY <2>2, <2>4, Listed
  <2>6. ToSet(of(file)) = {RowOf(file, file.items[i]) : i \in 1 .. Len(file.items)}
    BY <2>5 DEF ToSet
  <2> QED  BY <2>2, <2>5, <2>6
<1> DEFINE all == Tables!FlattenSeq(ss)
<1>4. \E R : rs = Tables!SortedBy(all, R)
  BY DEF Tables!build_master_rows, RowOf, v
<1>5. \A i \in 1 .. m : ss[i] \in Seq(S) /\ ss[i] = of(v[i]) /\ v[i] \in ToSet(summaries)
  BY <1>1, <1>2, <1>3
<1>6. ss \in [1 .. m -> Seq(S)]
  BY <1>2, <1>5
<1> HIDE DEF ss, of, m
<1>7. all = FlattenSeq(ss)
  BY SameInTables
<1> HIDE DEF all
<1>8. HasFirst(all, S, ss, m, S \X S)
  <2>1. \A i \in 1 .. m : Chain(ss[i], S \X S) /\ ToSet(ss[i]) \subseteq S
    BY <1>5, ListOf, ElementsOf
  <2>2. \A i, j \in 1 .. m : i < j => Before(ss[i], ss[j], S \X S)
    BY <2>1 DEF Before
  <2> HIDE DEF S
  <2> QED  BY <1>2, <1>6, <1>7, <2>1, <2>2, Flattened
<1>9. all \in Seq(S) /\ ToSet(all) = S
  <2>1. \A x : x \in ToSet(all) <=> \E i \in 1 .. m : x \in ToSet(of(v[i]))
    BY <1>5, <1>8 DEF HasFirst
  <2>2. \A x : x \in ToSet(all) <=> \E file \in ToSet(summaries) : x \in ToSet(of(file))
    BY <1>1, <1>2, <2>1
  <2>3. \A x : x \in S <=> \E file \in ToSet(summaries) : x \in ToSet(of(file))
    <3>1. ASSUME NEW x, NEW file \in ToSet(summaries)
          PROVE  x \in ToSet(of(file)) <=> \E item \in ToSet(file.items) : x = RowOf(file, item)
      BY <1>3
    <3> QED  BY <3>1, InRowsOf, Zenon DEF S
  <2> QED  BY <1>8, <2>2, <2>3 DEF HasFirst
<1> HIDE DEF S
<1>10. \A R : SortedBy(all, R) \in Seq(S) /\ ToSet(SortedBy(all, R)) = ToSet(all)
  BY <1>9, Sorting
<1> QED  BY <1>4, <1>9, <1>10, SameInTables DEF S

\* What a row holds, and that there is but one for a library and a case.
RowsTyped(S) ==
  /\ \A r \in S : /\ r.case \in ToSet(NameOrder) \X Nat \X Nat
                  /\ r.fields \in [RowFields -> Value]
  /\ \A r, q \in S : r.library = q.library /\ r.case = q.case => r = q

\* The rows of what run.sh collects are such rows.
LEMMA RowsAreTyped ==
  ASSUME NEW summaries, Tables!Collected(summaries)
  PROVE  RowsTyped(RowsOf(summaries))
<1>1. ASSUME NEW r \in RowsOf(summaries)
      PROVE  \E file \in ToSet(summaries) : \E item \in ToSet(file.items) : r = RowOf(file, item)
  BY InRowsOf
<1>2. \A file \in ToSet(summaries) :
        /\ \A item \in ToSet(file.items) : Tables!Known(item)
        /\ \A j, k \in DOMAIN file.items : file.items[j].case = file.items[k].case => j = k
  BY SameInTables DEF Tables!Collected
<1>3. \A i, j \in DOMAIN summaries : summaries[i].library = summaries[j].library => i = j
  BY DEF Tables!Collected
<1>4. ASSUME NEW r \in RowsOf(summaries)
      PROVE  /\ r.case \in ToSet(NameOrder) \X Nat \X Nat
             /\ r.fields \in [RowFields -> Value]
  <2>1. PICK file \in ToSet(summaries) : \E item \in ToSet(file.items) : r = RowOf(file, item)
    BY <1>1
  <2>2. PICK item \in ToSet(file.items) : r = RowOf(file, item)
    BY <2>1
  <2>3. Tables!Known(item)
    BY <1>2
  <2>4. r.case = item.case /\ r.fields = Tables!Fields(item)
    BY <2>2 DEF RowOf
  <2>5. item.case \in ToSet(NameOrder) \X Nat \X Nat
    BY <2>3, SameInTables DEF Tables!Known
  <2> QED  BY <2>3, <2>4, <2>5, FieldsTyped
<1>5. ASSUME NEW r \in RowsOf(summaries), NEW q \in RowsOf(summaries),
             r.library = q.library, r.case = q.case
      PROVE  r = q
  <2>1. PICK file \in ToSet(summaries) : \E item \in ToSet(file.items) : r = RowOf(file, item)
    BY <1>1
  <2>2. PICK item \in ToSet(file.items) : r = RowOf(file, item)
    BY <2>1
  <2>3. PICK other \in ToSet(summaries) : \E same \in ToSet(other.items) : q = RowOf(other, same)
    BY <1>1
  <2>4. PICK same \in ToSet(other.items) : q = RowOf(other, same)
    BY <2>3
  <2>5. file.library = other.library /\ item.case = same.case
    BY <1>5, <2>2, <2>4 DEF RowOf
  <2>6. file = other
    BY <1>3, <2>5 DEF ToSet
  <2>7. item = same
    BY <1>2, <2>5, <2>6 DEF ToSet
  <2> QED  BY <2>2, <2>4, <2>6, <2>7
<1> QED  BY <1>4, <1>5 DEF RowsTyped

-----------------------------------------------------------------------------
(* build_master_summary.py: the best of each case.                          *)

Whats == DOMAIN Tables!Compared
ValueOf(what, r) == Tables!Get(r.fields, Tables!Compared[what])

\* A row has a value for whatever is compared.
LEMMA Values ==
  ASSUME NEW what \in Whats
  PROVE  /\ Tables!Compared[what] \in RowFields
         /\ \A r : r.fields \in [RowFields -> Value] =>
              /\ ValueOf(what, r) = r.fields[Tables!Compared[what]]
              /\ ValueOf(what, r) \in Value
<1>1. Tables!Compared[what] \in RowFields
  BY DEF Whats, Tables!Compared, RowFields, Tables!STAT_PREFIXES, Tables!STAT_KEYS
<1>2. ASSUME NEW r, r.fields \in [RowFields -> Value]
      PROVE  /\ ValueOf(what, r) = r.fields[Tables!Compared[what]]
             /\ ValueOf(what, r) \in Value
  BY <1>1, <1>2 DEF ValueOf, Tables!Get
<1> QED  BY <1>1, <1>2

\* Better is an order, in which only None is worse than all numbers.
LEMMA BetterOrders ==
  ASSUME NEW what
  PROVE  /\ \A a \in Value : ~Tables!Better(what, a, a)
         /\ \A a, b \in Value : Tables!Better(what, a, b) => ~Tables!Better(what, b, a)
         /\ \A a, b, c \in Value : ~Tables!Better(what, a, b) /\ ~Tables!Better(what, b, c)
                                     => ~Tables!Better(what, a, c)
         /\ \A a \in Nat : Tables!Better(what, a, None) /\ ~Tables!Better(what, None, a)
         /\ \A a, b \in Nat : Tables!Better(what, a, b) \/ Tables!Better(what, b, a) \/ a = b
<1>1. None \notin Nat
  BY TablesAssumption
<1> DEFINE up == what \notin {"time", "energy"}
<1>2. /\ \A a, b \in Nat : Tables!Better(what, a, b) <=> IF up THEN a > b ELSE a < b
      /\ \A a \in Nat : Tables!Better(what, a, None) /\ ~Tables!Better(what, None, a)
      /\ ~Tables!Better(what, None, None)
  BY <1>1 DEF Tables!Better, Tables!LessKey, Tables!MoreKey
<1>3. \A a : a \in Value <=> a \in Nat \/ a = None
  BY DEF Value
<1> HIDE DEF up
<1>4. \A a, b \in Value : Tables!Better(what, a, b) => ~Tables!Better(what, b, a)
  BY <1>2, <1>3
<1>5. ASSUME NEW a \in Value, NEW b \in Value, NEW c \in Value,
             ~Tables!Better(what, a, b), ~Tables!Better(what, b, c)
      PROVE  ~Tables!Better(what, a, c)
  <2>1. CASE a = None
    BY <1>2, <1>3, <2>1
  <2>2. CASE a \in Nat
    <3>1. b \in Nat
      BY <1>2, <1>3, <1>5, <2>2
    <3>2. c \in Nat
      BY <1>2, <1>3, <1>5, <3>1
    <3> QED  BY <1>2, <1>5, <2>2, <3>1, <3>2
  <2> QED  BY <1>3, <2>1, <2>2
<1>6. \A a, b \in Nat : Tables!Better(what, a, b) \/ Tables!Better(what, b, a) \/ a = b
  BY <1>2
<1> QED  BY <1>2, <1>3, <1>4, <1>5, <1>6

\* b goes through the first m of some rows, as min and max do.
Goes(b, what, items, m) ==
  b = [n \in 1 .. m |->
        IF n > 1 /\ ~Tables!Better(what, ValueOf(what, items[n]), ValueOf(what, b[n - 1]))
        THEN b[n - 1] ELSE items[n]]

\* There is such a walk.
LEMMA GoesExist ==
  ASSUME NEW what, NEW items, NEW m \in Nat PROVE \E b : Goes(b, what, items, m)
<1> DEFINE next(r, n) == IF ~Tables!Better(what, ValueOf(what, items[n]), ValueOf(what, r))
                         THEN r ELSE items[n]
           upto(b, n) == [k \in 1 .. n |-> IF k > 1 THEN next(b[k - 1], k) ELSE items[k]]
           G == {n \in Nat : \E b : b = upto(b, n)}
<1>1. \A b, n : Goes(b, what, items, n) <=> b = upto(b, n)
  <2> SUFFICES ASSUME NEW b, NEW n PROVE Goes(b, what, items, n) <=> b = upto(b, n)
    OBVIOUS
  <2>1. \A k \in 1 .. n : (IF k > 1 THEN next(b[k - 1], k) ELSE items[k])
          = IF k > 1 /\ ~Tables!Better(what, ValueOf(what, items[k]), ValueOf(what, b[k - 1]))
            THEN b[k - 1] ELSE items[k]
    BY Zenon
  <2> QED  BY <2>1 DEF Goes
<1> HIDE DEF next
<1>2. 0 \in G
  <2> DEFINE b == [k \in 1 .. 0 |-> items[k]]
  <2>1. b = upto(b, 0)
    OBVIOUS
  <2> QED  BY <2>1
<1>3. ASSUME NEW n \in Nat, n \in G PROVE n + 1 \in G
  <2>1. PICK v : v = upto(v, n)
    BY <1>3
  <2> DEFINE b == [k \in 1 .. n + 1 |-> IF k > 1 THEN next(v[k - 1], k) ELSE items[k]]
  <2>2. \A k \in 1 .. n : b[k] = v[k]
    <3>1. \A k \in 1 .. n : v[k] = IF k > 1 THEN next(v[k - 1], k) ELSE items[k]
      BY <2>1, Zenon
    <3>2. \A k \in 1 .. n : k \in 1 .. n + 1
      OBVIOUS
    <3> QED  BY <3>1, <3>2, Zenon
  <2>3. \A k \in 1 .. n + 1 : b[k] = IF k > 1 THEN next(v[k - 1], k) ELSE items[k]
    OBVIOUS
  <2>4. \A k \in 1 .. n + 1 : k > 1 => k - 1 \in 1 .. n
    OBVIOUS
  <2>5. DOMAIN b = 1 .. n + 1 /\ b = [k \in DOMAIN b |-> b[k]]
    OBVIOUS
  <2> HIDE DEF b
  <2>6. \A k \in 1 .. n + 1 : b[k] = IF k > 1 THEN next(b[k - 1], k) ELSE items[k]
    BY <2>2, <2>3, <2>4
  <2>7. b = upto(b, n + 1)
    BY <2>5, <2>6
  <2> QED  BY <2>7
<1> HIDE DEF G
<1>4. m \in G
  BY <1>2, <1>3, AllNaturals
<1> QED  BY <1>1, <1>4 DEF G

\* min and max return one of the rows, and none is better.
LEMMA BestOfAll ==
  ASSUME NEW what, NEW S, NEW items \in Seq(S), items # <<>>,
         \A r \in S : ValueOf(what, r) \in Value
  PROVE  /\ Tables!BestRow(what, items) \in ToSet(items)
         /\ \A r \in ToSet(items) :
              ~Tables!Better(what, ValueOf(what, r), ValueOf(what, Tables!BestRow(what, items)))
<1> DEFINE m == Len(items)
<1>1. /\ m \in Nat /\ DOMAIN items = 1 .. m /\ ToSet(items) = {items[i] : i \in 1 .. m}
      /\ \A i \in 1 .. m : items[i] \in S
  BY ElementsOf, ElementOfSeq
<1>2. m # 0
  BY EmptySeq
<1>3. PICK b : Goes(b, what, items, m) /\ Tables!BestRow(what, items) = b[m]
  <2>1. Tables!BestRow(what, items) = (CHOOSE b : Goes(b, what, items, m))[m]
    BY <1>1 DEF Tables!BestRow, Goes, ValueOf
  <2> QED  BY <1>1, <2>1, GoesExist
<1> DEFINE next(r, n) == IF ~Tables!Better(what, ValueOf(what, items[n]), ValueOf(what, r))
                         THEN r ELSE items[n]
<1>4. \A k \in 1 .. m : b[k] = IF k > 1 THEN next(b[k - 1], k) ELSE items[k]
  BY <1>3, Zenon DEF Goes
<1> HIDE DEF next
<1> DEFINE best(n) == /\ b[n] \in ToSet(items)
                      /\ \A i \in 1 .. n : ~Tables!Better(what, ValueOf(what, items[i]),
                                                                ValueOf(what, b[n]))
           G == {n \in Nat : n + 1 <= m => best(n + 1)}
<1>5. \A r \in ToSet(items) : ValueOf(what, r) \in Value
  BY <1>1
<1> HIDE DEF m
<1>6. 0 \in G
  <2>1. 1 \in 1 .. m /\ b[1] = items[1] /\ 1 .. 1 = {1}
    BY <1>1, <1>2, <1>4
  <2>2. best(1)
    BY <1>1, <1>5, <2>1, BetterOrders
  <2> QED  BY <2>2
<1>7. ASSUME NEW k \in Nat, k \in G PROVE k + 1 \in G
  <2> DEFINE n == k + 1
  <2> SUFFICES ASSUME n + 1 <= m PROVE best(n + 1)
    OBVIOUS
  <2>1. n \in Nat \ {0} /\ best(n)
    BY <1>1, <1>7
  <2>2. n + 1 \in 1 .. m /\ n + 1 > 1 /\ n + 1 - 1 = n
        /\ \A i : i \in 1 .. n + 1 <=> i \in 1 .. n \/ i = n + 1
    BY <2>1
  <2>3. \A i \in 1 .. n : i \in 1 .. m
    BY <1>1, <2>2
  <2> HIDE DEF G, n
  <2>4. b[n + 1] = IF ~Tables!Better(what, ValueOf(what, items[n + 1]), ValueOf(what, b[n]))
                   THEN b[n] ELSE items[n + 1]
    <3>1. b[n + 1] = next(b[n + 1 - 1], n + 1)
      BY <1>4, <2>1, <2>2
    <3> QED  BY <2>2, <3>1 DEF next
  <2>5. /\ ValueOf(what, b[n]) \in Value /\ items[n + 1] \in ToSet(items)
        /\ \A i \in 1 .. n + 1 : ValueOf(what, items[i]) \in Value
    BY <1>1, <1>5, <2>1, <2>2, <2>3
  <2>6. CASE ~Tables!Better(what, ValueOf(what, items[n + 1]), ValueOf(what, b[n]))
    <3>1. b[n + 1] = b[n]
      BY <2>4, <2>6
    <3> QED  BY <2>1, <2>2, <2>6, <3>1, Zenon
  <2>7. CASE Tables!Better(what, ValueOf(what, items[n + 1]), ValueOf(what, b[n]))
    <3>1. b[n + 1] = items[n + 1]
      BY <2>4, <2>7
    <3>2. ~Tables!Better(what, ValueOf(what, b[n]), ValueOf(what, items[n + 1]))
      BY <2>2, <2>5, <2>7, BetterOrders, Zenon
    <3>3. ASSUME NEW i \in 1 .. n
          PROVE  ~Tables!Better(what, ValueOf(what, items[i]), ValueOf(what, items[n + 1]))
      <4>1. \A x, y, z \in Value : ~Tables!Better(what, x, y) /\ ~Tables!Better(what, y, z)
                                     => ~Tables!Better(what, x, z)
        BY BetterOrders, Zenon
      <4>2. i \in 1 .. n + 1 /\ n + 1 \in 1 .. n + 1
        BY <2>1
      <4>3. ~Tables!Better(what, ValueOf(what, items[i]), ValueOf(what, b[n]))
        BY <2>1, Zenon
      <4>4. ValueOf(what, items[i]) \in Value /\ ValueOf(what, items[n + 1]) \in Value
        BY <2>5, <4>2, Zenon
      <4> QED  BY <2>5, <3>2, <4>1, <4>3, <4>4, Zenon
    <3>4. ~Tables!Better(what, ValueOf(what, items[n + 1]), ValueOf(what, items[n + 1]))
      BY <2>2, <2>5, BetterOrders, Zenon
    <3> QED  BY <2>2, <2>5, <3>1, <3>3, <3>4, Zenon
  <2> QED  BY <2>6, <2>7
<1> HIDE DEF G, best
<1>8. m - 1 \in Nat /\ m - 1 + 1 = m
  BY <1>1, <1>2
<1>9. m - 1 \in G
  BY <1>6, <1>7, <1>8, AllNaturals
<1>10. best(m)
  BY <1>8, <1>9 DEF G
<1> QED  BY <1>1, <1>3, <1>10 DEF best

\* The groups of rows: each case of a row once, and each library.
CasesIn(rs) == {r.case : r \in ToSet(rs)}

LibrariesIn(rs) == {r.library : r \in ToSet(rs)}

\* The groups are there once each, and none is missing.
LEMMA Groups ==
  ASSUME NEW S, NEW rs \in Seq(S)
  PROVE  /\ Tables!Cases(rs) \in Seq(CasesIn(rs)) /\ ToSet(Tables!Cases(rs)) = CasesIn(rs)
         /\ Chain(Tables!Cases(rs), Unlike(CasesIn(rs)))
         /\ Tables!Libraries(rs) \in Seq(LibrariesIn(rs))
         /\ ToSet(Tables!Libraries(rs)) = LibrariesIn(rs)
         /\ Chain(Tables!Libraries(rs), Unlike(LibrariesIn(rs)))
<1>1. /\ Len(rs) \in Nat /\ DOMAIN rs = 1 .. Len(rs)
      /\ ToSet(rs) = {rs[i] : i \in 1 .. Len(rs)}
  BY ElementsOf
<1>2. ASSUME NEW T, NEW s \in Seq(T), NEW R, ToSet(s) = T
      PROVE  /\ SortedBy(Keys(s), R) \in Seq(T) /\ ToSet(SortedBy(Keys(s), R)) = T
             /\ Chain(SortedBy(Keys(s), R), Unlike(T))
  <2>1. Keys(s) \in Seq(T) /\ ToSet(Keys(s)) = T /\ Chain(Keys(s), Unlike(T))
    BY <1>2, KeysOnce
  <2> QED  BY <2>1, Sorting
<1> DEFINE c == [i \in DOMAIN rs |-> rs[i].case]
           l == [i \in DOMAIN rs |-> rs[i].library]
<1>3. c \in Seq(CasesIn(rs)) /\ ToSet(c) = CasesIn(rs)
  <2>1. \A i \in 1 .. Len(rs) : rs[i].case \in CasesIn(rs)
    BY <1>1 DEF CasesIn
  <2>2. c \in [1 .. Len(rs) -> CasesIn(rs)]
    BY <1>1, <2>1
  <2>3. c \in Seq(CasesIn(rs))
    BY <1>1, <2>2, Listed
  <2> QED  BY <1>1, <2>3 DEF ToSet, CasesIn
<1>4. l \in Seq(LibrariesIn(rs)) /\ ToSet(l) = LibrariesIn(rs)
  <2>1. \A i \in 1 .. Len(rs) : rs[i].library \in LibrariesIn(rs)
    BY <1>1 DEF LibrariesIn
  <2>2. l \in [1 .. Len(rs) -> LibrariesIn(rs)]
    BY <1>1, <2>1
  <2>3. l \in Seq(LibrariesIn(rs))
    BY <1>1, <2>2, Listed
  <2> QED  BY <1>1, <2>3 DEF ToSet, LibrariesIn
<1>5. /\ \E R : Tables!Cases(rs) = SortedBy(Keys(c), R)
      /\ \E R : Tables!Libraries(rs) = SortedBy(Keys(l), R)
  BY SameInTables DEF Tables!Cases, Tables!Libraries
<1> HIDE DEF c, l
<1> QED  BY <1>2, <1>3, <1>4, <1>5

\* The rows of a case, in some order.
RowsOfCase(rs, k) == {r \in ToSet(rs) : r.case = k}

\* The row that is chosen for a case is one of it, and none of it is better.
LEMMA BestOfCase ==
  ASSUME NEW S, RowsTyped(S), NEW rs \in Seq(S), NEW k \in CasesIn(rs), NEW what \in Whats,
         NEW row,
         row = Tables!BestRow(what, Tables!Select(rs, {r \in Tables!ToSet(rs) : r.case = k}))
  PROVE  /\ row \in RowsOfCase(rs, k)
         /\ \A r \in RowsOfCase(rs, k) : ~Tables!Better(what, ValueOf(what, r), ValueOf(what, row))
<1> DEFINE items == Select(rs, RowsOfCase(rs, k))
<1>1. row = Tables!BestRow(what, items)
  BY SameInTables DEF RowsOfCase
<1>2. items \in Seq(S) /\ ToSet(items) = RowsOfCase(rs, k)
  BY SelectedSet DEF RowsOfCase
<1>3. items # <<>>
  <2>1. RowsOfCase(rs, k) # {}
    BY DEF RowsOfCase, CasesIn
  <2> QED  BY <1>2, <2>1, EmptyList
<1>4. \A r \in S : ValueOf(what, r) \in Value
  BY Values DEF RowsTyped
<1> HIDE DEF items
<1> QED  BY <1>1, <1>2, <1>3, <1>4, BestOfAll

\* What stands in the table of the best, for each of its cases.
LEMMA BestBuilt ==
  ASSUME NEW S, RowsTyped(S), NEW rs \in Seq(S), NEW bests, bests = Tables!build_best_by_case(rs)
  PROVE  /\ DOMAIN bests = DOMAIN Tables!Cases(rs)
         /\ \A i \in DOMAIN bests :
              /\ bests[i].case = Tables!Cases(rs)[i] /\ bests[i].case \in CasesIn(rs)
              /\ DOMAIN bests[i].best = Whats
              /\ \A what \in Whats : \E row \in RowsOfCase(rs, bests[i].case) :
                   /\ bests[i].best[what] = [library |-> row.library, value |-> ValueOf(what, row)]
                   /\ \A r \in RowsOfCase(rs, bests[i].case) :
                        ~Tables!Better(what, ValueOf(what, r), ValueOf(what, row))
<1> DEFINE cs == Tables!Cases(rs)
           rowOf(k, what) ==
             Tables!BestRow(what, Tables!Select(rs, {r \in Tables!ToSet(rs) : r.case = k}))
           best(k, what) == [library |-> rowOf(k, what).library,
                             value |-> ValueOf(what, rowOf(k, what))]
<1>1. bests = [i \in DOMAIN cs |-> [case |-> cs[i],
                                    best |-> [what \in Whats |-> best(cs[i], what)]]]
  BY DEF Tables!build_best_by_case, Whats, ValueOf
<1>2. \A i \in DOMAIN cs : cs[i] \in CasesIn(rs)
  BY Groups, ElementsOf
<1>3. ASSUME NEW k \in CasesIn(rs), NEW what \in Whats
      PROVE  /\ rowOf(k, what) \in RowsOfCase(rs, k)
             /\ \A r \in RowsOfCase(rs, k) :
                  ~Tables!Better(what, ValueOf(what, r), ValueOf(what, rowOf(k, what)))
  <2> HIDE DEF Whats
  <2> QED  BY BestOfCase
<1> HIDE DEF cs, rowOf
<1>4. DOMAIN bests = DOMAIN cs
  BY <1>1
<1>5. ASSUME NEW i \in DOMAIN bests
      PROVE  /\ bests[i].case = cs[i] /\ bests[i].case \in CasesIn(rs)
             /\ DOMAIN bests[i].best = Whats
             /\ \A what \in Whats : bests[i].best[what] = best(bests[i].case, what)
  BY <1>1, <1>2, <1>4
<1>6. ASSUME NEW i \in DOMAIN bests, NEW what \in Whats
      PROVE  \E row \in RowsOfCase(rs, bests[i].case) :
               /\ bests[i].best[what] = [library |-> row.library, value |-> ValueOf(what, row)]
               /\ \A r \in RowsOfCase(rs, bests[i].case) :
                    ~Tables!Better(what, ValueOf(what, r), ValueOf(what, row))
  <2>1. /\ bests[i].case \in CasesIn(rs)
        /\ bests[i].best[what] = best(bests[i].case, what)
    BY <1>5
  <2> QED  BY <1>3, <2>1
<1> QED  BY <1>4, <1>5, <1>6 DEF cs

\* The best of a case is the best of it.
LEMMA BestRight ==
  ASSUME NEW S, RowsTyped(S), rows \in Seq(S), best_by_case = Tables!build_best_by_case(rows)
  PROVE  Tables!BestIsBest
<1> SUFFICES ASSUME NEW i \in DOMAIN best_by_case, NEW what \in Whats, NEW j \in DOMAIN rows,
                    rows[j].case = best_by_case[i].case
             PROVE  LET best == best_by_case[i].best[what]
                        value == rows[j].fields[Tables!Compared[what]]
                    IN  /\ ~Tables!Better(what, value, best.value)
                        /\ rows[j].library = best.library => value = best.value
                        /\ value # None => best.value # None
  BY DEF Tables!BestIsBest, Whats
<1> DEFINE r == rows[j]
<1>1. r \in S /\ r \in ToSet(rows) /\ ToSet(rows) \subseteq S
  BY ElementsOf, ElementOfSeq DEF ToSet
<1>2. r \in RowsOfCase(rows, best_by_case[i].case)
  BY <1>1 DEF RowsOfCase
<1>3. PICK row \in RowsOfCase(rows, best_by_case[i].case) :
        /\ best_by_case[i].best[what] = [library |-> row.library, value |-> ValueOf(what, row)]
        /\ \A q \in RowsOfCase(rows, best_by_case[i].case) :
             ~Tables!Better(what, ValueOf(what, q), ValueOf(what, row))
  BY BestBuilt
<1>4. row \in S /\ row.case = r.case
  BY <1>1, <1>3 DEF RowsOfCase
<1>5. /\ ValueOf(what, r) = r.fields[Tables!Compared[what]]
      /\ ValueOf(what, r) \in Value /\ ValueOf(what, row) \in Value
  BY <1>1, <1>4, Values DEF RowsTyped
<1>6. ~Tables!Better(what, ValueOf(what, r), ValueOf(what, row))
  BY <1>2, <1>3
<1>7. r.library = row.library => r = row
  BY <1>1, <1>4 DEF RowsTyped
<1>8. ValueOf(what, r) # None => ValueOf(what, row) # None
  <2> SUFFICES ASSUME ValueOf(what, r) # None, ValueOf(what, row) = None PROVE FALSE
    OBVIOUS
  <2>1. ValueOf(what, r) \in Nat
    BY <1>5 DEF Value
  <2>2. Tables!Better(what, ValueOf(what, r), None)
    BY <2>1, BetterOrders, Zenon
  <2> QED  BY <1>6, <2>2, Zenon
<1> HIDE DEF r
<1> QED  BY <1>3, <1>5, <1>6, <1>7, <1>8 DEF r

-----------------------------------------------------------------------------
(* build_master_summary.py: the inductive invariant.                        *)

\* Until the tables are built there is nothing in them or written, and the
\* script breaks off only then, where there is no summary or one is torn;
\* afterwards they are those of the summaries, and in the end so are the plots
\* and the pages.
Empty == rows = <<>> /\ best_by_case = <<>> /\ library_overview = <<>>

Built ==
  /\ rows = Tables!build_master_rows(Tables!collect_summary_files(files))
  /\ best_by_case = Tables!build_best_by_case(rows)
  /\ library_overview = Tables!build_library_overview(rows)

Reported ==
  /\ plots = Tables!generate_global_comparison_plots
  /\ pages = Tables!generate_global_pdf_report(DOMAIN plots)

TInv ==
  /\ files \in Inputs
  /\ tables_pc \in {"read", "json", "csv", "pdf", "done", "failed"}
  /\ tables_pc \in {"read", "failed"} => Empty
  /\ tables_pc \in {"read", "failed"} => json = None
  /\ tables_pc = "failed" => files = <<>> \/ ~Tables!Readable
  /\ tables_pc \notin {"read", "failed"} => Built
  /\ tables_pc = "done" => Reported

LEMMA TablesInitInv == Tables!Init => TInv
BY DEF Tables!Init, TInv, Empty

\* Once they are built, the rows are those that RowsTyped speaks of.
LEMMA BuiltRows ==
  ASSUME files \in Inputs, Built
  PROVE  \E S : RowsTyped(S) /\ rows \in Seq(S)
<1>1. Tables!Collected(files)
  BY TablesAssumption
<1> QED  BY <1>1, RowsBuilt, RowsAreTyped DEF Built

LEMMA BuildInv == TInv /\ Tables!Build => TInv'
<1> SUFFICES ASSUME TInv, Tables!Build PROVE TInv'
  OBVIOUS
<1>1. /\ files' = files /\ files \in Inputs /\ json' = None
      /\ tables_pc' = "failed" \/ tables_pc' = "json"
      /\ tables_pc' = "failed" => (files = <<>> \/ ~Tables!Readable) /\ Empty'
      /\ tables_pc' = "json" => Built'
  BY DEF TInv, Tables!Build, Empty, Built
<1> QED  BY <1>1 DEF TInv, Tables!Readable

\* The rows have the same fields, so the table of them can be written.
LEMMA CsvInv == TInv /\ Tables!write_csv => TInv'
<1> SUFFICES ASSUME TInv, Tables!write_csv PROVE TInv'
  OBVIOUS
<1>1. files \in Inputs /\ Built
  BY DEF TInv, Tables!write_csv
<1>2. PICK S : RowsTyped(S) /\ rows \in Seq(S)
  BY <1>1, BuiltRows
<1>3. \A i \in DOMAIN rows : DOMAIN rows[i].fields = RowFields
  <2>1. \A i \in DOMAIN rows : rows[i] \in S
    BY <1>2, ElementsOf, ElementOfSeq
  <2> QED  BY <1>2, <2>1 DEF RowsTyped
<1>4. \A i \in DOMAIN rows : 1 \in DOMAIN rows
  BY <1>2, ElementsOf
<1>5. /\ tables_pc' = "pdf"
      /\ UNCHANGED <<files, rows, best_by_case, library_overview>>
  BY <1>3, <1>4 DEF Tables!write_csv
<1> QED  BY <1>1, <1>5 DEF TInv, Built

LEMMA WriteInv == TInv /\ (Tables!write_json \/ Tables!WritePdf) => TInv'
<1> SUFFICES ASSUME TInv, Tables!write_json \/ Tables!WritePdf PROVE TInv'
  OBVIOUS
<1>1. files \in Inputs /\ Built
  BY DEF TInv, Tables!write_json, Tables!WritePdf
<1>2. UNCHANGED <<files, rows, best_by_case, library_overview>>
  BY DEF Tables!write_json, Tables!WritePdf
<1>3. Built'
  BY <1>1, <1>2 DEF Built
<1>4. CASE Tables!write_json
  BY <1>1, <1>2, <1>3, <1>4 DEF TInv, Tables!write_json
<1>5. CASE Tables!WritePdf
  <2>1. plots' = Tables!generate_global_comparison_plots
        /\ pages' = Tables!generate_global_pdf_report(DOMAIN plots')
    BY <1>5 DEF Tables!WritePdf
  <2>2. Tables!generate_global_comparison_plots' = Tables!generate_global_comparison_plots
    BY <1>2 DEF Tables!generate_global_comparison_plots, Tables!generated, Tables!Compilers,
             Tables!Threads, Tables!plot_metric_grouped_by_case, Tables!plot_metric_by_compiler,
             Tables!plot_metric_by_server_threads, Tables!PlotOf
  <2>3. Tables!generate_global_pdf_report(DOMAIN plots)'
          = Tables!generate_global_pdf_report(DOMAIN plots')
    BY <1>2 DEF Tables!generate_global_pdf_report, Tables!generated, Tables!Compilers,
             Tables!Threads
  <2>4. Reported'
    BY <2>1, <2>2, <2>3 DEF Reported
  <2> QED  BY <1>1, <1>2, <1>3, <1>5, <2>4 DEF TInv, Tables!WritePdf
<1> QED  BY <1>4, <1>5

LEMMA TablesStutterInv == TInv /\ UNCHANGED tablesVars => TInv'
<1> SUFFICES ASSUME TInv, UNCHANGED tablesVars PROVE TInv'
  OBVIOUS
<1>1. UNCHANGED <<tables_pc, files, rows, best_by_case, library_overview, json, plots, pages>>
  BY DEF tablesVars
<1>2. Tables!generate_global_comparison_plots' = Tables!generate_global_comparison_plots
  BY <1>1 DEF Tables!generate_global_comparison_plots, Tables!generated, Tables!Compilers,
           Tables!Threads, Tables!plot_metric_grouped_by_case, Tables!plot_metric_by_compiler,
           Tables!plot_metric_by_server_threads, Tables!PlotOf
<1>3. Tables!generate_global_pdf_report(DOMAIN plots)'
        = Tables!generate_global_pdf_report(DOMAIN plots)
  BY <1>1 DEF Tables!generate_global_pdf_report, Tables!generated, Tables!Compilers,
           Tables!Threads
<1> QED  BY <1>1, <1>2, <1>3 DEF TInv, Tables!Readable, Empty, Built, Reported

LEMMA TablesInductive == AnySpec => []TInv
<1>1. AnyInit => TInv
  BY TablesInitInv DEF AnyInit
<1>2. TInv /\ [AnyNext]_allVars => TInv'
  <2> SUFFICES ASSUME TInv, [AnyNext]_allVars PROVE TInv'
    OBVIOUS
  <2>1. CASE script = "tables" /\ Tables!Next
    BY <2>1, BuildInv, CsvInv, WriteInv DEF Tables!Next
  <2>2. CASE UNCHANGED tablesVars
    BY <2>2, TablesStutterInv
  <2> QED  BY <2>1, <2>2 DEF AnyNext, allVars
<1> QED  BY <1>1, <1>2, PTL DEF AnySpec

-----------------------------------------------------------------------------
(* build_master_summary.py: the overview has the best of the cases.         *)

\* v is the best value of some rows.
Best(what, T, v) ==
  /\ \E r \in T : v = ValueOf(what, r)
  /\ \A r \in T : ~Tables!Better(what, ValueOf(what, r), v)

Valued(what, T) == \A r \in T : ValueOf(what, r) \in Value

\* The values of some rows, as collect has them.
ValuesOf(what, T) == {ValueOf(what, r) : r \in T} \ {None}

\* Of a set of numbers, one that none is better than is the extreme.
LEMMA ExtremeIsOne ==
  ASSUME NEW what, NEW V \in SUBSET Nat, NEW v \in V, \A w \in V : ~Tables!Better(what, w, v)
  PROVE  Tables!Extreme(what, V) = v
<1>1. \A w \in V : (\A u \in V : ~Tables!Better(what, u, w)) => w = v
  <2> SUFFICES ASSUME NEW w \in V, \A u \in V : ~Tables!Better(what, u, w) PROVE w = v
    OBVIOUS
  <2>1. w \in Nat /\ v \in Nat
    OBVIOUS
  <2>2. ~Tables!Better(what, v, w) /\ ~Tables!Better(what, w, v)
    OBVIOUS
  <2> QED  BY <2>1, <2>2, BetterOrders, Zenon
<1>2. Tables!Extreme(what, V) = CHOOSE w \in V : \A u \in V : ~Tables!Better(what, u, w)
  BY DEF Tables!Extreme
<1> QED  BY <1>1, <1>2

\* Where there is a number, the best is one.
LEMMA BestNotNone ==
  ASSUME NEW what, NEW v \in Value, NEW w \in Value, ~Tables!Better(what, w, v), w # None
  PROVE  v # None
<1>1. w \in Nat
  BY DEF Value
<1>2. Tables!Better(what, w, None)
  BY <1>1, BetterOrders, Zenon
<1> QED  BY <1>2, Zenon

\* min and max of the values that are there are the best value.
LEMMA ExtremeIsBest ==
  ASSUME NEW what, NEW T, Valued(what, T), NEW v, Best(what, T, v)
  PROVE  Tables!Extreme(what, ValuesOf(what, T)) = v
<1>1. v \in Value /\ v \in {ValueOf(what, r) : r \in T}
  BY DEF Best, Valued
<1>2. ValuesOf(what, T) \subseteq Nat
  BY DEF ValuesOf, Valued, Value
<1>3. CASE v = None
  <2>1. ValuesOf(what, T) = {}
    <3> SUFFICES ASSUME NEW r \in T, ValueOf(what, r) # None PROVE FALSE
      BY DEF ValuesOf
    <3> QED  BY <1>1, <1>3, BestNotNone DEF Best, Valued
  <2> QED  BY <1>3, <2>1 DEF Tables!Extreme
<1>4. CASE v # None
  <2>1. v \in ValuesOf(what, T)
    BY <1>1, <1>4 DEF ValuesOf
  <2>2. \A w \in ValuesOf(what, T) : ~Tables!Better(what, w, v)
    BY DEF ValuesOf, Best
  <2> QED  BY <1>2, <2>1, <2>2, ExtremeIsOne
<1> QED  BY <1>3, <1>4

\* The best of the best of groups of rows is the best of all rows.
BestsOfGroups(what, R, V) ==
  /\ \A w \in V : \E T \in SUBSET R : Best(what, T, w)
  /\ \A r \in R : \E w \in V : \E T \in SUBSET R : r \in T /\ Best(what, T, w)

\* Wherever the groups are divided, their extreme is the best of all rows.
LEMMA BestOfGroups ==
  ASSUME NEW what, NEW R, Valued(what, R), NEW v, Best(what, R, v), NEW V,
         BestsOfGroups(what, R, V)
  PROVE  Tables!Extreme(what, V \ {None}) = v
<1>1. v \in Value
  BY DEF Best, Valued
<1>2. \A w \in V : w \in Value /\ ~Tables!Better(what, w, v)
  <2> SUFFICES ASSUME NEW w \in V PROVE w \in Value /\ ~Tables!Better(what, w, v)
    OBVIOUS
  <2>1. PICK T \in SUBSET R : Best(what, T, w)
    BY DEF BestsOfGroups
  <2>2. PICK r \in T : w = ValueOf(what, r)
    BY <2>1 DEF Best
  <2> QED  BY <2>2 DEF Best, Valued
<1>3. v \in V
  <2>1. PICK r \in R : v = ValueOf(what, r)
    BY DEF Best
  <2>2. PICK w \in V : \E T \in SUBSET R : r \in T /\ Best(what, T, w)
    BY DEF BestsOfGroups
  <2>3. ~Tables!Better(what, v, w) /\ ~Tables!Better(what, w, v)
    BY <1>2, <2>1, <2>2 DEF Best
  <2>4. w \in Value
    BY <1>2
  <2>5. CASE v = None
    <3>1. w = None
      BY <1>1, <2>3, <2>4, <2>5, BestNotNone
    <3> QED  BY <2>5, <3>1
  <2>6. CASE v # None
    <3>1. w # None
      BY <1>1, <2>3, <2>4, <2>6, BestNotNone
    <3>2. v \in Nat /\ w \in Nat
      BY <1>1, <2>4, <2>6, <3>1 DEF Value
    <3>3. v = w
      BY <2>3, <3>2, BetterOrders, Zenon
    <3> QED  BY <3>3
  <2> QED  BY <2>5, <2>6
<1>4. V \ {None} \subseteq Nat
  BY <1>2 DEF Value
<1>5. CASE v = None
  <2>1. V \ {None} = {}
    BY <1>1, <1>2, <1>5, BestNotNone
  <2> QED  BY <1>5, <2>1 DEF Tables!Extreme
<1>6. CASE v # None
  <2> DEFINE W == V \ {None}
  <2>1. v \in W /\ W \in SUBSET Nat /\ \A w \in W : ~Tables!Better(what, w, v)
    BY <1>2, <1>3, <1>4, <1>6
  <2> HIDE DEF W
  <2>2. Tables!Extreme(what, W) = v
    BY <2>1, ExtremeIsOne
  <2> QED  BY <2>2 DEF W
<1> QED  BY <1>5, <1>6

\* What a library has in the overview.
RowsOfLibrary(rs, id) == {r \in ToSet(rs) : r.library = id}

\* collect has the values of the rows, without None.
LEMMA CollectValues ==
  ASSUME NEW S, RowsTyped(S), NEW items \in Seq(S), NEW what \in Whats
  PROVE  Tables!ToSet(Tables!collect(items, Tables!Compared[what]))
           = ValuesOf(what, ToSet(items))
<1> DEFINE f == Tables!Compared[what]
           T == {r \in ToSet(items) : Tables!Get(r.fields, f) # None}
           there_ == Select(items, T)
           c == [i \in DOMAIN there_ |-> there_[i].fields[f]]
<1>1. Tables!collect(items, f) = c
  BY SameInTables DEF Tables!collect
<1>2. there_ \in Seq(S) /\ ToSet(there_) = ToSet(items) \cap T
  <2> HIDE DEF T
  <2> QED  BY SelectedSet
<1>3. ToSet(there_) = {r \in ToSet(items) : ValueOf(what, r) # None}
  BY <1>2 DEF ValueOf
<1>4. ToSet(items) \subseteq S
  BY ElementsOf
<1>5. \A r \in ToSet(items) : r.fields[f] = ValueOf(what, r)
  BY <1>4, Values DEF RowsTyped
<1> HIDE DEF there_, f, T
<1>6. ToSet(c) = {r.fields[f] : r \in ToSet(there_)}
  BY DEF ToSet
<1>7. ToSet(c) = {ValueOf(what, r) : r \in ToSet(there_)}
  BY <1>3, <1>5, <1>6
<1> HIDE DEF c
<1> QED  BY <1>1, <1>3, <1>7, SameInTables DEF ValuesOf, f

\* A library has in the overview the extreme of its own rows.
LEMMA OverviewBuilt ==
  ASSUME NEW S, RowsTyped(S), NEW rs \in Seq(S),
         NEW overview, overview = Tables!build_library_overview(rs)
  PROVE  /\ DOMAIN overview = DOMAIN Tables!Libraries(rs)
         /\ \A i \in DOMAIN overview, what \in Whats :
              overview[i].best[what]
                = Tables!Extreme(what, ValuesOf(what, RowsOfLibrary(rs, Tables!Libraries(rs)[i])))
<1> DEFINE ls == Tables!Libraries(rs)
           items(id) == Tables!Select(rs, {r \in Tables!ToSet(rs) : r.library = id})
           values(id, what) == Tables!collect(items(id), Tables!Compared[what])
<1>1. DOMAIN overview = DOMAIN ls
  BY DEF Tables!build_library_overview
<1>2. ASSUME NEW i \in DOMAIN overview, NEW what \in Whats
      PROVE  overview[i].best[what] = Tables!Extreme(what, Tables!ToSet(values(ls[i], what)))
  BY <1>1 DEF Tables!build_library_overview, Whats
<1>3. ASSUME NEW id
      PROVE  items(id) \in Seq(S) /\ ToSet(items(id)) = RowsOfLibrary(rs, id)
  <2>1. items(id) = Select(rs, RowsOfLibrary(rs, id))
    BY SameInTables DEF RowsOfLibrary
  <2>2. RowsOfLibrary(rs, id) = ToSet(rs) \cap RowsOfLibrary(rs, id)
    BY DEF RowsOfLibrary
  <2> HIDE DEF items
  <2>3. /\ Select(rs, RowsOfLibrary(rs, id)) \in Seq(S)
        /\ ToSet(Select(rs, RowsOfLibrary(rs, id))) = ToSet(rs) \cap RowsOfLibrary(rs, id)
    BY SelectedSet, Zenon
  <2> QED  BY <2>1, <2>2, <2>3, Zenon
<1> HIDE DEF items
<1>4. ASSUME NEW id, NEW what \in Whats
      PROVE  Tables!ToSet(values(id, what)) = ValuesOf(what, RowsOfLibrary(rs, id))
  BY <1>3, CollectValues
<1> HIDE DEF ls, values
<1> QED  BY <1>1, <1>2, <1>4 DEF ls

\* Some rows have a best value.
LEMMA BestExists ==
  ASSUME NEW S, RowsTyped(S), NEW rs \in Seq(S), NEW what \in Whats, NEW T, T \cap ToSet(rs) # {}
  PROVE  \E v : Best(what, T \cap ToSet(rs), v)
<1> DEFINE items == Select(rs, T)
<1>1. items \in Seq(S) /\ ToSet(items) = ToSet(rs) \cap T
  BY SelectedSet
<1>2. items # <<>>
  BY <1>1, EmptyList
<1>3. \A r \in S : ValueOf(what, r) \in Value
  BY Values DEF RowsTyped
<1> HIDE DEF items
<1>4. /\ Tables!BestRow(what, items) \in ToSet(items)
      /\ \A r \in ToSet(items) :
           ~Tables!Better(what, ValueOf(what, r), ValueOf(what, Tables!BestRow(what, items)))
  BY <1>1, <1>2, <1>3, BestOfAll
<1>5. Best(what, ToSet(items), ValueOf(what, Tables!BestRow(what, items)))
  BY <1>4 DEF Best
<1>6. ToSet(items) = T \cap ToSet(rs)
  BY <1>1
<1> QED  BY <1>5, <1>6

\* The two tables have the same best value: that of all rows.
LEMMA OverviewAgrees ==
  ASSUME NEW S, RowsTyped(S), rows \in Seq(S), best_by_case = Tables!build_best_by_case(rows),
         library_overview = Tables!build_library_overview(rows)
  PROVE  Tables!OverviewMatchesBest
<1> DEFINE A(what) == {best_by_case[i].best[what].value : i \in DOMAIN best_by_case}
           B(what) == {library_overview[i].best[what] : i \in DOMAIN library_overview}
<1> SUFFICES ASSUME NEW what \in Whats
             PROVE  Tables!Extreme(what, A(what) \ {None}) = Tables!Extreme(what, B(what) \ {None})
  BY DEF Tables!OverviewMatchesBest, Whats
<1> DEFINE R == ToSet(rows)
           cs == Tables!Cases(rows)
           ls == Tables!Libraries(rows)
<1>1. R \subseteq S
  BY ElementsOf
<1>2. Valued(what, R)
  BY <1>1, Values DEF Valued, RowsTyped
<1>3. /\ ToSet(cs) = CasesIn(rows) /\ ToSet(ls) = LibrariesIn(rows)
      /\ DOMAIN best_by_case = DOMAIN cs /\ DOMAIN library_overview = DOMAIN ls
  BY Groups, BestBuilt, OverviewBuilt
<1>4. CASE R = {}
  <2>1. ToSet(cs) = {} /\ ToSet(ls) = {}
    BY <1>3, <1>4 DEF CasesIn, LibrariesIn
  <2>2. DOMAIN cs = {} /\ DOMAIN ls = {}
    BY <2>1 DEF ToSet
  <2>3. A(what) = {} /\ B(what) = {}
    BY <1>3, <2>2
  <2> QED  BY <2>3
<1>5. CASE R # {}
  <2>1. PICK v : Best(what, R, v)
    <3>1. R \cap ToSet(rows) = R
      OBVIOUS
    <3> QED  BY <1>5, <3>1, BestExists
  <2>2. ASSUME NEW i \in DOMAIN best_by_case
        PROVE  Best(what, RowsOfCase(rows, cs[i]), best_by_case[i].best[what].value)
    <3>1. PICK row \in RowsOfCase(rows, cs[i]) :
            /\ best_by_case[i].best[what] = [library |-> row.library, value |-> ValueOf(what, row)]
            /\ \A r \in RowsOfCase(rows, cs[i]) :
                 ~Tables!Better(what, ValueOf(what, r), ValueOf(what, row))
      BY BestBuilt
    <3>2. best_by_case[i].best[what].value = ValueOf(what, row)
      BY <3>1
    <3> QED  BY <3>1, <3>2 DEF Best
  <2>3. ASSUME NEW i \in DOMAIN library_overview
        PROVE  Best(what, RowsOfLibrary(rows, ls[i]), library_overview[i].best[what])
    <3> DEFINE T == RowsOfLibrary(rows, ls[i])
    <3>1. T \cap R = T /\ T \subseteq R
      BY DEF RowsOfLibrary
    <3>2. T # {}
      <4>1. ls[i] \in LibrariesIn(rows)
        BY <1>3 DEF ToSet
      <4> QED  BY <4>1 DEF RowsOfLibrary, LibrariesIn
    <3>3. PICK w : Best(what, T, w)
      <4> HIDE DEF T
      <4> QED  BY <3>1, <3>2, BestExists
    <3>4. Valued(what, T)
      BY <1>2, <3>1 DEF Valued
    <3>5. Tables!Extreme(what, ValuesOf(what, T)) = w
      BY <3>3, <3>4, ExtremeIsBest
    <3> QED  BY <3>3, <3>5, OverviewBuilt
  <2>4. ASSUME NEW r \in R
        PROVE  /\ \E i \in DOMAIN best_by_case : r \in RowsOfCase(rows, cs[i])
               /\ \E i \in DOMAIN library_overview : r \in RowsOfLibrary(rows, ls[i])
    <3>1. r.case \in ToSet(cs) /\ r.library \in ToSet(ls)
      BY <1>3 DEF CasesIn, LibrariesIn
    <3>2. PICK i \in DOMAIN cs : cs[i] = r.case
      BY <3>1 DEF ToSet
    <3>3. PICK j \in DOMAIN ls : ls[j] = r.library
      BY <3>1 DEF ToSet
    <3> QED  BY <1>3, <3>2, <3>3 DEF RowsOfCase, RowsOfLibrary
  <2>5. \A k : RowsOfCase(rows, k) \in SUBSET R /\ RowsOfLibrary(rows, k) \in SUBSET R
    BY DEF RowsOfCase, RowsOfLibrary
  <2> HIDE DEF R, cs, ls
  <2>6. Tables!Extreme(what, A(what) \ {None}) = v
    <3>1. \A w \in A(what) : \E T \in SUBSET R : Best(what, T, w)
      BY <2>2, <2>5
    <3>2. \A r \in R : \E w \in A(what) : \E T \in SUBSET R : r \in T /\ Best(what, T, w)
      BY <2>2, <2>4, <2>5
    <3>3. BestsOfGroups(what, R, A(what))
      BY <3>1, <3>2 DEF BestsOfGroups
    <3> HIDE DEF A
    <3> QED  BY <1>2, <2>1, <3>3, BestOfGroups
  <2>7. Tables!Extreme(what, B(what) \ {None}) = v
    <3>1. \A w \in B(what) : \E T \in SUBSET R : Best(what, T, w)
      BY <2>3, <2>5
    <3>2. \A r \in R : \E w \in B(what) : \E T \in SUBSET R : r \in T /\ Best(what, T, w)
      BY <2>3, <2>4, <2>5
    <3>3. BestsOfGroups(what, R, B(what))
      BY <3>1, <3>2 DEF BestsOfGroups
    <3> HIDE DEF B
    <3> QED  BY <1>2, <2>1, <3>3, BestOfGroups
  <2> QED  BY <2>6, <2>7
<1> QED  BY <1>4, <1>5

-----------------------------------------------------------------------------
(* build_master_summary.py: a plot, the list of plots, and each row in them. *)

\* The values that a plot shows of a library at a tick.
Shown(plot, id, tick) ==
  {p[2] : p \in {q \in plot.curves[id] : plot.ticks[q[1]] = tick}}

\* No other case of the rows has the label of r's.
OwnLabel(label, selected, r) ==
  \A k \in CasesIn(selected) : label[k] = label[r.case] => k = r.case

Among(selected, rs, S) == selected \in Seq(S) /\ ToSet(selected) \subseteq ToSet(rs)

\* A row stands at the tick of its label, if this is its own.
LEMMA PlotShows ==
  ASSUME NEW S, RowsTyped(S), rows \in Seq(S), NEW selected, Among(selected, rows, S),
         NEW r \in ToSet(selected), NEW f \in RowFields, NEW label,
         OwnLabel(label, selected, r)
  PROVE  Shown(Tables!PlotOf(selected, label, f), r.library, label[r.case]) = {r.fields[f]} \ {None}
<1> DEFINE cs == Tables!Cases(selected)
           L == {label[k] : k \in CasesIn(selected)}
           labels == [i \in DOMAIN cs |-> label[cs[i]]]
           first == Tables!Keys(labels)
           M(id, tick) == {q \in Tables!ToSet(selected) : q.library = id /\ label[q.case] = tick}
           match(id, tick) == Tables!Select(selected, M(id, tick))
           at(id, tick) == IF match(id, tick) = <<>> THEN None
                           ELSE Tables!Get(match(id, tick)[1].fields, f)
           y == [i \in DOMAIN first |-> at(r.library, first[i])]
           plot == Tables!PlotOf(selected, label, f)
<1>1. selected \in Seq(S) /\ ToSet(selected) \subseteq ToSet(rows)
  BY DEF Among
<1>2. /\ plot.ticks = first
      /\ plot.curves = [id \in Tables!ToSet(Tables!Libraries(rows)) |->
                         Tables!Points([i \in DOMAIN first |-> at(id, first[i])])]
  BY DEF Tables!PlotOf
<1>3. r \in S /\ r \in ToSet(rows) /\ r.case \in CasesIn(selected) /\ ToSet(selected) \subseteq S
  BY <1>1, ElementsOf DEF CasesIn
<1>4. r.library \in Tables!ToSet(Tables!Libraries(rows))
  BY <1>3, Groups, SameInTables DEF LibrariesIn
<1>5. plot.curves[r.library] = Tables!Points(y)
  BY <1>2, <1>4
<1>6. labels \in Seq(L) /\ ToSet(labels) = L
  <2>1. /\ cs \in Seq(CasesIn(selected)) /\ ToSet(cs) = CasesIn(selected)
        /\ Len(cs) \in Nat /\ DOMAIN cs = 1 .. Len(cs)
    BY <1>1, Groups, ElementsOf
  <2> HIDE DEF cs
  <2>2. \A i \in 1 .. Len(cs) : cs[i] \in CasesIn(selected)
    BY <2>1, ElementOfSeq
  <2>3. labels \in [1 .. Len(cs) -> L]
    BY <2>1, <2>2
  <2> HIDE DEF L
  <2>4. labels \in Seq(L)
    BY <2>1, <2>3, Listed
  <2>5. CasesIn(selected) = {cs[i] : i \in DOMAIN cs}
    BY <2>1 DEF ToSet
  <2>6. ToSet(labels) = {label[cs[i]] : i \in DOMAIN cs}
    BY DEF ToSet
  <2>7. ToSet(labels) = L
    BY <2>5, <2>6 DEF L
  <2> QED  BY <2>4, <2>7
<1> HIDE DEF labels, cs, plot
<1>7. first \in Seq(L) /\ ToSet(first) = L /\ Chain(first, Unlike(L))
  <2> HIDE DEF L
  <2> QED  BY <1>6, KeysOnce, SameInTables
<1> HIDE DEF first
<1>8. /\ Len(first) \in Nat /\ DOMAIN first = 1 .. Len(first)
      /\ \A i, j \in DOMAIN first : first[i] = first[j] => i = j
  <2>1. Len(first) \in Nat /\ DOMAIN first = 1 .. Len(first)
    BY <1>7, ElementsOf
  <2>2. \A i, j \in 1 .. Len(first) : i < j => first[i] # first[j]
    BY <1>7 DEF Chain, Unlike
  <2> QED  BY <2>1, <2>2
<1>9. PICK j \in DOMAIN first : first[j] = label[r.case]
  <2>1. label[r.case] \in ToSet(first)
    BY <1>3, <1>7
  <2> QED  BY <2>1 DEF ToSet
<1>10. at(r.library, first[j]) = r.fields[f]
  <2> DEFINE m == match(r.library, first[j])
  <2>1. M(r.library, first[j]) = {r}
    <3>1. \A q \in ToSet(selected) : q.library = r.library /\ label[q.case] = first[j] => q = r
      <4> SUFFICES ASSUME NEW q \in ToSet(selected), q.library = r.library, label[q.case] = first[j]
                   PROVE  q = r
        OBVIOUS
      <4>1. q.case \in CasesIn(selected)
        BY DEF CasesIn
      <4>2. q.case = r.case
        BY <1>9, <4>1 DEF OwnLabel
      <4> QED  BY <1>3, <4>2 DEF RowsTyped
    <3> QED  BY <1>9, <3>1, SameInTables
  <2>2. m \in Seq(S) /\ ToSet(m) = {r}
    <3>1. ToSet(selected) \cap {r} = {r}
      OBVIOUS
    <3> HIDE DEF M
    <3>2. m = Select(selected, {r})
      BY <2>1, SameInTables
    <3> QED  BY <1>1, <3>1, <3>2, SelectedSet
  <2>3. m # <<>> /\ m[1] = r
    <3> HIDE DEF m
    <3>1. Len(m) \in Nat /\ DOMAIN m = 1 .. Len(m) /\ m # <<>>
      BY <2>2, ElementsOf, EmptyList
    <3>2. 1 \in DOMAIN m
      BY <2>2, <3>1, EmptySeq
    <3> QED  BY <2>2, <3>1, <3>2 DEF ToSet
  <2>4. Tables!Get(r.fields, f) = r.fields[f]
    BY <1>3 DEF RowsTyped, Tables!Get
  <2> HIDE DEF match
  <2> QED  BY <2>3, <2>4
<1> HIDE DEF at
<1>11. DOMAIN y = DOMAIN first /\ y[j] = r.fields[f]
  BY <1>10
<1> HIDE DEF y
<1>12. Shown(plot, r.library, label[r.case])
         = {p[2] : p \in {q \in Tables!Points(y) : first[q[1]] = label[r.case]}}
  BY <1>2, <1>5 DEF Shown
<1>13. \A q \in Tables!Points(y) : first[q[1]] = label[r.case] => q = <<j, r.fields[f]>>
  BY <1>8, <1>9, <1>11 DEF Tables!Points
<1>14. <<j, r.fields[f]>> \in Tables!Points(y) <=> r.fields[f] # None
  BY <1>11 DEF Tables!Points
<1>15. CASE r.fields[f] = None
  <2>1. {q \in Tables!Points(y) : first[q[1]] = label[r.case]} = {}
    BY <1>13, <1>14, <1>15
  <2> QED  BY <1>12, <1>15, <2>1 DEF plot
<1>16. CASE r.fields[f] # None
  <2> DEFINE v == r.fields[f]
             P == {q \in Tables!Points(y) : first[q[1]] = label[r.case]}
  <2>1. <<j, v>> \in P
    BY <1>9, <1>14, <1>16
  <2>2. P = {<<j, v>>}
    BY <1>13, <2>1
  <2>3. Shown(plot, r.library, label[r.case]) = {p[2] : p \in P}
    BY <1>12
  <2> HIDE DEF P
  <2>4. {p[2] : p \in P} = {v}
    BY <2>2
  <2> QED  BY <1>16, <2>3, <2>4 DEF plot
<1> QED  BY <1>15, <1>16

Metrics == ToSet(Tables!metric_specs)
Kinds == {"all", "compiler", "threads"}
PlotGroups == {"cases"} \cup STRING \cup Nat
Plots == Kinds \X PlotGroups \X Metrics

\* The plots of each metric, of one kind and one value.
Each(kind, value) ==
  [i \in DOMAIN Tables!metric_specs |-> <<kind, value, Tables!metric_specs[i]>>]

\* The metrics are seven fields that every row has.
LEMMA MetricFields ==
  /\ Tables!metric_specs \in Seq(Metrics) /\ Metrics \subseteq RowFields
  /\ Len(Tables!metric_specs) = 7 /\ DOMAIN Tables!metric_specs = 1 .. 7
<1>1. Len(Tables!metric_specs) = 7 /\ DOMAIN Tables!metric_specs = 1 .. 7
  BY DEF Tables!metric_specs
<1>2. \A i \in 1 .. 7 : Tables!metric_specs[i] \in RowFields
  BY DEF Tables!metric_specs, RowFields, Tables!STAT_PREFIXES, Tables!STAT_KEYS
<1>3. Metrics \subseteq RowFields
  BY <1>1, <1>2 DEF Metrics, ToSet
<1>4. Tables!metric_specs \in [1 .. 7 -> Metrics]
  BY <1>1 DEF Metrics, ToSet, Tables!metric_specs
<1>5. Tables!metric_specs \in Seq(Metrics)
  BY <1>4, Listed
<1> QED  BY <1>1, <1>3, <1>5

\* These are seven plots, one of each metric.
LEMMA EachMetric ==
  ASSUME NEW kind \in Kinds, NEW value \in PlotGroups
  PROVE  /\ Each(kind, value) \in Seq(Plots) /\ Len(Each(kind, value)) = 7
         /\ \A f \in Metrics : <<kind, value, f>> \in ToSet(Each(kind, value))
<1>1. /\ DOMAIN Tables!metric_specs = 1 .. 7
      /\ \A i \in 1 .. 7 : Tables!metric_specs[i] \in Metrics
      /\ \A f \in Metrics : \E i \in 1 .. 7 : f = Tables!metric_specs[i]
  BY MetricFields DEF Metrics, ToSet
<1>2. Each(kind, value) \in [1 .. 7 -> Plots]
  BY <1>1 DEF Each, Plots
<1>3. Each(kind, value) \in Seq(Plots) /\ Len(Each(kind, value)) = 7
  BY <1>2, Listed
<1>4. DOMAIN Each(kind, value) = 1 .. 7
      /\ \A i \in 1 .. 7 : Each(kind, value)[i] = <<kind, value, Tables!metric_specs[i]>>
  BY <1>1 DEF Each
<1>5. ASSUME NEW f \in Metrics PROVE <<kind, value, f>> \in ToSet(Each(kind, value))
  <2>1. PICK i \in 1 .. 7 : f = Tables!metric_specs[i]
    BY <1>1
  <2>2. Each(kind, value)[i] = <<kind, value, f>>
    BY <1>4, <2>1
  <2> QED  BY <1>4, <2>2 DEF ToSet
<1> QED  BY <1>3, <1>5

\* The plots of all values of a kind, seven for each.
LEMMA EachValue ==
  ASSUME NEW kind \in Kinds, NEW T \in SUBSET PlotGroups, NEW s \in Seq(T),
         NEW all, all = FlattenSeq([i \in DOMAIN s |-> Each(kind, s[i])])
  PROVE  /\ all \in Seq(Plots) /\ Len(all) = Len(s) * 7
         /\ \A value \in ToSet(s), f \in Metrics : <<kind, value, f>> \in ToSet(all)
<1> DEFINE m == Len(s)
           ss == [i \in DOMAIN s |-> Each(kind, s[i])]
<1>1. m \in Nat /\ DOMAIN s = 1 .. m /\ \A i \in 1 .. m : s[i] \in PlotGroups
  BY ElementsOf, ElementOfSeq
<1>2. \A i \in 1 .. m : ss[i] = Each(kind, s[i])
  BY <1>1
<1>3. \A i \in 1 .. m : Each(kind, s[i]) \in Seq(Plots) /\ Len(Each(kind, s[i])) = 7
  BY <1>1, EachMetric
<1>4. ss \in [1 .. m -> Seq(Plots)] /\ \A i \in 1 .. m : Len(ss[i]) = 7
  BY <1>1, <1>3
<1> HIDE DEF ss, m
<1>5. Len(FlattenSeq(ss)) = m * 7
  <2>1. 7 \in Nat /\ m \in Nat /\ ss \in [1 .. m -> Seq(Plots)]
    BY <1>1, <1>4
  <2> QED  BY <1>4, <2>1, LengthOfJoined
<1>6. HasFirst(FlattenSeq(ss), Plots, ss, m, Plots \X Plots)
  <2>1. \A i \in 1 .. m : Chain(ss[i], Plots \X Plots) /\ ToSet(ss[i]) \subseteq Plots
    BY <1>4, ListOf, ElementsOf
  <2>2. \A i, j \in 1 .. m : i < j => Before(ss[i], ss[j], Plots \X Plots)
    BY <2>1 DEF Before
  <2> QED  BY <1>1, <1>4, <2>1, <2>2, Flattened
<1>7. all = FlattenSeq(ss)
  BY DEF ss
<1>8. ASSUME NEW value \in ToSet(s), NEW f \in Metrics PROVE <<kind, value, f>> \in ToSet(all)
  <2>1. PICK i \in 1 .. m : value = s[i]
    BY <1>1 DEF ToSet
  <2>2. <<kind, s[i], f>> \in ToSet(Each(kind, s[i]))
    BY <1>1, EachMetric
  <2> QED  BY <1>2, <1>6, <1>7, <2>1, <2>2 DEF HasFirst
<1> QED  BY <1>5, <1>6, <1>7, <1>8 DEF HasFirst, m

\* The compilers and numbers of threads of all rows are listed.
LEMMA CompilersAndThreads ==
  ASSUME NEW S, RowsTyped(S), rows \in Seq(S)
  PROVE  /\ Tables!Compilers \in Seq(STRING) /\ Tables!Threads \in Seq(Nat)
         /\ \A r \in ToSet(rows) : /\ r.case[1] \in ToSet(Tables!Compilers)
                                   /\ r.case[2] \in ToSet(Tables!Threads)
<1>1. /\ Len(rows) \in Nat /\ DOMAIN rows = 1 .. Len(rows)
      /\ ToSet(rows) = {rows[i] : i \in 1 .. Len(rows)} /\ ToSet(rows) \subseteq S
  BY ElementsOf
<1>2. \A r \in ToSet(rows) : r.case \in ToSet(NameOrder) \X Nat \X Nat
  BY <1>1 DEF RowsTyped
<1>3. NameOrder \in Seq(STRING)
  BY TablesAssumption
<1> DEFINE C == {r.case[1] : r \in ToSet(rows)}
           keys == [i \in DOMAIN rows |-> rows[i].case[2]]
<1>4. Tables!Compilers \in Seq(STRING) /\ ToSet(Tables!Compilers) = ToSet(NameOrder) \cap C
  <2>1. Tables!Compilers = Select(NameOrder, C)
    BY SameInTables DEF Tables!Compilers
  <2> HIDE DEF C
  <2> QED  BY <1>3, <2>1, SelectedSet
<1>5. \A r \in ToSet(rows) : r.case[1] \in ToSet(Tables!Compilers)
  BY <1>2, <1>4
<1>6. keys \in Seq(Nat) /\ \A r \in ToSet(rows) : r.case[2] \in ToSet(keys)
  <2>1. \A i \in 1 .. Len(rows) : rows[i].case[2] \in Nat
    BY <1>1, <1>2
  <2>2. keys \in [1 .. Len(rows) -> Nat]
    BY <1>1, <2>1
  <2>3. keys \in Seq(Nat) /\ DOMAIN keys = 1 .. Len(rows)
    BY <1>1, <2>2, Listed
  <2>4. \A i \in 1 .. Len(rows) : keys[i] = rows[i].case[2]
    BY <1>1
  <2> HIDE DEF keys
  <2> QED  BY <1>1, <2>3, <2>4 DEF ToSet
<1>7. \E R : Tables!Threads = SortedBy(Keys(keys), R)
  BY SameInTables DEF Tables!Threads
<1> HIDE DEF keys
<1>8. Tables!Threads \in Seq(Nat) /\ ToSet(Tables!Threads) = ToSet(keys)
  <2>1. Keys(keys) \in Seq(Nat) /\ ToSet(Keys(keys)) = ToSet(keys)
    BY <1>6, KeysOnce
  <2> QED  BY <1>7, <2>1, Sorting
<1> QED  BY <1>4, <1>5, <1>6, <1>8

\* The plots are all those of the rows, and as many as there should be.
LEMMA GeneratedPlots ==
  ASSUME NEW S, RowsTyped(S), rows \in Seq(S)
  PROVE  /\ Tables!generated \in Seq(Plots)
         /\ Len(Tables!generated) = 7 * (1 + Len(Tables!Compilers) + Len(Tables!Threads))
         /\ \A f \in Metrics :
              /\ <<"all", "cases", f>> \in ToSet(Tables!generated)
              /\ \A r \in ToSet(rows) :
                   /\ <<"compiler", r.case[1], f>> \in ToSet(Tables!generated)
                   /\ <<"threads", r.case[2], f>> \in ToSet(Tables!generated)
<1> DEFINE c == Tables!Compilers
           t == Tables!Threads
           all == Each("all", "cases")
           byCompiler == FlattenSeq([i \in DOMAIN c |-> Each("compiler", c[i])])
           byThreads == FlattenSeq([i \in DOMAIN t |-> Each("threads", t[i])])
<1>1. Tables!generated = all \o byCompiler \o byThreads
  BY SameInTables DEF Tables!generated, Each
<1>2. /\ c \in Seq(STRING) /\ t \in Seq(Nat)
      /\ \A r \in ToSet(rows) : r.case[1] \in ToSet(c) /\ r.case[2] \in ToSet(t)
  BY CompilersAndThreads
<1> HIDE DEF c, t
<1>3. /\ all \in Seq(Plots) /\ Len(all) = 7
      /\ \A f \in Metrics : <<"all", "cases", f>> \in ToSet(all)
  <2>1. "all" \in Kinds /\ "cases" \in PlotGroups
    BY DEF Kinds, PlotGroups
  <2> QED  BY <2>1, EachMetric
<1>4. /\ byCompiler \in Seq(Plots) /\ Len(byCompiler) = Len(c) * 7
      /\ \A value \in ToSet(c), f \in Metrics : <<"compiler", value, f>> \in ToSet(byCompiler)
  <2>1. "compiler" \in Kinds /\ STRING \in SUBSET PlotGroups
    BY DEF Kinds, PlotGroups
  <2> QED  BY <1>2, <2>1, EachValue
<1>5. /\ byThreads \in Seq(Plots) /\ Len(byThreads) = Len(t) * 7
      /\ \A value \in ToSet(t), f \in Metrics : <<"threads", value, f>> \in ToSet(byThreads)
  <2>1. "threads" \in Kinds /\ Nat \in SUBSET PlotGroups
    BY DEF Kinds, PlotGroups
  <2> QED  BY <1>2, <2>1, EachValue
<1> HIDE DEF all, byCompiler, byThreads
<1>6. \A p, q \in Seq(Plots) : /\ p \o q \in Seq(Plots) /\ Len(p \o q) = Len(p) + Len(q)
                               /\ ToSet(p \o q) = ToSet(p) \cup ToSet(q)
  BY SetOfConcat, ConcatProperties
<1>7. /\ all \o byCompiler \in Seq(Plots) /\ Len(all \o byCompiler) = 7 + Len(c) * 7
      /\ ToSet(all \o byCompiler) = ToSet(all) \cup ToSet(byCompiler)
  BY <1>3, <1>4, <1>6
<1>8. /\ Tables!generated \in Seq(Plots)
      /\ Len(Tables!generated) = 7 + Len(c) * 7 + Len(t) * 7
      /\ ToSet(Tables!generated) = ToSet(all) \cup ToSet(byCompiler) \cup ToSet(byThreads)
  BY <1>1, <1>5, <1>6, <1>7
<1>9. Len(c) \in Nat /\ Len(t) \in Nat
  BY <1>2, LenProperties
<1>10. Len(Tables!generated) = 7 * (1 + Len(c) + Len(t))
  BY <1>8, <1>9
<1>11. ASSUME NEW f \in Metrics
       PROVE  /\ <<"all", "cases", f>> \in ToSet(Tables!generated)
              /\ \A r \in ToSet(rows) :
                   /\ <<"compiler", r.case[1], f>> \in ToSet(Tables!generated)
                   /\ <<"threads", r.case[2], f>> \in ToSet(Tables!generated)
  BY <1>2, <1>3, <1>4, <1>5, <1>8
<1> QED  BY <1>8, <1>10, <1>11 DEF c, t

\* Each listed plot is the one of its kind, value and metric.
LEMMA PlotsMade ==
  ASSUME plots = Tables!generate_global_comparison_plots, NEW kind, NEW value, NEW f,
         <<kind, value, f>> \in ToSet(Tables!generated)
  PROVE  /\ kind = "all" =>
              plots[<<kind, value, f>>] = Tables!plot_metric_grouped_by_case(f)
         /\ kind = "compiler" =>
              plots[<<kind, value, f>>] = Tables!plot_metric_by_compiler(value, f)
         /\ kind = "threads" =>
              plots[<<kind, value, f>>] = Tables!plot_metric_by_server_threads(value, f)
<1> DEFINE p == <<kind, value, f>>
<1>1. p \in Tables!ToSet(Tables!generated)
  BY SameInTables
<1>2. p[1] = kind /\ p[2] = value /\ p[3] = f
  OBVIOUS
<1>3. plots[p] = CASE p[1] = "all" -> Tables!plot_metric_grouped_by_case(p[3])
                   [] p[1] = "compiler" -> Tables!plot_metric_by_compiler(p[2], p[3])
                   [] p[1] = "threads" -> Tables!plot_metric_by_server_threads(p[2], p[3])
  BY <1>1 DEF Tables!generate_global_comparison_plots
<1> HIDE DEF p
<1> QED  BY <1>2, <1>3 DEF p

\* Each row is in its three plots at its own tick.
LEMMA PlotsRight ==
  ASSUME NEW S, RowsTyped(S), rows \in Seq(S), plots = Tables!generate_global_comparison_plots
  PROVE  Tables!PlotsAgree
<1> SUFFICES ASSUME NEW i \in DOMAIN rows, NEW f \in Metrics
             PROVE  LET r == rows[i]
                        value == {r.fields[f]} \ {None}
                        shown(plot, tick) == Shown(plot, r.library, tick)
                    IN  /\ shown(plots[<<"all", "cases", f>>], r.case) = value
                        /\ shown(plots[<<"compiler", r.case[1], f>>],
                                 <<r.case[2], r.case[3]>>) = value
                        /\ shown(plots[<<"threads", r.case[2], f>>],
                                 <<r.case[1], r.case[3]>>) = value
  BY SameInTables DEF Tables!PlotsAgree, Shown, Metrics
<1> DEFINE r == rows[i]
           ks == Tables!ToSet(Tables!Cases(rows))
<1>1. /\ r \in S /\ r \in ToSet(rows) /\ ToSet(rows) \subseteq S
  BY ElementsOf, ElementOfSeq DEF ToSet
<1>2. \A k \in CasesIn(rows) : k \in ks /\ k \in ToSet(NameOrder) \X Nat \X Nat
  <2>1. ks = CasesIn(rows)
    BY Groups, SameInTables
  <2> QED  BY <1>1, <2>1 DEF CasesIn, RowsTyped
<1>3. f \in RowFields
  BY MetricFields
<1>4. /\ <<"all", "cases", f>> \in ToSet(Tables!generated)
      /\ <<"compiler", r.case[1], f>> \in ToSet(Tables!generated)
      /\ <<"threads", r.case[2], f>> \in ToSet(Tables!generated)
  BY <1>1, GeneratedPlots
<1>5. r.case \in ks /\ r.case \in CasesIn(rows)
  BY <1>1, <1>2 DEF CasesIn
<1> HIDE DEF ks, r
<1>6. Shown(plots[<<"all", "cases", f>>], r.library, r.case) = {r.fields[f]} \ {None}
  <2> DEFINE label == [k \in ks |-> k]
  <2>1. \A k \in CasesIn(rows) : label[k] = k
    BY <1>2
  <2>2. label[r.case] = r.case
    BY <1>5
  <2>3. plots[<<"all", "cases", f>>] = Tables!PlotOf(rows, label, f)
    BY <1>4, PlotsMade DEF Tables!plot_metric_grouped_by_case, ks
  <2> HIDE DEF label
  <2>4. OwnLabel(label, rows, r)
    BY <2>1, <2>2 DEF OwnLabel
  <2>5. Shown(Tables!PlotOf(rows, label, f), r.library, label[r.case]) = {r.fields[f]} \ {None}
    <3>1. Among(rows, rows, S)
      BY DEF Among
    <3>2. ASSUME NEW l, OwnLabel(l, rows, r)
          PROVE  Shown(Tables!PlotOf(rows, l, f), r.library, l[r.case]) = {r.fields[f]} \ {None}
      BY <1>1, <1>3, <3>1, <3>2, PlotShows, SMTT(30)
    <3> QED  BY <2>4, <3>2, ZenonT(40)
  <2> QED  BY <2>2, <2>3, <2>5
<1>7. Shown(plots[<<"compiler", r.case[1], f>>], r.library, <<r.case[2], r.case[3]>>)
        = {r.fields[f]} \ {None}
  <2> DEFINE label == [k \in ks |-> <<k[2], k[3]>>]
             T == {q \in Tables!ToSet(rows) : q.case[1] = r.case[1]}
             selected == Tables!Select(rows, T)
  <2>1. \A k \in CasesIn(rows) : label[k] = <<k[2], k[3]>>
    BY <1>2
  <2>2. label[r.case] = <<r.case[2], r.case[3]>>
    BY <1>5
  <2>3. plots[<<"compiler", r.case[1], f>>] = Tables!PlotOf(selected, label, f)
    BY <1>4, PlotsMade DEF Tables!plot_metric_by_compiler, ks
  <2>4. selected \in Seq(S) /\ ToSet(selected) = ToSet(rows) \cap T
    <3> HIDE DEF T
    <3> QED  BY SelectedSet, SameInTables
  <2>5. r \in ToSet(selected) /\ ToSet(selected) \subseteq ToSet(rows)
    BY <1>1, <2>4, SameInTables
  <2>6. \A k \in CasesIn(selected) : k \in CasesIn(rows) /\ k[1] = r.case[1]
    BY <2>4 DEF CasesIn
  <2> HIDE DEF label, selected, T
  <2>7. OwnLabel(label, selected, r)
    BY <1>2, <1>5, <2>1, <2>2, <2>6 DEF OwnLabel
  <2>8. Shown(Tables!PlotOf(selected, label, f), r.library, label[r.case]) = {r.fields[f]} \ {None}
    <3>1. Among(selected, rows, S)
      BY <2>4, <2>5 DEF Among
    <3> QED  BY <1>3, <2>5, <2>7, <3>1, PlotShows
  <2> QED  BY <2>2, <2>3, <2>8
<1>8. Shown(plots[<<"threads", r.case[2], f>>], r.library, <<r.case[1], r.case[3]>>)
        = {r.fields[f]} \ {None}
  <2> DEFINE label == [k \in ks |-> <<k[1], k[3]>>]
             T == {q \in Tables!ToSet(rows) : q.case[2] = r.case[2]}
             selected == Tables!Select(rows, T)
  <2>1. \A k \in CasesIn(rows) : label[k] = <<k[1], k[3]>>
    BY <1>2
  <2>2. label[r.case] = <<r.case[1], r.case[3]>>
    BY <1>5
  <2>3. plots[<<"threads", r.case[2], f>>] = Tables!PlotOf(selected, label, f)
    BY <1>4, PlotsMade DEF Tables!plot_metric_by_server_threads, ks
  <2>4. selected \in Seq(S) /\ ToSet(selected) = ToSet(rows) \cap T
    <3> HIDE DEF T
    <3> QED  BY SelectedSet, SameInTables
  <2>5. r \in ToSet(selected) /\ ToSet(selected) \subseteq ToSet(rows)
    BY <1>1, <2>4, SameInTables
  <2>6. \A k \in CasesIn(selected) : k \in CasesIn(rows) /\ k[2] = r.case[2]
    BY <2>4 DEF CasesIn
  <2> HIDE DEF label, selected, T
  <2>7. OwnLabel(label, selected, r)
    BY <1>2, <1>5, <2>1, <2>2, <2>6 DEF OwnLabel
  <2>8. Shown(Tables!PlotOf(selected, label, f), r.library, label[r.case]) = {r.fields[f]} \ {None}
    <3>1. Among(selected, rows, S)
      BY <2>4, <2>5 DEF Among
    <3> QED  BY <1>3, <2>5, <2>7, <3>1, PlotShows
  <2> QED  BY <2>2, <2>3, <2>8
<1> QED  BY <1>6, <1>7, <1>8 DEF r

-----------------------------------------------------------------------------
(* build_master_summary.py: the report has all of the tables and plots.     *)

Titles == {"Library overview", "Best library by case", "plot"}

\* MasterSummary has the operators of pages under names of its own.
LEMMA SamePages ==
  /\ \A title, list, size : Tables!TablePages(title, list, size) = TablePages(title, list, size)
  /\ \A title, list, S : Tables!ImagePages(title, list, S) = ImagePages(title, list, S)
  /\ \A ps, title : Tables!RowsUnder(ps, title) = FlattenSeq(Under(ps, title))
<1>1. \A S : Tables!Min(S) = Min(S)
  BY DEF Tables!Min, Min
<1>2. \A n, size : Tables!Parts(n, size) = Parts(n, size)
  BY DEF Tables!Parts, Parts
<1>3. ASSUME NEW title, NEW list, NEW size
      PROVE  Tables!TablePages(title, list, size) = TablePages(title, list, size)
  <2> DEFINE at == [i \in DOMAIN list |-> i]
             starts == Select(at, Parts(Len(list), size))
  <2>1. Tables!Select(at, Tables!Parts(Len(list), size)) = starts
    BY <1>2, SameInTables
  <2>2. TablePages(title, list, size) = [p \in DOMAIN starts |->
          [title |-> title,
           rows |-> SubSeq(list, starts[p], Min({starts[p] + size - 1, Len(list)}))]]
    BY DEF TablePages
  <2>3. Tables!TablePages(title, list, size) = [p \in DOMAIN starts |->
          [title |-> title,
           rows |-> SubSeq(list, starts[p], Tables!Min({starts[p] + size - 1, Len(list)}))]]
    BY <2>1 DEF Tables!TablePages
  <2> HIDE DEF starts
  <2> QED  BY <1>1, <2>2, <2>3
<1>4. \A title, list, S : Tables!ImagePages(title, list, S) = ImagePages(title, list, S)
  BY SameInTables DEF Tables!ImagePages, ImagePages
<1>5. \A ps, title : Tables!RowsUnder(ps, title) = FlattenSeq(Under(ps, title))
  BY SameInTables DEF Tables!RowsUnder, Under
<1> QED  BY <1>3, <1>4, <1>5

\* Under each of the three titles stands all that belongs there.
LEMMA ReportRight ==
  ASSUME NEW S, RowsTyped(S), rows \in Seq(S), Built, Reported
  PROVE  Tables!ReportHasAll
<1> DEFINE U == ToSet(library_overview) \cup ToSet(best_by_case) \cup Plots
           a == Tables!TablePages("Library overview", library_overview, CHUNK_SIZE)
           b == Tables!TablePages("Best library by case", best_by_case, CHUNK_SIZE)
           c == Tables!ImagePages("plot", Tables!generated, DOMAIN plots)
<1>1. pages = a \o b \o c
  BY DEF Reported, Tables!generate_global_pdf_report
<1>2. /\ Tables!generated \in Seq(Plots)
      /\ Len(Tables!generated) = 7 * (1 + Len(Tables!Compilers) + Len(Tables!Threads))
  BY GeneratedPlots
<1>3. library_overview \in Seq(U) /\ best_by_case \in Seq(U) /\ Tables!generated \in Seq(U)
  <2>1. /\ DOMAIN best_by_case = DOMAIN Tables!Cases(rows)
        /\ DOMAIN library_overview = DOMAIN Tables!Libraries(rows)
    BY BestBuilt, OverviewBuilt DEF Built
  <2>2. \E m, n \in Nat : DOMAIN best_by_case = 1 .. m /\ DOMAIN library_overview = 1 .. n
    <3>1. /\ Tables!Cases(rows) \in Seq(CasesIn(rows))
          /\ Tables!Libraries(rows) \in Seq(LibrariesIn(rows))
      BY Groups
    <3>2. /\ DOMAIN Tables!Cases(rows) = 1 .. Len(Tables!Cases(rows))
          /\ DOMAIN Tables!Libraries(rows) = 1 .. Len(Tables!Libraries(rows))
          /\ Len(Tables!Cases(rows)) \in Nat /\ Len(Tables!Libraries(rows)) \in Nat
      BY <3>1, ElementsOf
    <3> QED  BY <2>1, <3>2
  <2>3. /\ best_by_case = [i \in DOMAIN best_by_case |-> best_by_case[i]]
        /\ library_overview = [i \in DOMAIN library_overview |-> library_overview[i]]
    BY DEF Built, Tables!build_best_by_case, Tables!build_library_overview
  <2>4. /\ \A i \in DOMAIN best_by_case : best_by_case[i] \in U
        /\ \A i \in DOMAIN library_overview : library_overview[i] \in U
    BY DEF ToSet
  <2> HIDE DEF U
  <2>5. best_by_case \in Seq(U) /\ library_overview \in Seq(U)
    <3>1. PICK m \in Nat : DOMAIN best_by_case = 1 .. m
      BY <2>2
    <3>2. PICK n \in Nat : DOMAIN library_overview = 1 .. n
      BY <2>2
    <3>3. best_by_case \in [1 .. m -> U] /\ library_overview \in [1 .. n -> U]
      BY <2>3, <2>4, <3>1, <3>2
    <3> QED  BY <3>3, Listed
  <2>6. Tables!generated \in Seq(U)
    <3>1. \A i \in 1 .. Len(Tables!generated) : Tables!generated[i] \in U
      BY <1>2, ElementOfSeq DEF U
    <3>2. Tables!generated \in [1 .. Len(Tables!generated) -> U] /\ Len(Tables!generated) \in Nat
      BY <1>2, <3>1, LenProperties
    <3> QED  BY <3>2, Listed
  <2> QED  BY <2>5, <2>6
<1>4. DOMAIN plots = ToSet(Tables!generated)
  BY SameInTables DEF Reported, Tables!generate_global_comparison_plots
<1>5. CHUNK_SIZE \in Nat \ {0}
  BY GlobalResultsAssumption
<1> HIDE DEF U
<1>6. /\ HaveAll(a, "Library overview", library_overview, U)
      /\ HaveAll(b, "Best library by case", best_by_case, U)
  BY <1>3, <1>5, OnPages, SamePages
<1>7. HaveAll(c, "plot", Tables!generated, U)
  <2>1. Select(Tables!generated, DOMAIN plots) = Tables!generated
    BY <1>3, <1>4, SelectAll
  <2> QED  BY <1>3, <2>1, ImagesOn, SamePages
<1> HIDE DEF a, b, c
<1>8. ASSUME NEW title
      PROVE  /\ a \in Seq(Page(Titles, U)) /\ b \in Seq(Page(Titles, U)) /\ c \in Seq(Page(Titles, U))
             /\ FlattenSeq(Under(a, title))
                  = IF title = "Library overview" THEN library_overview ELSE <<>>
             /\ FlattenSeq(Under(b, title))
                  = IF title = "Best library by case" THEN best_by_case ELSE <<>>
             /\ FlattenSeq(Under(c, title)) = IF title = "plot" THEN Tables!generated ELSE <<>>
  <2>1. "Library overview" \in Titles /\ "Best library by case" \in Titles /\ "plot" \in Titles
    BY DEF Titles
  <2>2. ASSUME NEW t \in Titles, NEW list, NEW ps, HaveAll(ps, t, list, U)
        PROVE  /\ ps \in Seq(Page(Titles, U))
               /\ FlattenSeq(Under(ps, title)) = IF title = t THEN list ELSE <<>>
    BY <2>2, UnderSame
  <2> QED  BY <1>6, <1>7, <2>1, <2>2, Zenon
<1>9. ASSUME NEW title
      PROVE  Tables!RowsUnder(pages, title)
               = FlattenSeq(Under(a, title)) \o FlattenSeq(Under(b, title))
                 \o FlattenSeq(Under(c, title))
  <2>1. \A p, q \in Seq(Page(Titles, U)) :
          FlattenSeq(Under(p \o q, title))
            = FlattenSeq(Under(p, title)) \o FlattenSeq(Under(q, title))
    BY UnderConcat
  <2>2. a \o b \in Seq(Page(Titles, U))
    BY <1>8, ConcatProperties
  <2>3. FlattenSeq(Under(a \o b, title))
          = FlattenSeq(Under(a, title)) \o FlattenSeq(Under(b, title))
    BY <1>8, <2>1, Zenon
  <2>4. FlattenSeq(Under(a \o b \o c, title))
          = FlattenSeq(Under(a \o b, title)) \o FlattenSeq(Under(c, title))
    BY <1>8, <2>1, <2>2, Zenon
  <2> QED  BY <1>1, <2>3, <2>4, SamePages
<1>10. \A s \in Seq(U) : s \o <<>> = s /\ <<>> \o s = s
  BY ConcatEmptySeq
<1>11. <<>> \in Seq(U)
  BY EmptySeq
<1>12. Tables!RowsUnder(pages, "Library overview") = library_overview
  <2>1. Tables!RowsUnder(pages, "Library overview") = library_overview \o <<>> \o <<>>
    BY <1>8, <1>9
  <2> QED  BY <1>3, <1>10, <2>1
<1>13. Tables!RowsUnder(pages, "Best library by case") = best_by_case
  <2>1. Tables!RowsUnder(pages, "Best library by case") = <<>> \o best_by_case \o <<>>
    BY <1>8, <1>9
  <2> QED  BY <1>3, <1>10, <2>1
<1>14. Tables!RowsUnder(pages, "plot") = Tables!generated
  <2>1. Tables!RowsUnder(pages, "plot") = <<>> \o <<>> \o Tables!generated
    BY <1>8, <1>9
  <2> QED  BY <1>3, <1>10, <1>11, <2>1
<1> QED  BY <1>2, <1>12, <1>13, <1>14, MetricFields DEF Tables!ReportHasAll

-----------------------------------------------------------------------------
(* run.sh and no_taps.sh: the inductive invariant.                          *)
USE SuiteAssumption

Phases == {"off", "idle", "warmup", "projects", "copy summary", "copy report",
           "tables", "merge"}
Artifacts == [summary : Files \cup {None}, report : Files \cup {None}]

Typed ==
  /\ runs \in Nat /\ pc \in Phases /\ there \in SUBSET Projects
  /\ idle \in BOOLEAN /\ baseline \in Nat
  /\ local \in [Projects -> Artifacts] /\ collected \in [Projects -> Artifacts]

\* The phases in which the projects are run, one after the other.
Copying == {"copy summary", "copy report"}
Running == {"projects"} \cup Copying

\* What a campaign of this run leaves, and that p has been run and copied.
Fresh == File("whole", FALSE)
Copied2(p) == collected[p] = [summary |-> Fresh, report |-> Fresh]

\* In a phase of the projects the queue has those that are still to come.
Queued ==
  /\ pc \in Running => queue \in Seq(Projects)
  /\ pc \in Copying => queue # <<>>

\* A project that is there is still to come or has been run and copied.
Progress ==
  /\ pc \in Running => \A p \in there : p \in ToSet(queue) \/ Copied2(p)
  /\ pc \in {"tables", "merge"} => \A p \in there : Copied2(p)

\* The project that is being copied has been run.
Halfway ==
  /\ pc \in Copying =>
       local[Head(queue)] = [summary |-> Fresh, report |-> Fresh]
  /\ pc = "copy report" => collected[Head(queue)].summary = Fresh

\* Nothing that is collected comes from a warmup.
NeverWarm == \A p \in Projects : collected[p].summary # None => ~collected[p].summary.warm

\* Where the baseline was to be measured, this run has measured it.
Measured == idle /\ pc \notin {"off", "idle"} => baseline = runs

MasterIsCollected ==
  pc = "merge" => master.rows = [p \in Summarised(Projects) |-> collected[p].summary]

IInv == /\ Typed /\ Queued /\ Progress /\ Halfway
        /\ NeverWarm /\ Measured /\ MasterIsCollected

-----------------------------------------------------------------------------
(* run.sh and no_taps.sh: every step keeps the invariant.                   *)

\* Whatever the order of the projects, it has all of them.
LEMMA OrdersComplete ==
  ASSUME NEW q \in Orders
  PROVE  q \in Seq(Projects) /\ ToSet(q) = Projects
<1>1. IsFiniteSet(Projects)
  BY ElementsFinite DEF Projects
<1> QED  BY <1>1, EachOnce DEF Orders

\* What a campaign writes is an artifact.
LEMMA FileIsOne ==
  ASSUME Typed, NEW s \in {"whole", "torn"}, NEW w \in BOOLEAN
  PROVE  File(s, w) \in Files /\ File(s, w) # None
BY DEF Typed, File, Files

LEMMA InitInv == Init => IInv
<1> SUFFICES ASSUME Init PROVE IInv
  OBVIOUS
<1>1. Nothing \in [Projects -> Artifacts]
  BY DEF Nothing, Artifacts
<1>2. Typed
  BY <1>1 DEF Init, Typed, Phases
<1>3. NeverWarm
  BY DEF Init, NeverWarm, Nothing
<1> QED  BY <1>2, <1>3 DEF Init, IInv, Queued, Progress, Halfway, Measured,
                            MasterIsCollected, Running, Copying

\* A step that leaves the artifacts alone and goes to a phase in which no
\* project is run and no tables are made.
LEMMA QuietInv ==
  ASSUME IInv, Typed', UNCHANGED collected, pc' \in {"off", "idle", "warmup"}, Measured'
  PROVE  IInv'
BY DEF IInv, Queued, Progress, Halfway, NeverWarm, MasterIsCollected, Running, Copying

LEMMA StartInv == IInv /\ Start => IInv'
<1> SUFFICES ASSUME IInv, Start PROVE IInv'
  OBVIOUS
<1>1. Typed'
  BY DEF IInv, Start, Typed, resultVars, Phases
<1>2. Measured'
  BY DEF Start, Measured
<1> QED  BY <1>1, <1>2, QuietInv DEF Start, resultVars

LEMMA IdleInv == IInv /\ measure_idle_if_available => IInv'
<1> SUFFICES ASSUME IInv, measure_idle_if_available PROVE IInv'
  OBVIOUS
<1>1. Typed'
  <2>1. runs \in Nat /\ baseline \in Nat
    BY DEF IInv, Typed
  <2>2. baseline' \in Nat
    BY <2>1 DEF measure_idle_if_available
  <2>3. pc' \in Phases
    BY DEF measure_idle_if_available, AfterIdleFailure, Phases
  <2> QED  BY <2>2, <2>3 DEF IInv, measure_idle_if_available, Typed, resultVars
<1>2. Measured'
  BY DEF measure_idle_if_available, AfterIdleFailure, Measured
<1>3. pc' \in {"off", "idle", "warmup"} /\ UNCHANGED collected
  BY DEF measure_idle_if_available, AfterIdleFailure, resultVars
<1> QED  BY <1>1, <1>2, <1>3, QuietInv

\* A campaign leaves artifacts, whatever comes of it.
LEMMA CampaignTypes ==
  ASSUME Typed, NEW p, NEW w \in BOOLEAN, Finished(p, w) \/ Failed(p, w)
  PROVE  local' \in [Projects -> Artifacts]
<1>1. \A s \in {"whole", "torn"} : File(s, w) \in Files
  BY FileIsOne
<1>2. local \in [Projects -> Artifacts]
  BY DEF Typed
<1>3. CASE Finished(p, w)
  BY <1>1, <1>2, <1>3 DEF Finished, Artifacts
<1>4. CASE UNCHANGED local
  BY <1>2, <1>4
<1>5. CASE \E s \in {"whole", "torn"} : local' = [local EXCEPT ![p].summary = File(s, w)]
  BY <1>1, <1>2, <1>5 DEF Artifacts
<1>6. CASE local' = [local EXCEPT ![p] = [summary |-> File("whole", w),
                                          report  |-> File("torn", w)]]
  BY <1>1, <1>2, <1>6 DEF Artifacts
<1> QED  BY <1>3, <1>4, <1>5, <1>6 DEF Failed

\* The projects are taken up: all are still to come.
LEMMA WarmupInv == IInv /\ Warmup => IInv'
<1> SUFFICES ASSUME IInv, Warmup PROVE IInv'
  OBVIOUS
<1>1. local' \in [Projects -> Artifacts]
  BY CampaignTypes DEF IInv, Typed, Warmup
<1>2. Typed'
  BY <1>1 DEF IInv, Warmup, Typed, Phases
<1>3. Measured'
  BY DEF IInv, Warmup, Measured
<1>4. CASE queue = <<>>
  <2>1. queue' \in Seq(Projects) /\ ToSet(queue') = Projects
    BY <1>4, OrdersComplete DEF Warmup
  <2>2. there' \subseteq Projects
    BY <1>2 DEF Typed
  <2>3. /\ Queued' /\ Progress' /\ Halfway' /\ NeverWarm' /\ MasterIsCollected'
    BY <1>4, <2>1, <2>2 DEF IInv, Warmup, Queued, Progress, Halfway, NeverWarm,
                            MasterIsCollected, Running, Copying
  <2> QED  BY <1>2, <1>3, <2>3 DEF IInv
<1>5. CASE queue # <<>>
  BY <1>2, <1>3, <1>5, QuietInv DEF Warmup
<1> QED  BY <1>4, <1>5

\* One project after the other: skipped, measured, or the script ends.
LEMMA ProjectInv == IInv /\ run_project_once => IInv'
<1> SUFFICES ASSUME IInv, run_project_once PROVE IInv'
  OBVIOUS
<1> DEFINE p == Head(queue)
<1>1. /\ pc = "projects" /\ queue \in Seq(Projects) /\ queue # <<>>
      /\ UNCHANGED <<runs, there, idle, baseline, collected, master>>
  BY DEF IInv, Queued, Running, run_project_once
<1>2. p \in Projects /\ Tail(queue) \in Seq(Projects)
      /\ ToSet(queue) = {p} \cup ToSet(Tail(queue))
  BY <1>1, HeadOrTail
<1>3. NeverWarm' /\ MasterIsCollected'
  BY <1>1 DEF IInv, NeverWarm, MasterIsCollected, run_project_once, AfterFailure
<1>4. CASE p \notin there
  <2>1. pc' = pc /\ queue' = Tail(queue) /\ local' = local
    BY <1>4 DEF run_project_once
  <2>2. Progress'
    BY <2>1, <1>1, <1>2, <1>4 DEF IInv, Progress, Running, Copying, Copied2, Fresh, File
  <2> QED  BY <2>1, <2>2, <1>1, <1>2, <1>3
           DEF IInv, Typed, Queued, Halfway, Measured, Running, Copying
<1>5. CASE p \in there /\ pc' = "copy summary" /\ Finished(p, FALSE) /\ queue' = queue
  <2>1. local' \in [Projects -> Artifacts]
    BY <1>5, CampaignTypes DEF IInv
  <2>2. local'[p] = [summary |-> Fresh, report |-> Fresh] /\ Fresh' = Fresh
    BY <1>1, <1>2, <1>5 DEF IInv, Typed, Finished, Fresh, File
  <2>3. Typed'
    BY <2>1, <1>1, <1>5 DEF IInv, Typed, Phases
  <2>4. Progress'
    BY <2>2, <1>1, <1>5 DEF IInv, Progress, Running, Copying, Copied2
  <2> QED  BY <2>2, <2>3, <2>4, <1>1, <1>3, <1>5
           DEF IInv, Queued, Halfway, Measured, Running, Copying
<1>6. CASE pc' = "off" /\ Failed(p, FALSE) /\ queue' = queue
  <2>1. Typed'
    BY <1>1, <1>6, CampaignTypes DEF IInv, Typed, Phases
  <2> QED  BY <2>1, <1>6, <1>1, QuietInv DEF Measured
<1> QED  BY <1>4, <1>5, <1>6 DEF run_project_once, AfterFailure

\* The summary of the project that was run is copied, and then its report.
LEMMA CopySummaryInv == IInv /\ CopySummary => IInv'
<1> SUFFICES ASSUME IInv, CopySummary PROVE IInv'
  OBVIOUS
<1> DEFINE p == Head(queue)
<1>1. /\ pc = "copy summary" /\ pc' = "copy report"
      /\ queue \in Seq(Projects) /\ queue # <<>>
      /\ local[p] = [summary |-> Fresh, report |-> Fresh]
      /\ UNCHANGED <<runs, queue, there, idle, baseline, local, master>>
  BY DEF IInv, Queued, Halfway, Running, Copying, CopySummary
<1>2. p \in Projects /\ Fresh \in Files /\ Fresh # None /\ ~Fresh.warm /\ Fresh' = Fresh
  BY <1>1, HeadOrTail, FileIsOne DEF IInv, Fresh, File
<1>3. collected' = [collected EXCEPT ![p].summary = Fresh]
  <2>1. local[p].summary = Fresh
    <3>1. local[p] = [summary |-> Fresh, report |-> Fresh]
      BY <1>1
    <3>2. \A a, b : /\ [summary |-> a, report |-> b].summary = a
                    /\ [summary |-> a, report |-> b].report = b
      OBVIOUS
    <3> QED  BY <3>1, <3>2
  <2>2. \A x : Copied(x, local[p].summary) = Fresh
    <3>1. Fresh # None
      BY <1>2
    <3> QED  BY <3>1, <2>1 DEF Copied
  <2>3. collected' = [collected EXCEPT ![p].summary = Copied(@, local[p].summary)]
    BY DEF CopySummary
  <2> QED  BY <2>2, <2>3
<1>4. collected \in [Projects -> Artifacts] /\ collected' \in [Projects -> Artifacts]
  BY <1>2, <1>3 DEF IInv, Typed, Artifacts
<1>5. Typed'
  BY <1>1, <1>4 DEF IInv, Typed, Phases
<1>6. Progress'
  <2>1. p \in ToSet(queue)
    BY <1>1, HeadOrTail
  <2>2. \A q \in Projects : q # p => collected'[q] = collected[q]
    BY <1>3, <1>4
  <2>3. \A q \in there : q \in Projects /\ (q \in ToSet(queue) \/ Copied2(q))
    BY <1>1 DEF IInv, Typed, Progress, Running, Copying
  <2>4. \A q \in there' : q \in ToSet(queue') \/ Copied2(q)'
    BY <2>1, <2>2, <2>3, <1>1, <1>2 DEF Copied2
  <2> QED  BY <2>4, <1>1 DEF Progress, Running, Copying
<1>7. Halfway' /\ NeverWarm'
  BY <1>1, <1>2, <1>3, <1>4 DEF IInv, Halfway, NeverWarm, Copying, Artifacts
<1> QED  BY <1>1, <1>5, <1>6, <1>7
         DEF IInv, Queued, Measured, MasterIsCollected, Running, Copying

LEMMA CopyReportInv == IInv /\ CopyReport => IInv'
<1> SUFFICES ASSUME IInv, CopyReport PROVE IInv'
  OBVIOUS
<1> DEFINE p == Head(queue)
<1>1. /\ pc = "copy report" /\ queue \in Seq(Projects) /\ queue # <<>>
      /\ local[p] = [summary |-> Fresh, report |-> Fresh]
      /\ collected[p].summary = Fresh
      /\ queue' = Tail(queue) /\ pc' = IF queue' = <<>> THEN "tables" ELSE "projects"
      /\ UNCHANGED <<runs, there, idle, baseline, local, master>>
  BY DEF IInv, Queued, Halfway, Running, Copying, CopyReport
<1>2. /\ p \in Projects /\ Fresh \in Files /\ Fresh # None /\ Fresh' = Fresh
      /\ Tail(queue) \in Seq(Projects) /\ ToSet(queue) = {p} \cup ToSet(Tail(queue))
  BY <1>1, HeadOrTail, FileIsOne DEF IInv, Fresh, File
<1>3. collected' = [collected EXCEPT ![p].report = Fresh]
  <2>1. local[p].report = Fresh
    <3>1. local[p] = [summary |-> Fresh, report |-> Fresh]
      BY <1>1
    <3>2. \A a, b : /\ [summary |-> a, report |-> b].summary = a
                    /\ [summary |-> a, report |-> b].report = b
      OBVIOUS
    <3> QED  BY <3>1, <3>2
  <2>2. \A x : Copied(x, local[p].report) = Fresh
    <3>1. Fresh # None
      BY <1>2
    <3> QED  BY <3>1, <2>1 DEF Copied
  <2>3. collected' = [collected EXCEPT ![p].report = Copied(@, local[p].report)]
    BY DEF CopyReport
  <2> QED  BY <2>2, <2>3
<1>4. collected \in [Projects -> Artifacts] /\ collected' \in [Projects -> Artifacts]
  BY <1>2, <1>3 DEF IInv, Typed, Artifacts
<1>5. Typed'
  BY <1>1, <1>4 DEF IInv, Typed, Phases
<1>6. Progress'
  <2>1. collected'[p] = [summary |-> Fresh, report |-> Fresh]
    BY <1>1, <1>2, <1>3, <1>4 DEF Artifacts
  <2>2. \A q \in Projects : q # p => collected'[q] = collected[q]
    BY <1>3, <1>4
  <2>3. \A q \in there : q \in Projects /\ (q \in ToSet(queue) \/ Copied2(q))
    BY <1>1 DEF IInv, Typed, Progress, Running, Copying
  <2>4. \A q \in there' : q \in ToSet(queue') \/ Copied2(q)'
    BY <2>1, <2>2, <2>3, <1>1, <1>2 DEF Copied2
  <2>5. queue' = <<>> => ToSet(queue') = {}
    BY EmptySeq DEF ToSet
  <2> QED  BY <2>4, <2>5, <1>1 DEF Progress, Running, Copying
<1>7. NeverWarm'
  BY <1>2, <1>3, <1>4 DEF IInv, NeverWarm, Artifacts
<1> QED  BY <1>1, <1>2, <1>5, <1>6, <1>7
         DEF IInv, Queued, Halfway, Measured, MasterIsCollected, Running, Copying

\* A copy that breaks off leaves a part of what was measured.
LEMMA CopyBreaksInv == IInv /\ CopyBreaks => IInv'
<1> SUFFICES ASSUME IInv, CopyBreaks PROVE IInv'
  OBVIOUS
<1> DEFINE p == Head(queue)
           Torn == [Fresh EXCEPT !.state = "torn"]
<1>1. /\ pc \in Copying /\ pc' = "off" /\ queue \in Seq(Projects) /\ queue # <<>>
      /\ local[p] = [summary |-> Fresh, report |-> Fresh]
      /\ UNCHANGED <<runs, there, idle, baseline, local>>
  BY DEF IInv, Queued, Halfway, Running, Copying, CopyBreaks
<1>2. p \in Projects /\ Torn \in Files /\ ~Torn.warm
  BY <1>1, HeadOrTail DEF IInv, Typed, Fresh, File, Files
<1>3. \/ collected' = [collected EXCEPT ![p].summary = Torn]
      \/ collected' = [collected EXCEPT ![p].report = Torn]
  <2>1. local[p].summary = Fresh /\ local[p].report = Fresh
    BY <1>1
  <2> DEFINE Part(x) == [x EXCEPT !.state = "torn"]
  <2>2. \/ collected' = [collected EXCEPT ![p].summary = Part(local[p].summary)]
        \/ collected' = [collected EXCEPT ![p].report = Part(local[p].report)]
    BY DEF CopyBreaks
  <2>3. Part(Fresh) = Torn
    OBVIOUS
  <2> HIDE DEF Part, Torn, p
  <2> QED  BY <2>1, <2>2, <2>3
<1>4. collected \in [Projects -> Artifacts] /\ collected' \in [Projects -> Artifacts]
  <2>1. collected \in [Projects -> Artifacts]
    BY DEF IInv, Typed, Artifacts
  <2> HIDE DEF p, Torn
  <2>2. \A g \in Artifacts : /\ [g EXCEPT !.summary = Torn] \in Artifacts
                            /\ [g EXCEPT !.report = Torn] \in Artifacts
    BY <1>2 DEF Artifacts
  <2>3. collected[p] \in Artifacts
    BY <1>2, <2>1
  <2>4. /\ [collected EXCEPT ![p] = [@ EXCEPT !.summary = Torn]] \in [Projects -> Artifacts]
        /\ [collected EXCEPT ![p] = [@ EXCEPT !.report = Torn]] \in [Projects -> Artifacts]
    BY <2>1, <2>2, <2>3
  <2> QED  BY <2>1, <2>4, <1>3
<1>5. Typed'
  BY <1>1, <1>4 DEF IInv, Typed, Phases
<1>6. NeverWarm'
  <2> SUFFICES ASSUME NEW q \in Projects, collected'[q].summary # None
               PROVE  ~collected'[q].summary.warm
    BY DEF NeverWarm
  <2>1. collected'[q].summary = collected[q].summary \/ collected'[q].summary = Torn
    <3> HIDE DEF p, Torn
    <3>1. collected[q] \in Artifacts /\ p \in Projects
      BY <1>2, <1>4
    <3>2. CASE collected' = [collected EXCEPT ![p].summary = Torn]
      BY <3>1, <3>2, <1>4 DEF Artifacts
    <3>3. CASE collected' = [collected EXCEPT ![p].report = Torn]
      BY <3>1, <3>3, <1>4 DEF Artifacts
    <3> QED  BY <3>2, <3>3, <1>3
  <2>2. collected[q].summary # None => ~collected[q].summary.warm
    BY DEF IInv, NeverWarm
  <2> QED  BY <2>1, <2>2, <1>2
<1>7. Queued' /\ Progress' /\ Halfway' /\ MasterIsCollected'
  BY <1>1 DEF Queued, Progress, Halfway, MasterIsCollected, Running, Copying
<1>8. Measured'
  BY <1>1 DEF Measured
<1> QED  BY <1>5, <1>6, <1>7, <1>8 DEF IInv

LEMMA ProjectsDoneInv == IInv /\ ProjectsDone => IInv'
<1> SUFFICES ASSUME IInv, ProjectsDone PROVE IInv'
  OBVIOUS
<1>1. /\ pc = "projects" /\ queue = <<>> /\ pc' = "tables"
      /\ UNCHANGED <<runs, there, idle, baseline, local, collected>>
  BY DEF ProjectsDone, resultVars
<1>2. ToSet(queue) = {}
  BY <1>1, EmptySeq DEF ToSet
<1>3. Typed'
  BY <1>1 DEF IInv, Typed, Phases
<1>4. Progress'
  BY <1>1, <1>2 DEF IInv, Progress, Running, Copying, Copied2, Fresh, File
<1> QED  BY <1>1, <1>3, <1>4 DEF IInv, Queued, Halfway, NeverWarm, Measured,
                                 MasterIsCollected, Running, Copying

LEMMA TablesInv == IInv /\ build_master_tables => IInv'
<1> SUFFICES ASSUME IInv, build_master_tables PROVE IInv'
  OBVIOUS
<1>1. /\ pc = "tables" /\ pc' \in {"merge", "off"}
      /\ UNCHANGED <<runs, queue, there, idle, baseline, local, collected>>
  BY DEF build_master_tables, resultVars
<1>2. Typed'
  BY <1>1 DEF IInv, Typed, Phases
<1>3. Progress'
  BY <1>1 DEF IInv, Progress, Running, Copying, Copied2, Fresh, File
<1>4. MasterIsCollected'
  BY <1>1 DEF build_master_tables, MasterIsCollected, Summarised
<1> QED  BY <1>1, <1>2, <1>3, <1>4 DEF IInv, Queued, Halfway, NeverWarm, Measured,
                                       Running, Copying

LEMMA EndInv == IInv /\ (merge_reports \/ BreaksOff) => IInv'
<1> SUFFICES ASSUME IInv, merge_reports \/ BreaksOff PROVE IInv'
  OBVIOUS
<1>1. pc' = "off" /\ UNCHANGED <<runs, there, idle, baseline, local, collected>>
  BY DEF merge_reports, BreaksOff, resultVars
<1>2. Typed' /\ Measured'
  BY <1>1 DEF IInv, Typed, Phases, Measured
<1> QED  BY <1>1, <1>2, QuietInv

LEMMA StutterInv ==
  ASSUME IInv, UNCHANGED <<scriptVars, baseline, resultVars, master>>
  PROVE  IInv'
BY DEF IInv, Typed, Queued, Progress, Halfway, NeverWarm, Measured,
       MasterIsCollected, Copied2, Fresh, File, Summarised, scriptVars, resultVars

-----------------------------------------------------------------------------
(* The theorems.                                                            *)

\* Every reachable state of run.sh and no_taps.sh satisfies the inductive
\* invariant.
LEMMA Inductive == AnySpec => []IInv
<1>1. AnyInit => IInv
  BY InitInv DEF AnyInit
<1>2. IInv /\ [Next]_vars => IInv'
  BY StartInv, IdleInv, WarmupInv, ProjectInv, CopySummaryInv, CopyReportInv,
     CopyBreaksInv, ProjectsDoneInv, TablesInv, EndInv, StutterInv
     DEF Next, NoTaps, vars
<1>3. [AnyNext]_allVars => [Next]_vars
  BY DEF AnyNext, allVars
<1> QED  BY <1>1, <1>2, <1>3, PTL DEF AnySpec

\* The rows of the tables are of this run, never of a warmup (run.sh:301-326:
\* each project is measured and copied before the tables are built).
THEOREM RowsAreMeasured == AnySpec => []MasterIsMeasured
<1>1. IInv => MasterIsMeasured
  <2> SUFFICES ASSUME IInv, pc = "merge" PROVE MasterIsMeasured
    BY DEF MasterIsMeasured
  <2>1. master.rows = [p \in Summarised(Projects) |-> collected[p].summary]
    BY DEF IInv, MasterIsCollected
  <2>2. \A p \in there : p \in Projects /\ collected[p].summary = Fresh
    BY DEF IInv, Typed, Progress, Copied2
  <2>3. Fresh # None /\ Fresh.run = runs
    BY FileIsOne DEF IInv, Fresh, File
  <2>4. there \subseteq Summarised(Projects)
    BY <2>2, <2>3 DEF Summarised
  <2>5. \A p \in Summarised(Projects) : ~collected[p].summary.warm
    BY DEF IInv, NeverWarm, Summarised
  <2> QED  BY <2>1, <2>2, <2>3, <2>4, <2>5 DEF MasterIsMeasured
<1> QED  BY <1>1, Inductive, PTL

\* A project's report and its row are of one and the same campaign.
THEOREM RowsAgreeWithReports == AnySpec => []ArtifactsAgree
<1>1. IInv => ArtifactsAgree
  <2> SUFFICES ASSUME IInv, pc = "merge", NEW p \in there
               PROVE  collected[p].report = master.rows[p]
    BY DEF ArtifactsAgree
  <2>1. p \in Projects /\ collected[p] = [summary |-> Fresh, report |-> Fresh] /\ Fresh # None
    BY FileIsOne DEF IInv, Typed, Progress, Copied2, Fresh
  <2>2. p \in Summarised(Projects)
    BY <2>1 DEF Summarised
  <2> QED  BY <2>1, <2>2 DEF IInv, MasterIsCollected
<1> QED  BY <1>1, Inductive, PTL

\* All rows of a run subtract one baseline, and the one this run measured
\* where it was to measure it (run.sh:407, under the set -e of run.sh:2).
THEOREM RowsShareBaseline == AnySpec => []OneBaseline
<1>1. IInv => OneBaseline
  <2> SUFFICES ASSUME IInv, pc = "merge" PROVE OneBaseline
    BY DEF OneBaseline
  <2>1. \A p \in there : p \in Projects /\ collected[p].summary = Fresh
    BY DEF IInv, Typed, Progress, Copied2
  <2>2. Fresh # None
    BY FileIsOne DEF IInv, Fresh
  <2>3. \A p \in there : p \in Summarised(Projects)
    BY <2>1, <2>2 DEF Summarised
  <2>4. \A p \in there : master.rows[p] = Fresh
    BY <2>1, <2>3 DEF IInv, MasterIsCollected
  <2>5. Fresh.baseline = baseline
    BY DEF Fresh, File
  <2>6. idle => baseline = runs
    BY DEF IInv, Measured
  <2> QED  BY <2>4, <2>5, <2>6 DEF OneBaseline
<1> QED  BY <1>1, Inductive, PTL

\* Each directory is merged in full but for what cannot be read, whatever
\* earlier runs and breaks have left, and the first run's combined file has
\* all of it once and in order (merge.py:47-91).
THEOREM ReportsMerged == AnySpec => []ReportsAreMerged
<1>1. MInv => ReportsAreMerged
  <2> SUFFICES ASSUME MInv PROVE ReportsAreMerged
    OBVIOUS
  <2>1. Merging!DirectoriesAreMerged
    <3> SUFFICES ASSUME merge_pc = "done", NEW d \in ToSet(Sorted) \ {Merged}, Merging!Good(d) # <<>>
                 PROVE  IsMerged(d)
      BY SameLists DEF Merging!DirectoriesAreMerged, IsMerged
    <3>1. todo = <<>> /\ ToSet(todo) = {}
      BY EmptyList DEF MInv, GroupsFound, AtWork
    <3>2. CASE d \in DOMAIN groups
      BY <3>1, <3>2 DEF MInv, GroupsMerged, AtWork
    <3>3. CASE d \notin DOMAIN groups
      <4>1. Merging!Good(d) = Select(<<>>, Merging!Readable)
        BY <3>3, SameLists DEF Merging!Good
      <4>2. ToSet(Merging!Good(d)) = {} /\ Merging!Good(d) \in Seq(STRING)
        <5>1. <<>> \in Seq(STRING) /\ ToSet(<<>>) = {}
          BY EmptyList
        <5>2. \A T : /\ Select(<<>>, T) \in Seq(STRING)
                     /\ ToSet(Select(<<>>, T)) = ToSet(<<>>) \cap T
          BY <5>1, SelectedSet
        <5> QED  BY <4>1, <5>1, <5>2
      <4>3. Merging!Good(d) = <<>>
        <5> DEFINE s == Merging!Good(d)
        <5>1. Len(s) \in Nat /\ ToSet(s) = {s[i] : i \in 1 .. Len(s)} /\ s \in Seq(STRING)
          BY <4>2, ElementsOf
        <5> HIDE DEF s
        <5>2. Len(s) = 0
          <6>1. Len(s) # 0 => s[1] \in ToSet(s)
            BY <5>1
          <6> QED  BY <4>2, <6>1 DEF s
        <5> QED  BY <5>1, <5>2, EmptySeq DEF s
      <4> QED  BY <4>3
    <3> QED  BY <3>2, <3>3
  <2> QED  BY <2>1 DEF MInv, ReportsAreMerged
<1> QED  BY <1>1, MergeInductive, PTL

\* Whatever statistics a summary lacks, build_master_summary.py writes its
\* tables; it breaks off only where there is no summary (:787-789) or one cannot
\* be read (:144-145), and then with nothing written: all rows have the fields
\* of the first that write_csv takes (:312), since flatten_stats makes a field
\* for each statistic (:85-92).
THEOREM TablesWritten == AnySpec => []TablesAreWritten
<1>1. TInv => TablesAreWritten
  BY DEF TInv, TablesAreWritten, Tables!TablesAreWritten
<1> QED  BY <1>1, TablesInductive, PTL

\* No library has a better value for a case than the one that is called the
\* best, and one without a value is called so only where none has one
\* (build_master_summary.py:206-255).
THEOREM BestOfCases == AnySpec => []BestIsBest
<1>1. TInv => BestIsBest
  <2> SUFFICES ASSUME TInv PROVE Tables!BestIsBest
    BY DEF BestIsBest
  <2>1. CASE Empty
    BY <2>1 DEF Empty, Tables!BestIsBest
  <2>2. CASE Built
    BY <2>2, BuiltRows, BestRight DEF TInv, Built
  <2> QED  BY <2>1, <2>2 DEF TInv
<1> QED  BY <1>1, TablesInductive, PTL

\* The parts of the global report agree, however many libraries and cases there
\* are and whatever values they lack: both tables have the same best value,
\* each row is in its three plots at its own tick, and the pages have every
\* library, case and plot once (build_master_summary.py:258-289, 473-681,
\* 684-771).
THEOREM ReportsAgree == AnySpec => []GlobalReportAgrees
<1>1. TInv => GlobalReportAgrees
  <2> SUFFICES ASSUME TInv
               PROVE  Tables!OverviewMatchesBest /\ Tables!PlotsAgree /\ Tables!ReportHasAll
    BY DEF GlobalReportAgrees
  <2>1. CASE tables_pc \in {"read", "failed"}
    <3>1. Empty
      BY <2>1 DEF TInv
    <3>2. DOMAIN best_by_case = {} /\ DOMAIN library_overview = {}
      BY <3>1 DEF Empty
    <3>3. \A what : /\ {best_by_case[i].best[what].value : i \in DOMAIN best_by_case} = {}
                    /\ {library_overview[i].best[what] : i \in DOMAIN library_overview} = {}
      BY <3>2
    <3>4. Tables!OverviewMatchesBest
      BY <3>3 DEF Tables!OverviewMatchesBest
    <3> QED  BY <2>1, <3>4 DEF Tables!PlotsAgree, Tables!ReportHasAll
  <2>2. CASE tables_pc \notin {"read", "failed"}
    <3>1. Built /\ files \in Inputs
      BY <2>2 DEF TInv
    <3>2. PICK S : RowsTyped(S) /\ rows \in Seq(S)
      BY <3>1, BuiltRows
    <3>3. Tables!OverviewMatchesBest
      BY <3>1, <3>2, OverviewAgrees DEF Built
    <3>4. CASE tables_pc = "done"
      <4>1. Reported
        BY <3>4 DEF TInv
      <4> QED  BY <3>1, <3>2, <3>3, <4>1, PlotsRight, ReportRight DEF Reported
    <3>5. CASE tables_pc # "done"
      BY <3>3, <3>5 DEF Tables!PlotsAgree, Tables!ReportHasAll
    <3> QED  BY <3>4, <3>5
  <2> QED  BY <2>1, <2>2
<1> QED  BY <1>1, TablesInductive, PTL
=============================================================================
