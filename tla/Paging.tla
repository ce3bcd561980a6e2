------------------------------- MODULE Paging -------------------------------
(* How the scripts in Python spread a table and images over the pages of a  *)
(* PDF report.  A page is a record of its title and the rows on it.         *)
EXTENDS Lists, Integers, FiniteSetsExt

\* Where the parts of n rows begin: range(0, n, size).  Seeded bug: the last
\* part is forgotten unless it is full.
Parts_Full(n, size) == {i \in 1 .. n : (i - 1) % size = 0 /\ i + size - 1 <= n}
Parts(n, size) == {i \in 1 .. n : (i - 1) % size = 0}

\* add_table_page for each part of a table.
TablePages(title, rows, size) ==
  LET starts == Select([i \in DOMAIN rows |-> i], Parts(Len(rows), size))
  IN  [p \in DOMAIN starts |->
        [title |-> title,
         rows |-> SubSeq(rows, starts[p], Min({starts[p] + size - 1, Len(rows)}))]]

\* add_image_page for each image that is there.
ImagePages(title, files, there) ==
  LET found == Select(files, there)
  IN  [i \in DOMAIN found |-> [title |-> title, rows |-> <<found[i]>>]]

\* The rows of the pages of one title, in order.
RowsUnder(pages, title) ==
  FlattenSeq([i \in DOMAIN pages |->
    IF pages[i].title = title THEN pages[i].rows ELSE <<>>])
=============================================================================
