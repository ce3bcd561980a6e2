------------------------------- MODULE Lists -------------------------------
(* What the scripts in Python do with lists: choose from them, sort them,   *)
(* and collect the keys of their groups.                                    *)
EXTENDS Naturals, Sequences, SequencesExt

\* The elements of s that are in S, in their order: [x for x in s if ...].
Select(s, S) == FlattenSeq([i \in DOMAIN s |-> IF s[i] \in S THEN <<s[i]>> ELSE <<>>])

\* The elements of s for which x comes before the other of a pair of R.
After(s, x, R) == {y \in ToSet(s) : <<x, y>> \in R}

\* sorted: one after the other is put after those it is not before, so those
\* that R does not tell apart keep their order.
SortedBy(s, R) ==
  LET upto[n \in 0 .. Len(s)] ==
        IF n = 0 THEN <<>>
        ELSE LET done == upto[n - 1]
                 later == After(done, s[n], R)
             IN  Select(done, ToSet(done) \ later) \o <<s[n]>> \o Select(done, later)
  IN  upto[Len(s)]

\* The keys of a dictionary of groups: each value once, where it comes first.
Keys(s) ==
  FlattenSeq([i \in DOMAIN s |->
    IF \E j \in DOMAIN s : j < i /\ s[j] = s[i] THEN <<>> ELSE <<s[i]>>])
=============================================================================
