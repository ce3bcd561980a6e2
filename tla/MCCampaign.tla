----------------------------- MODULE MCCampaign -----------------------------
EXTENDS Project

\* Two runs of gcc and one of clang, whose preferred ports are neighbours as
\* 8120 and 8121 are, and one port to switch to.
TwoGccOneClang == <<"gcc", "gcc", "clang">>
GccThenClang == <<"gcc", "clang">>
Neighbours == [c \in Compilers |-> IF c = "gcc" THEN 1 ELSE 2]
=============================================================================
