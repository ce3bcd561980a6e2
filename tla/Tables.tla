------------------------------- MODULE Tables -------------------------------
(* The order of cases in the tables of the scripts in Python.               *)
EXTENDS Paging

CONSTANT NameOrder    \* all compilers, in the order of their names

\* The order of Python's tuples, for cases: compiler, threads, clients.
Precedes(k, l) ==
  LET rank(c) == CHOOSE i \in DOMAIN NameOrder : NameOrder[i] = c
  IN  \/ rank(k[1]) < rank(l[1])
      \/ k[1] = l[1] /\ k[2] < l[2]
      \/ k[1] = l[1] /\ k[2] = l[2] /\ k[3] < l[3]

\* The pairs of cases in this order.
CaseOrder(s) == {p \in ToSet(s) \X ToSet(s) : Precedes(p[1], p[2])}
=============================================================================
