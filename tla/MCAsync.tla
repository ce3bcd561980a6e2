------------------------------ MODULE MCAsync ------------------------------
(* Constants of the model-checking runs of AsyncServers.                    *)
EXTENDS AsyncServers, TLC

\* Which client is which makes no difference.
Symmetry == Permutations(Conns)
=============================================================================
