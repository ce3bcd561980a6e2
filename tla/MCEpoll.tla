------------------------------ MODULE MCEpoll ------------------------------
(* Constants of the model-checking runs of EpollServer.                     *)
EXTENDS EpollServerProps, TLC

\* Which worker, client or descriptor number is which makes no difference.
Symmetry == Permutations(Workers) \cup Permutations(Conns) \cup Permutations(Fds)
=============================================================================
