---------------------------- MODULE AsyncServers ----------------------------
(* The four asynchronous servers side by side: a behaviour is one of any of *)
(* them, so that the same questions are asked of all.                       *)
EXTENDS AsyncIO

CONSTANTS Wmem, FALLBACK_SEND_CHUNK_SIZE    \* as in TapsServer

ASSUME MessagesAssumption == /\ Wmem \in Nat
                             /\ FALLBACK_SEND_CHUNK_SIZE \in Nat \ {0}

VARIABLE program    \* whose server runs

Asio     == INSTANCE AsioServer
Corosio  == INSTANCE CorosioServer
Taps     == INSTANCE TapsServer
Berkeley == INSTANCE BerkeleyServer

AnyInit == Init /\ program \in {"asio", "corosio", "taps", "berkeley"}

AnyNext == /\ \/ program = "asio" /\ Asio!Next
              \/ program = "corosio" /\ Corosio!Next
              \/ program = "taps" /\ Taps!Next
              \/ program = "berkeley" /\ Berkeley!Next
           /\ UNCHANGED program

Spec == AnyInit /\ [][AnyNext]_<<vars, program>>

-----------------------------------------------------------------------------
(* The pool runs every handler that is ready (each runtime queues them in   *)
(* order), whatever the server calls it.                                    *)

Setup == \/ program = "asio" /\ Asio!Setup
         \/ program = "corosio" /\ Corosio!Setup
         \/ program = "taps" /\ Taps!Setup
         \/ program = "berkeley" /\ Berkeley!Setup

AcceptResumes == \/ program = "asio" /\ Asio!accept_loop
                 \/ program = "corosio" /\ Corosio!accept_loop
                 \/ program = "taps" /\ Taps!accept_loop
                 \/ program = "berkeley" /\ Berkeley!AcceptEnds

TaskResumes(c) == \/ program = "asio" /\ Asio!serve_client(c)
                  \/ program = "corosio" /\ Corosio!serve_client(c)
                  \/ program = "taps" /\ Taps!serve_client(c)
                  \/ program = "berkeley" /\ Berkeley!SendEnds(c)

WriteGoesOn(c) == WriteProgress(c, program = "taps" /\ Taps!SendsAll)

Fairness == /\ WF_vars(NoFault /\ Setup) /\ WF_vars(AcceptResumes)
            /\ \A c \in Conns : WF_vars(TaskResumes(c)) /\ WF_vars(WriteGoesOn(c))
            /\ RuntimeFairness

FairSpec == Spec /\ Fairness

-----------------------------------------------------------------------------
\* A client whose connection was accepted comes to the end of its download.
\* So does one that still waits to be accepted, except at async-berkeley,
\* which stops accepting at the first error.
DownloadsEnd ==
  \A c \in Conns : (peer[c] = "reading" /\ (program = "berkeley" => c \in open))
                     ~> peer[c] # "reading"
=============================================================================
