------------------------------ MODULE Transfer ------------------------------
(* What every server of the suite promises to the clients that connect to   *)
(* its port: a connection is sent the payload from its first chunk to its   *)
(* last, in order, and ends with an end-of-file that means "you have all of *)
(* it", unless the server side gave the connection up.                      *)
(*                                                                          *)
(* The payload is Chunks numbered pieces of the file; a connection's stream *)
(* is the sequence of chunk numbers its client has read so far.             *)
EXTENDS Naturals, Sequences

CONSTANTS Conns,     \* the connections clients will ask for
          Chunks     \* the number of chunks of the file that is served

VARIABLES phase,     \* phase[c]: "idle", "open", "complete", "cut", "left"
          received,  \* received[c]: the chunks the client has read, in order
          broken     \* the connections the server side gave up

vars == <<phase, received, broken>>

Phases == {"idle", "open", "complete", "cut", "left"}

TypeOK == /\ phase \in [Conns -> Phases]
          /\ received \in [Conns -> Seq(1..Chunks)]
          /\ broken \subseteq Conns

Init == /\ phase = [c \in Conns |-> "idle"]
        /\ received = [c \in Conns |-> <<>>]
        /\ broken = {}

-----------------------------------------------------------------------------
Connect(c) == /\ phase[c] = "idle"
              /\ phase' = [phase EXCEPT ![c] = "open"]
              /\ UNCHANGED <<received, broken>>

\* The client reads the next chunk: only the one after the last it has read.
Deliver(c) == /\ phase[c] = "open"
              /\ Len(received[c]) < Chunks
              /\ received' = [received EXCEPT ![c] = Append(@, Len(@) + 1)]
              /\ UNCHANGED <<phase, broken>>

\* The client reads end-of-file with the whole payload in hand.
Complete(c) == /\ phase[c] = "open"
               /\ Len(received[c]) = Chunks
               /\ phase' = [phase EXCEPT ![c] = "complete"]
               /\ UNCHANGED <<received, broken>>

\* The server side gives up some connections; their clients find out later.
Break == \E S \in SUBSET Conns : /\ broken' = broken \cup S
                                 /\ UNCHANGED <<phase, received>>

\* The client of a connection that was given up learns that it has ended.
Cut(c) == /\ phase[c] = "open"
          /\ c \in broken
          /\ phase' = [phase EXCEPT ![c] = "cut"]
          /\ UNCHANGED <<received, broken>>

\* A client may go away at any time.
Leave(c) == /\ phase[c] = "open"
            /\ phase' = [phase EXCEPT ![c] = "left"]
            /\ UNCHANGED <<received, broken>>

Next == \/ \E c \in Conns : \/ Connect(c) \/ Deliver(c) \/ Complete(c)
                            \/ Cut(c) \/ Leave(c)
        \/ Break

Spec == Init /\ [][Next]_vars
=============================================================================
