------------------------------ MODULE Sockets ------------------------------
(* The network as the servers of the suite see it, and the clients on the   *)
(* other side: a queue of connections not accepted yet, a bounded send      *)
(* buffer per connection, and clients that read, come to the end of their   *)
(* stream, or go away.  A server module adds its own state and steps.       *)
EXTENDS Naturals, Sequences, FiniteSets

CONSTANTS Conns,       \* the connections clients ask for
          Backlog,     \* BACKLOG, the length of the listening queue
          Chunks,      \* payload.size(), in chunks
          SndBuf,      \* chunks the kernel holds for one connection
          MaxFaults    \* bound on the failures of one behaviour

ASSUME SocketsAssumption == /\ Backlog \in Nat
                            /\ Chunks \in Nat
                            /\ SndBuf \in Nat \ {0}
                            /\ MaxFaults \in Nat

VARIABLES
  listening,   \* whether the listening socket is open
  backlog,     \* connections that wait to be accepted
  stream,      \* stream[c]: every chunk the kernel has taken for c, in order
  got,         \* got[c]: how many of them the client has read
  peer,        \* peer[c]: "idle", "reading", "ended", "left"
  reset,       \* connections whose reset has reached the server's socket
  faults,      \* failures injected so far
  dropped      \* history: connections the server side gave up

netVars    == <<listening, backlog, reset>>
clientVars == <<got, peer>>
socketVars == <<netVars, stream, clientVars, faults, dropped>>

NetTypes    == listening \in BOOLEAN /\ backlog \subseteq Conns /\ reset \subseteq Conns

StreamTypes == /\ stream \in [Conns -> Seq(1 .. Chunks)]
               /\ got \in [Conns -> Nat]
               /\ peer \in [Conns -> {"idle", "reading", "ended", "left"}]

FaultTypes  == faults \in 0 .. MaxFaults /\ dropped \subseteq Conns

SocketTypes == NetTypes /\ StreamTypes /\ FaultTypes

SocketInit ==
  /\ listening = FALSE /\ backlog = {} /\ reset = {}
  /\ stream = [c \in Conns |-> <<>>]
  /\ got = [c \in Conns |-> 0]
  /\ peer = [c \in Conns |-> "idle"]
  /\ faults = 0 /\ dropped = {}

-----------------------------------------------------------------------------
(* What servers use.                                                        *)

\* The part of the send buffer of c that is free.
Free(c) == SndBuf - (Len(stream[c]) - got[c])

\* The kernel takes n chunks of the payload for c, those after the first s.
Take(c, s, n) == stream' = [stream EXCEPT ![c] = @ \o [k \in 1 .. n |-> s + k]]

\* A system call fails: every failure uses up one of MaxFaults.
Fault == faults < MaxFaults /\ faults' = faults + 1

NoFault == UNCHANGED faults

Drop(S) == dropped' = dropped \cup S

-----------------------------------------------------------------------------
(* Clients and the network; isOpen says whether the server's end of the     *)
(* connection is open.                                                      *)

\* A client's connection is completed by the kernel while the queue has room.
Connect(c) ==
  /\ listening /\ peer[c] = "idle" /\ Cardinality(backlog) <= Backlog
  /\ peer' = [peer EXCEPT ![c] = "reading"]
  /\ backlog' = backlog \cup {c}
  /\ UNCHANGED <<listening, reset, got, stream, faults, dropped>>

\* The client reads the next chunk the kernel holds for it.
Read(c) ==
  /\ peer[c] = "reading" /\ got[c] < Len(stream[c])
  /\ got' = [got EXCEPT ![c] = @ + 1]
  /\ UNCHANGED <<netVars, peer, stream, faults, dropped>>

\* The client has read what there was and the server's end is closed.
ReadEnd(c, isOpen) ==
  /\ peer[c] = "reading" /\ got[c] = Len(stream[c])
  /\ c \notin backlog /\ ~isOpen
  /\ peer' = [peer EXCEPT ![c] = "ended"]
  /\ UNCHANGED <<netVars, got, stream, faults, dropped>>

\* The client closes its socket early, as a readiness probe does.
Leave(c) ==
  /\ peer[c] = "reading"
  /\ peer' = [peer EXCEPT ![c] = "left"]
  /\ UNCHANGED <<netVars, got, stream, faults, dropped>>

\* Data for a closed client is answered by a reset, which reaches the server
\* at any later moment.
ResetArrives(c, isOpen) ==
  /\ peer[c] = "left" /\ got[c] < Len(stream[c])
  /\ isOpen /\ c \notin reset
  /\ reset' = reset \cup {c}
  /\ UNCHANGED <<listening, backlog, clientVars, stream, faults, dropped>>

\* What the network and a client that stays keep doing.
Delivery(c, isOpen) == Read(c) \/ ReadEnd(c, isOpen) \/ ResetArrives(c, isOpen)

-----------------------------------------------------------------------------
(* Properties every server should have.                                     *)

\* What the kernel took for a connection is the payload from its first chunk
\* on, without a gap, a repetition or a chunk of another position.
InOrder == \A c \in Conns : \A k \in 1 .. Len(stream[c]) : stream[c][k] = k

\* A client that reads end-of-file has the whole payload, unless the server
\* side failed and gave its connection up.
EofMeansComplete ==
  \A c \in Conns : peer[c] = "ended" => got[c] = Chunks \/ c \in dropped

\* Every client that connects and stays comes to the end of its download,
\* whatever fails in between.
EveryDownloadEnds ==
  \A c \in Conns : peer[c] = "reading" ~> peer[c] \in {"ended", "left"}

\* As long as nothing fails, it comes to the end with the whole payload.
EveryDownloadCompletes ==
  \A c \in Conns :
    (peer[c] = "reading" /\ faults = 0) ~>
      (got[c] = Chunks \/ peer[c] = "left" \/ faults > 0)

\* The server implements the abstract transfer: what a client has read is the
\* beginning of its stream, and "ended" is complete or cut by what it has.
absPhase == [c \in Conns |->
  CASE peer[c] = "reading" -> "open"
    [] peer[c] = "ended"   -> IF got[c] = Chunks THEN "complete" ELSE "cut"
    [] OTHER               -> peer[c]]
absReceived == [c \in Conns |-> SubSeq(stream[c], 1, got[c])]

T == INSTANCE Transfer WITH phase <- absPhase, received <- absReceived,
                            broken <- dropped
ImplementsTransfer == T!Spec
=============================================================================
