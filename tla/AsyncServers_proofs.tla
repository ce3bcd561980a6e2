------------------------- MODULE AsyncServers_proofs -------------------------
(* The four asynchronous servers, for every number of clients, descriptors, *)
(* chunks and failures: a task keeps to what its own connection was sent,   *)
(* and each server keeps the promise of Transfer.                           *)
EXTENDS AsyncServers, Sockets_proofs

USE AsyncAssumption, SocketsAssumption, MessagesAssumption

-----------------------------------------------------------------------------
(* The inductive invariant.                                                 *)

\* Before main serves there is no accept operation.
AtStart == main \in {"start", "mapped"} => acceptor = "off"

\* A connection is new, queued, held by the server, or behind it.
Places == \A c \in Conns : c \in backlog \cup open =>
  peer[c] # "idle" /\ ~(c \in backlog /\ c \in open)

\* One that no task has served yet has been sent nothing.
Unsent == \A c \in Conns :
  peer[c] = "idle" \/ c \in backlog \/ c = accepted => stream[c] = <<>>

\* A write stays within the file, and the kernel within the write.
Writes == \A c \in Conns :
  /\ task[c] = "spawned" => sent[c] = 0
  /\ task[c] \in {"writing", "wrote", "failed"} =>
       sent[c] + asked[c] <= Chunks /\ taken[c] <= asked[c]

\* A message of taps-asio that was sent was sent as a whole.
WholeMessages == program = "taps" => \A c \in Conns : task[c] = "wrote" => taken[c] = asked[c]

Served == OffsetsMatch /\ InOrder /\ Unsent /\ Writes /\ WholeMessages

IInv == TypeOK /\ AtStart /\ OneTaskPerSocket /\ Places /\ Served

\* A task fails because its client has left, or gives its connection up.
Gone == \A c \in Conns : task[c] = "failed" => c \in dropped \/ peer[c] = "left"

-----------------------------------------------------------------------------
(* What the four programs have in common.                                   *)

\* A step of main and of what it starts: nothing is accepted or sent by it.
MainStep ==
  /\ main' \in {"mapped", "serving", "exited"}
  /\ \/ UNCHANGED acceptor
     \/ acceptor = "off" /\ acceptor' \in {"pending", "stopped"} /\ main' # "mapped"
  /\ main' = "mapped" => main = "start"
  /\ listening' \in BOOLEAN /\ faults' \in 0 .. MaxFaults
  /\ UNCHANGED <<accepted, open, taskVars, backlog, reset, stream, clientVars, dropped>>

\* A task with offset s asks for a part of the rest to be sent, or ends.
SendFrom(c, s) ==
  /\ sent' = [sent EXCEPT ![c] = s]
  /\ \/ \E n \in 1 .. Chunks - s : StartWrite(c, n) /\ UNCHANGED open
     \/ s >= Chunks /\ Finish(c)

\* What follows an accept: the task is spawned, or runs at once, and the next
\* accept is started; after an error this need not be so.
NextAccept ==
  /\ acceptor = "done" /\ acceptor' = "pending" /\ accepted' = NoConn
  /\ \/ /\ task' = [task EXCEPT ![accepted] = "spawned"]
        /\ sent' = [sent EXCEPT ![accepted] = 0]
        /\ UNCHANGED <<open, asked, taken>>
     \/ SendFrom(accepted, 0)
  /\ UNCHANGED <<main, socketVars>>

AfterError ==
  /\ acceptor = "failed" /\ acceptor' \in {"pending", "stopped"}
  /\ accepted' \in {accepted, NoConn}
  /\ UNCHANGED <<main, open, taskVars, socketVars>>

\* A task that runs.
TaskStep(c) ==
  /\ \/ task[c] = "spawned" /\ SendFrom(c, 0)
     \/ task[c] = "wrote" /\ SendFrom(c, sent[c] + taken[c])
     \/ task[c] = "failed" /\ Finish(c) /\ UNCHANGED sent
  /\ UNCHANGED <<main, acceptVars, socketVars>>

\* The kernel completes or fails a write.
WriteStep(c) == WriteGoesOn(c) \/ WriteErrors(c)

\* The pool of async-berkeley ends.
PoolEnds ==
  /\ open = {} /\ acceptor = "stopped"
  /\ main' = "exited" /\ listening' = FALSE
  /\ backlog' = {} /\ Drop(backlog)
  /\ UNCHANGED <<acceptVars, open, taskVars, reset, stream, clientVars, faults>>

ServerStep == \/ MainStep \/ NextAccept \/ AfterError \/ PoolEnds
              \/ AcceptCompletes \/ AcceptErrors \/ Killed
              \/ \E c \in Conns : TaskStep(c) \/ WriteStep(c)

AnyStep == ServerStep \/ \E c \in Conns : Environment(c)

-----------------------------------------------------------------------------
(* Each program takes such steps only.                                      *)

\* asio: coroutines, exceptions.
LEMMA AsioSteps ==
  ASSUME TypeOK, AtStart, program = "asio", Asio!Next PROVE AnyStep
<1> USE DEF Asio!acceptVars, Asio!taskVars, Asio!netVars, Asio!clientVars, Asio!socketVars,
            Asio!serverVars, Asio!Fault, Asio!NoFault, Asio!Drop, Asio!Free, Asio!Take,
            acceptVars, taskVars, netVars, clientVars, socketVars, serverVars,
            Fault, NoFault, Drop, Free, Take
<1> /\ main \in {"start", "mapped", "serving", "exited"} /\ listening \in BOOLEAN
    /\ faults \in 0 .. MaxFaults /\ sent \in [Conns -> 0 .. Chunks]
    /\ taken \in [Conns -> 0 .. Chunks] /\ asked \in [Conns -> 0 .. Chunks]
  BY DEF TypeOK, ServerTypes, TaskTypes, SocketTypes, NetTypes, FaultTypes
<1>0. \A S : Asio!Cardinality(S) = Cardinality(S)
  BY DEF Asio!Cardinality, Cardinality
<1>1. ASSUME Asio!Setup PROVE MainStep
  <2>1. CASE Asio!MapFile
    BY <2>1 DEF Asio!MapFile, Asio!Mapping, Asio!Stage, MainStep
  <2>2. CASE Asio!Listen
    <3>1. listening' \in BOOLEAN
      BY <2>2 DEF Asio!Listen, Asio!Listening
    <3> QED BY <2>2, <3>1 DEF Asio!Listen, Asio!Listening, Asio!Stage, AtStart, MainStep
  <2> QED BY <1>1, <2>1, <2>2 DEF Asio!Setup
<1>2. ASSUME Asio!accept_loop PROVE NextAccept \/ AfterError
  BY <1>2 DEF Asio!accept_loop, Asio!AfterAcceptError, NextAccept, AfterError
<1>3. ASSUME NEW c \in Conns, NEW s \in Nat, Asio!send_file(c, s) PROVE SendFrom(c, s)
  BY <1>3 DEF Asio!send_file, Asio!StartWrite, Asio!Finish, Asio!Rest, SendFrom,
     StartWrite, Finish
<1>4. ASSUME NEW c \in Conns, Asio!serve_client(c) PROVE TaskStep(c)
  BY <1>3, <1>4 DEF Asio!serve_client, Asio!NewOffset, Asio!Finish, Finish, TaskStep
<1>5. ASSUME Asio!Runtime PROVE AcceptCompletes \/ AcceptErrors \/ Killed
  <2>1. Asio!AcceptCompletes => AcceptCompletes
    BY <1>0 DEF Asio!AcceptCompletes, AcceptCompletes
  <2>2. Asio!AcceptErrors => AcceptErrors
    BY <1>0 DEF Asio!AcceptErrors, AcceptErrors
  <2>3. Asio!Killed => Killed
    BY DEF Asio!Killed, Killed
  <2> QED BY <1>5, <2>1, <2>2, <2>3 DEF Asio!Runtime
<1>6. ASSUME NEW c \in Conns, Asio!WriteProgress(c, FALSE) \/ Asio!WriteErrors(c)
      PROVE  WriteStep(c)
  <2>1. CASE Asio!WriteProgress(c, FALSE)
    BY <2>1 DEF Asio!WriteProgress, WriteStep, WriteGoesOn, WriteProgress, Taps!SendsAll
  <2>2. CASE Asio!WriteErrors(c)
    BY <2>2 DEF Asio!WriteErrors, WriteStep, WriteErrors
  <2> QED BY <1>6, <2>1, <2>2
<1>7. ASSUME NEW c \in Conns, Asio!Environment(c) PROVE Environment(c)
  <2>1. Asio!Connect(c) => Connect(c)
    BY <1>0 DEF Asio!Connect, Connect
  <2>2. Asio!Leave(c) => Leave(c)
    BY DEF Asio!Leave, Leave
  <2>3. Asio!Delivery(c, c \in open) => Delivery(c, c \in open)
    BY DEF Asio!Delivery, Asio!Read, Asio!ReadEnd, Asio!ResetArrives, Delivery, Read,
       ReadEnd, ResetArrives
  <2> QED BY <1>7, <2>1, <2>2, <2>3 DEF Asio!Environment, Environment
<1> QED BY <1>1, <1>2, <1>4, <1>5, <1>6, <1>7 DEF Asio!Next, AnyStep, ServerStep

\* corosio: coroutines, error codes.
LEMMA CorosioSteps ==
  ASSUME TypeOK, AtStart, program = "corosio", Corosio!Next PROVE AnyStep
<1> USE DEF Corosio!acceptVars, Corosio!taskVars, Corosio!netVars, Corosio!clientVars,
            Corosio!socketVars,
            Corosio!serverVars, Corosio!Fault, Corosio!NoFault, Corosio!Drop, Corosio!Free,
            Corosio!Take,
            acceptVars, taskVars, netVars, clientVars, socketVars, serverVars,
            Fault, NoFault, Drop, Free, Take
<1> /\ main \in {"start", "mapped", "serving", "exited"} /\ listening \in BOOLEAN
    /\ faults \in 0 .. MaxFaults /\ sent \in [Conns -> 0 .. Chunks]
    /\ taken \in [Conns -> 0 .. Chunks] /\ asked \in [Conns -> 0 .. Chunks]
  BY DEF TypeOK, ServerTypes, TaskTypes, SocketTypes, NetTypes, FaultTypes
<1>0. \A S : Corosio!Cardinality(S) = Cardinality(S)
  BY DEF Corosio!Cardinality, Cardinality
<1>1. ASSUME Corosio!Setup PROVE MainStep
  <2>1. CASE Corosio!MapFile
    BY <2>1 DEF Corosio!MapFile, Corosio!Mapping, Corosio!Stage, MainStep
  <2>2. CASE Corosio!Listen
    <3>1. listening' \in BOOLEAN
      BY <2>2 DEF Corosio!Listen, Corosio!Listening
    <3> QED BY <2>2, <3>1 DEF Corosio!Listen, Corosio!Listening, Corosio!Stage, AtStart,
               MainStep
  <2> QED BY <1>1, <2>1, <2>2 DEF Corosio!Setup
<1>2. ASSUME Corosio!accept_loop PROVE NextAccept \/ AfterError
  BY <1>2 DEF Corosio!accept_loop, NextAccept, AfterError
<1>3. ASSUME NEW c \in Conns, NEW s \in Nat, Corosio!send_file(c, s) PROVE SendFrom(c, s)
  BY <1>3 DEF Corosio!send_file, Corosio!StartWrite, Corosio!Finish, SendFrom, StartWrite,
     Finish
<1>4. ASSUME NEW c \in Conns, Corosio!serve_client(c) PROVE TaskStep(c)
  BY <1>3, <1>4 DEF Corosio!serve_client, Corosio!NewOffset, Corosio!Broken,
     Corosio!Finish, Finish, TaskStep
<1>5. ASSUME Corosio!Runtime PROVE AcceptCompletes \/ AcceptErrors \/ Killed
  <2>1. Corosio!AcceptCompletes => AcceptCompletes
    BY <1>0 DEF Corosio!AcceptCompletes, AcceptCompletes
  <2>2. Corosio!AcceptErrors => AcceptErrors
    BY <1>0 DEF Corosio!AcceptErrors, AcceptErrors
  <2>3. Corosio!Killed => Killed
    BY DEF Corosio!Killed, Killed
  <2> QED BY <1>5, <2>1, <2>2, <2>3 DEF Corosio!Runtime
<1>6. ASSUME NEW c \in Conns, Corosio!WriteProgress(c, FALSE) \/ Corosio!WriteErrors(c)
      PROVE  WriteStep(c)
  <2>1. CASE Corosio!WriteProgress(c, FALSE)
    BY <2>1 DEF Corosio!WriteProgress, WriteStep, WriteGoesOn, WriteProgress, Taps!SendsAll
  <2>2. CASE Corosio!WriteErrors(c)
    BY <2>2 DEF Corosio!WriteErrors, WriteStep, WriteErrors
  <2> QED BY <1>6, <2>1, <2>2
<1>7. ASSUME NEW c \in Conns, Corosio!Environment(c) PROVE Environment(c)
  <2>1. Corosio!Connect(c) => Connect(c)
    BY <1>0 DEF Corosio!Connect, Connect
  <2>2. Corosio!Leave(c) => Leave(c)
    BY DEF Corosio!Leave, Leave
  <2>3. Corosio!Delivery(c, c \in open) => Delivery(c, c \in open)
    BY DEF Corosio!Delivery, Corosio!Read, Corosio!ReadEnd, Corosio!ResetArrives, Delivery,
       Read, ReadEnd, ResetArrives
  <2> QED BY <1>7, <2>1, <2>2, <2>3 DEF Corosio!Environment, Environment
<1> QED BY <1>1, <1>2, <1>4, <1>5, <1>6, <1>7 DEF Corosio!Next, AnyStep, ServerStep

\* taps-asio: messages, whose parts are the kernel's business.
LEMMA TapsSteps ==
  ASSUME TypeOK, AtStart, WholeMessages, program = "taps", Taps!Next PROVE AnyStep
<1> USE DEF Taps!acceptVars, Taps!taskVars, Taps!netVars, Taps!clientVars, Taps!socketVars,
            Taps!serverVars, Taps!Fault, Taps!NoFault, Taps!Drop, Taps!Free, Taps!Take,
            acceptVars, taskVars, netVars, clientVars, socketVars, serverVars,
            Fault, NoFault, Drop, Free, Take
<1> /\ main \in {"start", "mapped", "serving", "exited"} /\ listening \in BOOLEAN
    /\ faults \in 0 .. MaxFaults /\ sent \in [Conns -> 0 .. Chunks]
    /\ taken \in [Conns -> 0 .. Chunks] /\ asked \in [Conns -> 0 .. Chunks]
  BY DEF TypeOK, ServerTypes, TaskTypes, SocketTypes, NetTypes, FaultTypes
<1>0. \A S : Taps!Cardinality(S) = Cardinality(S)
  BY DEF Taps!Cardinality, Cardinality
<1>1. ASSUME Taps!Setup PROVE MainStep
  <2>1. CASE Taps!MapFile
    BY <2>1 DEF Taps!MapFile, Taps!Mapping, Taps!Stage, MainStep
  <2>2. CASE Taps!StartPool
    BY <2>2 DEF Taps!StartPool, Taps!Stage, MainStep
  <2>3. CASE Taps!listen_loop
    <3>1. listening' \in BOOLEAN
      BY <2>3 DEF Taps!listen_loop
    <3> QED BY <2>3, <3>1 DEF Taps!listen_loop, MainStep
  <2> QED BY <1>1, <2>1, <2>2, <2>3 DEF Taps!Setup
<1>2. ASSUME Taps!accept_loop PROVE NextAccept \/ AfterError
  BY <1>2 DEF Taps!accept_loop, NextAccept, AfterError
<1>3. ASSUME NEW c \in Conns, NEW s \in Nat, Taps!send_file(c, s) PROVE SendFrom(c, s)
  <2>1. s < Chunks => Taps!ToSend(s) \in 1 .. Chunks - s
    BY DEF Taps!ToSend, Taps!chunk_size
  <2> QED BY <1>3, <2>1 DEF Taps!send_file, Taps!StartWrite, Taps!Finish, SendFrom,
             StartWrite, Finish
<1>4. ASSUME NEW c \in Conns, Taps!serve_client(c) PROVE TaskStep(c)
  BY <1>3, <1>4 DEF Taps!serve_client, Taps!NewOffset, WholeMessages, Taps!Finish, Finish,
     TaskStep
<1>5. ASSUME Taps!Runtime PROVE AcceptCompletes \/ AcceptErrors \/ Killed
  <2>1. Taps!AcceptCompletes => AcceptCompletes
    BY <1>0 DEF Taps!AcceptCompletes, AcceptCompletes
  <2>2. Taps!AcceptErrors => AcceptErrors
    BY <1>0 DEF Taps!AcceptErrors, AcceptErrors
  <2>3. Taps!Killed => Killed
    BY DEF Taps!Killed, Killed
  <2> QED BY <1>5, <2>1, <2>2, <2>3 DEF Taps!Runtime
<1>6. ASSUME NEW c \in Conns, Taps!WriteProgress(c, Taps!SendsAll) \/ Taps!WriteErrors(c)
      PROVE  WriteStep(c)
  <2>1. CASE Taps!WriteProgress(c, Taps!SendsAll)
    BY <2>1 DEF Taps!WriteProgress, WriteStep, WriteGoesOn, WriteProgress, Taps!SendsAll
  <2>2. CASE Taps!WriteErrors(c)
    BY <2>2 DEF Taps!WriteErrors, WriteStep, WriteErrors
  <2> QED BY <1>6, <2>1, <2>2
<1>7. ASSUME NEW c \in Conns, Taps!Environment(c) PROVE Environment(c)
  <2>1. Taps!Connect(c) => Connect(c)
    BY <1>0 DEF Taps!Connect, Connect
  <2>2. Taps!Leave(c) => Leave(c)
    BY DEF Taps!Leave, Leave
  <2>3. Taps!Delivery(c, c \in open) => Delivery(c, c \in open)
    BY DEF Taps!Delivery, Taps!Read, Taps!ReadEnd, Taps!ResetArrives, Delivery, Read,
       ReadEnd, ResetArrives
  <2> QED BY <1>7, <2>1, <2>2, <2>3 DEF Taps!Environment, Environment
<1> QED BY <1>1, <1>2, <1>4, <1>5, <1>6, <1>7 DEF Taps!Next, AnyStep, ServerStep

\* async-berkeley: chains; accept starts the first write itself.
LEMMA BerkeleySteps ==
  ASSUME TypeOK, AtStart, program = "berkeley", Berkeley!Next PROVE AnyStep
<1> USE DEF Berkeley!acceptVars, Berkeley!taskVars, Berkeley!netVars, Berkeley!clientVars,
            Berkeley!socketVars,
            Berkeley!serverVars, Berkeley!Fault, Berkeley!NoFault, Berkeley!Drop,
            Berkeley!Free, Berkeley!Take,
            acceptVars, taskVars, netVars, clientVars, socketVars, serverVars,
            Fault, NoFault, Drop, Free, Take
<1> /\ main \in {"start", "mapped", "serving", "exited"} /\ listening \in BOOLEAN
    /\ faults \in 0 .. MaxFaults /\ sent \in [Conns -> 0 .. Chunks]
    /\ taken \in [Conns -> 0 .. Chunks] /\ asked \in [Conns -> 0 .. Chunks]
  BY DEF TypeOK, ServerTypes, TaskTypes, SocketTypes, NetTypes, FaultTypes
<1>0. \A S : Berkeley!Cardinality(S) = Cardinality(S)
  BY DEF Berkeley!Cardinality, Cardinality
<1>1. ASSUME Berkeley!Setup PROVE MainStep
  <2>1. CASE Berkeley!MapFile
    BY <2>1 DEF Berkeley!MapFile, Berkeley!Mapping, Berkeley!Stage, MainStep
  <2>2. CASE Berkeley!Listen
    <3>1. listening' \in BOOLEAN
      BY <2>2 DEF Berkeley!Listen, Berkeley!Listening
    <3> QED BY <2>2, <3>1 DEF Berkeley!Listen, Berkeley!Listening, Berkeley!Stage, AtStart,
               MainStep
  <2> QED BY <1>1, <2>1, <2>2 DEF Berkeley!Setup
<1>2. ASSUME Berkeley!AcceptEnds PROVE NextAccept \/ AfterError
  <2>1. CASE Berkeley!AcceptThen
    BY <2>1 DEF Berkeley!AcceptThen, Berkeley!send_file, Berkeley!StartWrite,
       Berkeley!Finish, NextAccept,
       SendFrom, StartWrite, Finish
  <2>2. CASE Berkeley!AcceptUponError
    BY <2>2 DEF Berkeley!AcceptUponError, AfterError
  <2> QED BY <1>2, <2>1, <2>2 DEF Berkeley!AcceptEnds
<1>3. ASSUME NEW c \in Conns, NEW s \in Nat, Berkeley!send_file(c, s) PROVE SendFrom(c, s)
  BY <1>3 DEF Berkeley!send_file, Berkeley!StartWrite, Berkeley!Finish, SendFrom,
     StartWrite, Finish
<1>4. ASSUME NEW c \in Conns, Berkeley!SendEnds(c) PROVE TaskStep(c)
  <2>1. CASE Berkeley!SendThen(c)
    BY <1>3, <2>1 DEF Berkeley!SendThen, Berkeley!NewSent, TaskStep
  <2>2. CASE Berkeley!SendUponError(c)
    BY <2>2 DEF Berkeley!SendUponError, Berkeley!Finish, Finish, TaskStep
  <2> QED BY <1>4, <2>1, <2>2 DEF Berkeley!SendEnds
<1>5. ASSUME Berkeley!Runtime PROVE AcceptCompletes \/ AcceptErrors \/ Killed
  <2>1. Berkeley!AcceptCompletes => AcceptCompletes
    BY <1>0 DEF Berkeley!AcceptCompletes, AcceptCompletes
  <2>2. Berkeley!AcceptErrors => AcceptErrors
    BY <1>0 DEF Berkeley!AcceptErrors, AcceptErrors
  <2>3. Berkeley!Killed => Killed
    BY DEF Berkeley!Killed, Killed
  <2> QED BY <1>5, <2>1, <2>2, <2>3 DEF Berkeley!Runtime
<1>6. ASSUME NEW c \in Conns, Berkeley!WriteProgress(c, FALSE) \/ Berkeley!WriteErrors(c)
      PROVE  WriteStep(c)
  <2>1. CASE Berkeley!WriteProgress(c, FALSE)
    BY <2>1 DEF Berkeley!WriteProgress, WriteStep, WriteGoesOn, WriteProgress, Taps!SendsAll
  <2>2. CASE Berkeley!WriteErrors(c)
    BY <2>2 DEF Berkeley!WriteErrors, WriteStep, WriteErrors
  <2> QED BY <1>6, <2>1, <2>2
<1>7. ASSUME NEW c \in Conns, Berkeley!Environment(c) PROVE Environment(c)
  <2>1. Berkeley!Connect(c) => Connect(c)
    BY <1>0 DEF Berkeley!Connect, Connect
  <2>2. Berkeley!Leave(c) => Leave(c)
    BY DEF Berkeley!Leave, Leave
  <2>3. Berkeley!Delivery(c, c \in open) => Delivery(c, c \in open)
    BY DEF Berkeley!Delivery, Berkeley!Read, Berkeley!ReadEnd, Berkeley!ResetArrives,
       Delivery, Read, ReadEnd, ResetArrives
  <2> QED BY <1>7, <2>1, <2>2, <2>3 DEF Berkeley!Environment, Environment
<1>8. ASSUME Berkeley!PoolEnds PROVE PoolEnds
  BY <1>8 DEF Berkeley!PoolEnds, PoolEnds
<1> QED BY <1>1, <1>2, <1>4, <1>5, <1>6, <1>7, <1>8 DEF Berkeley!Next, AnyStep, ServerStep

-----------------------------------------------------------------------------
(* The invariant is kept.                                                   *)

\* Steps that leave tasks and streams alone and accept nothing.
LEMMA QuietInv ==
  ASSUME IInv, TypeOK', AtStart', UNCHANGED <<taskVars, open, accepted, stream, program>>,
         backlog' \subseteq backlog, acceptor' = "done" <=> acceptor = "done",
         \A c \in Conns : peer'[c] = "idle" <=> peer[c] = "idle"
  PROVE  IInv'
<1> USE DEF IInv, Served, taskVars
<1>1. OneTaskPerSocket'
  BY DEF OneTaskPerSocket
<1>2. Places'
  BY DEF Places
<1>3. OffsetsMatch' /\ InOrder' /\ Writes' /\ WholeMessages'
  BY DEF OffsetsMatch, InOrder, Writes, WholeMessages
<1>4. Unsent'
  BY DEF Unsent
<1> QED BY <1>1, <1>2, <1>3, <1>4

\* main, errors of the accept operation, and the end of the pool.
LEMMA MainInv ==
  ASSUME IInv, UNCHANGED program, MainStep \/ AfterError \/ AcceptErrors \/ PoolEnds
  PROVE  IInv'
<1> USE DEF taskVars, acceptVars, netVars, clientVars, socketVars
<1>0. acceptor # "done" => accepted = NoConn
  BY DEF IInv, OneTaskPerSocket
<1>1. CASE MainStep
  <2>1. TypeOK' /\ AtStart'
    BY <1>1 DEF IInv, TypeOK, AtStart, TaskTypes, ServerTypes, SocketTypes, NetTypes,
       StreamTypes, FaultTypes, MainStep
  <2> QED BY <1>1, <2>1, QuietInv DEF MainStep
<1>2. CASE AfterError
  <2>1. accepted' = accepted
    BY <1>0, <1>2 DEF AfterError
  <2>2. TypeOK' /\ AtStart'
    BY <1>2, <2>1 DEF IInv, TypeOK, AtStart, TaskTypes, ServerTypes, SocketTypes, NetTypes,
       StreamTypes, FaultTypes, AfterError
  <2> QED BY <1>2, <2>1, <2>2, QuietInv DEF AfterError
<1>3. CASE AcceptErrors
  <2>1. faults' \in 0 .. MaxFaults
    BY <1>3 DEF AcceptErrors, Fault, NoFault, IInv, TypeOK, SocketTypes, FaultTypes
  <2>2. TypeOK' /\ AtStart'
    BY <1>3, <2>1 DEF IInv, TypeOK, AtStart, TaskTypes, ServerTypes, SocketTypes, NetTypes,
       StreamTypes, FaultTypes, AcceptErrors
  <2> QED BY <1>3, <2>2, QuietInv DEF AcceptErrors
<1>4. CASE PoolEnds
  <2>1. listening' \in BOOLEAN
    BY <1>4 DEF PoolEnds
  <2>2. TypeOK' /\ AtStart'
    BY <1>4, <2>1 DEF IInv, TypeOK, AtStart, TaskTypes, ServerTypes, SocketTypes, NetTypes,
       StreamTypes, FaultTypes, PoolEnds, Drop
  <2> QED BY <1>4, <2>2, QuietInv DEF PoolEnds
<1> QED BY <1>1, <1>2, <1>3, <1>4

\* A connection that is accepted was queued, and nobody had it.
LEMMA AcceptInv ==
  ASSUME IInv, UNCHANGED program, AcceptCompletes PROVE IInv'
<1> USE DEF IInv, Served, taskVars, acceptVars, clientVars
<1>1. PICK c \in backlog : /\ acceptor' = "done" /\ accepted' = c
                           /\ backlog' = backlog \ {c} /\ open' = open \cup {c}
  BY DEF AcceptCompletes
<1>2. /\ UNCHANGED <<main, taskVars, listening, reset, stream, clientVars, faults, dropped>>
      /\ acceptor = "pending"
  BY DEF AcceptCompletes
<1>3. c \in Conns /\ c \notin open /\ accepted = NoConn
  BY <1>2 DEF TypeOK, SocketTypes, NetTypes, Places, OneTaskPerSocket
<1>4. TypeOK' /\ AtStart'
  BY <1>1, <1>2, <1>3 DEF TypeOK, AtStart, TaskTypes, ServerTypes, SocketTypes, NetTypes,
     StreamTypes, FaultTypes
<1>5. task[c] = "none"
  BY <1>3 DEF OneTaskPerSocket
<1>6. OneTaskPerSocket'
  <2>1. {d \in Conns : task[d] # "none"} = open
    BY <1>3 DEF OneTaskPerSocket, TypeOK, ServerTypes
  <2> QED BY <1>1, <1>2, <1>3, <1>5, <2>1 DEF OneTaskPerSocket
<1>7. Places' /\ Unsent'
  BY <1>1, <1>2, <1>3 DEF Places, Unsent
<1>8. OffsetsMatch' /\ InOrder' /\ Writes' /\ WholeMessages'
  BY <1>1, <1>2, <1>5 DEF OffsetsMatch, InOrder, Writes, WholeMessages
<1> QED BY <1>4, <1>6, <1>7, <1>8

\* A task that has sent what its offset says goes on from there, or ends.
LEMMA SendFromKeeps ==
  ASSUME IInv, UNCHANGED <<stream, program>>, NEW c \in open, NEW s,
         s = Len(stream[c]), SendFrom(c, s)
  PROVE  /\ TaskTypes' /\ OffsetsMatch' /\ Writes' /\ WholeMessages' /\ open' \subseteq open
         /\ \A d \in Conns : task'[d] # "none" <=> d \in open' /\ (d = c \/ task[d] # "none")
<1> USE DEF IInv, Served
<1>1. c \in Conns /\ TaskTypes /\ open \subseteq Conns
  BY DEF TypeOK, ServerTypes
<1>2. s \in 0 .. Chunks
  BY <1>1, SentIsWithin DEF TypeOK
<1>3. \A d \in Conns : task[d] # "none" => d \in open
  BY DEF OneTaskPerSocket
<1>4. sent' = [sent EXCEPT ![c] = s]
  BY DEF SendFrom
<1>5. ASSUME NEW n \in 1 .. Chunks - s, StartWrite(c, n), UNCHANGED open
      PROVE  /\ TaskTypes' /\ OffsetsMatch' /\ Writes' /\ WholeMessages'
             /\ \A d \in Conns : task'[d] # "none" <=> d \in open' /\ (d = c \/ task[d] # "none")
  <2>1. /\ task' = [task EXCEPT ![c] = "writing"] /\ asked' = [asked EXCEPT ![c] = n]
        /\ taken' = [taken EXCEPT ![c] = 0] /\ n \in 0 .. Chunks /\ s + n <= Chunks
    BY <1>2, <1>5 DEF StartWrite
  <2>2. TaskTypes'
    BY <1>1, <1>2, <1>4, <2>1 DEF TaskTypes
  <2>3. OffsetsMatch'
    <3>1. sent'[c] = s /\ taken'[c] = 0 /\ task'[c] = "writing"
      BY <1>1, <1>4, <2>1 DEF TaskTypes
    <3>2. \A d \in Conns \ {c} : sent'[d] = sent[d] /\ taken'[d] = taken[d] /\ task'[d] = task[d]
      BY <1>1, <1>4, <2>1 DEF TaskTypes
    <3> QED BY <1>1, <1>2, <1>5, <3>1, <3>2 DEF OffsetsMatch
  <2>4. Writes' /\ WholeMessages'
    BY <1>1, <1>2, <1>4, <2>1 DEF TaskTypes, Writes, WholeMessages
  <2>5. \A d \in Conns : task'[d] # "none" <=> d \in open' /\ (d = c \/ task[d] # "none")
    BY <1>1, <1>3, <1>5, <2>1 DEF TaskTypes
  <2> QED BY <2>2, <2>3, <2>4, <2>5
<1>6. ASSUME Finish(c)
      PROVE  /\ TaskTypes' /\ OffsetsMatch' /\ Writes' /\ WholeMessages' /\ open' \subseteq open
             /\ \A d \in Conns : task'[d] # "none" <=> d \in open' /\ (d = c \/ task[d] # "none")
  <2>1. /\ task' = [task EXCEPT ![c] = "none"] /\ open' = open \ {c}
        /\ UNCHANGED <<asked, taken>>
    BY <1>6 DEF Finish
  <2>2. TaskTypes'
    BY <1>1, <1>2, <1>4, <2>1 DEF TaskTypes
  <2>3. OffsetsMatch' /\ Writes' /\ WholeMessages'
    BY <1>1, <1>4, <2>1 DEF TaskTypes, OffsetsMatch, Writes, WholeMessages
  <2>4. \A d \in Conns : task'[d] # "none" <=> d \in open' /\ (d = c \/ task[d] # "none")
    BY <1>1, <1>3, <2>1 DEF TaskTypes
  <2> QED BY <2>1, <2>2, <2>3, <2>4
<1> QED BY <1>5, <1>6 DEF SendFrom

\* What follows an accept.
LEMMA NextAcceptInv ==
  ASSUME IInv, UNCHANGED program, NextAccept PROVE IInv'
<1> USE DEF IInv, Served, taskVars, netVars, clientVars, socketVars
<1>1. /\ UNCHANGED <<main, socketVars>> /\ acceptor' = "pending" /\ accepted' = NoConn
      /\ accepted \in open /\ accepted \in Conns /\ acceptor = "done"
      /\ stream[accepted] = <<>> /\ task[accepted] = "none"
  BY DEF NextAccept, OneTaskPerSocket, TypeOK, ServerTypes, Unsent
<1>2. /\ TaskTypes' /\ OffsetsMatch' /\ Writes' /\ WholeMessages' /\ open' \subseteq open
      /\ \A d \in Conns : task'[d] # "none" <=> d \in open' /\ (d = accepted \/ task[d] # "none")
  <2>1. CASE SendFrom(accepted, 0)
    <3>1. Len(stream[accepted]) = 0
      BY <1>1
    <3> QED BY <1>1, <2>1, <3>1, SendFromKeeps
  <2>2. CASE /\ task' = [task EXCEPT ![accepted] = "spawned"]
             /\ sent' = [sent EXCEPT ![accepted] = 0]
             /\ UNCHANGED <<open, asked, taken>>
    <3>1. TaskTypes'
      BY <1>1, <2>2 DEF TypeOK, TaskTypes
    <3>2. OffsetsMatch'
      <4>1. Len(stream[accepted]) = 0
        BY <1>1
      <4>2. sent'[accepted] = 0 /\ task'[accepted] = "spawned"
        BY <1>1, <2>2 DEF TypeOK, TaskTypes
      <4>3. \A d \in Conns \ {accepted} : sent'[d] = sent[d] /\ task'[d] = task[d]
        BY <1>1, <2>2 DEF TypeOK, TaskTypes
      <4> QED BY <1>1, <2>2, <4>1, <4>2, <4>3 DEF OffsetsMatch, TypeOK, ServerTypes
    <3>3. Writes' /\ WholeMessages'
      BY <1>1, <2>2 DEF TypeOK, TaskTypes, Writes, WholeMessages
    <3>4. \A d \in Conns : task'[d] # "none" <=> d \in open' /\ (d = accepted \/ task[d] # "none")
      BY <1>1, <2>2 DEF TypeOK, TaskTypes, OneTaskPerSocket
    <3> QED BY <2>2, <3>1, <3>2, <3>3, <3>4
  <2> QED BY <2>1, <2>2 DEF NextAccept
<1>3. TypeOK' /\ AtStart'
  BY <1>1, <1>2 DEF TypeOK, AtStart, ServerTypes, SocketTypes, NetTypes, StreamTypes,
     FaultTypes
<1>4. OneTaskPerSocket'
  <2>1. {d \in Conns : task'[d] # "none"} = open'
    BY <1>1, <1>2 DEF OneTaskPerSocket, TypeOK, ServerTypes
  <2>2. NoConn \notin open'
    BY <1>3 DEF TypeOK, ServerTypes
  <2> QED BY <1>1, <2>1, <2>2 DEF OneTaskPerSocket
<1>5. Places' /\ InOrder'
  BY <1>1, <1>2 DEF Places, InOrder
<1>6. Unsent'
  BY <1>1 DEF Unsent
<1> QED BY <1>2, <1>3, <1>4, <1>5, <1>6

\* A task that runs.
LEMMA TaskInv ==
  ASSUME IInv, UNCHANGED program, NEW c \in Conns, TaskStep(c) PROVE IInv'
<1> USE DEF IInv, Served, taskVars, acceptVars, netVars, clientVars, socketVars
<1>1. UNCHANGED <<main, acceptVars, socketVars>> /\ task[c] # "none"
  BY DEF TaskStep
<1>2. c \in open /\ c # accepted /\ task[c] # "none"
  BY <1>1 DEF OneTaskPerSocket
<1>3. /\ TaskTypes' /\ OffsetsMatch' /\ Writes' /\ WholeMessages' /\ open' \subseteq open
      /\ \A d \in Conns : task'[d] # "none" <=> d \in open' /\ (d = c \/ task[d] # "none")
  <2>1. CASE task[c] = "spawned" /\ SendFrom(c, 0)
    <3>1. Len(stream[c]) = 0
      BY <1>2, <2>1 DEF OffsetsMatch, Writes
    <3> QED BY <1>1, <1>2, <2>1, <3>1, SendFromKeeps
  <2>2. CASE task[c] = "wrote" /\ SendFrom(c, sent[c] + taken[c])
    <3>1. Len(stream[c]) = sent[c] + taken[c]
      BY <1>2, <2>2 DEF OffsetsMatch
    <3> QED BY <1>1, <1>2, <2>2, <3>1, SendFromKeeps
  <2>3. CASE task[c] = "failed" /\ Finish(c) /\ UNCHANGED sent
    <3>1. /\ task' = [task EXCEPT ![c] = "none"] /\ open' = open \ {c}
          /\ UNCHANGED <<sent, asked, taken>>
      BY <2>3 DEF Finish
    <3>2. TaskTypes'
      BY <3>1 DEF TypeOK, TaskTypes
    <3>3. OffsetsMatch' /\ Writes' /\ WholeMessages'
      BY <1>1, <3>1 DEF TypeOK, TaskTypes, ServerTypes, OffsetsMatch, Writes, WholeMessages
    <3>4. \A d \in Conns : task'[d] # "none" <=> d \in open' /\ (d = c \/ task[d] # "none")
      BY <3>1 DEF TypeOK, TaskTypes, OneTaskPerSocket
    <3> QED BY <3>1, <3>2, <3>3, <3>4
  <2> QED BY <2>1, <2>2, <2>3 DEF TaskStep
<1>4. TypeOK' /\ AtStart'
  BY <1>1, <1>3 DEF TypeOK, AtStart, ServerTypes, SocketTypes, NetTypes, StreamTypes,
     FaultTypes
<1>5. OneTaskPerSocket'
  <2>1. accepted # NoConn => accepted \in open'
    <3>1. \A d \in open : d # c => d \in open'
      BY DEF TaskStep, SendFrom, Finish
    <3> QED BY <1>2, <3>1 DEF OneTaskPerSocket
  <2>2. accepted \in Conns => task'[accepted] = "none"
    BY <1>2, <1>3 DEF OneTaskPerSocket
  <2>3. {d \in Conns : task'[d] # "none"} = open' \ {accepted}
    <3>1. \A d \in Conns : task'[d] # "none" <=> d \in open' /\ d # accepted
      BY <1>2, <1>3 DEF OneTaskPerSocket
    <3> QED BY <1>4, <3>1 DEF TypeOK, ServerTypes
  <2>4. acceptor' = acceptor /\ accepted' = accepted /\ accepted \in Conns \cup {NoConn}
    BY <1>1 DEF TypeOK, ServerTypes
  <2> QED BY <2>1, <2>2, <2>3, <2>4 DEF OneTaskPerSocket
<1>6. Places' /\ InOrder' /\ Unsent'
  BY <1>1, <1>3 DEF Places, InOrder, Unsent
<1> QED BY <1>3, <1>4, <1>5, <1>6

\* The kernel takes a part of a pending write.
LEMMA WriteInv ==
  ASSUME IInv, UNCHANGED program, NEW c \in Conns, WriteGoesOn(c) PROVE IInv'
<1> USE DEF IInv, Served, acceptVars, netVars, clientVars
<1>1. /\ task[c] = "writing"
      /\ UNCHANGED <<main, acceptVars, open, sent, asked, netVars, clientVars, faults, dropped>>
  BY DEF WriteGoesOn, WriteProgress
<1>2. PICK n \in 1 .. asked[c] - taken[c] :
        /\ Take(c, sent[c] + taken[c], n)
        /\ taken' = [taken EXCEPT ![c] = taken[c] + n]
        /\ task' = IF (program = "taps" /\ Taps!SendsAll) /\ taken[c] + n < asked[c]
                   THEN task ELSE [task EXCEPT ![c] = "wrote"]
  BY DEF WriteGoesOn, WriteProgress
<1>3. /\ sent[c] \in 0 .. Chunks /\ taken[c] \in 0 .. Chunks /\ asked[c] \in 0 .. Chunks
      /\ sent[c] + asked[c] <= Chunks /\ TaskTypes
  BY <1>1 DEF TypeOK, TaskTypes, Writes
<1>4. c \in open /\ c # accepted /\ Len(stream[c]) = sent[c] + taken[c]
  BY <1>1 DEF OneTaskPerSocket, OffsetsMatch
<1>5. /\ stream' \in [Conns -> Seq(1 .. Chunks)] /\ InOrder'
      /\ Len(stream'[c]) = sent[c] + taken[c] + n
      /\ \A d \in Conns : d # c => stream'[d] = stream[d]
  <2>1. sent[c] + taken[c] \in Nat /\ n \in Nat /\ sent[c] + taken[c] + n <= Chunks
    BY <1>3
  <2> QED BY <1>2, <1>4, <2>1, TakenInOrder DEF TypeOK
<1>6. /\ task'[c] \in {"writing", "wrote"} /\ taken'[c] = taken[c] + n
      /\ program = "taps" /\ task'[c] = "wrote" => taken'[c] = asked[c]
      /\ \A d \in Conns \ {c} : task'[d] = task[d] /\ taken'[d] = taken[d]
      /\ TaskTypes'
  <2>1. taken[c] + n \in 0 .. asked[c]
    BY <1>3
  <2>2. program = "taps" => \/ task' = task /\ taken[c] + n < asked[c]
                            \/ task' = [task EXCEPT ![c] = "wrote"] /\ ~(taken[c] + n < asked[c])
    BY <1>2 DEF Taps!SendsAll
  <2>3. task' = task \/ task' = [task EXCEPT ![c] = "wrote"]
    BY <1>2
  <2> QED BY <1>1, <1>2, <1>3, <2>1, <2>2, <2>3 DEF TaskTypes
<1>7. TypeOK' /\ AtStart'
  BY <1>1, <1>5, <1>6 DEF TypeOK, AtStart, ServerTypes, SocketTypes, NetTypes, StreamTypes,
     FaultTypes
<1>8. OneTaskPerSocket'
  <2>1. \A d \in Conns : task'[d] # "none" <=> task[d] # "none"
    BY <1>1, <1>6
  <2> QED BY <1>1, <2>1 DEF OneTaskPerSocket, TypeOK, ServerTypes
<1>9. OffsetsMatch'
  <2> SUFFICES ASSUME NEW d \in open, task'[d] # "none"
               PROVE  Len(stream'[d]) = sent[d] + (IF task'[d] = "spawned" THEN 0 ELSE taken'[d])
    BY <1>1 DEF OffsetsMatch
  <2>1. d \in Conns
    BY DEF TypeOK, ServerTypes
  <2>2. CASE d = c
    <3>1. task'[d] # "spawned" /\ taken'[d] = taken[c] + n /\ n \in Nat
      BY <1>3, <1>6, <2>2
    <3> QED BY <1>3, <1>5, <2>2, <3>1
  <2>3. CASE d # c
    BY <1>5, <1>6, <2>1, <2>3 DEF OffsetsMatch
  <2> QED BY <2>2, <2>3
<1>10. Writes' /\ WholeMessages'
  BY <1>1, <1>2, <1>3, <1>6 DEF Writes, WholeMessages
<1>11. Places' /\ Unsent'
  BY <1>1, <1>4, <1>5 DEF Places, Unsent
<1> QED BY <1>5, <1>7, <1>8, <1>9, <1>10, <1>11

\* A pending write fails.
LEMMA WriteErrorInv ==
  ASSUME IInv, UNCHANGED program, NEW c \in Conns, WriteErrors(c) PROVE IInv'
<1> USE DEF IInv, Served, acceptVars, netVars, clientVars
<1>1. /\ task[c] = "writing" /\ task' = [task EXCEPT ![c] = "failed"]
      /\ UNCHANGED <<main, acceptVars, open, sent, asked, taken, netVars, stream, clientVars>>
      /\ faults' \in 0 .. MaxFaults /\ dropped' \subseteq Conns
  BY DEF WriteErrors, Fault, NoFault, Drop, TypeOK, SocketTypes, FaultTypes
<1>2. task'[c] = "failed" /\ \A d \in Conns \ {c} : task'[d] = task[d]
  BY <1>1 DEF TypeOK, TaskTypes
<1>3. TypeOK' /\ AtStart'
  BY <1>1 DEF TypeOK, AtStart, TaskTypes, ServerTypes, SocketTypes, NetTypes, StreamTypes,
     FaultTypes
<1>4. OneTaskPerSocket'
  <2>1. \A d \in Conns : task'[d] # "none" <=> task[d] # "none"
    BY <1>1, <1>2
  <2> QED BY <1>1, <2>1 DEF OneTaskPerSocket, TypeOK, ServerTypes
<1>5. OffsetsMatch' /\ Writes' /\ WholeMessages'
  BY <1>1, <1>2 DEF OffsetsMatch, Writes, WholeMessages, TypeOK, ServerTypes
<1>6. Places' /\ Unsent' /\ InOrder'
  BY <1>1 DEF Places, Unsent, InOrder
<1> QED BY <1>3, <1>4, <1>5, <1>6

\* The signal.
LEMMA KilledInv ==
  ASSUME IInv, UNCHANGED program, Killed PROVE IInv'
<1> USE DEF IInv, Served, clientVars
<1>1. /\ main' = "exited" /\ acceptor' = "off" /\ accepted' = NoConn
      /\ open' = {} /\ backlog' = {} /\ dropped' = dropped \cup (open \cup backlog)
      /\ task' = [c \in Conns |-> "none"]
      /\ UNCHANGED <<sent, asked, taken, reset, clientVars, stream>>
      /\ faults' \in 0 .. MaxFaults
  BY DEF Killed, Fault, Drop, TypeOK, SocketTypes, FaultTypes
<1>2. listening' \in BOOLEAN
  BY DEF Killed
<1>3. TypeOK' /\ AtStart'
  BY <1>1, <1>2 DEF TypeOK, AtStart, TaskTypes, ServerTypes, SocketTypes, NetTypes,
     StreamTypes, FaultTypes
<1>4. OneTaskPerSocket' /\ Places' /\ OffsetsMatch' /\ Writes' /\ WholeMessages'
  BY <1>1 DEF OneTaskPerSocket, Places, OffsetsMatch, Writes, WholeMessages
<1>5. Unsent' /\ InOrder'
  BY <1>1 DEF Unsent, InOrder
<1> QED BY <1>3, <1>4, <1>5

\* Clients and the network.
LEMMA ClientInv ==
  ASSUME IInv, UNCHANGED program, NEW c \in Conns, Environment(c) PROVE IInv'
<1>1. /\ UNCHANGED <<serverVars, stream, faults, dropped>>
      /\ main' = main /\ acceptor' = acceptor
  BY DEF Environment, Connect, Leave, Delivery, Read, ReadEnd, ResetArrives, serverVars,
     acceptVars
<1>2. /\ peer \in [Conns -> {"idle", "reading", "ended", "left"}] /\ got \in [Conns -> Nat]
      /\ backlog \subseteq Conns /\ reset \subseteq Conns /\ listening \in BOOLEAN
  BY DEF IInv, TypeOK, SocketTypes, StreamTypes, NetTypes
<1>3. /\ peer' \in [Conns -> {"idle", "reading", "ended", "left"}] /\ got' \in [Conns -> Nat]
      /\ backlog' \subseteq Conns /\ reset' \subseteq Conns
  BY <1>2 DEF Environment, Connect, Leave, Delivery, Read, ReadEnd, ResetArrives, netVars,
     clientVars
<1>4. listening' \in BOOLEAN
  <2>1. listening' = listening
    BY DEF Environment, Connect, Leave, Delivery, Read, ReadEnd, ResetArrives, netVars
  <2> QED BY <1>2, <2>1
<1>5. TypeOK' /\ AtStart'
  BY <1>1, <1>3, <1>4 DEF IInv, TypeOK, AtStart, TaskTypes, ServerTypes, SocketTypes,
     NetTypes,
     StreamTypes, FaultTypes, serverVars, acceptVars, taskVars
<1>6. CASE Connect(c)
  <2>1. /\ peer[c] = "idle" /\ peer' = [peer EXCEPT ![c] = "reading"]
        /\ backlog' = backlog \cup {c}
    BY <1>6 DEF Connect
  <2>2. Places'
    BY <1>1, <1>2, <2>1 DEF IInv, Places, serverVars
  <2>3. Unsent'
    BY <1>1, <1>2, <2>1 DEF IInv, Served, Unsent, serverVars, acceptVars
  <2>4. OneTaskPerSocket' /\ OffsetsMatch' /\ InOrder' /\ Writes' /\ WholeMessages'
    BY <1>1 DEF IInv, Served, OneTaskPerSocket, OffsetsMatch, InOrder, Writes,
       WholeMessages,
       serverVars, acceptVars, taskVars
  <2> QED BY <1>5, <2>2, <2>3, <2>4 DEF IInv, Served
<1>7. CASE Leave(c) \/ Delivery(c, c \in open)
  <2>1. backlog' = backlog /\ \A d \in Conns : peer'[d] = "idle" <=> peer[d] = "idle"
    BY <1>2, <1>7 DEF Leave, Delivery, Read, ReadEnd, ResetArrives, netVars, clientVars
  <2> QED BY <1>1, <1>5, <2>1, QuietInv DEF serverVars, acceptVars
<1> QED BY <1>6, <1>7 DEF Environment

\* Every step of every program keeps it.
LEMMA StepInv ==
  IInv /\ [AnyNext]_<<vars, program>> => IInv' /\ (AnyStep \/ UNCHANGED <<vars, program>>)
<1> SUFFICES ASSUME IInv, [AnyNext]_<<vars, program>>
             PROVE  IInv' /\ (AnyStep \/ UNCHANGED <<vars, program>>)
  OBVIOUS
<1>1. CASE AnyNext
  <2>1. AnyStep /\ UNCHANGED program
    BY <1>1, AsioSteps, CorosioSteps, TapsSteps, BerkeleySteps DEF AnyNext, IInv, Served
  <2>2. IInv'
    BY <2>1, MainInv, AcceptInv, NextAcceptInv, TaskInv, WriteInv, WriteErrorInv, KilledInv,
       ClientInv DEF AnyStep, ServerStep, WriteStep
  <2> QED BY <2>1, <2>2
<1>2. CASE UNCHANGED <<vars, program>>
  BY <1>2, QuietInv DEF vars, serverVars, socketVars, taskVars, acceptVars, netVars,
     clientVars,
     IInv, TypeOK, AtStart, TaskTypes, ServerTypes, SocketTypes, NetTypes, StreamTypes, FaultTypes
<1> QED BY <1>1, <1>2

\* The invariant holds at the start.
LEMMA InitInv == AnyInit => IInv
<1> SUFFICES ASSUME AnyInit PROVE IInv
  OBVIOUS
<1>1. TypeOK
  <2>1. <<>> \in Seq(1 .. Chunks)
    OBVIOUS
  <2>2. StreamTypes /\ FaultTypes
    BY <2>1 DEF AnyInit, Init, SocketInit, StreamTypes, FaultTypes
  <2>3. NetTypes
    BY DEF AnyInit, Init, SocketInit, NetTypes
  <2>4. TaskTypes /\ ServerTypes
    BY DEF AnyInit, Init, TaskTypes, ServerTypes
  <2> QED BY <2>2, <2>3, <2>4 DEF TypeOK, SocketTypes
<1>2. AtStart /\ OneTaskPerSocket /\ Places /\ OffsetsMatch /\ Unsent /\ Writes /\ WholeMessages
  BY DEF AnyInit, Init, SocketInit, AtStart, OneTaskPerSocket, Places, OffsetsMatch, Unsent,
     Writes, WholeMessages
<1>3. InOrder
  BY DEF AnyInit, Init, SocketInit, InOrder
<1> QED BY <1>1, <1>2, <1>3 DEF IInv, Served

-----------------------------------------------------------------------------
(* What becomes of connections.                                             *)

\* A task that goes on or ends: it ends with its connection sent in full.
LEMMA SendFromFate ==
  ASSUME IInv, UNCHANGED socketVars, NEW c \in open, NEW s, s = Len(stream[c]), SendFrom(c, s)
  PROVE  Fate(open, open')
<1>1. s \in 0 .. Chunks /\ c \in Conns
  BY SentIsWithin DEF IInv, Served, TypeOK, ServerTypes
<1>2. UNCHANGED <<got, peer, reset, dropped, backlog, stream>>
  BY DEF socketVars, netVars, clientVars
<1>3. open' = open \/ (open' = open \ {c} /\ Len(stream[c]) = Chunks)
  BY <1>1 DEF SendFrom, Finish
<1> QED BY <1>2, <1>3 DEF Fate

\* Every step of the four servers.
LEMMA ServerFate ==
  ASSUME IInv, Honest(open), Gone, UNCHANGED program, ServerStep
  PROVE  Fate(open, open') /\ Gone'
<1> USE DEF acceptVars, taskVars, netVars, clientVars, socketVars, Drop
<1>0. TaskTypes /\ open \subseteq Conns
  BY DEF IInv, TypeOK, ServerTypes
<1>1. CASE MainStep \/ AfterError \/ AcceptErrors
  <2>1. UNCHANGED <<got, peer, reset, dropped, backlog, stream, open, task>>
    BY <1>1 DEF MainStep, AfterError, AcceptErrors
  <2> QED BY <2>1 DEF Fate, Gone
<1>2. CASE PoolEnds
  <2>1. /\ UNCHANGED <<got, peer, reset, stream, open, task>>
        /\ backlog' = {} /\ dropped' = dropped \cup backlog
    BY <1>2 DEF PoolEnds
  <2> QED BY <2>1 DEF Fate, Gone
<1>3. CASE Killed
  <2>1. /\ UNCHANGED <<got, peer, reset, stream>> /\ open' = {} /\ backlog' = {}
        /\ dropped' = dropped \cup (open \cup backlog) /\ task' = [c \in Conns |-> "none"]
    BY <1>3 DEF Killed
  <2> QED BY <2>1 DEF Fate, Gone
<1>4. CASE AcceptCompletes
  <2>1. PICK c \in backlog : backlog' = backlog \ {c} /\ open' = open \cup {c}
    BY <1>4 DEF AcceptCompletes
  <2>2. UNCHANGED <<got, peer, reset, dropped, stream, task>>
    BY <1>4 DEF AcceptCompletes
  <2> QED BY <2>1, <2>2 DEF Fate, Gone
<1>5. CASE NextAccept
  <2>1. /\ accepted \in open /\ Len(stream[accepted]) = 0 /\ UNCHANGED socketVars
        /\ accepted \in Conns
    BY <1>0, <1>5 DEF NextAccept, IInv, Served, OneTaskPerSocket, Unsent
  <2>2. Fate(open, open')
    <3>1. CASE SendFrom(accepted, 0)
      BY <2>1, <3>1, SendFromFate
    <3>2. CASE UNCHANGED open
      BY <2>1, <3>2 DEF Fate
    <3> QED BY <1>5, <3>1, <3>2 DEF NextAccept
  <2>3. Gone'
    <3>1. \A c \in Conns : task'[c] = "failed" => task[c] = "failed"
      BY <1>0, <1>5, <2>1 DEF NextAccept, SendFrom, StartWrite, Finish, TaskTypes
    <3> QED BY <2>1, <3>1 DEF Gone
  <2> QED BY <2>2, <2>3
<1>6. ASSUME NEW c \in Conns, TaskStep(c) PROVE Fate(open, open') /\ Gone'
  <2>1. UNCHANGED socketVars /\ c \in open
    BY <1>6 DEF TaskStep, IInv, OneTaskPerSocket
  <2>2. Fate(open, open')
    <3>1. CASE task[c] = "spawned" /\ SendFrom(c, 0)
      <4>1. Len(stream[c]) = 0
        BY <2>1, <3>1 DEF IInv, Served, OffsetsMatch, Writes
      <4> QED BY <2>1, <3>1, <4>1, SendFromFate
    <3>2. CASE task[c] = "wrote" /\ SendFrom(c, sent[c] + taken[c])
      <4>1. Len(stream[c]) = sent[c] + taken[c]
        BY <2>1, <3>2 DEF IInv, Served, OffsetsMatch
      <4> QED BY <2>1, <3>2, <4>1, SendFromFate
    <3>3. CASE task[c] = "failed" /\ Finish(c)
      <4>1. c \in dropped \/ peer[c] = "left"
        BY <3>3 DEF Gone
      <4> QED BY <2>1, <3>3, <4>1 DEF Finish, Fate
    <3> QED BY <1>6, <3>1, <3>2, <3>3 DEF TaskStep
  <2>3. Gone'
    <3>1. \A d \in Conns : task'[d] = "failed" => task[d] = "failed"
      BY <1>0, <1>6 DEF TaskStep, SendFrom, StartWrite, Finish, TaskTypes
    <3> QED BY <2>1, <3>1 DEF Gone
  <2> QED BY <2>2, <2>3
<1>7. ASSUME NEW c \in Conns, WriteGoesOn(c) PROVE Fate(open, open') /\ Gone'
  <2>1. /\ task[c] = "writing"
        /\ UNCHANGED <<open, backlog, reset, got, peer, dropped>>
    BY <1>7 DEF WriteGoesOn, WriteProgress
  <2>2. c \in open
    BY <2>1 DEF IInv, OneTaskPerSocket
  <2>3. PICK n \in 1 .. asked[c] - taken[c] :
          /\ Take(c, sent[c] + taken[c], n)
          /\ task' = task \/ task' = [task EXCEPT ![c] = "wrote"]
    BY <1>7 DEF WriteGoesOn, WriteProgress
  <2>4. /\ sent[c] \in Nat /\ taken[c] \in Nat /\ n \in Nat
        /\ sent[c] + taken[c] + n <= Chunks /\ Len(stream[c]) = sent[c] + taken[c]
    <3>1. /\ sent[c] \in 0 .. Chunks /\ taken[c] \in 0 .. Chunks /\ asked[c] \in 0 .. Chunks
          /\ sent[c] + asked[c] <= Chunks
      BY <1>0, <2>1 DEF IInv, Served, TaskTypes, Writes
    <3>2. Len(stream[c]) = sent[c] + taken[c]
      BY <2>1, <2>2 DEF IInv, Served, OffsetsMatch
    <3> QED BY <3>1, <3>2
  <2>5. /\ Len(stream'[c]) = sent[c] + taken[c] + n
        /\ \A d \in Conns : d # c => stream'[d] = stream[d]
    BY <2>3, <2>4, TakenInOrder DEF IInv, Served, TypeOK
  <2>6. Len(stream[c]) <= Len(stream'[c])
    BY <2>4, <2>5
  <2>7. Fate(open, open')
    BY <2>1, <2>2, <2>5, <2>6 DEF Fate
  <2>8. Gone'
    BY <1>0, <2>1, <2>3 DEF Gone, TaskTypes
  <2> QED BY <2>7, <2>8
<1>8. ASSUME NEW c \in Conns, WriteErrors(c) PROVE Fate(open, open') /\ Gone'
  <2>1. /\ UNCHANGED <<open, backlog, reset, got, peer, stream>>
        /\ task' = [task EXCEPT ![c] = "failed"] /\ dropped \subseteq dropped'
        /\ c \in reset \/ c \in dropped'
    BY <1>8 DEF WriteErrors
  <2>2. c \in dropped' \/ peer[c] = "left"
    BY <2>1 DEF Honest, ResetHasLeft
  <2>3. Fate(open, open')
    BY <2>1 DEF Fate
  <2>4. Gone'
    BY <1>0, <2>1, <2>2 DEF Gone, TaskTypes
  <2> QED BY <2>3, <2>4
<1> QED BY <1>1, <1>2, <1>3, <1>4, <1>5, <1>6, <1>7, <1>8 DEF ServerStep, WriteStep

-----------------------------------------------------------------------------
(* Theorems.                                                                *)

\* Every reachable state of the four servers satisfies the invariant.
LEMMA Inductive == Spec => []IInv
BY InitInv, StepInv, PTL DEF Spec

\* How clients and server belong together, in every behaviour.
LEMMA Honesty == Spec => [](Honest(open) /\ Gone)
<1>1. AnyInit => Honest(open) /\ Gone
  <2> SUFFICES ASSUME AnyInit PROVE Honest(open) /\ Gone
    OBVIOUS
  <2>1. open = {} /\ Gone
    BY DEF AnyInit, Init, Gone
  <2> QED BY <2>1, InitHonest DEF AnyInit, Init
<1>2. IInv /\ Honest(open) /\ Gone /\ [AnyNext]_<<vars, program>> => (Honest(open) /\ Gone)'
  <2> SUFFICES ASSUME IInv, Honest(open), Gone, [AnyNext]_<<vars, program>>
               PROVE  Honest(open)' /\ Gone'
    OBVIOUS
  <2> SocketTypes
    BY DEF IInv, TypeOK
  <2>1. CASE ServerStep /\ AnyNext
    <3>1. Fate(open, open') /\ Gone'
      BY <2>1, ServerFate DEF AnyNext
    <3> QED BY <3>1, FateIsHonest
  <2>2. ASSUME NEW c \in Conns, Environment(c) PROVE Honest(open)' /\ Gone'
    <3>1. ClientStep(c, open) /\ UNCHANGED <<open, task, dropped>>
      BY <2>2 DEF Environment, ClientStep, serverVars, taskVars, Connect, Leave, Delivery,
         Read,
         ReadEnd, ResetArrives
    <3>2. Honest(open)'
      BY <3>1, ClientIsHonest
    <3>3. \A d \in Conns : peer[d] = "left" => peer'[d] = "left"
      BY <3>1 DEF ClientStep, Connect, Leave, Delivery, Read, ReadEnd, ResetArrives,
         clientVars, SocketTypes, StreamTypes
    <3> QED BY <3>1, <3>2, <3>3 DEF Gone
  <2>3. CASE UNCHANGED <<vars, program>>
    BY <2>3 DEF Honest, ClosedIsWhole, EndedIsClosed, ResetHasLeft, ReadWasSent, Gone,
       vars, serverVars, taskVars, socketVars, netVars, clientVars
  <2> QED BY <2>1, <2>2, <2>3, StepInv DEF AnyStep
<1> QED BY <1>1, <1>2, Inductive, PTL DEF Spec

\* Types: a task's offset, what it asks for and what the kernel has taken of it
\* stay within the file.
THEOREM AsyncTypes == Spec => []TypeOK
<1>1. IInv => TypeOK
  BY DEF IInv
<1> QED BY <1>1, Inductive, PTL

\* A task's offset is what its own connection was sent, across every suspension.
THEOREM AsyncOffsets == Spec => []OffsetsMatch
<1>1. IInv => OffsetsMatch
  BY DEF IInv, Served
<1> QED BY <1>1, Inductive, PTL

\* No socket is left without its task, and no task without its socket.
THEOREM TaskForEachSocket == Spec => []OneTaskPerSocket
<1>1. IInv => OneTaskPerSocket
  BY DEF IInv
<1> QED BY <1>1, Inductive, PTL

\* End-of-file means the whole payload unless the connection was given up.
LEMMA AsyncEof == Spec => []EofMeansComplete
<1>1. Honest(open) => EofMeansComplete
  BY HonestEof
<1> QED BY <1>1, Honesty, PTL

\* Each of the four servers implements the abstract transfer: its operations,
\* tasks and offsets are invisible to its clients.
THEOREM AsyncImplementsTransfer == Spec => ImplementsTransfer
<1>1. AnyInit => T!Init
  BY InitMaps DEF AnyInit, Init
<1>2. IInv /\ IInv' /\ Honest(open) /\ Honest(open)' /\ Gone /\ EofMeansComplete'
        /\ [AnyNext]_<<vars, program>> => [T!Next]_T!vars
  <2> SUFFICES ASSUME IInv, IInv', Honest(open), Honest(open)', Gone, EofMeansComplete',
                      [AnyNext]_<<vars, program>>
               PROVE  [T!Next]_T!vars
    OBVIOUS
  <2> /\ SocketTypes /\ SocketTypes' /\ InOrder /\ InOrder' /\ ReadWasSent /\ ReadWasSent'
    BY DEF IInv, Served, TypeOK, Honest
  <2>1. CASE ServerStep /\ AnyNext
    <3>1. UNCHANGED <<got, peer>> /\ dropped \subseteq dropped'
      BY <2>1, ServerFate DEF Fate, AnyNext
    <3>2. T!Break
      BY <3>1, ServerStepMaps
    <3> QED BY <3>2 DEF T!Next
  <2>2. CASE \E c \in Conns : Environment(c)
    <3>1. PICK c \in Conns : ClientStep(c, open)
      BY <2>2 DEF Environment, ClientStep
    <3> QED BY <3>1, ClientStepMaps
  <2>3. CASE UNCHANGED <<vars, program>>
    <3>1. UNCHANGED <<peer, got, stream, dropped>>
      BY <2>3 DEF vars, socketVars, clientVars
    <3> QED BY <3>1, SameForClients
  <2> QED BY <2>1, <2>2, <2>3, StepInv DEF AnyStep
<1>3. Spec => T!Spec
  BY <1>1, <1>2, Inductive, Honesty, AsyncEof, PTL DEF Spec, T!Spec
<1> QED BY <1>3 DEF ImplementsTransfer
=============================================================================
