------------------------- MODULE EpollServer_proofs -------------------------
(* Theorems about EpollServer, for every number of workers, clients,        *)
(* descriptors, slots and chunks: types; the tables of the workers, the     *)
(* descriptors of the process and the streams of the clients, which agree   *)
(* however the workers' steps are interleaved; and the promise of Transfer, *)
(* that end-of-file means the whole payload unless the connection was given *)
(* up, every step being a step of Transfer or no change there.              *)
EXTENDS EpollServerProps, Sockets_proofs

USE EpollAssumption, SocketsAssumption
\* The type of the descriptor table.
FdTypes == fdTable \in [Fds -> Conns \cup {NoConn}]

-----------------------------------------------------------------------------
(* The table of a worker.                                                   *)

\* The lookup returns a slot in use that holds the descriptor, or the count.
LEMMA FindInTable ==
  ASSUME NEW w \in Workers, NEW fd
  PROVE  \/ find_client_index(w, fd) = client_count[w]
         \/ /\ find_client_index(w, fd) \in Used(w)
            /\ client_fds[w][find_client_index(w, fd)] = fd
BY DEF find_client_index

\* A slot in use is a slot of the array, and so is the last one.
LEMMA UsedAreSlots ==
  ASSUME TableTypes, NEW w \in Workers, NEW i \in Used(w)
  PROVE  /\ i \in Slots
         /\ client_count[w] \in 1 .. MaxClients
         /\ client_count[w] - 1 \in Used(w)
         /\ client_count[w] - 1 \in Slots
BY DEF TableTypes, Used, Slots

\* Removing a client keeps the arrays, the count and the interest set typed.
LEMMA RemoveTyped ==
  ASSUME TableTypes, NEW w \in Workers, NEW i \in Used(w), remove_client(w, i)
  PROVE  TableTypes'
<1>1. i \in Slots /\ client_count[w] - 1 \in Slots
      /\ client_count[w] \in 1 .. MaxClients
  BY UsedAreSlots
<1>2. MovedSent(w, i) \in [Slots -> 0 .. Chunks]
  <2>1. client_sent[w] \in [Slots -> 0 .. Chunks]
    BY DEF TableTypes
  <2> QED BY <1>1, <2>1 DEF MovedSent
<1>3. MovedFds(w, i) \in [Slots -> Fds \cup {NoFd}]
  <2>1. client_fds[w] \in [Slots -> Fds \cup {NoFd}]
    BY DEF TableTypes
  <2> QED BY <1>1, <2>1 DEF MovedFds
<1>4. client_sent' \in [Workers -> [Slots -> 0 .. Chunks]]
  BY <1>2 DEF TableTypes, remove_client
<1>5. client_fds' \in [Workers -> [Slots -> Fds \cup {NoFd}]]
  BY <1>3 DEF TableTypes, remove_client
<1>6. client_count' \in [Workers -> 0 .. MaxClients]
  BY <1>1 DEF TableTypes, remove_client
<1>7. interest' \in [Workers -> SUBSET Fds]
  BY DEF TableTypes, remove_client
<1> QED BY <1>4, <1>5, <1>6, <1>7 DEF TableTypes

-----------------------------------------------------------------------------
(* Type correctness.                                                        *)

\* What one sending step does to the tables and to the streams.
LEMMA SendTyped ==
  ASSUME TypeOK, NEW w \in Workers, NEW i \in Used(w), NEW fd,
         client_fds[w][i] = fd, serve_client_step(w, i, fd)
  PROVE  TableTypes' /\ FdTypes'
         /\ stream' \in [Conns -> Seq(1 .. Chunks)] /\ faults' \in 0 .. MaxFaults
<1> i \in Slots /\ TableTypes /\ SocketTypes /\ FdTypes
  BY UsedAreSlots DEF TypeOK, FdTypes
<1> DEFINE c == fdTable[fd]
           sent == client_sent[w][i]
<1>0. sent \in 0 .. Chunks
  BY DEF TableTypes
<1>1. CASE SendTakes(w, i, fd)
  <2>1. PICK n \in 0 .. Chunks - sent :
          /\ stream' = [stream EXCEPT ![c] = @ \o [k \in 1 .. n |-> sent + k]]
          /\ IF Finished(sent + n)
             THEN remove_client(w, i)
             ELSE /\ Advance(w, i, n)
                  /\ UNCHANGED <<client_fds, client_count, interest, fdTable>>
    BY <1>1 DEF SendTakes, Rest, Take
  <2>2. stream' \in [Conns -> Seq(1 .. Chunks)]
    <3>1. Piece(sent, n) \in Seq(1 .. Chunks)
      BY <1>0, PieceIsSeq
    <3>2. c \in Conns => stream[c] \o Piece(sent, n) \in Seq(1 .. Chunks)
      BY <3>1, ConcatProperties DEF SocketTypes, NetTypes, StreamTypes, FaultTypes, FdTypes
    <3>3. stream' = [stream EXCEPT ![c] = @ \o Piece(sent, n)]
      BY <2>1 DEF Piece
    <3> QED BY <3>2, <3>3 DEF SocketTypes, NetTypes, StreamTypes, FaultTypes, FdTypes
  <2>3. TableTypes' /\ FdTypes'
    <3>1. CASE Finished(sent + n)
      <4>1. remove_client(w, i)
        BY <2>1, <3>1
      <4> QED BY <4>1, RemoveTyped DEF remove_client, CloseAll, SocketTypes, NetTypes, StreamTypes, FaultTypes, FdTypes
    <3>2. CASE ~Finished(sent + n)
      <4>1. sent + n \in 0 .. Chunks
        BY <1>0
      <4>2. client_sent' = [client_sent EXCEPT ![w][i] = sent + n]
        BY <2>1, <3>2 DEF Advance
      <4> QED BY <2>1, <3>2, <4>1, <4>2 DEF TableTypes, SocketTypes, NetTypes, StreamTypes, FaultTypes, FdTypes
    <3> QED BY <3>1, <3>2
  <2> QED BY <1>1, <2>2, <2>3 DEF SendTakes, NoFault, SocketTypes, FaultTypes
<1>2. CASE SendFails(w, i, fd)
  BY <1>2, RemoveTyped DEF SendFails, NoFault, remove_client, CloseAll,
     SocketTypes, NetTypes, StreamTypes, FaultTypes, FdTypes
<1>3. CASE SendBlocks(w, i, fd)
  BY <1>3 DEF SendBlocks, Fault, tableVars, TableTypes, SocketTypes, NetTypes, StreamTypes, FaultTypes, FdTypes
<1> QED BY <1>1, <1>2, <1>3 DEF serve_client_step

\* A step of a worker on a client's event keeps every type.
LEMMA HandleClientTyped ==
  ASSUME TypeOK, NEW w \in Workers, HandleClient(w)
  PROVE  TypeOK'
<1> TableTypes /\ SocketTypes /\ FdTypes /\ WorkerTypes /\ MainTypes
  BY DEF TypeOK, FdTypes
<1>1. PICK e \in events[w] :
        /\ events' = [events EXCEPT ![w] = @ \ {e}]
        /\ LET i == find_client_index(w, e.fd)
           IN  IF i = client_count[w]
               THEN UNCHANGED <<tableVars, fdTable, stream, faults>>
               ELSE \/ e.hup /\ HangUp(w, i)
                    \/ ~e.hup /\ serve_client_step(w, i, e.fd)
  BY DEF HandleClient
<1> DEFINE i == find_client_index(w, e.fd)
<1>2. TableTypes' /\ FdTypes'
      /\ stream' \in [Conns -> Seq(1 .. Chunks)] /\ faults' \in 0 .. MaxFaults
  <2>1. CASE i = client_count[w]
    BY <1>1, <2>1 DEF tableVars, TableTypes, SocketTypes, NetTypes, StreamTypes, FaultTypes, FdTypes
  <2>2. CASE i # client_count[w]
    <3>1. i \in Used(w) /\ client_fds[w][i] = e.fd
      BY <2>2, FindInTable
    <3>2. CASE HangUp(w, i)
      BY <3>1, <3>2, RemoveTyped DEF HangUp, remove_client, CloseAll,
         SocketTypes, NetTypes, StreamTypes, FaultTypes, FdTypes
    <3>3. CASE serve_client_step(w, i, e.fd)
      BY <3>1, <3>3, SendTyped
    <3> QED BY <1>1, <2>2, <3>2, <3>3
  <2> QED BY <2>1, <2>2
<1>3. MainTypes'
  BY DEF HandleClient, mainVars, MainTypes
<1>4. WorkerTypes'
  BY <1>1 DEF HandleClient, WorkerTypes
<1>5. SocketTypes'
  BY <1>2 DEF HandleClient, clientVars, netVars,
     SocketTypes, NetTypes, StreamTypes, FaultTypes
<1> QED BY <1>2, <1>3, <1>4, <1>5 DEF TypeOK, FdTypes

\* Every variable of the server keeps its type, whatever is interleaved: the
\* counts stay within the arrays and no send goes past the payload.
THEOREM TypeCorrect == Spec => []TypeOK
<1>1. Init => TypeOK
  <2> SUFFICES ASSUME Init PROVE TypeOK
    OBVIOUS
  <2>1. MainTypes BY DEF Init, MainTypes
  <2>2. WorkerTypes BY DEF Init, WorkerTypes
  <2>3. TableTypes BY DEF Init, TableTypes
  <2>4. SocketTypes
    <3>1. NetTypes BY DEF Init, SocketInit, NetTypes
    <3>2. StreamTypes BY DEF Init, SocketInit, StreamTypes
    <3>3. FaultTypes BY DEF Init, SocketInit, FaultTypes
    <3> QED BY <3>1, <3>2, <3>3 DEF SocketTypes
  <2>5. FdTypes BY DEF Init, FdTypes
  <2> QED BY <2>1, <2>2, <2>3, <2>4, <2>5 DEF TypeOK, FdTypes
<1>2. TypeOK /\ [Next]_vars => TypeOK'
  <2> SUFFICES ASSUME TypeOK, [Next]_vars PROVE TypeOK'
    OBVIOUS
  <2> USE DEF TypeOK, FdTypes, SocketTypes
  <2>1. CASE MapFile
    <3>1. MainTypes' BY <2>1 DEF MapFile, MainTypes, mainVars
    <3>2. WorkerTypes' BY <2>1 DEF MapFile, WorkerTypes, workerVars
    <3>3. TableTypes' BY <2>1 DEF MapFile, TableTypes, tableVars
    <3>4. FdTypes' BY <2>1 DEF MapFile, FdTypes, kernelVars
    <3>5. SocketTypes'
      <4>1. NetTypes' BY <2>1 DEF MapFile, NetTypes, kernelVars, netVars
      <4>2. StreamTypes' BY <2>1 DEF MapFile, StreamTypes, clientVars
      <4>3. FaultTypes' BY <2>1 DEF MapFile, FaultTypes, NoFault, Fault
      <4> QED BY <4>1, <4>2, <4>3 DEF SocketTypes
    <3> QED BY <3>1, <3>2, <3>3, <3>4, <3>5
  <2>2. CASE Listen
    <3>1. MainTypes' BY <2>2 DEF Listen, MainTypes, mainVars
    <3>2. WorkerTypes' BY <2>2 DEF Listen, WorkerTypes, workerVars
    <3>3. TableTypes' BY <2>2 DEF Listen, TableTypes, tableVars
    <3>4. FdTypes' BY <2>2 DEF Listen, FdTypes, kernelVars
    <3>5. SocketTypes'
      <4>1. NetTypes' BY <2>2 DEF Listen, NetTypes, kernelVars, netVars
      <4>2. StreamTypes' BY <2>2 DEF Listen, StreamTypes, clientVars
      <4>3. FaultTypes' BY <2>2 DEF Listen, FaultTypes, NoFault, Fault
      <4> QED BY <4>1, <4>2, <4>3 DEF SocketTypes
    <3> QED BY <3>1, <3>2, <3>3, <3>4, <3>5
  <2>3. CASE Join
    <3>1. MainTypes' BY <2>3 DEF Join, MainTypes, mainVars
    <3>2. WorkerTypes' BY <2>3 DEF Join, WorkerTypes, workerVars
    <3>3. TableTypes' BY <2>3 DEF Join, TableTypes, tableVars
    <3>4. FdTypes' BY <2>3 DEF Join, FdTypes, kernelVars
    <3>5. SocketTypes'
      <4>1. NetTypes' BY <2>3 DEF Join, Drop, NetTypes, kernelVars, netVars
      <4>2. StreamTypes' BY <2>3 DEF Join, Drop, StreamTypes, clientVars
      <4>3. FaultTypes' BY <2>3 DEF Join, Drop, FaultTypes, NoFault, Fault, NetTypes
      <4> QED BY <4>1, <4>2, <4>3 DEF SocketTypes
    <3> QED BY <3>1, <3>2, <3>3, <3>4, <3>5
  <2>4. CASE Killed
    <3>1. MainTypes' BY <2>4 DEF Killed, MainTypes, mainVars
    <3>2. WorkerTypes' BY <2>4 DEF Killed, WorkerTypes, workerVars
    <3>3. TableTypes' BY <2>4 DEF Killed, TableTypes, tableVars
    <3>4. FdTypes' BY <2>4 DEF Killed, FdTypes, kernelVars, CloseAll
    <3>5. SocketTypes'
      <4>1. NetTypes' BY <2>4 DEF Killed, Drop, Open, NetTypes, kernelVars, netVars
      <4>2. StreamTypes' BY <2>4 DEF Killed, Drop, Open, StreamTypes, clientVars
      <4>3. FaultTypes' BY <2>4 DEF Killed, Drop, Open, FaultTypes, NoFault, Fault, NetTypes
      <4> QED BY <4>1, <4>2, <4>3 DEF SocketTypes
    <3> QED BY <3>1, <3>2, <3>3, <3>4, <3>5
  <2>5. ASSUME NEW w \in Workers, StartWorker(w) PROVE TypeOK'
    <3>1. MainTypes' BY <2>5 DEF StartWorker, MainTypes, mainVars
    <3>2. WorkerTypes' BY <2>5 DEF StartWorker, WorkerTypes, workerVars
    <3>3. TableTypes' BY <2>5 DEF StartWorker, TableTypes, tableVars
    <3>4. FdTypes' BY <2>5 DEF StartWorker, FdTypes, kernelVars
    <3>5. SocketTypes'
      <4>1. NetTypes' BY <2>5 DEF StartWorker, NetTypes, kernelVars, netVars
      <4>2. StreamTypes' BY <2>5 DEF StartWorker, StreamTypes, clientVars
      <4>3. FaultTypes' BY <2>5 DEF StartWorker, FaultTypes, NoFault, Fault
      <4> QED BY <4>1, <4>2, <4>3 DEF SocketTypes
    <3> QED BY <3>1, <3>2, <3>3, <3>4, <3>5
  <2>6. ASSUME NEW w \in Workers, EpollWait(w) PROVE TypeOK'
    <3>0. Ready(w) \subseteq Events
      <4> SUFFICES ASSUME NEW e \in Ready(w) PROVE e \in Events
        OBVIOUS
      <4>1. CASE e = ListenEvent
        BY <4>1 DEF ListenEvent, Events
      <4>2. CASE e # ListenEvent
        <5>1. PICK f \in interest[w] :
                e = [fd |-> f, about |-> fdTable[f], hup |-> fdTable[f] \in reset]
          BY <4>2 DEF Ready
        <5>2. f \in Fds /\ fdTable[f] \in Conns \cup {NoConn}
          BY DEF TableTypes, FdTypes
        <5>3. (fdTable[f] \in reset) \in BOOLEAN
          OBVIOUS
        <5> QED BY <5>1, <5>2, <5>3 DEF Events
      <4> QED BY <4>1, <4>2
    <3>1. MainTypes' BY <2>6 DEF EpollWait, MainTypes, mainVars
    <3>2. WorkerTypes' BY <2>6, <3>0 DEF EpollWait, WorkerTypes, workerVars
    <3>3. TableTypes' BY <2>6 DEF EpollWait, TableTypes, tableVars
    <3>4. FdTypes' BY <2>6 DEF EpollWait, FdTypes, kernelVars
    <3>5. SocketTypes'
      <4>1. NetTypes' BY <2>6 DEF EpollWait, NetTypes, kernelVars, netVars
      <4>2. StreamTypes' BY <2>6 DEF EpollWait, StreamTypes, clientVars
      <4>3. FaultTypes' BY <2>6 DEF EpollWait, FaultTypes, NoFault, Fault
      <4> QED BY <4>1, <4>2, <4>3 DEF SocketTypes
    <3> QED BY <3>1, <3>2, <3>3, <3>4, <3>5
  <2>7. ASSUME NEW w \in Workers, EpollWaitFails(w) PROVE TypeOK'
    <3>1. MainTypes' BY <2>7 DEF EpollWaitFails, MainTypes, mainVars
    <3>2. WorkerTypes' BY <2>7 DEF EpollWaitFails, WorkerTypes, workerVars
    <3>3. TableTypes' BY <2>7 DEF EpollWaitFails, TableTypes, tableVars
    <3>4. FdTypes' BY <2>7 DEF EpollWaitFails, FdTypes, kernelVars, CloseClients, CloseAll
    <3>5. SocketTypes'
      <4>1. NetTypes' BY <2>7 DEF EpollWaitFails, CloseClients, Drop, NetTypes, kernelVars, netVars
      <4>2. StreamTypes' BY <2>7 DEF EpollWaitFails, CloseClients, Drop, StreamTypes, clientVars
      <4>3. FaultTypes' BY <2>7 DEF EpollWaitFails, CloseClients, Drop, FaultTypes, NoFault, Fault, NetTypes
      <4> QED BY <4>1, <4>2, <4>3 DEF SocketTypes
    <3> QED BY <3>1, <3>2, <3>3, <3>4, <3>5
  <2>8. ASSUME NEW w \in Workers, HandleListen(w) PROVE TypeOK'
    <3>1. MainTypes' BY <2>8 DEF HandleListen, MainTypes, mainVars
    <3>2. WorkerTypes' BY <2>8 DEF HandleListen, WorkerTypes, workerVars
    <3>3. TableTypes' BY <2>8 DEF HandleListen, TableTypes, tableVars
    <3>4. FdTypes' BY <2>8 DEF HandleListen, FdTypes, kernelVars
    <3>5. SocketTypes'
      <4>1. NetTypes' BY <2>8 DEF HandleListen, NetTypes, kernelVars, netVars
      <4>2. StreamTypes' BY <2>8 DEF HandleListen, StreamTypes, clientVars
      <4>3. FaultTypes' BY <2>8 DEF HandleListen, FaultTypes, NoFault, Fault
      <4> QED BY <4>1, <4>2, <4>3 DEF SocketTypes
    <3> QED BY <3>1, <3>2, <3>3, <3>4, <3>5
  <2>9. ASSUME NEW w \in Workers, Accept(w) PROVE TypeOK'
    <3>1. MainTypes' BY <2>9 DEF Accept, MainTypes, mainVars
    <3>2. WorkerTypes' BY <2>9 DEF Accept, WorkerTypes, workerVars
    <3>3. TableTypes'
      <4>1. PICK c \in backlog, f \in {g \in Fds : fdTable[g] = NoConn} :
              \/ /\ Watch(w, f)
                 /\ client_fds' = [client_fds EXCEPT ![w][client_count[w]] = f]
                 /\ client_sent' = [client_sent EXCEPT ![w][client_count[w]] = 0]
                 /\ client_count' = [client_count EXCEPT ![w] = @ + 1]
              \/ UNCHANGED tableVars
        BY <2>9 DEF Accept
      <4>2. client_count[w] \in Slots /\ client_count[w] + 1 \in 0 .. MaxClients
        BY <2>9 DEF Accept, TableTypes, Slots
      <4>3. CASE UNCHANGED tableVars
        BY <4>3 DEF TableTypes, tableVars
      <4>4. CASE ~UNCHANGED tableVars
        <5>0. [client_fds[w] EXCEPT ![client_count[w]] = f]
                 \in [Slots -> Fds \cup {NoFd}]
          BY <4>2 DEF TableTypes
        <5>1. client_fds' \in [Workers -> [Slots -> Fds \cup {NoFd}]]
          BY <4>1, <4>4, <5>0 DEF TableTypes
        <5>a. [client_sent[w] EXCEPT ![client_count[w]] = 0]
                 \in [Slots -> 0 .. Chunks]
          BY <4>2 DEF TableTypes
        <5>2. client_sent' \in [Workers -> [Slots -> 0 .. Chunks]]
          BY <4>1, <4>4, <5>a, SMTT(30) DEF TableTypes
        <5>3. client_count' \in [Workers -> 0 .. MaxClients]
          BY <4>1, <4>2, <4>4 DEF TableTypes
        <5>4. interest' \in [Workers -> SUBSET Fds]
          <6>1. interest' = [interest EXCEPT ![w] = interest[w] \cup {f}]
            BY <4>1, <4>4 DEF Watch
          <6>2. interest \in [Workers -> SUBSET Fds] /\ interest[w] \cup {f} \in SUBSET Fds
            BY DEF TableTypes
          <6> QED  BY <6>1, <6>2
        <5> QED BY <5>1, <5>2, <5>3, <5>4 DEF TableTypes
      <4> QED BY <4>3, <4>4
    <3>4. FdTypes' BY <2>9 DEF Accept, FdTypes, kernelVars, NetTypes
    <3>5. SocketTypes'
      <4>1. NetTypes' BY <2>9 DEF Accept, Drop, NetTypes, kernelVars, netVars
      <4>2. StreamTypes' BY <2>9 DEF Accept, Drop, StreamTypes, clientVars
      <4>3. FaultTypes' BY <2>9 DEF Accept, Drop, FaultTypes, NoFault, Fault, NetTypes
      <4> QED BY <4>1, <4>2, <4>3 DEF SocketTypes
    <3> QED BY <3>1, <3>2, <3>3, <3>4, <3>5
  <2>10. ASSUME NEW w \in Workers, AcceptEnds(w) PROVE TypeOK'
    <3>1. MainTypes' BY <2>10 DEF AcceptEnds, MainTypes, mainVars
    <3>2. WorkerTypes' BY <2>10 DEF AcceptEnds, WorkerTypes, workerVars
    <3>3. TableTypes' BY <2>10 DEF AcceptEnds, TableTypes, tableVars
    <3>4. FdTypes' BY <2>10 DEF AcceptEnds, FdTypes, kernelVars
    <3>5. SocketTypes'
      <4>1. NetTypes' BY <2>10 DEF AcceptEnds, NetTypes, kernelVars, netVars
      <4>2. StreamTypes' BY <2>10 DEF AcceptEnds, StreamTypes, clientVars
      <4>3. FaultTypes' BY <2>10 DEF AcceptEnds, FaultTypes, NoFault, Fault
      <4> QED BY <4>1, <4>2, <4>3 DEF SocketTypes
    <3> QED BY <3>1, <3>2, <3>3, <3>4, <3>5
  <2>11. ASSUME NEW w \in Workers, HandleClient(w) PROVE TypeOK'
    BY <2>11, HandleClientTyped
  <2>12. ASSUME NEW c \in Conns, Environment(c) PROVE TypeOK'
    <3>1. MainTypes' /\ WorkerTypes' /\ TableTypes' /\ FdTypes'
      BY <2>12 DEF Environment, serverVars, mainVars, workerVars, tableVars,
         MainTypes, WorkerTypes, TableTypes, FdTypes
    <3>2. CASE Connect(c)
      BY <3>1, <3>2 DEF Connect, NetTypes, StreamTypes, FaultTypes
    <3>3. CASE Leave(c)
      BY <3>1, <3>3 DEF Leave, NetTypes, StreamTypes, FaultTypes, netVars
    <3>4. CASE Read(c)
      BY <3>1, <3>4 DEF Read, NetTypes, StreamTypes, FaultTypes, netVars
    <3>5. CASE ReadEnd(c, c \in Open)
      BY <3>1, <3>5 DEF ReadEnd, NetTypes, StreamTypes, FaultTypes, netVars
    <3>6. CASE ResetArrives(c, c \in Open)
      BY <3>1, <3>6 DEF ResetArrives, NetTypes, StreamTypes, FaultTypes, clientVars
    <3> QED BY <2>12, <3>2, <3>3, <3>4, <3>5, <3>6 DEF Environment, Delivery
  <2>13. CASE UNCHANGED vars
    <3>1. MainTypes' /\ WorkerTypes' /\ TableTypes' /\ FdTypes'
      BY <2>13 DEF vars, serverVars, mainVars, workerVars, tableVars,
         MainTypes, WorkerTypes, TableTypes, FdTypes
    <3>2. SocketTypes'
      BY <2>13 DEF vars, socketVars, netVars, clientVars, NetTypes, StreamTypes, FaultTypes
    <3> QED BY <3>1, <3>2
  <2> QED BY <2>1, <2>2, <2>3, <2>4, <2>5, <2>6, <2>7, <2>8, <2>9, <2>10,
          <2>11, <2>12, <2>13 DEF Next, Main, Worker
<1> QED BY <1>1, <1>2, PTL DEF Spec

-----------------------------------------------------------------------------
(* The inductive invariant, by what its parts relate.                       *)

\* main and its workers.
Phases ==
  /\ main = "serving" => listening
  /\ main # "serving" => ~listening /\ backlog = {}
  /\ main \in {"mapped", "serving"} => mapped
  /\ main \in {"start", "exited"} => ~mapped
  /\ main # "serving" => \A w \in Workers : pc[w] \in {"off", "exited"}
  /\ main = "serving" => \A w \in Workers : pc[w] # "off"

\* A worker outside its loop has no clients and no events.
Quiet == \A w \in Workers : pc[w] \notin {"loop", "accept"} =>
                              client_count[w] = 0 /\ events[w] = {}

\* The parts of OneSlotPerFd.
SlotsDistinct ==
  \A w, v \in Workers : \A i \in Used(w), j \in Used(v) :
    client_fds[w][i] = client_fds[v][j] => w = v /\ i = j
Watched == \A w \in Workers : interest[w] = ClientFds(w)
SlotsOpen == \A w \in Workers : \A i \in Used(w) :
  client_fds[w][i] \in Fds /\ fdTable[client_fds[w][i]] # NoConn
NoneLeaked ==
  \A f \in Fds : fdTable[f] # NoConn => \E w \in Workers : f \in ClientFds(w)
ConnsDistinct ==
  \A f, g \in Fds : fdTable[f] = fdTable[g] /\ fdTable[f] # NoConn => f = g

Tables == SlotsDistinct /\ Watched /\ SlotsOpen /\ NoneLeaked /\ ConnsDistinct

\* There is one event at most for a client's descriptor.
EventsDistinct == \A w \in Workers : \A e, d \in events[w] :
  e.fd = d.fd /\ e.fd # ListenFd => e = d

\* A connection nobody has accepted has been sent nothing.
NotAccepted == \A c \in Conns :
  peer[c] = "idle" \/ c \in backlog => stream[c] = <<>> /\ c \notin Open
NotQueued == \A c \in backlog : peer[c] # "idle"

\* The tables and the streams; the events and the connections not accepted.
Ledger == Tables /\ OffsetsMatch /\ InOrder
Pending == EventsFresh /\ EventsDistinct /\ NotAccepted /\ NotQueued

Agree == Phases /\ Quiet /\ Ledger /\ Pending

IInv == TypeOK /\ Agree

-----------------------------------------------------------------------------
(* What remove_client does to the tables.                                   *)

\* The old slot of what is in slot j of v once slot i of w is removed.
From(w, i, v, j) == IF v = w /\ j = i THEN client_count[w] - 1 ELSE j

\* The slots in use afterwards hold what other slots held before.
LEMMA RemoveMoves ==
  ASSUME TableTypes, NEW w \in Workers, NEW i \in Used(w), remove_client(w, i),
         NEW v \in Workers, NEW j \in Used(v)'
  PROVE  /\ From(w, i, v, j) \in Used(v)
         /\ v = w => From(w, i, v, j) # i
         /\ client_fds'[v][j] = client_fds[v][From(w, i, v, j)]
         /\ client_sent'[v][j] = client_sent[v][From(w, i, v, j)]
<1> DEFINE last == client_count[w] - 1
<1>1. i \in Slots /\ last \in Slots /\ client_count[w] \in 1 .. MaxClients
  BY UsedAreSlots
<1>2. CASE v # w
  BY <1>2 DEF From, remove_client, TableTypes, Used
<1>3. CASE v = w
  <2>0. client_count'[w] = last
    BY DEF remove_client, TableTypes
  <2>1. j \in 0 .. last - 1 /\ j \in Slots
    <3>1. Used(v)' = 0 .. last - 1
      BY <1>3, <2>0 DEF Used
    <3>2. j \in 0 .. last - 1
      BY <3>1
    <3> QED BY <1>1, <3>2 DEF Slots
  <2>2. client_fds'[w] = MovedFds(w, i) /\ client_sent'[w] = MovedSent(w, i)
    BY DEF remove_client, TableTypes
  <2>3. MovedFds(w, i)[j] = client_fds[w][From(w, i, w, j)]
    BY <1>1, <2>1 DEF MovedFds, From, TableTypes
  <2>4. MovedSent(w, i)[j] = client_sent[w][From(w, i, w, j)]
    BY <1>1, <2>1 DEF MovedSent, From, TableTypes
  <2>5. From(w, i, w, j) \in Used(w) /\ From(w, i, w, j) # i
    BY <1>1, <2>1 DEF From, Used
  <2> QED BY <1>3, <2>2, <2>3, <2>4, <2>5
<1> QED BY <1>2, <1>3

\* No other slot is lost.
LEMMA RemoveKeeps ==
  ASSUME TableTypes, NEW w \in Workers, NEW i \in Used(w), remove_client(w, i),
         NEW v \in Workers, NEW k \in Used(v), v = w => k # i
  PROVE  \E j \in Used(v)' : From(w, i, v, j) = k
<1> DEFINE last == client_count[w] - 1
           j == IF v = w /\ k = last THEN i ELSE k
<1>1. i \in 0 .. last /\ client_count[w] \in 1 .. MaxClients
  BY UsedAreSlots DEF Used
<1>2. client_count' = [client_count EXCEPT ![w] = last]
  BY DEF remove_client
<1>3. CASE v # w
  BY <1>2, <1>3 DEF From, Used, TableTypes
<1>4. CASE v = w
  <2>1. Used(w)' = 0 .. last - 1
    BY <1>1, <1>2 DEF Used, TableTypes
  <2>2. k \in 0 .. last /\ k # i
    BY <1>4 DEF Used
  <2>3. j \in 0 .. last - 1 /\ From(w, i, v, j) = k
    BY <1>1, <1>4, <2>2 DEF From
  <2> QED BY <1>4, <2>1, <2>3
<1> QED BY <1>3, <1>4

\* The descriptors of w lose the one of slot i, those of the others stay.
LEMMA RemoveFds ==
  ASSUME TableTypes, SlotsDistinct,
         NEW w \in Workers, NEW i \in Used(w), remove_client(w, i),
         NEW v \in Workers
  PROVE  ClientFds(v)' = ClientFds(v) \ {client_fds[w][i]}
<1>1. ASSUME NEW f \in ClientFds(v)' PROVE f \in ClientFds(v) \ {client_fds[w][i]}
  <2>1. PICK j \in Used(v)' : f = client_fds'[v][j]
    BY <1>1 DEF ClientFds
  <2>2. /\ From(w, i, v, j) \in Used(v)
        /\ v = w => From(w, i, v, j) # i
        /\ f = client_fds[v][From(w, i, v, j)]
    BY <2>1, RemoveMoves
  <2>3. f # client_fds[w][i]
    BY <2>2 DEF SlotsDistinct
  <2> QED BY <2>2, <2>3 DEF ClientFds
<1>2. ASSUME NEW f \in ClientFds(v), f # client_fds[w][i] PROVE f \in ClientFds(v)'
  <2>1. PICK k \in Used(v) : f = client_fds[v][k]
    BY <1>2 DEF ClientFds
  <2>2. PICK j \in Used(v)' : From(w, i, v, j) = k
    BY <1>2, <2>1, RemoveKeeps
  <2>3. client_fds'[v][j] = f
    BY <2>1, <2>2, RemoveMoves
  <2> QED BY <2>3 DEF ClientFds
<1> QED BY <1>1, <1>2

\* The tables agree with each other and with the descriptors afterwards.
LEMMA RemoveTables ==
  ASSUME TableTypes, FdTypes, Tables,
         NEW w \in Workers, NEW i \in Used(w), remove_client(w, i)
  PROVE  Tables'
<1> DEFINE fd == client_fds[w][i]
<1> USE DEF Tables
<1>1. fdTable' = [f \in Fds |-> IF f = fd THEN NoConn ELSE fdTable[f]]
  BY DEF remove_client, CloseAll, ClosedFd
<1>2. SlotsDistinct'
  <2> SUFFICES ASSUME NEW v \in Workers, NEW u \in Workers,
                      NEW j \in Used(v)', NEW k \in Used(u)',
                      client_fds'[v][j] = client_fds'[u][k]
               PROVE  v = u /\ j = k
    BY DEF SlotsDistinct
  <2>1. v = u /\ From(w, i, v, j) = From(w, i, u, k)
    BY RemoveMoves DEF SlotsDistinct
  <2>2. v = w => j # client_count[w] - 1 /\ k # client_count[w] - 1
    BY <2>1, UsedAreSlots DEF Used, remove_client, TableTypes
  <2> QED BY <2>1, <2>2 DEF From
<1>3. Watched'
  <2> SUFFICES ASSUME NEW v \in Workers PROVE interest'[v] = ClientFds(v)'
    BY DEF Watched
  <2>1. ClientFds(v)' = ClientFds(v) \ {fd}
    BY RemoveFds
  <2>2. interest'[v] = IF v = w THEN interest[w] \ {fd} ELSE interest[v]
    BY DEF remove_client, TableTypes, ClosedFd
  <2>3. interest[v] = ClientFds(v) /\ (v # w => fd \notin ClientFds(v))
    BY DEF Watched, SlotsDistinct, ClientFds
  <2> QED BY <2>1, <2>2, <2>3
<1>4. SlotsOpen'
  <2> SUFFICES ASSUME NEW v \in Workers, NEW j \in Used(v)'
               PROVE  client_fds'[v][j] \in Fds /\ fdTable'[client_fds'[v][j]] # NoConn
    BY DEF SlotsOpen
  <2>1. /\ From(w, i, v, j) \in Used(v) /\ (v = w => From(w, i, v, j) # i)
        /\ client_fds'[v][j] = client_fds[v][From(w, i, v, j)]
    BY RemoveMoves
  <2>2. client_fds'[v][j] # fd
    BY <2>1 DEF SlotsDistinct
  <2> QED BY <1>1, <2>1, <2>2 DEF SlotsOpen
<1>5. NoneLeaked'
  BY <1>1, RemoveFds DEF NoneLeaked
<1>6. ConnsDistinct'
  BY <1>1 DEF ConnsDistinct
<1> QED BY <1>2, <1>3, <1>4, <1>5, <1>6

-----------------------------------------------------------------------------
(* Steps that leave the tables and the streams alone.                       *)

\* The tables, the descriptors and the streams agree as before.
LEMMA Unmoved ==
  ASSUME Ledger, UNCHANGED <<tableVars, fdTable, stream>>
  PROVE  Ledger' /\ (\A v \in Workers : ClientFds(v)' = ClientFds(v)) /\ Open' = Open
<1> USE DEF Ledger, tableVars, Used, ClientFds
<1>1. SlotsDistinct' BY DEF Tables, SlotsDistinct
<1>2. Watched' BY DEF Tables, Watched
<1>3. SlotsOpen' BY DEF Tables, SlotsOpen
<1>4. NoneLeaked' BY DEF Tables, NoneLeaked
<1>5. ConnsDistinct' BY DEF Tables, ConnsDistinct
<1>6. OffsetsMatch' BY DEF OffsetsMatch
<1>7. InOrder' BY DEF InOrder
<1>8. Open' = Open BY DEF Open
<1>9. ASSUME NEW v \in Workers PROVE ClientFds(v)' = ClientFds(v)
  OBVIOUS
<1> QED BY <1>1, <1>2, <1>3, <1>4, <1>5, <1>6, <1>7, <1>8, <1>9 DEF Tables

\* Losing events does not make the others stale.
LEMMA FewerEvents ==
  ASSUME WorkerTypes, EventsFresh, EventsDistinct,
         UNCHANGED <<tableVars, fdTable>>,
         \A v \in Workers : events'[v] \subseteq events[v]
  PROVE  EventsFresh' /\ EventsDistinct'
<1>1. \A v \in Workers : ClientFds(v)' = ClientFds(v)
  BY DEF tableVars, ClientFds, Used
<1>2. EventsFresh' BY <1>1 DEF EventsFresh
<1>3. EventsDistinct' BY DEF EventsDistinct
<1> QED BY <1>2, <1>3

\* main: mapping the file, listening, and what follows the joining.
LEMMA MainAgrees == ASSUME TypeOK, Agree, Main PROVE Agree'
<1> USE DEF Agree
<1> WorkerTypes BY DEF TypeOK
<1>1. UNCHANGED <<events, tableVars, fdTable, stream, peer>> /\ backlog' \subseteq backlog
  BY DEF Main, MapFile, Listen, Join, workerVars, kernelVars, netVars, clientVars
<1>2. Ledger' /\ Open' = Open
  BY <1>1, Unmoved
<1>3. EventsFresh' /\ EventsDistinct'
  BY <1>1, FewerEvents DEF Pending
<1>4. NotAccepted' /\ NotQueued'
  BY <1>1, <1>2 DEF Pending, NotAccepted, NotQueued
<1>5. Phases'
  <2>1. CASE MapFile
    BY <2>1 DEF MapFile, Phases, workerVars, kernelVars, netVars
  <2>2. CASE Listen
    <3>1. mapped /\ ~listening /\ backlog' = {}
      BY <2>2 DEF Listen, Phases
    <3>2. CASE main' = "serving"
      BY <2>2, <3>1, <3>2 DEF Listen, Phases
    <3>3. CASE main' # "serving"
      <4>1. main' = "exited" /\ ~mapped' /\ pc' = pc /\ listening' = listening
        BY <2>2, <3>3 DEF Listen
      <4>2. \A w \in Workers : pc[w] \in {"off", "exited"}
        BY <2>2 DEF Listen, Phases
      <4>3. ~listening'
        BY <3>1, <4>1
      <4> QED BY <3>1, <4>1, <4>2, <4>3 DEF Phases
    <3> QED BY <3>2, <3>3
  <2>3. CASE Join
    BY <2>3 DEF Join, Joined, Phases, workerVars
  <2> QED BY <2>1, <2>2, <2>3 DEF Main
<1>6. Quiet'
  <2>1. CASE MapFile
    BY <2>1 DEF MapFile, Quiet, workerVars, tableVars
  <2>2. CASE Listen
    BY <2>2 DEF Listen, Phases, Quiet, tableVars
  <2>3. CASE Join
    BY <2>3 DEF Join, Quiet, workerVars, tableVars
  <2> QED BY <2>1, <2>2, <2>3 DEF Main
<1> QED BY <1>2, <1>3, <1>4, <1>5, <1>6 DEF Pending

\* A signal: nothing is left.
LEMMA KilledAgrees == ASSUME TypeOK, Agree, Killed PROVE Agree'
<1>1. \A v \in Workers : Used(v)' = {} /\ ClientFds(v)' = {}
  <2>1. \A v \in Workers : client_count'[v] = 0
    BY DEF Killed
  <2> QED BY <2>1 DEF Used, ClientFds
<1>2. \A f \in Fds : fdTable'[f] = NoConn
  BY DEF Killed, CloseAll
<1>3. Tables'
  <2>1. Watched' BY <1>1 DEF Killed, Watched
  <2> QED BY <1>1, <1>2, <2>1
      DEF Tables, SlotsDistinct, SlotsOpen, NoneLeaked, ConnsDistinct
<1>4. OffsetsMatch' /\ InOrder'
  BY <1>1 DEF Killed, OffsetsMatch, InOrder, Agree, Ledger
<1>5. EventsFresh' /\ EventsDistinct'
  BY DEF Killed, EventsFresh, EventsDistinct
<1>6. NotAccepted' /\ NotQueued'
  <2>1. \A c \in Conns : c \notin Open'
    BY <1>2 DEF Open
  <2> QED BY <2>1 DEF Killed, clientVars, NotAccepted, NotQueued, Agree, Pending
<1>7. Phases'
  BY DEF Killed, Phases
<1>8. Quiet'
  BY DEF Killed, Quiet
<1> QED BY <1>3, <1>4, <1>5, <1>6, <1>7, <1>8 DEF Agree, Ledger, Pending

\* Clients and the network.
LEMMA EnvironmentAgrees ==
  ASSUME TypeOK, Agree, NEW c \in Conns, Environment(c) PROVE Agree'
<1> USE DEF Agree
<1> WorkerTypes /\ peer \in [Conns -> {"idle", "reading", "ended", "left"}]
  BY DEF TypeOK, SocketTypes, StreamTypes
<1>1. UNCHANGED <<mainVars, workerVars, tableVars, fdTable, stream, listening>>
  BY DEF Environment, serverVars, Connect, Leave, Delivery, Read, ReadEnd,
         ResetArrives, netVars
<1>2. Ledger' /\ Open' = Open
  BY <1>1, Unmoved
<1>3. EventsFresh' /\ EventsDistinct'
  BY <1>1, FewerEvents DEF Pending, workerVars
<1>4. /\ \A d \in Conns : peer'[d] = "idle" => peer[d] = "idle"
      /\ \/ UNCHANGED backlog
         \/ /\ backlog' = backlog \cup {c} /\ listening
            /\ peer[c] = "idle" /\ peer'[c] = "reading"
  BY DEF Environment, Connect, Leave, Delivery, Read, ReadEnd, ResetArrives,
         netVars, clientVars
<1>5. NotQueued'
  <2>1. \A d \in backlog : d \in Conns
    BY DEF TypeOK, SocketTypes, NetTypes
  <2> QED BY <1>4, <2>1 DEF Pending, NotQueued
<1>6. NotAccepted'
  BY <1>1, <1>2, <1>4 DEF Pending, NotAccepted
<1>7. Phases' /\ Quiet'
  BY <1>1, <1>4 DEF mainVars, workerVars, tableVars, Phases, Quiet
<1> QED BY <1>2, <1>3, <1>5, <1>6, <1>7 DEF Pending

-----------------------------------------------------------------------------
(* A worker that does not touch its table.                                  *)

\* Starting, taking the listening socket's event, and the end of accepting.
LEMMA TurnAgrees ==
  ASSUME TypeOK, Agree, NEW w \in Workers,
         StartWorker(w) \/ HandleListen(w) \/ AcceptEnds(w)
  PROVE  Agree'
<1> USE DEF Agree
<1> WorkerTypes BY DEF TypeOK
<1>1. /\ UNCHANGED <<mainVars, tableVars, fdTable, stream, peer, backlog, listening>>
      /\ \A v \in Workers : events'[v] \subseteq events[v]
  BY DEF StartWorker, HandleListen, AcceptEnds, WorkerTypes, kernelVars,
         netVars, clientVars
<1>2. Ledger' /\ Open' = Open
  BY <1>1, Unmoved
<1>3. EventsFresh' /\ EventsDistinct'
  BY <1>1, FewerEvents DEF Pending
<1>4. NotAccepted' /\ NotQueued'
  BY <1>1, <1>2 DEF Pending, NotAccepted, NotQueued
<1>5. PICK p \in {"loop", "accept", "exited"} :
        /\ pc' = [pc EXCEPT ![w] = p]
        /\ pc[w] \in {"start", "loop", "accept"}
        /\ p = "exited" => pc[w] = "start"
  BY DEF StartWorker, HandleListen, AcceptEnds
<1>6. Phases'
  <2>1. main = "serving"
    BY <1>5 DEF Phases
  <2>2. main' = main /\ mapped' = mapped /\ listening' = listening
    BY <1>1 DEF mainVars
  <2> QED BY <1>5, <2>1, <2>2 DEF Phases, WorkerTypes
<1>7. Quiet'
  <2> SUFFICES ASSUME NEW v \in Workers, pc'[v] \notin {"loop", "accept"}
               PROVE  client_count'[v] = 0 /\ events'[v] = {}
    BY DEF Quiet
  <2>1. pc[v] \notin {"loop", "accept"}
    BY <1>5 DEF WorkerTypes
  <2> QED BY <1>1, <2>1 DEF Quiet, tableVars
<1> QED BY <1>2, <1>3, <1>4, <1>6, <1>7 DEF Pending

\* What epoll_wait reports is true when it reports it.
LEMMA WaitAgrees ==
  ASSUME TypeOK, Agree, NEW w \in Workers, EpollWait(w) PROVE Agree'
<1> USE DEF Agree
<1> WorkerTypes /\ TableTypes BY DEF TypeOK
<1>1. UNCHANGED <<mainVars, pc, tableVars, fdTable, stream, peer, backlog, listening>>
  BY DEF EpollWait, kernelVars, netVars, clientVars
<1>2. Ledger' /\ Open' = Open /\ (\A v \in Workers : ClientFds(v)' = ClientFds(v))
  BY <1>1, Unmoved
<1>3. PICK E \in SUBSET Ready(w) : events' = [events EXCEPT ![w] = E]
  BY DEF EpollWait
<1>4. \A e \in E : e.fd # ListenFd =>
        /\ e.fd \in interest[w]
        /\ e = [fd |-> e.fd, about |-> fdTable[e.fd], hup |-> fdTable[e.fd] \in reset]
  BY DEF Ready, ListenEvent
<1>5. EventsFresh'
  <2>1. interest[w] = ClientFds(w)
    BY DEF Ledger, Tables, Watched
  <2>2. \A e \in E : e.fd # ListenFd => fdTable[e.fd] = e.about /\ e.fd \in ClientFds(w)
    BY <1>4, <2>1
  <2> QED BY <1>1, <1>2, <1>3, <2>2 DEF Pending, EventsFresh, WorkerTypes
<1>6. EventsDistinct'
  <2>1. \A e, d \in E : e.fd = d.fd /\ e.fd # ListenFd => e = d
    BY <1>4
  <2> QED BY <1>3, <2>1 DEF Pending, EventsDistinct, WorkerTypes
<1>7. NotAccepted' /\ NotQueued'
  BY <1>1, <1>2 DEF Pending, NotAccepted, NotQueued
<1>8. Phases'
  BY <1>1 DEF Phases, mainVars
<1>9. Quiet'
  BY <1>1, <1>3 DEF EpollWait, Quiet, tableVars, WorkerTypes
<1> QED BY <1>2, <1>5, <1>6, <1>7, <1>8, <1>9 DEF Pending

-----------------------------------------------------------------------------
(* A worker whose epoll_wait fails: its whole table goes at once.           *)

\* Its descriptors are closed and its slots emptied; nobody else's are.
LEMMA WaitFailsAgrees ==
  ASSUME TypeOK, Agree, NEW w \in Workers, EpollWaitFails(w) PROVE Agree'
<1> USE DEF Agree
<1> WorkerTypes /\ TableTypes /\ FdTypes BY DEF TypeOK, FdTypes
<1> Tables BY DEF Ledger
<1>1. /\ Used(w)' = {} /\ ClientFds(w)' = {}
      /\ \A v \in Workers \ {w} : Used(v)' = Used(v) /\ ClientFds(v)' = ClientFds(v)
  <2>1. client_count'[w] = 0
        /\ \A v \in Workers \ {w} : client_count'[v] = client_count[v]
                                    /\ client_fds'[v] = client_fds[v]
    BY DEF EpollWaitFails, TableTypes
  <2> QED BY <2>1 DEF Used, ClientFds
<1>2. \A v \in Workers \ {w} : /\ client_fds'[v] = client_fds[v]
                               /\ client_sent'[v] = client_sent[v]
                               /\ interest'[v] = interest[v]
  BY DEF EpollWaitFails, TableTypes
<1>3. fdTable' = [f \in Fds |-> IF f \in ClientFds(w) THEN NoConn ELSE fdTable[f]]
  BY DEF EpollWaitFails, CloseClients, CloseAll
<1>4. \A v \in Workers \ {w} : ClientFds(v) \cap ClientFds(w) = {}
  BY DEF Tables, SlotsDistinct, ClientFds
<1>5. Tables'
  <2>1. SlotsDistinct' BY <1>1, <1>2 DEF Tables, SlotsDistinct
  <2>2. Watched'
    <3>1. interest'[w] = {} BY DEF EpollWaitFails, TableTypes
    <3> QED BY <1>1, <1>2, <3>1 DEF Tables, Watched
  <2>3. SlotsOpen'
    <3> SUFFICES ASSUME NEW v \in Workers \ {w}, NEW i \in Used(v)
                 PROVE  client_fds[v][i] \in Fds /\ fdTable'[client_fds[v][i]] # NoConn
      BY <1>1, <1>2 DEF SlotsOpen
    <3>1. client_fds[v][i] \in ClientFds(v)
      BY DEF ClientFds
    <3> QED BY <1>3, <1>4, <3>1 DEF Tables, SlotsOpen
  <2>4. NoneLeaked' BY <1>1, <1>3 DEF Tables, NoneLeaked
  <2>5. ConnsDistinct' BY <1>3 DEF Tables, ConnsDistinct
  <2> QED BY <2>1, <2>2, <2>3, <2>4, <2>5 DEF Tables
<1>6. OffsetsMatch'
  <2> SUFFICES ASSUME NEW v \in Workers \ {w}, NEW i \in Used(v)
               PROVE  client_sent[v][i] = Len(stream[fdTable'[client_fds[v][i]]])
    BY <1>1, <1>2 DEF OffsetsMatch, EpollWaitFails
  <2>1. client_fds[v][i] \in ClientFds(v) /\ client_fds[v][i] \in Fds
    BY DEF ClientFds, Tables, SlotsOpen
  <2>2. fdTable'[client_fds[v][i]] = fdTable[client_fds[v][i]]
    BY <1>3, <1>4, <2>1
  <2> QED BY <2>2 DEF Ledger, OffsetsMatch
<1>7. InOrder'
  BY DEF EpollWaitFails, Ledger, InOrder
<1>8. EventsFresh' /\ EventsDistinct'
  <2>1. events' = events /\ events[w] = {}
    BY DEF EpollWaitFails
  <2>2. EventsDistinct' BY <2>1 DEF Pending, EventsDistinct
  <2>3. ASSUME NEW v \in Workers, NEW e \in events[v], e.fd # ListenFd
        PROVE  fdTable'[e.fd] = e.about /\ e.fd \in ClientFds(v)'
    <3>1. v # w /\ fdTable[e.fd] = e.about /\ e.fd \in ClientFds(v)
      BY <2>1, <2>3 DEF Pending, EventsFresh
    <3>2. e.fd \in Fds
      BY <3>1 DEF ClientFds, Tables, SlotsOpen
    <3> QED BY <1>1, <1>3, <1>4, <3>1, <3>2
  <2> QED BY <2>1, <2>2, <2>3 DEF EventsFresh
<1>9. NotAccepted' /\ NotQueued'
  <2>1. \A c \in Conns : c \in Open' => c \in Open
    BY <1>3 DEF Open
  <2> QED BY <2>1 DEF EpollWaitFails, clientVars, Pending, NotAccepted, NotQueued
<1>10. Phases'
  <2>1. main = "serving"
    BY DEF EpollWaitFails, Phases
  <2>2. main' = main /\ mapped' = mapped /\ listening' = listening
    BY DEF EpollWaitFails, mainVars
  <2>3. pc' = [pc EXCEPT ![w] = "exited"]
    BY DEF EpollWaitFails
  <2> QED BY <2>1, <2>2, <2>3 DEF Phases, WorkerTypes
<1>11. Quiet'
  BY DEF EpollWaitFails, Quiet, WorkerTypes, TableTypes
<1> QED BY <1>5, <1>6, <1>7, <1>8, <1>9, <1>10, <1>11 DEF Ledger, Pending

-----------------------------------------------------------------------------
(* Accepting: a connection nobody was serving gets a new slot.              *)

\* c takes the unused descriptor f and the first free slot of w.
Admitted(w, c, f) ==
  /\ fdTable' = [fdTable EXCEPT ![f] = c]
  /\ Watch(w, f)
  /\ client_fds' = [client_fds EXCEPT ![w][client_count[w]] = f]
  /\ client_sent' = [client_sent EXCEPT ![w][client_count[w]] = 0]
  /\ client_count' = [client_count EXCEPT ![w] = @ + 1]

\* The slots in use before keep what they hold; the new one holds f.
LEMMA AdmittedSlots ==
  ASSUME TableTypes, NEW w \in Workers, client_count[w] < MaxClients,
         NEW c, NEW f \in Fds, Admitted(w, c, f)
  PROVE  /\ Used(w)' = Used(w) \cup {client_count[w]}
         /\ client_count[w] \notin Used(w)
         /\ client_fds'[w][client_count[w]] = f
         /\ client_sent'[w][client_count[w]] = 0
         /\ \A v \in Workers : v # w => Used(v)' = Used(v)
         /\ \A v \in Workers : \A j \in Used(v) :
              client_fds'[v][j] = client_fds[v][j] /\ client_sent'[v][j] = client_sent[v][j]
<1> DEFINE n == client_count[w]
<1>1. n \in 0 .. MaxClients - 1 /\ n \in Slots
  BY DEF TableTypes, Slots
<1>2. client_count'[w] = n + 1 /\ (\A v \in Workers : v # w => client_count'[v] = client_count[v])
  BY DEF Admitted, TableTypes
<1>3. Used(w)' = Used(w) \cup {n} /\ n \notin Used(w)
  <2>1. Used(w)' = 0 .. n
    BY <1>1, <1>2 DEF Used
  <2>2. n \in Nat /\ 0 .. n = (0 .. n - 1) \cup {n} /\ n \notin 0 .. n - 1
    BY <1>1
  <2>3. Used(w) = 0 .. n - 1
    BY DEF Used
  <2> QED BY <2>1, <2>2, <2>3
<1>4. /\ client_fds'[w] = [client_fds[w] EXCEPT ![n] = f]
      /\ client_sent'[w] = [client_sent[w] EXCEPT ![n] = 0]
  BY DEF Admitted, TableTypes
<1>5. \A v \in Workers : v # w => /\ client_fds'[v] = client_fds[v]
                                  /\ client_sent'[v] = client_sent[v]
  BY DEF Admitted, TableTypes
<1>6. \A j \in Used(w) : j \in Slots /\ j # n
  BY <1>3, UsedAreSlots
<1>7. client_fds[w] \in [Slots -> Fds \cup {NoFd}] /\ client_sent[w] \in [Slots -> 0 .. Chunks]
  BY DEF TableTypes
<1>8. /\ client_fds'[w][n] = f /\ client_sent'[w][n] = 0
      /\ \A j \in Used(w) : /\ client_fds'[w][j] = client_fds[w][j]
                            /\ client_sent'[w][j] = client_sent[w][j]
  BY <1>1, <1>4, <1>6, <1>7
<1>9. \A v \in Workers : v # w => Used(v)' = Used(v)
  BY <1>2 DEF Used
<1> QED BY <1>3, <1>5, <1>8, <1>9

\* Nothing that agreed before is disturbed by the new slot.
LEMMA AdmittedAgrees ==
  ASSUME TypeOK, Agree, NEW w \in Workers, client_count[w] < MaxClients,
         NEW c \in backlog, NEW f \in Fds, fdTable[f] = NoConn, Admitted(w, c, f),
         backlog' = backlog \ {c}, UNCHANGED <<events, stream, peer>>
  PROVE  Ledger' /\ Pending'
<1> USE DEF Agree
<1> TableTypes /\ FdTypes /\ Tables /\ c \in Conns
  BY DEF TypeOK, FdTypes, Ledger, SocketTypes, NetTypes
<1> DEFINE n == client_count[w]
<1>1. /\ Used(w)' = Used(w) \cup {n} /\ n \notin Used(w)
      /\ client_fds'[w][n] = f /\ client_sent'[w][n] = 0
      /\ \A v \in Workers : v # w => Used(v)' = Used(v)
      /\ \A v \in Workers : \A j \in Used(v) :
           client_fds'[v][j] = client_fds[v][j] /\ client_sent'[v][j] = client_sent[v][j]
  BY AdmittedSlots
<1>2. /\ fdTable'[f] = c /\ c # NoConn
      /\ \A g \in Fds : g # f => fdTable'[g] = fdTable[g]
  BY DEF Admitted, FdTypes
<1>3. \A v \in Workers : \A j \in Used(v) : client_fds[v][j] \in Fds \ {f}
  BY DEF Tables, SlotsOpen
<1>4. /\ ClientFds(w)' = ClientFds(w) \cup {f}
      /\ \A v \in Workers : v # w => ClientFds(v)' = ClientFds(v)
  BY <1>1 DEF ClientFds
<1>5. SlotsDistinct'
  <2> SUFFICES ASSUME NEW v \in Workers, NEW u \in Workers,
                      NEW j \in Used(v)', NEW k \in Used(u)',
                      client_fds'[v][j] = client_fds'[u][k]
               PROVE  v = u /\ j = k
    BY DEF SlotsDistinct
  <2>1. j \in Used(v) \/ (v = w /\ j = n)
    BY <1>1
  <2>2. k \in Used(u) \/ (u = w /\ k = n)
    BY <1>1
  <2> QED BY <1>1, <1>3, <2>1, <2>2 DEF Tables, SlotsDistinct
<1>6. Watched'
  <2>1. interest'[w] = interest[w] \cup {f}
        /\ \A v \in Workers : v # w => interest'[v] = interest[v]
    BY DEF Admitted, Watch, TableTypes
  <2> QED BY <1>4, <2>1 DEF Tables, Watched
<1>7. SlotsOpen'
  <2> SUFFICES ASSUME NEW v \in Workers, NEW j \in Used(v)'
               PROVE  client_fds'[v][j] \in Fds /\ fdTable'[client_fds'[v][j]] # NoConn
    BY DEF SlotsOpen
  <2>1. CASE j \in Used(v)
    BY <1>1, <1>2, <1>3, <2>1 DEF Tables, SlotsOpen
  <2>2. CASE j \notin Used(v)
    BY <1>1, <1>2, <2>2
  <2> QED BY <2>1, <2>2
<1>8. NoneLeaked'
  <2> SUFFICES ASSUME NEW g \in Fds, fdTable'[g] # NoConn
               PROVE  \E v \in Workers : g \in ClientFds(v)'
    BY DEF NoneLeaked
  <2>1. CASE g = f BY <1>4, <2>1
  <2>2. CASE g # f
    <3>1. PICK v \in Workers : g \in ClientFds(v)
      BY <1>2, <2>2 DEF Tables, NoneLeaked
    <3> QED BY <1>4, <3>1
  <2> QED BY <2>1, <2>2
<1>9. \A g \in Fds : fdTable[g] # c
  BY DEF Pending, NotAccepted, Open
<1>10. ConnsDistinct'
  BY <1>2, <1>9 DEF Tables, ConnsDistinct
<1>11. OffsetsMatch'
  <2> SUFFICES ASSUME NEW v \in Workers, NEW j \in Used(v)'
               PROVE  client_sent'[v][j] = Len(stream[fdTable'[client_fds'[v][j]]])
    BY DEF OffsetsMatch
  <2>1. CASE j \in Used(v)
    <3>1. fdTable'[client_fds'[v][j]] = fdTable[client_fds[v][j]]
      BY <1>1, <1>2, <1>3, <2>1
    <3> QED BY <1>1, <2>1, <3>1 DEF Ledger, OffsetsMatch
  <2>2. CASE j \notin Used(v)
    <3>1. v = w /\ j = n
      BY <1>1, <2>2
    <3>2. stream[c] = <<>>
      BY DEF Pending, NotAccepted
    <3>3. Len(stream[c]) = 0
      BY <3>2
    <3> QED BY <1>1, <1>2, <3>1, <3>3
  <2> QED BY <2>1, <2>2
<1>12. InOrder'
  BY DEF Ledger, InOrder
<1>13. EventsFresh'
  <2> SUFFICES ASSUME NEW v \in Workers, NEW e \in events[v], e.fd # ListenFd
               PROVE  fdTable'[e.fd] = e.about /\ e.fd \in ClientFds(v)'
    BY DEF EventsFresh
  <2>1. fdTable[e.fd] = e.about /\ e.fd \in ClientFds(v)
    BY DEF Pending, EventsFresh
  <2>2. e.fd \in Fds \ {f}
    BY <1>3, <2>1 DEF ClientFds
  <2> QED BY <1>2, <1>4, <2>1, <2>2
<1>14. EventsDistinct'
  BY DEF Pending, EventsDistinct
<1>15. NotAccepted' /\ NotQueued'
  <2>1. \A d \in Conns : d # c /\ d \notin Open => d \notin Open'
    BY <1>2 DEF Open
  <2> QED BY <2>1 DEF Pending, NotAccepted, NotQueued
<1> QED BY <1>5, <1>6, <1>7, <1>8, <1>10, <1>11, <1>12, <1>13, <1>14, <1>15
        DEF Ledger, Pending, Tables

\* One turn of the accept loop, whether or not the client is admitted.
LEMMA AcceptAgrees ==
  ASSUME TypeOK, Agree, NEW w \in Workers, Accept(w) PROVE Agree'
<1> USE DEF Agree
<1> WorkerTypes /\ TableTypes BY DEF TypeOK
<1>1. PICK c \in backlog, f \in {g \in Fds : fdTable[g] = NoConn} :
        /\ backlog' = backlog \ {c}
        /\ Admitted(w, c, f) \/ UNCHANGED <<fdTable, tableVars>>
  BY DEF Accept, Admitted
<1>2. UNCHANGED <<mainVars, workerVars, listening, stream, peer>>
      /\ client_count[w] < MaxClients /\ pc[w] = "accept"
  BY DEF Accept, clientVars
<1>3. Ledger' /\ Pending'
  <2>1. CASE Admitted(w, c, f)
    BY <1>1, <1>2, <2>1, AdmittedAgrees DEF workerVars
  <2>2. CASE UNCHANGED <<fdTable, tableVars>>
    <3>1. Ledger' /\ Open' = Open
      BY <1>2, <2>2, Unmoved
    <3>2. EventsFresh' /\ EventsDistinct'
      BY <1>2, <2>2, FewerEvents DEF Pending, workerVars
    <3>3. NotAccepted' /\ NotQueued'
      BY <1>1, <1>2, <3>1 DEF Pending, NotAccepted, NotQueued
    <3> QED BY <3>1, <3>2, <3>3 DEF Pending
  <2> QED BY <1>1, <2>1, <2>2
<1>4. Phases'
  BY <1>1, <1>2 DEF Phases, mainVars, workerVars
<1>5. Quiet'
  <2>1. \A v \in Workers : v # w => client_count'[v] = client_count[v]
    BY <1>1 DEF Admitted, tableVars, TableTypes
  <2> QED BY <1>2, <2>1 DEF Quiet, workerVars
<1> QED BY <1>3, <1>4, <1>5

-----------------------------------------------------------------------------
(* Serving a client's event.                                                *)

\* A client is removed while an event of its own is taken from the batch and
\* only its own connection may have been sent more.
LEMMA RemovedAgrees ==
  ASSUME TypeOK, Agree, NEW w \in Workers, NEW i \in Used(w), remove_client(w, i),
         NEW e \in events[w], e.fd = client_fds[w][i], e.fd # ListenFd,
         events' = [events EXCEPT ![w] = @ \ {e}],
         UNCHANGED <<peer, backlog>>, InOrder',
         \A d \in Conns : d # fdTable[e.fd] => stream'[d] = stream[d]
  PROVE  Ledger' /\ Pending'
<1> USE DEF Agree
<1> WorkerTypes /\ TableTypes /\ FdTypes /\ Tables
  BY DEF TypeOK, FdTypes, Ledger
<1> DEFINE fd == client_fds[w][i]
<1>0. fd \in Fds /\ fdTable[fd] \in Conns
  BY DEF Tables, SlotsOpen, FdTypes
<1>1. fdTable' = [f \in Fds |-> IF f = fd THEN NoConn ELSE fdTable[f]]
  BY DEF remove_client, CloseAll, ClosedFd
<1>2. Tables'
  BY RemoveTables
<1>3. OffsetsMatch'
  <2> SUFFICES ASSUME NEW v \in Workers, NEW j \in Used(v)'
               PROVE  client_sent'[v][j] = Len(stream'[fdTable'[client_fds'[v][j]]])
    BY DEF OffsetsMatch
  <2> DEFINE k == From(w, i, v, j)
  <2>1. /\ k \in Used(v) /\ (v = w => k # i)
        /\ client_fds'[v][j] = client_fds[v][k]
        /\ client_sent'[v][j] = client_sent[v][k]
    BY RemoveMoves
  <2>2. client_fds[v][k] # fd /\ client_fds[v][k] \in Fds
        /\ fdTable[client_fds[v][k]] \in Conns
    BY <2>1 DEF Tables, SlotsDistinct, SlotsOpen, FdTypes
  <2>3. fdTable[client_fds[v][k]] # fdTable[fd]
    BY <1>0, <2>2 DEF Tables, ConnsDistinct
  <2>4. client_sent[v][k] = Len(stream[fdTable[client_fds[v][k]]])
    BY <2>1 DEF Ledger, OffsetsMatch
  <2> QED BY <1>1, <2>1, <2>2, <2>3, <2>4
<1>4. \A v \in Workers : events'[v] \subseteq events[v]
  BY DEF WorkerTypes
<1>5. EventsDistinct'
  BY <1>4 DEF Pending, EventsDistinct
<1>6. EventsFresh'
  <2> SUFFICES ASSUME NEW v \in Workers, NEW d \in events'[v], d.fd # ListenFd
               PROVE  fdTable'[d.fd] = d.about /\ d.fd \in ClientFds(v)'
    BY DEF EventsFresh
  <2>1. fdTable[d.fd] = d.about /\ d.fd \in ClientFds(v)
    BY <1>4 DEF Pending, EventsFresh
  <2>2. d.fd # fd
    <3>1. CASE v = w
      BY <1>4, <3>1 DEF Pending, EventsDistinct, WorkerTypes
    <3>2. CASE v # w
      BY <2>1, <3>2 DEF Tables, SlotsDistinct, ClientFds
    <3> QED BY <3>1, <3>2
  <2>3. d.fd \in Fds
    BY <2>1 DEF ClientFds, Tables, SlotsOpen
  <2>4. ClientFds(v)' = ClientFds(v) \ {fd}
    BY RemoveFds DEF Tables
  <2> QED BY <1>1, <2>1, <2>2, <2>3, <2>4
<1>7. NotAccepted'
  <2>1. \A d \in Conns : d \in Open' => d \in Open
    BY <1>1 DEF Open
  <2>2. fdTable[fd] \in Open
    BY <1>0 DEF Open
  <2> QED BY <2>1, <2>2 DEF Pending, NotAccepted
<1>8. NotQueued'
  BY DEF Pending, NotQueued
<1> QED BY <1>2, <1>3, <1>5, <1>6, <1>7, <1>8 DEF Ledger, Pending

\* A send appends the chunks after those already sent, to its own stream only.
LEMMA TakenInSlot ==
  ASSUME TypeOK, Agree, NEW w \in Workers, NEW i \in Used(w),
         NEW n \in Nat, client_sent[w][i] + n <= Chunks,
         Take(fdTable[client_fds[w][i]], client_sent[w][i], n)
  PROVE  /\ InOrder'
         /\ Len(stream'[fdTable[client_fds[w][i]]]) = client_sent[w][i] + n
         /\ \A d \in Conns : d # fdTable[client_fds[w][i]] => stream'[d] = stream[d]
<1> DEFINE c == fdTable[client_fds[w][i]]
           s == client_sent[w][i]
<1>1. c \in Conns
  BY DEF Agree, Ledger, Tables, SlotsOpen, TypeOK
<1>2. s \in Nat /\ s = Len(stream[c])
  <2>1. i \in Slots
    BY UsedAreSlots DEF TypeOK
  <2> QED BY <2>1 DEF TypeOK, TableTypes, Agree, Ledger, OffsetsMatch
<1> QED BY <1>1, <1>2, TakenInOrder DEF TypeOK, Agree, Ledger

\* A sending step that leaves the client in its slot moves that slot's offset
\* as far as its stream.
LEMMA AdvancedAgrees ==
  ASSUME TypeOK, Agree, NEW w \in Workers, NEW i \in Used(w),
         NEW n \in Nat, client_sent[w][i] + n <= Chunks,
         Take(fdTable[client_fds[w][i]], client_sent[w][i], n), Advance(w, i, n),
         UNCHANGED <<client_fds, client_count, interest, fdTable, peer, backlog>>,
         \A v \in Workers : events'[v] \subseteq events[v]
  PROVE  Ledger' /\ Pending'
<1> USE DEF Agree
<1> WorkerTypes /\ TableTypes /\ FdTypes /\ Tables
  BY DEF TypeOK, FdTypes, Ledger
<1> DEFINE c == fdTable[client_fds[w][i]]
<1>0. client_fds[w][i] \in Fds /\ c \in Conns /\ i \in Slots
  BY UsedAreSlots DEF Tables, SlotsOpen, FdTypes
<1>1. /\ InOrder'
      /\ Len(stream'[c]) = client_sent[w][i] + n
      /\ \A d \in Conns : d # c => stream'[d] = stream[d]
  BY TakenInSlot
<1>2. \A v \in Workers : Used(v)' = Used(v) /\ ClientFds(v)' = ClientFds(v)
  BY DEF Used, ClientFds
<1>3. Tables'
  <2>1. SlotsDistinct' BY <1>2 DEF Tables, SlotsDistinct
  <2>2. Watched' BY <1>2 DEF Tables, Watched
  <2>3. SlotsOpen' BY <1>2 DEF Tables, SlotsOpen
  <2>4. NoneLeaked' BY <1>2 DEF Tables, NoneLeaked
  <2>5. ConnsDistinct' BY DEF Tables, ConnsDistinct
  <2> QED BY <2>1, <2>2, <2>3, <2>4, <2>5 DEF Tables
<1>4. OffsetsMatch'
  <2> SUFFICES ASSUME NEW v \in Workers, NEW j \in Used(v)
               PROVE  client_sent'[v][j] = Len(stream'[fdTable[client_fds[v][j]]])
    BY <1>2 DEF OffsetsMatch
  <2>0. j \in Slots /\ client_fds[v][j] \in Fds /\ fdTable[client_fds[v][j]] \in Conns
    BY UsedAreSlots DEF Tables, SlotsOpen, FdTypes
  <2>1. CASE v = w /\ j = i
    <3>1. client_sent[w] \in [Slots -> 0 .. Chunks]
      BY DEF TableTypes
    <3>2. client_sent'[w][i] = client_sent[w][i] + n
      BY <1>0, <3>1 DEF Advance, TableTypes
    <3> QED BY <1>1, <2>1, <3>2
  <2>2. CASE ~(v = w /\ j = i)
    <3>1. client_sent[v] \in [Slots -> 0 .. Chunks]
      BY DEF TableTypes
    <3>2. client_sent'[v][j] = client_sent[v][j]
      BY <1>0, <2>0, <2>2, <3>1 DEF Advance, TableTypes
    <3>3. fdTable[client_fds[v][j]] # c
      BY <1>0, <2>0, <2>2 DEF Tables, SlotsDistinct, ConnsDistinct
    <3> QED BY <1>1, <2>0, <3>2, <3>3 DEF Ledger, OffsetsMatch
  <2> QED BY <2>1, <2>2
<1>5. EventsFresh' /\ EventsDistinct'
  <2>1. EventsFresh' BY <1>2 DEF Pending, EventsFresh
  <2>2. EventsDistinct' BY DEF Pending, EventsDistinct
  <2> QED BY <2>1, <2>2
<1>6. NotAccepted' /\ NotQueued'
  <2>1. Open' = Open /\ c \in Open
    BY <1>0 DEF Open
  <2> QED BY <1>1, <2>1 DEF Pending, NotAccepted, NotQueued
<1> QED BY <1>1, <1>3, <1>4, <1>5, <1>6 DEF Ledger, Pending

\* Whatever the worker does on a client's event.
LEMMA HandleAgrees ==
  ASSUME TypeOK, Agree, NEW w \in Workers, HandleClient(w) PROVE Agree'
<1> USE DEF Agree
<1> WorkerTypes /\ TableTypes BY DEF TypeOK
<1>1. PICK e \in events[w] :
        /\ e.fd # ListenFd
        /\ events' = [events EXCEPT ![w] = @ \ {e}]
        /\ LET i == find_client_index(w, e.fd)
           IN  IF i = client_count[w]
               THEN UNCHANGED <<tableVars, fdTable, stream, faults>>
               ELSE \/ e.hup /\ HangUp(w, i)
                    \/ ~e.hup /\ serve_client_step(w, i, e.fd)
  BY DEF HandleClient
<1>2. /\ UNCHANGED <<mainVars, pc, listening, backlog, peer>>
      /\ pc[w] = "loop"
      /\ \A v \in Workers : events'[v] \subseteq events[v]
      /\ \A v \in Workers : v # w => events'[v] = events[v]
  BY <1>1 DEF HandleClient, netVars, clientVars, WorkerTypes
<1> DEFINE i == find_client_index(w, e.fd)
<1>3. CASE UNCHANGED <<tableVars, fdTable, stream>>
  <2>1. Ledger' /\ Open' = Open
    BY <1>3, Unmoved
  <2>2. EventsFresh' /\ EventsDistinct'
    BY <1>2, <1>3, FewerEvents DEF Pending
  <2>3. NotAccepted' /\ NotQueued'
    BY <1>2, <1>3, <2>1 DEF Pending, NotAccepted, NotQueued
  <2>4. UNCHANGED client_count
    BY <1>3 DEF tableVars
  <2> QED BY <2>1, <2>2, <2>3, <2>4, <1>2 DEF Pending, Phases, Quiet, mainVars
<1>4. CASE i # client_count[w]
  <2>1. i \in Used(w) /\ client_fds[w][i] = e.fd
    BY <1>4, FindInTable
  <2>2. client_sent[w][i] \in 0 .. Chunks
    BY <2>1, UsedAreSlots DEF TableTypes
  <2>3. CASE remove_client(w, i) /\ UNCHANGED stream
    <3>1. InOrder' BY <2>3 DEF Ledger, InOrder
    <3>2. Ledger' /\ Pending'
      BY <1>1, <1>2, <2>1, <2>3, <3>1, RemovedAgrees
    <3>3. \A v \in Workers : v # w => client_count'[v] = client_count[v]
      BY <2>3 DEF remove_client, TableTypes
    <3> QED BY <1>2, <3>2, <3>3 DEF Phases, Quiet, mainVars
  <2>4. CASE SendTakes(w, i, e.fd)
    <3>1. PICK n \in 0 .. Chunks - client_sent[w][i] :
            /\ Take(fdTable[e.fd], client_sent[w][i], n)
            /\ IF Finished(client_sent[w][i] + n)
               THEN remove_client(w, i)
               ELSE /\ Advance(w, i, n)
                    /\ UNCHANGED <<client_fds, client_count, interest, fdTable>>
      BY <2>4 DEF SendTakes, Rest
    <3>2. n \in Nat /\ client_sent[w][i] + n <= Chunks
      BY <2>2
    <3>3. InOrder' /\ \A d \in Conns : d # fdTable[e.fd] => stream'[d] = stream[d]
      BY <2>1, <3>1, <3>2, TakenInSlot
    <3>4. Ledger' /\ Pending'
      <4>1. CASE Finished(client_sent[w][i] + n)
        <5>1. remove_client(w, i)
          BY <3>1, <4>1
        <5>2. events' = [events EXCEPT ![w] = @ \ {e}] /\ e.fd # ListenFd
              /\ UNCHANGED <<peer, backlog>>
          BY <1>1, <1>2
        <5> QED BY <2>1, <3>3, <5>1, <5>2, RemovedAgrees
      <4>2. CASE ~Finished(client_sent[w][i] + n)
        BY <1>2, <2>1, <3>1, <3>2, <4>2, AdvancedAgrees
      <4> QED BY <4>1, <4>2
    <3>5. \A v \in Workers : v # w => client_count'[v] = client_count[v]
      BY <3>1 DEF remove_client, TableTypes
    <3> QED BY <1>2, <3>4, <3>5 DEF Phases, Quiet, mainVars
  <2>5. \/ remove_client(w, i) /\ UNCHANGED stream
        \/ SendTakes(w, i, e.fd)
        \/ UNCHANGED <<tableVars, fdTable, stream>>
    BY <1>1, <1>4 DEF HangUp, serve_client_step, SendFails, SendBlocks
  <2> QED BY <1>3, <2>3, <2>4, <2>5
<1> QED BY <1>1, <1>3, <1>4

-----------------------------------------------------------------------------
(* The theorems.                                                            *)

\* At the start every table is empty.
LEMMA InitAgrees == ASSUME Init PROVE Agree
<1>1. \A v \in Workers : Used(v) = {} /\ ClientFds(v) = {}
  BY DEF Init, Used, ClientFds
<1>2. Tables
  <2>1. Watched BY <1>1 DEF Init, Watched
  <2> QED BY <1>1, <2>1
      DEF Init, Tables, SlotsDistinct, SlotsOpen, NoneLeaked, ConnsDistinct
<1>3. OffsetsMatch BY <1>1 DEF OffsetsMatch
<1>4. InOrder BY DEF Init, SocketInit, InOrder
<1>5. EventsFresh /\ EventsDistinct
  BY DEF Init, EventsFresh, EventsDistinct
<1>6. NotAccepted /\ NotQueued
  BY DEF Init, SocketInit, NotAccepted, NotQueued, Open
<1>7. Phases BY DEF Init, SocketInit, Phases
<1>8. Quiet BY DEF Init, Quiet
<1> QED BY <1>2, <1>3, <1>4, <1>5, <1>6, <1>7, <1>8 DEF Agree, Ledger, Pending

\* Every step of every thread, of a client or of the network keeps them so.
LEMMA StepAgrees == ASSUME TypeOK, Agree, [Next]_vars PROVE Agree'
<1>1. CASE Main BY <1>1, MainAgrees
<1>2. CASE Killed BY <1>2, KilledAgrees
<1>3. ASSUME NEW w \in Workers, Worker(w) PROVE Agree'
  BY <1>3, TurnAgrees, WaitAgrees, WaitFailsAgrees, AcceptAgrees, HandleAgrees
  DEF Worker
<1>4. ASSUME NEW c \in Conns, Environment(c) PROVE Agree'
  BY <1>4, EnvironmentAgrees
<1>5. CASE UNCHANGED vars
  <2>1. UNCHANGED <<mainVars, workerVars, tableVars, fdTable, stream, peer, backlog, listening>>
    BY <1>5 DEF vars, serverVars, socketVars, netVars, clientVars
  <2>2. Ledger' /\ Open' = Open
    BY <2>1, Unmoved DEF Agree
  <2>3. EventsFresh' /\ EventsDistinct'
    BY <2>1, FewerEvents DEF Agree, Pending, workerVars, TypeOK
  <2>4. NotAccepted' /\ NotQueued'
    BY <2>1, <2>2 DEF Agree, Pending, NotAccepted, NotQueued
  <2>5. Phases' BY <2>1 DEF Agree, Phases, mainVars, workerVars
  <2>6. Quiet' BY <2>1 DEF Agree, Quiet, workerVars, tableVars
  <2> QED BY <2>2, <2>3, <2>4, <2>5, <2>6 DEF Agree, Pending
<1> QED BY <1>1, <1>2, <1>3, <1>4, <1>5 DEF Next

\* The inductive invariant holds of every behaviour.
THEOREM Invariance == Spec => []IInv
<1>1. Init => Agree
  BY InitAgrees
<1>2. TypeOK /\ Agree /\ [Next]_vars => Agree'
  BY StepAgrees
<1> QED BY <1>1, <1>2, TypeCorrect, PTL DEF Spec, IInv

\* Across all workers every open descriptor is in one slot of one table, is
\* registered with that worker's epoll instance and is backed by a connection
\* of its own: remove_client's swap and the reuse of numbers lose nobody.
THEOREM SlotsAndDescriptors == Spec => []OneSlotPerFd
<1>1. IInv => OneSlotPerFd
  BY DEF IInv, Agree, Ledger, Tables, SlotsDistinct, Watched, SlotsOpen,
         NoneLeaked, ConnsDistinct, OneSlotPerFd
<1> QED BY <1>1, Invariance, PTL

\* client_sent of a slot is what the slot's own connection has been sent, so
\* no client is resumed at another's offset.
THEOREM OwnOffset == Spec => []OffsetsMatch
<1>1. IInv => OffsetsMatch
  BY DEF IInv, Agree, Ledger
<1> QED BY <1>1, Invariance, PTL

\* Every connection is sent the file from its first byte on without a gap or
\* a repetition, whichever worker, slot and descriptor serve it.
THEOREM SentInOrder == Spec => []InOrder
<1>1. IInv => InOrder
  BY DEF IInv, Agree, Ledger
<1> QED BY <1>1, Invariance, PTL

\* No event of the array is handled for another connection than the one the
\* kernel meant, though clients of the same batch are removed before it.
THEOREM NoStaleEvent == Spec => []EventsFresh
<1>1. IInv => EventsFresh
  BY DEF IInv, Agree, Pending
<1> QED BY <1>1, Invariance, PTL

\* The mapping and the listening socket are released after the last worker,
\* and with nothing left open.
THEOREM OrderlyRelease == Spec => []ReleasedInOrder
<1>1. IInv => ReleasedInOrder
  <2> SUFFICES ASSUME IInv PROVE ReleasedInOrder
    OBVIOUS
  <2> USE DEF IInv, Agree
  <2>1. ASSUME NEW w \in Workers, pc[w] \in {"start", "loop", "accept"}
        PROVE  mapped /\ listening
    <3>1. main = "serving"
      BY <2>1 DEF Phases
    <3> QED BY <3>1 DEF Phases
  <2>2. ASSUME main = "exited"
        PROVE  ~mapped /\ ~listening /\ Open = {} /\ backlog = {}
    <3>1. \A w \in Workers : client_count[w] = 0
      BY <2>2 DEF Phases, Quiet
    <3>2. \A w \in Workers : ClientFds(w) = {}
      BY <3>1 DEF ClientFds, Used
    <3>3. \A f \in Fds : fdTable[f] = NoConn
      BY <3>2 DEF Ledger, Tables, NoneLeaked
    <3>4. Open = {}
      BY <3>3 DEF Open
    <3> QED BY <2>2, <3>4 DEF Phases
  <2> QED BY <2>1, <2>2 DEF ReleasedInOrder
<1> QED BY <1>1, Invariance, PTL

-----------------------------------------------------------------------------
(* What relates the clients to the server's side.                           *)

\* A client that hangs up has gone.
HupHasLeft == \A w \in Workers : \A e \in events[w] :
  e.hup => e.about \in Conns /\ peer[e.about] = "left"

HonestEpoll == Honest(Open) /\ HupHasLeft

-----------------------------------------------------------------------------
(* What a step of the server does to the connections.                       *)

\* The fate of those it holds: a connection leaves the server complete, given up
\* or because its client left.
Fates == Fate(Open, Open')

\* main and the signal.
LEMMA MainFate == ASSUME Main \/ Killed PROVE Fates
<1>1. CASE MapFile \/ Listen
  <2>1. UNCHANGED <<got, peer, reset, dropped, backlog, stream, fdTable>>
    BY <1>1 DEF MapFile, Listen, kernelVars, netVars, clientVars
  <2>2. Open' = Open BY <2>1 DEF Open
  <2> QED BY <2>1, <2>2 DEF Fates, Fate
<1>2. CASE Join
  <2>1. UNCHANGED <<got, peer, reset, stream, fdTable>>
        /\ backlog' = {} /\ dropped' = dropped \cup backlog
    BY <1>2 DEF Join, clientVars, Drop
  <2>2. Open' = Open BY <2>1 DEF Open
  <2> QED BY <2>1, <2>2 DEF Fates, Fate
<1>3. CASE Killed
  <2>1. UNCHANGED <<got, peer, reset, stream>>
        /\ backlog' = {} /\ dropped' = dropped \cup (Open \cup backlog)
    BY <1>3 DEF Killed, clientVars, Drop
  <2>2. \A c \in Conns : c \notin Open'
    BY <1>3 DEF Killed, CloseAll, Open
  <2> QED BY <2>1, <2>2 DEF Fates, Fate
<1> QED BY <1>1, <1>2, <1>3 DEF Main

\* Starting, waiting, and the two ends of accepting.
LEMMA TurnFate ==
  ASSUME NEW w \in Workers,
         StartWorker(w) \/ HandleListen(w) \/ AcceptEnds(w) \/ EpollWait(w)
  PROVE  Fates
<1>1. UNCHANGED <<got, peer, reset, dropped, backlog, stream, fdTable>>
  BY DEF StartWorker, HandleListen, AcceptEnds, EpollWait, kernelVars, netVars, clientVars
<1>2. Open' = Open BY <1>1 DEF Open
<1> QED BY <1>1, <1>2 DEF Fates, Fate

\* A worker that gives up gives up exactly its own clients.
LEMMA WaitFailsFate ==
  ASSUME NEW w \in Workers, EpollWaitFails(w) PROVE Fates
<1>1. UNCHANGED <<got, peer, reset, backlog, stream>>
  BY DEF EpollWaitFails, clientVars
<1>2. /\ fdTable' = [f \in Fds |-> IF f \in ClientFds(w) THEN NoConn ELSE fdTable[f]]
      /\ dropped' = dropped \cup {c \in Conns : \E f \in ClientFds(w) : fdTable[f] = c}
  BY DEF EpollWaitFails, CloseClients, CloseAll, Drop
<1>3. \A c \in Conns : c \in Open' => c \in Open
  BY <1>2 DEF Open
<1>4. \A c \in Conns : c \in Open => c \in Open' \/ c \in dropped'
  BY <1>2 DEF Open
<1> QED BY <1>1, <1>2, <1>3, <1>4 DEF Fates, Fate

\* A connection taken from the queue is opened or given up.
LEMMA AcceptFate ==
  ASSUME TypeOK, NEW w \in Workers, Accept(w) PROVE Fates
<1>1. PICK c \in backlog, f \in {g \in Fds : fdTable[g] = NoConn} :
        /\ backlog' = backlog \ {c}
        /\ \/ fdTable' = [fdTable EXCEPT ![f] = c] /\ UNCHANGED dropped
           \/ dropped' = dropped \cup {c} /\ UNCHANGED fdTable
  BY DEF Accept, Drop
<1>2. UNCHANGED <<got, peer, reset, stream>>
  BY DEF Accept, clientVars
<1>3. \A d \in Conns : d \in Open' => d \in Open \/ d = c
  BY <1>1 DEF Open, TypeOK
<1>4. \A d \in Conns : d \in Open => d \in Open'
  BY <1>1 DEF Open, TypeOK
<1>5. c \in Open' \/ c \in dropped'
  BY <1>1 DEF Open, TypeOK, SocketTypes, NetTypes
<1> QED BY <1>1, <1>2, <1>3, <1>4, <1>5 DEF Fates, Fate

\* A client is removed once it has everything or has left.
LEMMA HandleFate ==
  ASSUME TypeOK, Agree, HonestEpoll, NEW w \in Workers, HandleClient(w) PROVE Fates
<1>1. PICK e \in events[w] :
        /\ e.fd # ListenFd
        /\ LET i == find_client_index(w, e.fd)
           IN  IF i = client_count[w]
               THEN UNCHANGED <<tableVars, fdTable, stream, faults>>
               ELSE \/ e.hup /\ HangUp(w, i)
                    \/ ~e.hup /\ serve_client_step(w, i, e.fd)
  BY DEF HandleClient
<1>2. UNCHANGED <<got, peer, reset, dropped, backlog>>
  BY DEF HandleClient, netVars, clientVars
<1> DEFINE i == find_client_index(w, e.fd)
           c == fdTable[e.fd]
<1>3. CASE UNCHANGED <<fdTable, stream>>
  <2>1. Open' = Open BY <1>3 DEF Open
  <2> QED BY <1>2, <1>3, <2>1 DEF Fates, Fate
<1>4. CASE i # client_count[w]
  <2>1. i \in Used(w) /\ client_fds[w][i] = e.fd
    BY <1>4, FindInTable
  <2>2. e.fd \in Fds /\ c \in Conns /\ c = e.about
    BY <1>1, <2>1 DEF Agree, Ledger, Tables, SlotsOpen, Pending, EventsFresh, TypeOK
  <2>3. c \in Open
    BY <2>2 DEF Open
  <2>4. client_sent[w][i] \in 0 .. Chunks
    BY <2>1, UsedAreSlots DEF TypeOK, TableTypes
  <2>5. remove_client(w, i) =>
          /\ \A d \in Conns : d \in Open' => d \in Open
          /\ \A d \in Conns : d \in Open /\ d # c => d \in Open'
    <3>1. ASSUME remove_client(w, i)
          PROVE  fdTable' = [f \in Fds |-> IF f = e.fd THEN NoConn ELSE fdTable[f]]
      BY <2>1, <3>1 DEF remove_client, CloseAll, ClosedFd
    <3> QED BY <3>1 DEF Open
  <2>r. ASSUME remove_client(w, i), stream' = stream, peer[c] = "left" PROVE Fates
    <3>1. \A d \in Conns : d \in Open => d \in Open' \/ peer[d] = "left"
      BY <2>5, <2>r
    <3>2. \A d \in Conns : d \in Open' => d \in Open
      BY <2>5, <2>r
    <3>3. \A d \in Conns : d \in backlog => d \in backlog'
      BY <1>2
    <3> QED BY <1>2, <2>r, <3>1, <3>2, <3>3 DEF Fates, Fate
  <2>6. CASE e.hup /\ HangUp(w, i)
    <3>1. peer[c] = "left"
      BY <1>1, <2>2, <2>6 DEF HonestEpoll, HupHasLeft
    <3> QED BY <2>6, <2>r, <3>1 DEF HangUp
  <2>7. CASE SendFails(w, i, e.fd)
    <3>1. peer[c] = "left"
      BY <2>7 DEF SendFails, HonestEpoll, Honest, ResetHasLeft
    <3> QED BY <2>7, <2>r, <3>1 DEF SendFails
  <2>8. CASE SendTakes(w, i, e.fd)
    <3>1. PICK n \in 0 .. Chunks - client_sent[w][i] :
            /\ Take(c, client_sent[w][i], n)
            /\ IF Finished(client_sent[w][i] + n)
               THEN remove_client(w, i)
               ELSE UNCHANGED fdTable
      BY <2>8 DEF SendTakes, Rest
    <3>2. n \in Nat /\ client_sent[w][i] + n <= Chunks
      BY <2>4
    <3>3. /\ Len(stream'[c]) = client_sent[w][i] + n
          /\ \A d \in Conns : d # c => stream'[d] = stream[d]
      BY <2>1, <3>1, <3>2, TakenInSlot
    <3>4. Len(stream[c]) = client_sent[w][i]
      BY <2>1 DEF Agree, Ledger, OffsetsMatch
    <3>5. Len(stream[c]) <= Len(stream'[c])
      BY <2>4, <3>2, <3>3, <3>4
    <3>6. CASE Finished(client_sent[w][i] + n)
      <4>1. Len(stream'[c]) = Chunks /\ remove_client(w, i)
        BY <3>1, <3>3, <3>6 DEF Finished
      <4>2. \A d \in Conns : d \in Open => d \in Open' \/ Len(stream'[d]) = Chunks
        BY <2>5, <4>1
      <4>3. \A d \in Conns : d \in Open' => d \in Open
        BY <2>5, <4>1
      <4>4. \A d \in Conns : \/ stream'[d] = stream[d]
                             \/ d \in Open /\ Len(stream[d]) <= Len(stream'[d])
        BY <2>3, <3>3, <3>5
      <4>5. \A d \in Conns : d \in backlog => d \in backlog'
        BY <1>2
      <4> QED BY <1>2, <4>2, <4>3, <4>4, <4>5 DEF Fates, Fate
    <3>7. CASE ~Finished(client_sent[w][i] + n)
      <4>1. Open' = Open
        BY <3>1, <3>7 DEF Open
      <4> QED BY <1>2, <2>3, <3>3, <3>5, <4>1 DEF Fates, Fate
    <3> QED BY <3>6, <3>7
  <2> QED BY <1>1, <1>3, <1>4, <2>6, <2>7, <2>8 DEF serve_client_step, SendBlocks
<1> QED BY <1>1, <1>3, <1>4

-----------------------------------------------------------------------------
(* End-of-file means complete.                                              *)

\* Events are dropped, or are new and true.
EventsHonest ==
  \A w \in Workers : \A e \in events'[w] :
    e \in events[w] \/ (e.hup => e.about \in reset)

\* Every step of the server is of this kind.
LEMMA ServerFate ==
  ASSUME TypeOK, Agree, HonestEpoll, Main \/ Killed \/ \E w \in Workers : Worker(w)
  PROVE  Fates /\ EventsHonest
<1>1. CASE Main
  <2>1. events' = events
    BY <1>1 DEF Main, MapFile, Listen, Join, workerVars
  <2> QED BY <1>1, <2>1, MainFate DEF EventsHonest
<1>2. CASE Killed
  <2>1. \A w \in Workers : events'[w] = {}
    BY <1>2 DEF Killed
  <2> QED BY <1>2, <2>1, MainFate DEF EventsHonest
<1>3. ASSUME NEW w \in Workers, Worker(w) PROVE Fates /\ EventsHonest
  <2>1. Fates
    BY <1>3, TurnFate, WaitFailsFate, AcceptFate, HandleFate DEF Worker
  <2>2. CASE EpollWait(w)
    <3>1. PICK E \in SUBSET Ready(w) : events' = [events EXCEPT ![w] = E]
      BY <2>2 DEF EpollWait
    <3>2. ASSUME NEW e \in E, e.hup PROVE e.about \in reset
      <4>1. CASE e = ListenEvent
        BY <3>2, <4>1 DEF ListenEvent
      <4>2. CASE e # ListenEvent
        <5>1. PICK f \in interest[w] :
                e = [fd |-> f, about |-> fdTable[f], hup |-> fdTable[f] \in reset]
          BY <4>2 DEF Ready
        <5>2. e.about = fdTable[f] /\ e.hup = (fdTable[f] \in reset)
          BY <5>1, Zenon
        <5> QED BY <3>2, <5>2, Zenon
      <4> QED BY <4>1, <4>2
    <3> QED BY <2>1, <3>1, <3>2 DEF EventsHonest, TypeOK, WorkerTypes
  <2>3. CASE ~EpollWait(w)
    <3>1. \/ events' = events
          \/ \E e \in events[w] : events' = [events EXCEPT ![w] = events[w] \ {e}]
      BY <1>3, <2>3 DEF Worker, StartWorker, EpollWaitFails, HandleListen, Accept,
         AcceptEnds, HandleClient, workerVars
    <3>2. \A v \in Workers : events'[v] \subseteq events[v]
      BY <3>1 DEF TypeOK, WorkerTypes
    <3> QED BY <2>1, <3>2 DEF EventsHonest
  <2> QED BY <2>2, <2>3
<1> QED BY <1>1, <1>2, <1>3

\* Clients and the network keep the relation as well.
LEMMA EnvironmentHonest ==
  ASSUME TypeOK, HonestEpoll, NEW c \in Conns, Environment(c) PROVE HonestEpoll'
<1>1. ClientStep(c, Open) /\ UNCHANGED <<events, fdTable>>
  BY DEF Environment, ClientStep, serverVars, workerVars
<1>2. Open' = Open
  BY <1>1 DEF Open
<1>3. Honest(Open)'
  BY <1>1, <1>2, ClientIsHonest DEF TypeOK, HonestEpoll
<1>4. HupHasLeft'
  <2>1. \A d \in Conns : peer[d] = "left" => peer'[d] = "left"
    BY <1>1 DEF ClientStep, Connect, Leave, Delivery, Read, ReadEnd, ResetArrives,
       clientVars, TypeOK, SocketTypes, StreamTypes
  <2> QED BY <1>1, <2>1 DEF HonestEpoll, HupHasLeft
<1> QED BY <1>3, <1>4 DEF HonestEpoll

\* The relation holds of every behaviour.
LEMMA Honesty == Spec => []HonestEpoll
<1>1. Init => HonestEpoll
  <2> SUFFICES ASSUME Init PROVE HonestEpoll
    OBVIOUS
  <2>1. Open = {} /\ HupHasLeft
    BY DEF Init, Open, HupHasLeft
  <2> QED BY <2>1, InitHonest DEF Init, HonestEpoll
<1>2. IInv /\ HonestEpoll /\ [Next]_vars => HonestEpoll'
  <2> SUFFICES ASSUME IInv, HonestEpoll, [Next]_vars PROVE HonestEpoll'
    OBVIOUS
  <2> TypeOK /\ Agree BY DEF IInv
  <2>1. CASE Main \/ Killed \/ \E w \in Workers : Worker(w)
    <3>1. Fate(Open, Open') /\ EventsHonest
      BY <2>1, ServerFate DEF Fates
    <3>2. Honest(Open)'
      BY <3>1, FateIsHonest DEF HonestEpoll, TypeOK
    <3>3. HupHasLeft'
      BY <3>1 DEF EventsHonest, Fate, HonestEpoll, HupHasLeft, Honest, ResetHasLeft,
         TypeOK, SocketTypes, NetTypes
    <3> QED BY <3>2, <3>3 DEF HonestEpoll
  <2>2. CASE \E c \in Conns : Environment(c)
    BY <2>2, EnvironmentHonest
  <2>3. CASE UNCHANGED vars
    BY <2>3 DEF HonestEpoll, Honest, ClosedIsWhole, EndedIsClosed, ResetHasLeft, ReadWasSent,
       HupHasLeft, Open, vars, serverVars, workerVars, socketVars, netVars, clientVars
  <2> QED BY <2>1, <2>2, <2>3 DEF Next
<1> QED BY <1>1, <1>2, Invariance, PTL DEF Spec

\* A client that reads end-of-file has the whole file, unless the server side
\* failed or was stopped and gave its connection up.
THEOREM EofIsHonest == Spec => []EofMeansComplete
<1>1. HonestEpoll => EofMeansComplete
  BY HonestEof DEF HonestEpoll
<1> QED BY <1>1, Honesty, PTL

-----------------------------------------------------------------------------
(* Every step is a step of Transfer.                                        *)

\* The epoll server implements the abstract transfer: its workers, tables,
\* descriptors and events are invisible to its clients.
THEOREM EpollImplementsTransfer == Spec => ImplementsTransfer
<1>1. Init => T!Init
  BY InitMaps DEF Init
<1>2. IInv /\ IInv' /\ HonestEpoll /\ HonestEpoll' /\ EofMeansComplete' /\ [Next]_vars
      => [T!Next]_T!vars
  <2> SUFFICES ASSUME IInv, IInv', HonestEpoll, HonestEpoll', EofMeansComplete', [Next]_vars
               PROVE  [T!Next]_T!vars
    OBVIOUS
  <2> /\ SocketTypes /\ SocketTypes' /\ InOrder /\ InOrder' /\ ReadWasSent /\ ReadWasSent'
    BY DEF IInv, TypeOK, Agree, Ledger, HonestEpoll, Honest
  <2>1. CASE Main \/ Killed \/ \E w \in Workers : Worker(w)
    <3>1. UNCHANGED <<got, peer>> /\ dropped \subseteq dropped'
      BY <2>1, ServerFate DEF IInv, Fates, Fate
    <3>2. T!Break
      BY <3>1, ServerStepMaps
    <3> QED BY <3>2 DEF T!Next
  <2>2. CASE \E c \in Conns : Environment(c)
    <3>1. PICK c \in Conns : ClientStep(c, Open)
      BY <2>2 DEF Environment, ClientStep
    <3> QED BY <3>1, ClientStepMaps
  <2>3. CASE UNCHANGED vars
    <3>1. UNCHANGED <<peer, got, stream, dropped>>
      BY <2>3 DEF vars, socketVars, clientVars
    <3> QED BY <3>1, SameForClients
  <2> QED BY <2>1, <2>2, <2>3 DEF Next
<1>3. Spec => T!Spec
  BY <1>1, <1>2, Invariance, Honesty, EofIsHonest, PTL DEF Spec, T!Spec
<1> QED BY <1>3 DEF ImplementsTransfer
=============================================================================
