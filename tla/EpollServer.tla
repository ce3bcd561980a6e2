---------------------------- MODULE EpollServer ----------------------------
(* bsd-sockets/tcpserver/server.cpp: main maps the file, opens a listening  *)
(* socket and starts worker threads that all run accept_loop on it.  Every  *)
(* worker has its own epoll instance and its own table of clients (three    *)
(* parallel arrays and a count); the workers share the listening socket and *)
(* the process's descriptor numbers.                                        *)
EXTENDS Integers, Sockets

CONSTANTS Workers,     \* the worker threads
          Fds,         \* the descriptor numbers left for client sockets
          NoFd,        \* the -1 of an unused slot
          NoConn,      \* what an unused descriptor number refers to
          ListenFd,    \* the descriptor of the listening socket
          MaxClients   \* MAX_CLIENTS_PER_WORKER

ASSUME EpollAssumption ==
  /\ MaxClients \in Nat \ {0}
  /\ NoFd \notin Fds /\ ListenFd \notin Fds /\ NoFd # ListenFd
  /\ NoConn \notin Conns

VARIABLES
  main,          \* where main is: "start", "mapped", "serving", "exited"
  mapped,        \* whether the payload is mapped
  pc,            \* pc[w]: "off", "start", "loop", "accept", "exited"
  events,        \* events[w]: the events of the last epoll_wait not handled yet
  client_fds, client_sent, client_count,   \* the arrays of accept_loop
  interest,      \* interest[w]: client descriptors in w's epoll instance
  fdTable        \* the connection behind each descriptor number

mainVars   == <<main, mapped>>
tableVars  == <<client_fds, client_sent, client_count, interest>>
workerVars == <<pc, events>>
kernelVars == <<fdTable, netVars>>
serverVars == <<mainVars, workerVars, tableVars, fdTable>>
vars == <<serverVars, socketVars>>

Slots == 0 .. MaxClients - 1

\* An epoll_event: the data.fd it carries and whether EPOLLERR or EPOLLHUP is
\* set (EPOLLOUT then is too); "about" is a history field, the connection the
\* kernel meant.
Events == [fd : Fds \cup {ListenFd}, about : Conns \cup {NoConn}, hup : BOOLEAN]

ListenEvent == [fd |-> ListenFd, about |-> NoConn, hup |-> FALSE]

MainTypes == /\ main \in {"start", "mapped", "serving", "exited"}
             /\ mapped \in BOOLEAN

WorkerTypes == /\ pc \in [Workers -> {"off", "start", "loop", "accept", "exited"}]
               /\ events \in [Workers -> SUBSET Events]

TableTypes == /\ client_fds \in [Workers -> [Slots -> Fds \cup {NoFd}]]
              /\ client_sent \in [Workers -> [Slots -> 0 .. Chunks]]
              /\ client_count \in [Workers -> 0 .. MaxClients]
              /\ interest \in [Workers -> SUBSET Fds]

TypeOK == /\ MainTypes /\ WorkerTypes /\ TableTypes /\ SocketTypes
          /\ fdTable \in [Fds -> Conns \cup {NoConn}]

Init ==
  /\ SocketInit
  /\ main = "start" /\ mapped = FALSE
  /\ pc = [w \in Workers |-> "off"]
  /\ events = [w \in Workers |-> {}]
  /\ client_fds = [w \in Workers |-> [i \in Slots |-> NoFd]]
  /\ client_sent = [w \in Workers |-> [i \in Slots |-> 0]]
  /\ client_count = [w \in Workers |-> 0]
  /\ interest = [w \in Workers |-> {}]
  /\ fdTable = [f \in Fds |-> NoConn]

-----------------------------------------------------------------------------
(* Helpers.                                                                 *)

Open == {c \in Conns : \E f \in Fds : fdTable[f] = c}

\* The slots of w's table that are in use.
Used(w) == 0 .. client_count[w] - 1

\* The descriptors of w's table, all closed at once.
ClientFds(w) == {client_fds[w][i] : i \in Used(w)}

CloseAll(S) == fdTable' = [f \in Fds |-> IF f \in S THEN NoConn ELSE fdTable[f]]

\* find_client_index: the slot in use that holds fd (OneSlotPerFd says that
\* there is one at most, so the first is any), else client_count.
find_client_index(w, fd) ==
  IF \E i \in Used(w) : client_fds[w][i] = fd
  THEN CHOOSE i \in Used(w) : client_fds[w][i] = fd
  ELSE client_count[w]

\* remove_client: the descriptor is read, then closed, before the last slot
\* moves into the hole.  Seeded bugs: it is read after the move; client_sent
\* stays behind.
ClosedFd_AfterMove(w, index) == client_fds[w][client_count[w] - 1]
ClosedFd(w, index) == client_fds[w][index]

MovedFds(w, index) ==
  LET last == client_count[w] - 1
  IN  [client_fds[w] EXCEPT ![index] = client_fds[w][last], ![last] = NoFd]

MovedSent_Stays(w, index) ==
  [client_sent[w] EXCEPT ![client_count[w] - 1] = 0]
MovedSent(w, index) ==
  LET last == client_count[w] - 1
  IN  [client_sent[w] EXCEPT ![index] = client_sent[w][last], ![last] = 0]

remove_client(w, index) ==
  LET fd   == ClosedFd(w, index)
      last == client_count[w] - 1
  IN  /\ interest' = [interest EXCEPT ![w] = @ \ {fd}]
      /\ CloseAll({fd})
      /\ client_fds' = [client_fds EXCEPT ![w] = MovedFds(w, index)]
      /\ client_sent' = [client_sent EXCEPT ![w] = MovedSent(w, index)]
      /\ client_count' = [client_count EXCEPT ![w] = last]

-----------------------------------------------------------------------------
(* main.                                                                    *)

\* map_file_read_only; a failure ends the program with nothing to undo.
MapFile ==
  /\ main = "start"
  /\ \/ main' = "mapped" /\ mapped' = TRUE /\ NoFault
     \/ main' = "exited" /\ UNCHANGED mapped /\ Fault
  /\ UNCHANGED <<workerVars, tableVars, kernelVars, clientVars,
                 stream, dropped>>

\* socket ... listen, then the workers are spawned; any failure on the way
\* closes the socket and unmaps the file.
Listen ==
  /\ main = "mapped"
  /\ \/ /\ main' = "serving" /\ listening' = TRUE /\ NoFault
        /\ pc' = [w \in Workers |-> "start"]
        /\ UNCHANGED mapped
     \/ /\ main' = "exited" /\ mapped' = FALSE /\ Fault
        /\ UNCHANGED <<listening, pc>>
  /\ UNCHANGED <<events, tableVars, fdTable, backlog, reset, clientVars,
                 stream, dropped>>

\* All threads are joined.  Seeded bug: only one of them is.
Joined_One == \E w \in Workers : pc[w] = "exited"
Joined == \A w \in Workers : pc[w] = "exited"

\* Every worker has been joined: close the listening socket, which resets the
\* connections still queued on it, and unmap the file.
Join ==
  /\ main = "serving" /\ Joined
  /\ main' = "exited" /\ listening' = FALSE /\ mapped' = FALSE
  /\ backlog' = {} /\ Drop(backlog)
  /\ UNCHANGED <<workerVars, tableVars, fdTable, reset, clientVars, stream,
                 faults>>

\* The campaign script stops the server with a signal (it has no handler):
\* the kernel closes everything the process holds.
Killed ==
  /\ main = "serving" /\ Fault
  /\ main' = "exited" /\ listening' = FALSE /\ mapped' = FALSE
  /\ pc' = [w \in Workers |-> "exited"]
  /\ events' = [w \in Workers |-> {}]
  /\ interest' = [w \in Workers |-> {}]
  /\ client_fds' = [w \in Workers |-> [i \in Slots |-> NoFd]]
  /\ client_sent' = [w \in Workers |-> [i \in Slots |-> 0]]
  /\ client_count' = [w \in Workers |-> 0]
  /\ CloseAll(Fds) /\ backlog' = {} /\ Drop(Open \cup backlog)
  /\ UNCHANGED <<reset, clientVars, stream>>

-----------------------------------------------------------------------------
(* A worker thread in accept_loop.                                          *)

\* epoll_create1 and the registration of the listening socket; the worker
\* returns at once when either fails.
StartWorker(w) ==
  /\ pc[w] = "start"
  /\ \/ pc' = [pc EXCEPT ![w] = "loop"] /\ NoFault
     \/ pc' = [pc EXCEPT ![w] = "exited"] /\ Fault
  /\ UNCHANGED <<mainVars, events, tableVars, kernelVars, clientVars, stream,
                 dropped>>

\* The events level-triggered epoll has for w: a socket is reported when its
\* send buffer has room or its reset has arrived.
Ready(w) ==
  {[fd |-> f, about |-> fdTable[f], hup |-> fdTable[f] \in reset] :
     f \in {g \in interest[w] : \/ Free(fdTable[g]) > 0
                                \/ fdTable[g] \in reset}}
  \cup {e \in {ListenEvent} : backlog # {}}

\* epoll_wait fills the events array, which has MaxClients entries; which of
\* the ready descriptors are reported, when there are more, is the kernel's
\* choice.  Events are handled in any order, as the kernel may list them.
EpollWait(w) ==
  /\ pc[w] = "loop" /\ events[w] = {}
  /\ \E E \in SUBSET Ready(w) :
       /\ E # {}
       /\ \/ Cardinality(E) = MaxClients
          \/ E = Ready(w) /\ Cardinality(E) < MaxClients
       /\ events' = [events EXCEPT ![w] = E]
  /\ UNCHANGED <<mainVars, pc, tableVars, kernelVars, clientVars, stream,
                 faults, dropped>>

\* The closing loop after accept_loop.  Seeded bug: it is left out.
CloseClients_Not(w) == UNCHANGED <<fdTable, dropped>>
CloseClients(w) == /\ CloseAll(ClientFds(w))
                   /\ Drop({c \in Conns : \E f \in ClientFds(w) : fdTable[f] = c})

\* epoll_wait fails: the worker leaves its loop, closes its clients wherever
\* their transfers stand, and returns.
EpollWaitFails(w) ==
  /\ pc[w] = "loop" /\ events[w] = {} /\ Fault
  /\ pc' = [pc EXCEPT ![w] = "exited"]
  /\ CloseClients(w)
  /\ interest' = [interest EXCEPT ![w] = {}]
  /\ client_fds' = [client_fds EXCEPT ![w] = [i \in Slots |-> NoFd]]
  /\ client_sent' = [client_sent EXCEPT ![w] = [i \in Slots |-> 0]]
  /\ client_count' = [client_count EXCEPT ![w] = 0]
  /\ UNCHANGED <<mainVars, events, listening, backlog, reset, clientVars, stream>>

\* The event is the listening socket's: start accepting.
HandleListen(w) ==
  /\ pc[w] = "loop" /\ ListenEvent \in events[w]
  /\ pc' = [pc EXCEPT ![w] = "accept"]
  /\ events' = [events EXCEPT ![w] = @ \ {ListenEvent}]
  /\ UNCHANGED <<mainVars, tableVars, kernelVars, clientVars, stream, faults,
                 dropped>>

\* EPOLL_CTL_ADD of a client.  Seeded bug: it is forgotten.
Watch_Not(w, f) == UNCHANGED interest
Watch(w, f) == interest' = [interest EXCEPT ![w] = @ \cup {f}]

\* One turn of the accept loop that gets a connection: make it non-blocking,
\* register it and append it to the table, or close it when that fails.
Accept(w) ==
  /\ pc[w] = "accept" /\ client_count[w] < MaxClients
  /\ \E c \in backlog, f \in {g \in Fds : fdTable[g] = NoConn} :
       /\ backlog' = backlog \ {c}
       /\ \/ /\ NoFault
             /\ fdTable' = [fdTable EXCEPT ![f] = c]
             /\ Watch(w, f)
             /\ client_fds' = [client_fds EXCEPT ![w][client_count[w]] = f]
             /\ client_sent' = [client_sent EXCEPT ![w][client_count[w]] = 0]
             /\ client_count' = [client_count EXCEPT ![w] = @ + 1]
             /\ UNCHANGED dropped
          \/ /\ Fault /\ Drop({c})
             /\ UNCHANGED <<fdTable, tableVars>>
  /\ UNCHANGED <<mainVars, workerVars, listening, reset, clientVars, stream>>

\* The accept loop ends: the table is full, nothing is queued (another worker
\* may have taken it), no descriptor is left, or accept fails otherwise.
AcceptEnds(w) ==
  /\ pc[w] = "accept"
  /\ \/ client_count[w] = MaxClients /\ NoFault
     \/ backlog = {} /\ NoFault
     \/ (\A f \in Fds : fdTable[f] # NoConn) /\ NoFault
     \/ Fault
  /\ pc' = [pc EXCEPT ![w] = "loop"]
  /\ UNCHANGED <<mainVars, events, tableVars, kernelVars, clientVars, stream,
                 dropped>>

\* How much send is asked to take.  Seeded bug: the whole size each time.
Rest_Whole(sent) == Chunks
Rest(sent) == Chunks - sent

\* When the step reports the transfer finished.  Seeded bug: one chunk early.
Finished_Early(sent) == sent >= Chunks - 1
Finished(sent) == sent = Chunks

\* The new client_sent of slot i.  Seeded bug: it does not move.
Advance_Not(w, i, n) == UNCHANGED client_sent
Advance(w, i, n) == client_sent' = [client_sent EXCEPT ![w][i] = @ + n]

\* send_file_step on slot i of w, whose descriptor is fd: the kernel takes n
\* chunks from client_sent on (none of an exhausted payload); the client is
\* removed after the last one.
SendTakes(w, i, fd) ==
  LET c    == fdTable[fd]
      sent == client_sent[w][i]
  IN  /\ c \notin reset \/ sent >= Chunks
      /\ NoFault
      /\ \E n \in 0 .. Rest(sent) :
           /\ n <= Free(c)
           /\ n > 0 \/ sent >= Chunks
           /\ Take(c, sent, n)
           /\ IF Finished(sent + n)
              THEN remove_client(w, i)
              ELSE /\ Advance(w, i, n)
                   /\ UNCHANGED <<client_fds, client_count, interest, fdTable>>

\* send fails because the peer's reset arrived after epoll_wait looked.
SendFails(w, i, fd) ==
  /\ fdTable[fd] \in reset /\ client_sent[w][i] < Chunks /\ NoFault
  /\ remove_client(w, i)
  /\ UNCHANGED stream

\* send is interrupted or would block: the slot waits for a later event.
SendBlocks(w, i, fd) ==
  /\ client_sent[w][i] < Chunks /\ Fault
  /\ UNCHANGED <<tableVars, fdTable, stream>>

\* Seeded bug: a hang-up is ignored.
HangUp_Ignored(w, i) == UNCHANGED <<tableVars, fdTable, stream, faults>>

\* The client hung up: it is removed wherever its transfer stands.
HangUp(w, i) == remove_client(w, i) /\ UNCHANGED <<stream, faults>>

\* serve_client_step and what the loop does with its status.
serve_client_step(w, i, fd) ==
  SendTakes(w, i, fd) \/ SendFails(w, i, fd) \/ SendBlocks(w, i, fd)

\* The event is a client's: ignore it if the descriptor is not in the table,
\* remove the client if it hung up, else make one sending step.
HandleClient(w) ==
  /\ pc[w] = "loop"
  /\ \E e \in events[w] :
       /\ e.fd # ListenFd
       /\ events' = [events EXCEPT ![w] = @ \ {e}]
       /\ LET i == find_client_index(w, e.fd)
          IN  IF i = client_count[w]
              THEN UNCHANGED <<tableVars, fdTable, stream, faults>>
              ELSE \/ e.hup /\ HangUp(w, i)
                   \/ ~e.hup /\ serve_client_step(w, i, e.fd)
  /\ UNCHANGED <<mainVars, pc, netVars, clientVars, dropped>>

-----------------------------------------------------------------------------
Main == MapFile \/ Listen \/ Join

Worker(w) == \/ StartWorker(w) \/ EpollWait(w) \/ EpollWaitFails(w)
             \/ HandleListen(w) \/ Accept(w) \/ AcceptEnds(w) \/ HandleClient(w)

Environment(c) == /\ Connect(c) \/ Leave(c) \/ Delivery(c, c \in Open)
                  /\ UNCHANGED serverVars

Next == \/ Main \/ Killed
        \/ \E w \in Workers : Worker(w)
        \/ \E c \in Conns : Environment(c)

Spec == Init /\ [][Next]_vars

\* The operating system runs every thread and delivers what is in flight, and
\* clients that stay keep reading; nobody has to connect, leave or fail.
\* epoll moves a reported descriptor to the end of its ready list, so one that
\* is ready again and again is reported again and again.
Reports(w, c) == EpollWait(w) /\ \E e \in events'[w] : e.about = c

Fairness ==
  /\ WF_vars(Main /\ NoFault)
  /\ \A w \in Workers : /\ WF_vars(Worker(w) /\ NoFault)
                        /\ \A c \in Conns : SF_vars(Reports(w, c))
  /\ \A c \in Conns : WF_vars(Delivery(c, c \in Open) /\ UNCHANGED serverVars)

FairSpec == Spec /\ Fairness
=============================================================================
