-------------------------- MODULE EpollServerProps --------------------------
(* What the epoll server must never do, and what it must bring about.       *)
EXTENDS EpollServer

\* A slot's client_sent counts exactly what its connection has been sent, so
\* the swap in remove_client and the reuse of a slot or of a descriptor number
\* never resume one client at the offset of another.
OffsetsMatch ==
  \A w \in Workers : \A i \in Used(w) :
    client_sent[w][i] = Len(stream[fdTable[client_fds[w][i]]])

\* Across all workers a descriptor is in at most one slot, slots hold open
\* descriptors registered with the worker's own epoll instance, and no open
\* descriptor is in no table: nothing is leaked and nobody is forgotten.
OneSlotPerFd ==
  /\ \A w, v \in Workers : \A i \in Used(w), j \in Used(v) :
       client_fds[w][i] = client_fds[v][j] => w = v /\ i = j
  /\ \A w \in Workers : interest[w] = ClientFds(w)
  /\ \A w \in Workers : \A i \in Used(w) :
       client_fds[w][i] \in Fds /\ fdTable[client_fds[w][i]] # NoConn
  /\ \A f \in Fds : fdTable[f] # NoConn => \E w \in Workers : f \in ClientFds(w)
  /\ \A f, g \in Fds : fdTable[f] = fdTable[g] /\ fdTable[f] # NoConn => f = g

\* An event still in the array speaks of the connection its descriptor stood
\* for when epoll_wait returned: no client is served or removed on an event of
\* a predecessor that had the same descriptor number.
EventsFresh ==
  \A w \in Workers : \A e \in events[w] :
    e.fd # ListenFd => fdTable[e.fd] = e.about /\ e.fd \in ClientFds(w)

\* The mapping and the listening socket outlive every worker that uses them,
\* and when main has returned nothing is left open.
ReleasedInOrder ==
  /\ \A w \in Workers : pc[w] \in {"start", "loop", "accept"} => mapped /\ listening
  /\ main = "exited" => ~mapped /\ ~listening /\ Open = {} /\ backlog = {}

\* A client that has gone away does not hold its slot for ever.
SlotsComeBack ==
  \A c \in Conns : (peer[c] = "left" /\ c \in Open) ~> c \notin Open
=============================================================================
