------------------------------ MODULE AsyncIO ------------------------------
(* What the four asynchronous servers have in common: one accept operation  *)
(* outstanding at a time, one task per connection with at most one write    *)
(* outstanding, and a runtime that completes operations while the tasks are *)
(* suspended.  An operation's completion and the task's reaction to it are  *)
(* separate steps, and between them anything else may happen.               *)
(*                                                                          *)
(* The pool's threads are not told apart: a task keeps its socket and its   *)
(* offset to itself, so which thread resumes it makes no difference.        *)
EXTENDS Integers, Sockets

CONSTANTS NoConn,     \* no connection
          MaxOpen     \* descriptors the process has for client sockets

ASSUME AsyncAssumption == NoConn \notin Conns /\ MaxOpen \in Nat \ {0}

VARIABLES
  main,      \* where main is: "start", "mapped", "serving", "exited"
  acceptor,  \* the accept operation: "off", "pending", "done", "failed", "stopped"
  accepted,  \* the connection of an accept that is "done", else NoConn
  open,      \* accepted connections whose socket the server has not closed
  task,      \* task[c]: "none", "spawned", "writing", "wrote", "failed"
  sent,      \* sent[c]: the task's own offset into the payload
  asked,     \* asked[c]: how much the write outstanding was asked to send
  taken      \* taken[c]: how much of it the kernel has taken

taskVars   == <<task, sent, asked, taken>>
acceptVars == <<acceptor, accepted>>
serverVars == <<main, acceptVars, open, taskVars>>
vars == <<serverVars, socketVars>>

TaskTypes == /\ task \in [Conns -> {"none", "spawned", "writing", "wrote", "failed"}]
             /\ sent \in [Conns -> 0 .. Chunks]
             /\ asked \in [Conns -> 0 .. Chunks]
             /\ taken \in [Conns -> 0 .. Chunks]

ServerTypes == /\ main \in {"start", "mapped", "serving", "exited"}
               /\ acceptor \in {"off", "pending", "done", "failed", "stopped"}
               /\ accepted \in Conns \cup {NoConn}
               /\ open \subseteq Conns

TypeOK == TaskTypes /\ ServerTypes /\ SocketTypes

Init == /\ SocketInit
        /\ main = "start"
        /\ acceptor = "off" /\ accepted = NoConn
        /\ open = {}
        /\ task = [c \in Conns |-> "none"]
        /\ sent = [c \in Conns |-> 0]
        /\ asked = [c \in Conns |-> 0]
        /\ taken = [c \in Conns |-> 0]

-----------------------------------------------------------------------------
(* main: a stage succeeds, or ends the program with what it had undone.     *)

Stage(from, to) == /\ main = from
                   /\ \/ main' = to /\ NoFault
                      \/ main' = "exited" /\ Fault

Mapping == /\ Stage("start", "mapped")
           /\ UNCHANGED <<acceptVars, open, taskVars, netVars, stream,
                          clientVars, dropped>>

\* The socket listens and the first accept is started, if nothing fails.
Listening ==
  /\ Stage("mapped", "serving")
  /\ IF main' = "serving"
     THEN listening' = TRUE /\ acceptor' = "pending"
     ELSE UNCHANGED <<listening, acceptor>>
  /\ UNCHANGED <<accepted, open, taskVars, backlog, reset, stream, clientVars,
                 dropped>>

-----------------------------------------------------------------------------
(* What a task does with its socket.                                        *)

\* The task asks for n more chunks to be sent and is suspended.
StartWrite(c, n) == /\ task' = [task EXCEPT ![c] = "writing"]
                    /\ asked' = [asked EXCEPT ![c] = n]
                    /\ taken' = [taken EXCEPT ![c] = 0]

\* The task ends and its socket is destroyed.
Finish(c) == /\ task' = [task EXCEPT ![c] = "none"]
             /\ open' = open \ {c}
             /\ UNCHANGED <<asked, taken>>

-----------------------------------------------------------------------------
(* The runtime completes operations.                                        *)

\* The pending accept gets a connection.
AcceptCompletes ==
  /\ acceptor = "pending" /\ Cardinality(open) < MaxOpen
  /\ \E c \in backlog : /\ acceptor' = "done" /\ accepted' = c
                        /\ backlog' = backlog \ {c}
                        /\ open' = open \cup {c}
  /\ UNCHANGED <<main, taskVars, listening, reset, stream, clientVars, faults,
                 dropped>>

\* The pending accept fails: no descriptor is left for a connection that
\* waits, or the system call fails for another reason.
AcceptErrors ==
  /\ acceptor = "pending"
  /\ \/ backlog # {} /\ Cardinality(open) >= MaxOpen /\ NoFault
     \/ Fault
  /\ acceptor' = "failed"
  /\ UNCHANGED <<main, accepted, open, taskVars, netVars, stream, clientVars,
                 dropped>>

\* The kernel takes a part of a pending write; a write that "sends some" is
\* complete with the first part, one that "sends all" with the last.
WriteProgress(c, sendsAll) ==
  /\ task[c] = "writing" /\ c \notin reset
  /\ \E n \in 1 .. asked[c] - taken[c] :
       /\ n <= Free(c)
       /\ Take(c, sent[c] + taken[c], n)
       /\ taken' = [taken EXCEPT ![c] = @ + n]
       /\ task' = IF sendsAll /\ taken[c] + n < asked[c]
                  THEN task ELSE [task EXCEPT ![c] = "wrote"]
  /\ UNCHANGED <<main, acceptVars, open, sent, asked, netVars, clientVars,
                 faults, dropped>>

\* A pending write fails: the peer is gone, or sending fails for another
\* reason and the connection is lost to a client that still waits.
WriteErrors(c) ==
  /\ task[c] = "writing"
  /\ \/ c \in reset /\ NoFault /\ UNCHANGED dropped
     \/ Fault /\ Drop({c})
  /\ task' = [task EXCEPT ![c] = "failed"]
  /\ UNCHANGED <<main, acceptVars, open, sent, asked, taken, netVars, stream,
                 clientVars>>

\* The campaign script stops the server with a signal (it has no handler):
\* the kernel closes everything the process holds.
Killed ==
  /\ main = "serving" /\ Fault
  /\ main' = "exited" /\ listening' = FALSE
  /\ acceptor' = "off" /\ accepted' = NoConn
  /\ open' = {} /\ backlog' = {} /\ Drop(open \cup backlog)
  /\ task' = [c \in Conns |-> "none"]
  /\ UNCHANGED <<sent, asked, taken, reset, clientVars, stream>>

Environment(c) == /\ Connect(c) \/ Leave(c) \/ Delivery(c, c \in open)
                  /\ UNCHANGED serverVars

Runtime == AcceptCompletes \/ AcceptErrors \/ Killed

\* The kernel completes what it can, and clients that stay keep reading.
RuntimeFairness ==
  /\ WF_vars(AcceptCompletes) /\ WF_vars(NoFault /\ AcceptErrors)
  /\ \A c \in Conns : /\ WF_vars(NoFault /\ WriteErrors(c))
                      /\ WF_vars(Delivery(c, c \in open) /\ UNCHANGED serverVars)

-----------------------------------------------------------------------------
(* Properties of the asynchronous servers.                                  *)

\* The offset of a task and the part of its write that was taken add up to
\* what its connection has been sent, while the write is pending, complete or
\* failed: no chunk is skipped or sent twice across a suspension.
OffsetsMatch ==
  \A c \in open : task[c] # "none" =>
    Len(stream[c]) = sent[c] + (IF task[c] = "spawned" THEN 0 ELSE taken[c])

\* A task and its socket live and die together; the only socket without a task
\* is the one just accepted.
OneTaskPerSocket ==
  /\ {c \in Conns : task[c] # "none"} = open \ {accepted}
  /\ acceptor = "done" <=> accepted # NoConn
  /\ accepted # NoConn => accepted \in open /\ task[accepted] = "none"

\* Clients that are gone do not hold descriptors for ever.
SocketsComeBack ==
  \A c \in Conns : (peer[c] = "left" /\ c \in open) ~> c \notin open
=============================================================================
