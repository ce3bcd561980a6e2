--------------------------- MODULE BerkeleyServer ---------------------------
(* async-berkeley/tcpserver/server.cpp: sender chains on poll triggers.     *)
(* There are no coroutines: the continuation of accept starts the first     *)
(* sendmsg and the next accept, the continuation of sendmsg starts the next *)
(* one, and a WriteState lives as long as a chain refers to it.             *)
EXTENDS AsyncIO

\* map_file_read_only; a failure ends the program.
MapFile == Mapping

\* The socket, setsockopt, bind and listen, then accept_loop arms the first
\* accept and the pool is spawned; any error ends the program.
Listen == Listening

\* send_file with offset s: arm a sendmsg of the rest, or let the state go.
send_file(c, s) ==
  /\ sent' = [sent EXCEPT ![c] = s]
  /\ IF s < Chunks
     THEN StartWrite(c, Chunks - s) /\ UNCHANGED open
     ELSE Finish(c)

\* The continuation of accept: serve_client, then accept_loop again.
AcceptThen ==
  /\ acceptor = "done"
  /\ send_file(accepted, 0)
  /\ acceptor' = "pending" /\ accepted' = NoConn
  /\ UNCHANGED <<main, socketVars>>

\* upon_error(error_handler): the error is printed, and that is all.
AcceptUponError ==
  /\ acceptor = "failed" /\ acceptor' = "stopped"
  /\ UNCHANGED <<main, accepted, open, taskVars, socketVars>>

\* state->sent moves by bytes_sent.  Seeded bug: by what was asked.
NewSent_Asked(c) == sent[c] + asked[c]
NewSent(c) == sent[c] + taken[c]

\* The continuation of sendmsg: send_file goes on.
SendThen(c) == /\ task[c] = "wrote" /\ send_file(c, NewSent(c))
               /\ UNCHANGED <<main, acceptVars, socketVars>>

\* upon_error of sendmsg: the last reference to the state goes, which closes
\* the client's socket.  Seeded bug: another chain still holds it.
SendUponError_Held(c) ==
  /\ task[c] = "failed"
  /\ task' = [task EXCEPT ![c] = "none"]
  /\ UNCHANGED <<main, acceptVars, open, sent, asked, taken, socketVars>>
SendUponError(c) ==
  /\ task[c] = "failed" /\ Finish(c)
  /\ UNCHANGED <<main, acceptVars, sent, socketVars>>

\* Once nothing is armed, trigs.wait may report that there is nothing to wait
\* for: the pool ends, and main with it, which closes the listening socket.
PoolEnds ==
  /\ main = "serving" /\ acceptor = "stopped" /\ open = {}
  /\ main' = "exited" /\ listening' = FALSE
  /\ backlog' = {} /\ Drop(backlog)
  /\ UNCHANGED <<acceptVars, open, taskVars, reset, stream, clientVars, faults>>

Setup == MapFile \/ Listen

AcceptEnds == AcceptThen \/ AcceptUponError

SendEnds(c) == SendThen(c) \/ SendUponError(c)

Next == \/ Setup \/ AcceptEnds \/ PoolEnds \/ Runtime
        \/ \E c \in Conns : \/ SendEnds(c) \/ WriteProgress(c, FALSE)
                            \/ WriteErrors(c) \/ Environment(c)

Spec == Init /\ [][Next]_vars

\* The pool runs every continuation; nothing says that it ever ends.
Fairness == /\ WF_vars(NoFault /\ Setup) /\ WF_vars(AcceptEnds)
            /\ \A c \in Conns : /\ WF_vars(SendEnds(c))
                              /\ WF_vars(WriteProgress(c, FALSE))
            /\ RuntimeFairness

FairSpec == Spec /\ Fairness
=============================================================================
