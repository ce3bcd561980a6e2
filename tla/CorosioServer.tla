--------------------------- MODULE CorosioServer ---------------------------
(* capy-corosio/tcpserver/server.cpp: coroutines on a corosio::io_context   *)
(* whose operations return an error code instead of throwing.               *)
EXTENDS AsyncIO

\* map_file_read_only; a failure ends the program.
MapFile == Mapping

\* open, bind and listen, then accept_loop is started and the pool spawned.
Listen == Listening

\* accept_loop resumes: start serve_client on the new socket, or continue
\* after an error; either way accept again.
accept_loop ==
  /\ acceptor \in {"done", "failed"}
  /\ acceptor' = "pending" /\ accepted' = NoConn
  /\ IF acceptor = "done"
     THEN /\ task' = [task EXCEPT ![accepted] = "spawned"]
          /\ sent' = [sent EXCEPT ![accepted] = 0]
     ELSE UNCHANGED <<task, sent>>
  /\ UNCHANGED <<main, open, asked, taken, socketVars>>

\* The loop of send_file from offset s: write the rest, or end.
send_file(c, s) ==
  /\ sent' = [sent EXCEPT ![c] = s]
  /\ IF s < Chunks
     THEN StartWrite(c, Chunks - s) /\ UNCHANGED open
     ELSE Finish(c)

\* What ends the loop early.  Seeded bug: the error code is not looked at, so
\* that n is added whatever it is.
Broken_Never(c) == FALSE
Broken(c) == task[c] = "failed"

\* The offset after a write.
NewOffset(c) == sent[c] + taken[c]

\* serve_client runs from its start, or resumes after write_some.
serve_client(c) ==
  /\ \/ task[c] = "spawned" /\ send_file(c, 0)
     \/ /\ task[c] \in {"wrote", "failed"} /\ ~Broken(c)
        /\ send_file(c, NewOffset(c))
     \/ /\ task[c] \in {"wrote", "failed"} /\ Broken(c)
        /\ Finish(c) /\ UNCHANGED sent
  /\ UNCHANGED <<main, acceptVars, socketVars>>

Setup == MapFile \/ Listen

Next == \/ Setup \/ accept_loop \/ Runtime
        \/ \E c \in Conns : \/ serve_client(c) \/ WriteProgress(c, FALSE)
                            \/ WriteErrors(c) \/ Environment(c)

Spec == Init /\ [][Next]_vars
=============================================================================
