----------------------------- MODULE AsioServer -----------------------------
(* asio/tcpserver/server.cpp: accept_loop, serve_client and send_file are   *)
(* C++20 coroutines on one io_context that a pool of threads runs.          *)
EXTENDS AsyncIO

\* map_file_read_only; a failure ends the program.
MapFile == Mapping

\* open, set_option, bind and listen, then accept_loop is spawned and the
\* pool started; any error unmaps the file and ends the program.
Listen == Listening

\* catch (...) {}: the loop goes on with a new socket and a new accept.
\* Seeded bug: the exception leaves the loop.
AfterAcceptError_Stops == acceptor' = "stopped"
AfterAcceptError == acceptor' = "pending"

\* accept_loop resumes: co_spawn serve_client on the socket, then accept again.
accept_loop ==
  /\ \/ /\ acceptor = "done" /\ acceptor' = "pending" /\ accepted' = NoConn
        /\ task' = [task EXCEPT ![accepted] = "spawned"]
        /\ sent' = [sent EXCEPT ![accepted] = 0]
     \/ /\ acceptor = "failed" /\ AfterAcceptError
        /\ UNCHANGED <<accepted, task, sent>>
  /\ UNCHANGED <<main, open, asked, taken, socketVars>>

\* What a write is asked to send.
Rest(s) == Chunks - s

\* The loop of send_file from offset s: write the rest, or end.
send_file(c, s) ==
  /\ sent' = [sent EXCEPT ![c] = s]
  /\ IF s < Chunks THEN StartWrite(c, Rest(s)) /\ UNCHANGED open ELSE Finish(c)

\* The offset after a write moves by what was transferred.
NewOffset(c) == sent[c] + taken[c]

\* serve_client runs from its start, or resumes after async_write_some; the
\* exception of a failed write ends it, and only it.
serve_client(c) ==
  /\ \/ task[c] = "spawned" /\ send_file(c, 0)
     \/ task[c] = "wrote" /\ send_file(c, NewOffset(c))
     \/ task[c] = "failed" /\ Finish(c) /\ UNCHANGED sent
  /\ UNCHANGED <<main, acceptVars, socketVars>>

Setup == MapFile \/ Listen

Next == \/ Setup \/ accept_loop \/ Runtime
        \/ \E c \in Conns : \/ serve_client(c) \/ WriteProgress(c, FALSE)
                            \/ WriteErrors(c) \/ Environment(c)

Spec == Init /\ [][Next]_vars
=============================================================================
