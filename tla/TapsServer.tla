----------------------------- MODULE TapsServer -----------------------------
(* taps-asio/tcpserver/server.cpp: coroutines on the TAPS interface, which  *)
(* hides the sockets: listen and accept are asked of the transport          *)
(* services, and a send is of a message that is sent whole or fails.        *)
EXTENDS AsyncIO

CONSTANTS Wmem,                       \* the default of tcp_wmem; 0: unreadable
          FALLBACK_SEND_CHUNK_SIZE    \* what is used then

\* read_default_tcp_send_buffer_size.
chunk_size == IF Wmem = 0 THEN FALLBACK_SEND_CHUNK_SIZE ELSE Wmem

\* map_file_read_only; a failure ends the program.
MapFile == Mapping

\* main spawns listen_loop and the pool; nothing of it waits for the listener.
StartPool == /\ Stage("mapped", "serving")
             /\ UNCHANGED <<acceptVars, open, taskVars, netVars, stream,
                            clientVars, dropped>>

\* listen_loop: when listening fails it just ends, and the process stays.
listen_loop ==
  /\ main = "serving" /\ acceptor = "off"
  /\ \/ acceptor' = "pending" /\ listening' = TRUE /\ NoFault
     \/ acceptor' = "stopped" /\ Fault /\ UNCHANGED listening
  /\ UNCHANGED <<main, accepted, open, taskVars, backlog, reset, stream,
                 clientVars, dropped>>

\* accept_loop resumes: serve the connection, or continue after an error.
accept_loop ==
  /\ acceptor \in {"done", "failed"}
  /\ acceptor' = "pending" /\ accepted' = NoConn
  /\ IF acceptor = "done"
     THEN /\ task' = [task EXCEPT ![accepted] = "spawned"]
          /\ sent' = [sent EXCEPT ![accepted] = 0]
     ELSE UNCHANGED <<task, sent>>
  /\ UNCHANGED <<main, open, asked, taken, socketVars>>

\* to_send.
ToSend(s) == IF chunk_size < Chunks - s THEN chunk_size ELSE Chunks - s

\* The loop of send_file from offset s: send one more message, or end.
send_file(c, s) ==
  /\ sent' = [sent EXCEPT ![c] = s]
  /\ IF s < Chunks THEN StartWrite(c, ToSend(s)) /\ UNCHANGED open ELSE Finish(c)

\* The offset after a message.
NewOffset(c) == sent[c] + asked[c]

\* The kernel takes a message piece by piece, and send returns after the last.
\* Seeded bug: after the first.
SendsAll_First == FALSE
SendsAll == TRUE

\* serve_client runs from its start, or resumes after send.
serve_client(c) ==
  /\ \/ task[c] = "spawned" /\ send_file(c, 0)
     \/ task[c] = "wrote" /\ send_file(c, NewOffset(c))
     \/ task[c] = "failed" /\ Finish(c) /\ UNCHANGED sent
  /\ UNCHANGED <<main, acceptVars, socketVars>>

Setup == MapFile \/ StartPool \/ listen_loop

Next == \/ Setup \/ accept_loop \/ Runtime
        \/ \E c \in Conns : \/ serve_client(c) \/ WriteProgress(c, SendsAll)
                            \/ WriteErrors(c) \/ Environment(c)

Spec == Init /\ [][Next]_vars
=============================================================================
