------------------------------ MODULE Shutdown ------------------------------
(* run_bench.py, one campaign as a parent of processes: it starts a server  *)
(* and the benches of a case, waits, and stops them, and Ctrl-C may come at *)
(* every point where it waits, the clean-up included.  A KeyboardInterrupt  *)
(* is no Exception: it leaves the functions that clean up, and only their   *)
(* finally clauses still run.  Ports are in Campaign, what the benches      *)
(* measure in MacroCase.                                                    *)
EXTENDS Naturals, Sequences, FiniteSets, SequencesExt

CONSTANTS Server, Benches,   \* the processes; Benches is a sequence
          Kinds,             \* the combinations of kinds of processes
          MaxInterrupts      \* bound on the Ctrl-C of one behaviour

Procs == {Server} \cup ToSet(Benches)

\* "normal", "hung" (SIGTERM does not end it), "stuck" (nor does SIGKILL).
ASSUME ShutdownAssumption ==
  /\ Benches \in Seq(ToSet(Benches)) \ {<<>>}
  /\ Server \notin ToSet(Benches) /\ IsInjective(Benches)
  /\ Kinds \subseteq [Procs -> {"normal", "hung", "stuck"}]
  /\ MaxInterrupts \in Nat

VARIABLES
  pc,         \* "start", "ready", "settle", "launch", "wait", "benches",
              \*   "stop", "port", then "left", or "unready" where it left
              \*   wait_for_server
  step,       \* within a process that is being stopped: "signal", "wait",
              \*   "reap"; within "port": the command that is next
  processes,  \* the list of the case, in order
  index,      \* how many of them are waited for, or stopped
  pids,       \* what lsof has printed
  raising,    \* "", "interrupt" or "error": the exception that is under way
  hits,       \* the points where Ctrl-C has come, in order
  proc,       \* proc[p]: "off", "on", "gone"
  listening,  \* whether the server listens
  signal,     \* signal[p]: the strongest one sent: "none", "TERM", "KILL"
  kind,       \* kind[p]
  tools       \* which of fuser and lsof are installed

scriptVars == <<pc, step, processes, index, pids, raising, hits>>
vars == <<scriptVars, proc, listening, signal, kind, tools>>

Init == /\ pc = "start" /\ step = "signal" /\ processes = <<>> /\ index = 0
        /\ pids = {} /\ raising = "" /\ hits = <<>>
        /\ proc = [p \in Procs |-> "off"] /\ listening = FALSE
        /\ signal = [p \in Procs |-> "none"]
        /\ kind \in Kinds /\ tools \in SUBSET {"fuser", "lsof"}

Alive(p) == proc[p] = "on"

\* Somebody listens who is not there any more when it is gone.
can_bind_port == ~(listening /\ Alive(Server))

-----------------------------------------------------------------------------
(* The processes.                                                           *)

\* A process ends by a signal it obeys.
Obeys(p) == \/ signal[p] = "TERM" /\ kind[p] = "normal"
            \/ signal[p] = "KILL" /\ kind[p] # "stuck"
Dies(p) ==
  /\ Alive(p) /\ Obeys(p) /\ proc' = [proc EXCEPT ![p] = "gone"]
  /\ UNCHANGED <<scriptVars, listening, signal, kind, tools>>

ServerListens ==
  /\ Alive(Server) /\ ~listening /\ signal[Server] = "none" /\ listening' = TRUE
  /\ UNCHANGED <<scriptVars, proc, signal, kind, tools>>

\* A server that was told to end closes its listener first.
ServerCloses ==
  /\ Alive(Server) /\ listening /\ signal[Server] # "none" /\ listening' = FALSE
  /\ UNCHANGED <<scriptVars, proc, signal, kind, tools>>

ServerCrashes ==
  /\ Alive(Server) /\ kind[Server] = "normal"
  /\ proc' = [proc EXCEPT ![Server] = "gone"]
  /\ UNCHANGED <<scriptVars, listening, signal, kind, tools>>

\* A bench has its files, or its connection is refused or reset because the
\* server is gone.
BenchEnds(b) ==
  /\ Alive(b) /\ kind[b] = "normal" /\ (~Alive(Server) \/ kind[Server] = "normal")
  /\ proc' = [proc EXCEPT ![b] = "gone"]
  /\ UNCHANGED <<scriptVars, listening, signal, kind, tools>>

Send(s, S) ==
  signal' = [p \in Procs |-> IF p \in S /\ Alive(p) /\ signal[p] # "KILL"
                             THEN s ELSE signal[p]]

-----------------------------------------------------------------------------
(* The campaign.                                                            *)

start_server ==
  /\ pc = "start" /\ pc' = "ready"
  /\ proc' = [proc EXCEPT ![Server] = "on"]
  /\ UNCHANGED <<step, processes, index, pids, raising, hits, listening, signal, kind, tools>>

\* wait_for_server: it listens; or it has exited, or has not begun to listen in
\* time, and the exception passes no try.
wait_for_server ==
  /\ pc = "ready"
  /\ \/ Alive(Server) /\ listening /\ pc' = "settle" /\ UNCHANGED raising
     \/ ~(Alive(Server) /\ listening) /\ pc' = "unready" /\ raising' = "error"
  /\ UNCHANGED <<step, processes, index, pids, hits, proc, listening, signal, kind, tools>>

\* case_level_cache_trash and settle_between_cases.
settle ==
  /\ pc = "settle" /\ pc' = "launch"
  /\ UNCHANGED <<step, processes, index, pids, raising, hits, proc, listening, signal, kind, tools>>

start_bench_instance ==
  /\ pc = "launch" /\ Len(processes) < Len(Benches)
  /\ LET b == Benches[Len(processes) + 1]
     IN  /\ proc' = [proc EXCEPT ![b] = "on"]
         /\ processes' = Append(processes, b)
         /\ pc' = IF Len(processes') = Len(Benches) THEN "wait" ELSE "launch"
  /\ UNCHANGED <<step, index, pids, raising, hits, listening, signal, kind, tools>>

\* ... or it raises: nobody stops the benches that run, finally the server.
LaunchRaises ==
  /\ pc = "launch" /\ pc' = "stop" /\ step' = "signal" /\ raising' = "error"
  /\ UNCHANGED <<processes, index, pids, hits, proc, listening, signal, kind, tools>>

\* proc.wait() of the next process, without a time limit; then the case is over.
WaitForBench ==
  /\ pc = "wait" /\ ~Alive(processes[index + 1])
  /\ index' = index + 1
  /\ pc' = IF index' = Len(processes) THEN "stop" ELSE "wait"
  /\ step' = "signal"
  /\ UNCHANGED <<processes, pids, raising, hits, proc, listening, signal, kind, tools>>

\* Ctrl-C: it reaches the script only, the others are in sessions of their own.
\* Where it takes it: out of wait_for_server there is no try; out of the case,
\* to its handler; out of the handler and the rest, to stop_server; out of
\* stop_server, to its finally clause, and out of this it leaves.
\* Seeded bug: stop_server without a finally clause.
Handler_NoFinally ==
  [ready |-> "unready", settle |-> "stop", launch |-> "benches", wait |-> "benches",
   benches |-> "stop", stop |-> "left", port |-> "left"]
Handler ==
  [ready |-> "unready", settle |-> "stop", launch |-> "benches", wait |-> "benches",
   benches |-> "stop", stop |-> "port", port |-> "left"]

FirstStep(where) == IF where = "port" THEN "fuser -TERM" ELSE "signal"

Interrupt ==
  /\ pc \in DOMAIN Handler /\ Len(hits) < MaxInterrupts
  /\ hits' = Append(hits, pc) /\ raising' = "interrupt"
  /\ pc' = Handler[pc] /\ step' = FirstStep(Handler[pc]) /\ index' = 0
  /\ \/ UNCHANGED proc
     \/ pc = "launch" /\ proc' = [proc EXCEPT ![Benches[Len(processes) + 1]] = "on"]
  /\ UNCHANGED <<processes, pids, listening, signal, kind, tools>>

-----------------------------------------------------------------------------
(* stop_bench_process and stop_server: TERM, wait, KILL, wait.              *)

\* Who is being stopped, if anybody is left.
Target == IF pc = "stop" THEN {Server}
          ELSE IF pc = "benches" /\ index < Len(processes) THEN {processes[index + 1]}
          ELSE {}

\* On to the next bench, to the server, to its port.
Stopped ==
  /\ index' = IF pc = "benches" THEN index + 1 ELSE index
  /\ pc' = IF pc = "stop" THEN "port" ELSE pc
  /\ step' = FirstStep(pc')

\* What is done about a process that is there after the time limit.  Seeded
\* bugs: nothing; there is no limit.
Escalate_NoLimit(p) == FALSE /\ UNCHANGED <<pc, index, step, signal>>
Escalate_Not(p) == Stopped /\ UNCHANGED signal
Escalate(p) == step' = "reap" /\ Send("KILL", {p}) /\ UNCHANGED <<pc, index>>

Signal ==
  /\ step = "signal"
  /\ \E p \in Target :
       IF Alive(p) THEN step' = "wait" /\ Send("TERM", {p}) /\ UNCHANGED <<pc, index>>
       ELSE Stopped /\ UNCHANGED signal
  /\ UNCHANGED <<processes, pids, raising, hits, proc, listening, kind, tools>>

WaitEnds ==
  /\ step = "wait"
  /\ \E p \in Target : IF Alive(p) THEN Escalate(p) ELSE Stopped /\ UNCHANGED signal
  /\ UNCHANGED <<processes, pids, raising, hits, proc, listening, kind, tools>>

ReapEnds ==
  /\ step = "reap" /\ Target # {} /\ Stopped
  /\ UNCHANGED <<processes, pids, raising, hits, proc, listening, signal, kind, tools>>

\* All benches are stopped: the interrupt is raised again.
BenchesStopped ==
  /\ pc = "benches" /\ Target = {} /\ pc' = "stop" /\ step' = "signal"
  /\ UNCHANGED <<processes, index, pids, raising, hits, proc, listening, signal, kind, tools>>

-----------------------------------------------------------------------------
(* kill_processes_on_port: a command, half a second, a look at the port.    *)

\* fuser finds who has the port for its own, lsof also who is connected to it.
OnPort == {p \in {Server} : Alive(p) /\ listening}
OnPortOrConnected == OnPort \cup {b \in ToSet(Benches) : Alive(b)}

Fuser(s, from, next) ==
  /\ pc = "port" /\ step = from
  /\ Send(s, IF "fuser" \in tools THEN OnPort ELSE {})
  /\ step' = next
  /\ UNCHANGED <<pc, processes, index, pids, raising, hits, proc, listening, kind, tools>>

\* After the half second: the port is free, or the next command.
Look(from, next) ==
  /\ pc = "port" /\ step = from
  /\ IF can_bind_port THEN pc' = "left" /\ UNCHANGED step ELSE step' = next /\ UNCHANGED pc
  /\ UNCHANGED <<processes, index, pids, raising, hits, proc, listening, signal, kind, tools>>

\* lsof, and TERM for each pid; without lsof the exception ends it.
LsofTerm ==
  /\ pc = "port" /\ step = "lsof"
  /\ IF "lsof" \in tools
     THEN /\ pids' = OnPortOrConnected /\ Send("TERM", OnPortOrConnected)
          /\ step' = "look3" /\ UNCHANGED pc
     ELSE pc' = "left" /\ UNCHANGED <<pids, signal, step>>
  /\ UNCHANGED <<processes, index, raising, hits, proc, listening, kind, tools>>

LsofKill ==
  /\ pc = "port" /\ step = "kill -KILL" /\ Send("KILL", pids) /\ pc' = "left"
  /\ UNCHANGED <<step, processes, index, pids, raising, hits, proc, listening, kind, tools>>

kill_processes_on_port ==
  \/ Fuser("TERM", "fuser -TERM", "look1") \/ Look("look1", "fuser -KILL")
  \/ Fuser("KILL", "fuser -KILL", "look2") \/ Look("look2", "lsof")
  \/ LsofTerm \/ Look("look3", "kill -KILL") \/ LsofKill

-----------------------------------------------------------------------------
Script == \/ start_server \/ wait_for_server \/ settle \/ start_bench_instance
          \/ WaitForBench \/ Signal \/ WaitEnds \/ ReapEnds \/ BenchesStopped
          \/ kill_processes_on_port

Next == \/ Script \/ LaunchRaises \/ Interrupt
        \/ ServerListens \/ ServerCloses \/ ServerCrashes
        \/ \E p \in Procs : Dies(p)
        \/ \E b \in ToSet(Benches) : BenchEnds(b)

Spec == Init /\ [][Next]_vars

\* The script goes on, its waits but proc.wait() are limited; signals are
\* delivered; a bench that is served, or refused, ends.
Fairness == /\ WF_vars(Script)
            /\ \A p \in Procs : WF_vars(Dies(p))
            /\ \A b \in ToSet(Benches) : WF_vars(BenchEnds(b))

-----------------------------------------------------------------------------
\* A single Ctrl-C, while the cases are run.
OneInterrupt == Len(hits) = 1 /\ hits[1] \in {"settle", "launch", "wait"}

\* A single Ctrl-C is enough: when the script has left after one, SIGKILL has
\* been sent to the server and to every bench of the list that is not gone,
\* whatever they ignore.
OneInterruptStopsAll ==
  pc = "left" /\ OneInterrupt =>
    \A p \in {Server} \cup ToSet(processes) : Alive(p) => signal[p] = "KILL"

\* However often Ctrl-C is pressed before the port is being cleared, and
\* whatever it breaks off: a server that was ready and still listens once the
\* script has left has at least been sent SIGKILL, if fuser or lsof is there.  A
\* stuck one may go on listening, or one that SIGKILL has not reached yet.
NoListenerIsLeft ==
  pc = "left" /\ tools # {} /\ "port" \notin ToSet(hits) /\ listening /\ Alive(Server)
    => signal[Server] = "KILL"

\* Once the cases are over or an exception is under way the script leaves,
\* although a process may be stuck, and what it leaves behind ends: after one
\* Ctrl-C everything in its list that SIGKILL can end, and after another
\* exception, which stops no bench, those benches that end when their server is
\* gone.
NobodyStays ==
  pc = "stop" \/ raising # "" ~>
    \/ pc = "unready"
    \/ /\ pc = "left"
       /\ (hits = <<>> \/ OneInterrupt) /\ kind[Server] # "stuck" =>
         \A p \in Procs : Alive(p) => \/ kind[p] = "stuck"
                                      \/ kind[p] = "hung" /\ p # Server
                                         /\ (hits = <<>> \/ p \notin ToSet(processes))
=============================================================================
