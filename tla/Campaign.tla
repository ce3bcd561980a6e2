------------------------------ MODULE Campaign ------------------------------
(* run_bench.py, the life of the servers: for each compiler and number of   *)
(* threads, clear the port, start a server, wait until something answers,   *)
(* run the cases, stop the server, clear the port.  Other processes of the  *)
(* machine may take or hold ports, servers may fail at any point and        *)
(* outlive every signal, a bench may hang, and Ctrl-C may come at any step, *)
(* those of the clean-up included.                                          *)
EXTENDS Naturals, Sequences

CONSTANTS Compilers,    \* COMPILERS
          Runs,         \* the compiler of each run, in the order of main's loops
          Ports,        \* the ports find_free_port may look at
          InitialPorts, \* PORTS as the script starts
          NoPort,       \* no port
          MaxFaults     \* bound on the failures of one behaviour

ASSUME CampaignAssumption == /\ Runs \in Seq(Compilers) /\ Runs # <<>>
                             /\ Ports \subseteq Nat
                             /\ InitialPorts \in [Compilers -> Ports]
                             /\ NoPort \notin Ports
                             /\ MaxFaults \in Nat

VARIABLES
  run,          \* the run that is on
  pc,           \* where it is: see Phases
  raising,      \* the exception under way: "no", "exception", or "broken" where
                \*   Ctrl-C has broken off the clean-up itself
  PORTS,        \* the preferred port of each compiler
  actual_port,  \* the port of this run
  server,       \* server[r]: "none", "starting", "listening", "deaf", "dead"
  signal,       \* signal[r]: the strongest one sent to it, "TERM" or "KILL", or
                \*   "none", as it is where it is gone
  port,         \* port[r]: the port server r was given, NoPort once it has lost it
  foreign,      \* the ports other processes of the machine listen on
  executables,  \* executables[c]: the version of the sources that tcpserver and
                \*   bench_tcp in c's build tree are of, 0 where there is none
  served,       \* history: pairs of a run and the run whose server its cases
                \*   were served by (0: a foreign process)
  ready,        \* history: runs that got past wait_for_server, into the try
  faults        \* failures injected so far

scriptVars == <<run, pc, raising, PORTS, actual_port>>
machineVars == <<server, signal, port, foreign>>
historyVars == <<served, ready>>
vars == <<scriptVars, machineVars, executables, historyVars, faults>>

RunIds == 1 .. Len(Runs)

\* run_campaign_for_compiler_and_threads; in "evict" and "port again" the
\* script looks at the port half a second after TERM, in "hung" it waits for a
\* bench that does not end.
Phases == {"prepare", "evict", "choose", "start", "poll", "connect", "cases",
           "hung", "stop", "wait", "reap", "port", "port again", "done", "failed"}

\* stop_server, from proc.poll() to the end of its finally clause.
CleanUp == {"stop", "wait", "reap", "port", "port again"}

TypeOK == /\ run \in RunIds /\ pc \in Phases
          /\ raising \in {"no", "exception", "broken"}
          /\ PORTS \in [Compilers -> Ports]
          /\ actual_port \in Ports \cup {NoPort}
          /\ server \in [RunIds -> {"none", "starting", "listening", "deaf", "dead"}]
          /\ signal \in [RunIds -> {"none", "TERM", "KILL"}]
          /\ port \in [RunIds -> Ports \cup {NoPort}]
          /\ foreign \subseteq Ports
          /\ \A c \in Compilers : executables[c] \in [{"server", "bench"} -> Nat]
          /\ served \subseteq RunIds \X (RunIds \cup {0})
          /\ ready \subseteq RunIds /\ faults \in 0 .. MaxFaults

\* What the build has left in executables is for Project to say.
Init == /\ run = 1 /\ pc = "prepare" /\ raising = "no"
        /\ PORTS = InitialPorts /\ actual_port = NoPort
        /\ server = [r \in RunIds |-> "none"]
        /\ signal = [r \in RunIds |-> "none"]
        /\ port = [r \in RunIds |-> NoPort]
        /\ foreign \in SUBSET Ports
        /\ served = {} /\ ready = {} /\ faults = 0

-----------------------------------------------------------------------------
(* The machine.                                                             *)

Alive(r) == server[r] \in {"starting", "listening", "deaf"}

\* The servers of the campaign that listen on p.
ListenersOn(p) == {r \in RunIds : server[r] = "listening" /\ port[r] = p}

\* can_bind_port: nobody listens on p.
can_bind_port(p) == p \notin foreign /\ ListenersOn(p) = {}

\* is_port_open: somebody does.
is_port_open(p) == ~can_bind_port(p)

Fault == faults < MaxFaults /\ faults' = faults + 1

NoFault == UNCHANGED faults

\* A foreign process takes a port.
ForeignArrives ==
  /\ Fault
  /\ \E p \in Ports : can_bind_port(p) /\ foreign' = foreign \cup {p}
  /\ UNCHANGED <<executables, scriptVars, server, signal, port, historyVars>>

Becomes(r, s) ==
  /\ server' = [server EXCEPT ![r] = s]
  /\ signal' = [signal EXCEPT ![r] = IF s = "dead" THEN "none" ELSE @]
  /\ port' = [port EXCEPT ![r] = IF s = "listening" THEN @ ELSE NoPort]

\* A server binds its port and listens; if it cannot, it exits, or stays
\* without a listener as the one of taps-asio does.  One that was sent SIGKILL
\* runs no more of its program.
ServerBinds(r) ==
  /\ server[r] = "starting" /\ signal[r] # "KILL"
  /\ \/ /\ can_bind_port(port[r]) /\ NoFault
        /\ Becomes(r, "listening")
     \/ /\ (~can_bind_port(port[r]) /\ NoFault) \/ Fault
        /\ \E s \in {"dead", "deaf"} : Becomes(r, s)
  /\ UNCHANGED <<executables, scriptVars, foreign, historyVars>>

\* A server that serves crashes.
ServerDies(r) ==
  /\ server[r] = "listening" /\ Fault /\ Becomes(r, "dead")
  /\ UNCHANGED <<executables, scriptVars, foreign, historyVars>>

\* A server ends by a signal, sooner or later or never: it may hang in the
\* kernel, with its listener or without.
ServerEnds(r) ==
  /\ Alive(r) /\ signal[r] # "none" /\ NoFault
  /\ \E s \in {"dead", "deaf"} : Becomes(r, s)
  /\ UNCHANGED <<executables, scriptVars, foreign, historyVars>>

-----------------------------------------------------------------------------
(* kill_processes_on_port: TERM by fuser for whoever has the port open, a   *)
(* look after half a second, and KILL; lsof does the same again.  Where the  *)
(* tools or the rights are missing a command does nothing.                   *)

SendTo(S, s) ==
  signal' = [r \in RunIds |-> IF r \in S /\ signal[r] # "KILL" THEN s ELSE signal[r]]

SignalPort(p, s) == \/ UNCHANGED <<signal, foreign>>
                    \/ SendTo(ListenersOn(p), s) /\ foreign' \in {foreign, foreign \ {p}}

KillPort(p) == IF can_bind_port(p) THEN UNCHANGED <<signal, foreign>> ELSE SignalPort(p, "KILL")

-----------------------------------------------------------------------------
(* The script.                                                              *)

Preferred == PORTS[Runs[run]]

\* find_free_port from the preferred port on.
FreeFrom(p) == {q \in Ports : q > p /\ can_bind_port(q)}

\* prepare_server_port: whoever has the preferred port open is told to end, ...
prepare_server_port ==
  /\ pc = "prepare" /\ pc' = "evict" /\ SignalPort(Preferred, "TERM")
  /\ UNCHANGED <<executables, run, raising, PORTS, actual_port, server, port,
                 historyVars, faults>>

\* ... killed, ...
Evict ==
  /\ pc = "evict" /\ pc' = "choose" /\ KillPort(Preferred)
  /\ UNCHANGED <<executables, run, raising, PORTS, actual_port, server, port,
                 historyVars, faults>>

\* ... and where the port is still busy, the next free one is taken; none left
\* is an error.  Seeded bug: the port is taken for free once it was cleared.
Usable_Assumed(p) == TRUE
Usable(p) == can_bind_port(p)

ChoosePort ==
  /\ pc = "choose"
  /\ LET free == FreeFrom(Preferred)
     IN  \/ /\ Usable(Preferred) /\ pc' = "start"
            /\ actual_port' = Preferred /\ UNCHANGED PORTS
         \/ /\ ~Usable(Preferred) /\ pc' = "start"
            /\ \E q \in free : /\ \A other \in free : q <= other
                             /\ actual_port' = q
                             /\ PORTS' = [PORTS EXCEPT ![Runs[run]] = q]
         \/ /\ ~Usable(Preferred) /\ free = {} /\ pc' = "failed"
            /\ UNCHANGED <<actual_port, PORTS>>
  /\ UNCHANGED <<executables, run, raising, machineVars, historyVars, faults>>

\* Popen, or an exception: there is no binary, or no log file.
start_server ==
  /\ pc = "start"
  /\ \/ /\ NoFault /\ pc' = "poll" /\ executables[Runs[run]].server # 0
        /\ server' = [server EXCEPT ![run] = "starting"]
        /\ port' = [port EXCEPT ![run] = actual_port]
     \/ /\ (executables[Runs[run]].server = 0 /\ NoFault) \/ Fault
        /\ pc' = "failed" /\ UNCHANGED <<server, port>>
  /\ UNCHANGED <<executables, run, raising, PORTS, actual_port, signal, foreign,
                 historyVars>>

\* wait_for_server, proc.poll(): a server that has exited is an error.
PollServer ==
  /\ pc = "poll"
  /\ pc' = IF server[run] = "dead" THEN "failed" ELSE "connect"
  /\ UNCHANGED <<executables, run, raising, PORTS, actual_port, machineVars, historyVars, faults>>

\* A server that the deadline finds without a listener.  Seeded bug: only
\* one that has exited is given up on.
Unready_Exited(r) == server[r] = "dead"
Unready(r) == server[r] = "deaf"

\* ... and so is one that is not ready in time, though it may still run.
WaitTimesOut ==
  /\ pc = "poll" /\ pc' = "failed"
  /\ \/ Unready(run) /\ NoFault
     \/ server[run] = "starting" /\ Fault
  /\ UNCHANGED <<executables, run, raising, PORTS, actual_port, machineVars, historyVars>>

\* ... and is_port_open, somewhat later: whoever answers.
Connected ==
  /\ pc = "connect"
  /\ IF is_port_open(actual_port)
     THEN pc' = "cases" /\ ready' = ready \cup {run}
     ELSE pc' = "poll" /\ UNCHANGED ready
  /\ UNCHANGED <<executables, run, raising, PORTS, actual_port, machineVars, served, faults>>

\* Who answers a connection to p.
Answers(p) == ListenersOn(p) \cup (IF p \in foreign THEN {0} ELSE {})

\* The benches of the next case are served by whoever listens, or fail.
Measure ==
  /\ pc = "cases" /\ executables[Runs[run]].bench # 0
  /\ served' = served \cup ({run} \X Answers(actual_port))
  /\ UNCHANGED <<executables, run, raising, PORTS, actual_port, machineVars, ready>>

RunCase == Measure /\ NoFault /\ UNCHANGED pc

\* proc.wait() has no time limit: a bench whose server accepts and neither
\* sends nor closes keeps the script waiting, for as long as it likes.
CaseHangs == Measure /\ Fault /\ pc' = "hung"

HangEnds ==
  /\ pc = "hung" /\ pc' = "cases"
  /\ UNCHANGED <<executables, run, raising, PORTS, actual_port, machineVars, historyVars, faults>>

\* All cases are done, or an exception (no bench_tcp, or another): finally.
CasesEnd ==
  /\ pc = "cases" /\ pc' = "stop"
  /\ \/ raising' = "no" /\ NoFault /\ executables[Runs[run]].bench # 0
     \/ raising' = "exception" /\ NoFault /\ executables[Runs[run]].bench = 0
     \/ raising' = "exception" /\ Fault
  /\ UNCHANGED <<executables, run, PORTS, actual_port, machineVars, historyVars>>

\* stop_server: TERM, ...
stop_server ==
  /\ pc = "stop"
  /\ IF Alive(run) THEN pc' = "wait" /\ SendTo({run}, "TERM")
     ELSE pc' = "port" /\ UNCHANGED signal
  /\ UNCHANGED <<executables, run, raising, PORTS, actual_port, server, port, foreign,
                 historyVars, faults>>

\* ... a wait of 5 s, after which a server that is still there is sent KILL, ...
\* Seeded bug: it is left to the port's clearing.
Escalate_Not(r) == pc' = "port" /\ UNCHANGED signal
Escalate(r) == IF Alive(r) THEN pc' = "reap" /\ SendTo({r}, "KILL")
               ELSE pc' = "port" /\ UNCHANGED signal

WaitEnds ==
  /\ pc = "wait" /\ Escalate(run)
  /\ UNCHANGED <<executables, run, raising, PORTS, actual_port, server, port, foreign,
                 historyVars, faults>>

\* ... and another 5 s, whose exception is swallowed: it may still be there.
ReapEnds ==
  /\ pc = "reap" /\ pc' = "port"
  /\ UNCHANGED <<executables, run, raising, PORTS, actual_port, machineVars, historyVars, faults>>

\* Finally kill_processes_on_port ...
ClearPort ==
  /\ pc = "port" /\ pc' = "port again" /\ SignalPort(actual_port, "TERM")
  /\ UNCHANGED <<executables, run, raising, PORTS, actual_port, server, port,
                 historyVars, faults>>

\* ... and on with the exception, or with the next run.
Leave ==
  /\ pc = "port again" /\ KillPort(actual_port)
  /\ \/ raising # "no" /\ pc' = "failed" /\ UNCHANGED run
     \/ raising = "no" /\ run = Len(Runs) /\ pc' = "done" /\ UNCHANGED run
     \/ raising = "no" /\ run < Len(Runs) /\ pc' = "prepare" /\ run' = run + 1
  /\ UNCHANGED <<executables, raising, PORTS, actual_port, server, port,
                 historyVars, faults>>

\* Where a KeyboardInterrupt is taken: the case's handler raises it again, so
\* out of the cases to stop_server; out of this to its finally clause, and from
\* there, as from before the try, out of the script.
Handler(where) == CASE where \in {"cases", "hung"} -> "stop"
                    [] where \in {"stop", "wait", "reap"} -> "port"
                    [] OTHER -> "failed"

Interrupt ==
  /\ pc \notin {"done", "failed"} /\ Fault
  /\ pc' = Handler(pc)
  /\ raising' = IF pc \in CleanUp THEN "broken" ELSE "exception"
  /\ UNCHANGED <<executables, run, PORTS, actual_port, machineVars, historyVars>>

Script == \/ prepare_server_port \/ Evict \/ ChoosePort \/ start_server
          \/ PollServer \/ WaitTimesOut \/ Connected
          \/ RunCase \/ CaseHangs \/ HangEnds \/ CasesEnd
          \/ stop_server \/ WaitEnds \/ ReapEnds \/ ClearPort \/ Leave

Next == \/ Script \/ Interrupt \/ ForeignArrives
        \/ \E r \in RunIds : ServerBinds(r) \/ ServerDies(r) \/ ServerEnds(r)

\* The script goes on, its waits for servers have time limits, cases that do
\* not hang are finitely many, and servers get to bind.  Nothing makes a
\* signalled server end, or a bench that hangs.
Fairness ==
  /\ SF_vars(NoFault /\ WaitTimesOut)
  /\ WF_vars(NoFault /\ (\/ prepare_server_port \/ Evict \/ ChoosePort \/ start_server
                         \/ PollServer \/ Connected \/ CasesEnd
                         \/ stop_server \/ WaitEnds \/ ReapEnds \/ ClearPort \/ Leave))
  /\ \A r \in RunIds : WF_vars(NoFault /\ ServerBinds(r))

-----------------------------------------------------------------------------
\* No run is measured with the server of another run: a server of an earlier
\* run (with other threads, or of the other compiler), which may outlive
\* SIGKILL's wait and still listen, never answers.  A foreign process may.
NeverMeasuresAnotherRun == \A s \in served : s[2] \in {0, s[1]}

\* However the script ends, unless Ctrl-C broke off the clean-up itself, a
\* server that was ready and is still there has at least been sent SIGKILL; and
\* so has one that is still there beside the server of a later run.
ServersAreStopped ==
  /\ pc \in {"done", "failed"} /\ raising # "broken" =>
       \A r \in ready : Alive(r) => signal[r] = "KILL"
  /\ \A r, q \in RunIds : Alive(r) /\ Alive(q) /\ r < q => signal[r] = "KILL"

\* The campaign comes to an end, whatever the servers and the machine do, or
\* waits forever for a bench that hangs: that is the one wait it has without a
\* limit (run_bench.py:608).
CampaignEnds == <>(pc \in {"done", "failed"}) \/ <>[](pc = "hung")
=============================================================================
