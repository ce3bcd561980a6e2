--------------------------- MODULE Project_proofs ---------------------------
(* A campaign after any number of builds, for any compilers, runs, ports,   *)
(* foreign processes and failures, with Ctrl-C at any step and servers that *)
(* outlive their signals: which server is alive in which phase of           *)
(* run_bench.py, and what the executables are of.                           *)
EXTENDS Project, SequenceTheorems, TLAPS

USE CampaignAssumption, ProjectAssumption

-----------------------------------------------------------------------------
(* The inductive invariant.                                                 *)

States == {"none", "starting", "listening", "deaf", "dead"}
Signals == {"none", "TERM", "KILL"}

Typed == /\ run \in RunIds /\ pc \in Phases
         /\ server \in [RunIds -> States] /\ signal \in [RunIds -> Signals]
         /\ DOMAIN port = RunIds /\ ready \subseteq RunIds

\* The run that is on has no server yet.
Early == {"prepare", "evict", "choose", "start"}

\* A server of an earlier run that is still there has been sent SIGKILL, and no
\* server is of a later run.
OthersAreKilled ==
  \A r \in RunIds : Alive(r) => (r = run /\ pc \notin Early) \/ (r < run /\ signal[r] = "KILL")

\* stop_server has gone through for the run that is on, or the script has ended
\* after it was ready.
Stopped == pc \in {"reap", "port", "port again", "done"} \/ (pc = "failed" /\ run \in ready)

KilledAfterStop == Stopped /\ raising # "broken" /\ Alive(run) => signal[run] = "KILL"

\* No other run's server listens on the port of this one: the one that was found
\* free, or switched to.
PortIsOwn == pc \in {"start", "poll", "connect", "cases", "hung"} =>
               \A r \in RunIds : r \in ListenersOn(actual_port) => r = run

\* A run is ready once something has answered.
ReadyRuns == \A r \in ready : r < run \/ (r = run /\ pc \notin Early \cup {"poll", "connect"})

CampaignInv == /\ Typed /\ OthersAreKilled /\ KilledAfterStop /\ PortIsOwn /\ ReadyRuns
               /\ NeverMeasuresAnotherRun

\* The builds: the executables of a tree that is not being built are of one
\* version or not both there, and those of the tree that is being built are of
\* this version or not there yet.
BuildTyped == /\ source \in Nat \ {0} /\ todo \in Seq(Compilers)
              /\ executables \in [Compilers -> [B!Targets -> Nat]]

InTree == tree # "none" => /\ todo # <<>>
                           /\ \A t \in B!Targets : executables[tree][t] \in {0, source}
                           /\ tree \in Compilers

Together(e) == e["server"] # 0 /\ e["bench"] # 0 => e["server"] = e["bench"]

AllTogether == \A c \in Compilers : Together(executables[c])

BuildInv == BuildTyped /\ InTree /\ AllTogether

\* A run whose server was started had an executable for it.
HadServer ==
  /\ pc \in {"poll", "connect"} => executables[Runs[run]]["server"] # 0
  /\ \A r \in ready : executables[Runs[r]]["server"] # 0

IInv == CampaignInv /\ BuildInv /\ HadServer

-----------------------------------------------------------------------------
(* The builds.                                                              *)

LEMMA RunsTyped == Len(Runs) \in Nat \ {0} /\ \A r \in RunIds : Runs[r] \in Compilers
<1>1. Len(Runs) \in Nat /\ Len(Runs) # 0
  BY EmptySeq, LenProperties
<1> QED  BY <1>1, ElementOfSeq DEF RunIds

LEMMA BuildInitInv == B!Init => BuildInv
<1> SUFFICES ASSUME B!Init PROVE BuildInv
  OBVIOUS
<1>1. B!ToSet(BuildOrder) = Compilers
  BY DEF B!ToSet
<1>2. BuildTyped
  BY <1>1, EmptySeq DEF B!Init, BuildTyped, B!Targets, B!Missing
<1>3. \A c \in Compilers : executables[c]["server"] = executables[c]["bench"]
  <2> SUFFICES ASSUME NEW c \in Compilers
               PROVE  executables[c]["server"] = executables[c]["bench"]
    OBVIOUS
  <2>1. "server" \in B!Targets /\ "bench" \in B!Targets
    BY DEF B!Targets
  <2>2. CASE executables = [d \in B!ToSet(BuildOrder) |-> B!Missing]
    BY <1>1, <2>1, <2>2 DEF B!Missing
  <2>3. CASE executables = [d \in B!ToSet(BuildOrder) |-> [t \in B!Targets |-> source]]
    BY <1>1, <2>1, <2>3
  <2> QED  BY <2>2, <2>3 DEF B!Init
<1> QED  BY <1>2, <1>3 DEF B!Init, BuildInv, InTree, AllTogether, Together

\* A step that leaves the executables alone.
LEMMA KeepsExecutables ==
  ASSUME BuildInv, UNCHANGED executables, source' \in Nat \ {0}, todo' \in Seq(Compilers),
         tree' = "none" \/ (UNCHANGED <<tree, source>> /\ todo' # <<>>)
  PROVE  BuildInv'
BY DEF BuildInv, BuildTyped, InTree, AllTogether, Together, B!Targets

LEMMA BuildStepInv == BuildInv /\ B!Next => BuildInv'
<1> SUFFICES ASSUME BuildInv, B!Next PROVE BuildInv'
  OBVIOUS
<1>1. CASE B!build_project
  <2>1. todo = <<>> /\ tree = "none"
    BY <1>1 DEF B!build_project, B!Building, BuildInv, InTree
  <2>2. source' \in Nat \ {0} /\ tree' = "none" /\ UNCHANGED executables
    BY <1>1, <2>1 DEF B!build_project, BuildInv, BuildTyped
  <2>3. todo' \in Seq(Compilers)
    BY <1>1 DEF B!build_project, BuildInv, BuildTyped
  <2> QED  BY <2>2, <2>3, KeepsExecutables
<1>2. CASE B!ensure_installs
  <2>1. tree = "none" /\ todo' \in Seq(Compilers)
    BY <1>2, EmptySeq DEF B!ensure_installs, BuildInv, BuildTyped
  <2> QED  BY <1>2, <2>1, KeepsExecutables DEF B!ensure_installs, BuildInv, BuildTyped
<1>3. CASE B!build_one
  <2> DEFINE c == Head(todo)
  <2>1. /\ todo # <<>> /\ c \in Compilers /\ tree' = c /\ UNCHANGED <<source, todo>>
        /\ executables' = [executables EXCEPT ![c] = B!Missing]
    BY <1>3, HeadTailProperties DEF B!build_one, B!Building, B!Removed, BuildInv, BuildTyped
  <2>2. /\ B!Missing \in [B!Targets -> Nat]
        /\ \A t \in B!Targets : B!Missing[t] = 0
        /\ B!Targets = {"server", "bench"}
    BY DEF B!Missing, B!Targets
  <2>3. BuildTyped'
    BY <2>1, <2>2 DEF BuildInv, BuildTyped, B!Targets
  <2>4. \A d \in Compilers : executables'[d] = IF d = c THEN B!Missing ELSE executables[d]
    BY <2>1 DEF BuildInv, BuildTyped
  <2>5. InTree'
    BY <2>1, <2>2, <2>4 DEF InTree, B!Targets
  <2>6. AllTogether'
    BY <2>1, <2>2, <2>4 DEF BuildInv, AllTogether, Together
  <2> QED  BY <2>3, <2>5, <2>6 DEF BuildInv
<1>4. ASSUME NEW t \in B!Targets, B!Link(t) PROVE BuildInv'
  <2>1. /\ tree # "none" /\ tree \in Compilers /\ todo # <<>> /\ UNCHANGED <<source, todo, tree>>
        /\ executables' = [executables EXCEPT ![tree][t] = source]
        /\ source \in Nat \ {0}
    BY <1>4 DEF B!Link, BuildInv, BuildTyped, InTree
  <2>2. BuildTyped'
    BY <2>1, <1>4 DEF BuildInv, BuildTyped
  <2>3. /\ \A d \in Compilers : d # tree => executables'[d] = executables[d]
        /\ \A u \in B!Targets : executables'[tree][u] = IF u = t THEN source ELSE executables[tree][u]
    BY <2>1, <1>4 DEF BuildInv, BuildTyped
  <2>4. \A u \in B!Targets : executables'[tree][u] \in {0, source}
    BY <2>1, <2>3 DEF BuildInv, InTree
  <2>5. InTree'
    BY <2>1, <2>4 DEF InTree, B!Targets
  <2>6. AllTogether'
    BY <2>1, <2>3, <2>4 DEF BuildInv, AllTogether, Together, B!Targets
  <2> QED  BY <2>2, <2>5, <2>6 DEF BuildInv
<1>5. CASE B!TreeDone
  <2>1. tree # "none" /\ todo # <<>> /\ tree' = "none"
    BY <1>5 DEF B!TreeDone, BuildInv, InTree
  <2>2. todo' \in Seq(Compilers)
    BY <1>5, <2>1, HeadTailProperties DEF B!TreeDone, BuildInv, BuildTyped
  <2> QED  BY <1>5, <2>1, <2>2, KeepsExecutables DEF B!TreeDone, BuildInv, BuildTyped
<1>6. CASE B!BuildBreaksOff
  <2>1. todo' \in Seq(Compilers)
    BY <1>6, EmptySeq DEF B!BuildBreaksOff
  <2> QED  BY <1>6, <2>1, KeepsExecutables DEF B!BuildBreaksOff, BuildInv, BuildTyped
<1> QED  BY <1>1, <1>2, <1>3, <1>4, <1>5, <1>6 DEF B!Next

-----------------------------------------------------------------------------
(* The campaign.                                                            *)

LEMMA CampaignInitInv == Init => CampaignInv /\ HadServer
<1> SUFFICES ASSUME Init PROVE CampaignInv /\ HadServer
  OBVIOUS
<1>1. Typed
  BY RunsTyped DEF Init, Typed, RunIds, Phases, States, Signals
<1> QED  BY <1>1 DEF Init, CampaignInv, OthersAreKilled, KilledAfterStop, Stopped, PortIsOwn,
                     ReadyRuns, Alive, NeverMeasuresAnotherRun, HadServer

\* A step of the script that starts no server and may send signals.
Sending ==
  /\ UNCHANGED <<run, server, port>> /\ signal' \in [RunIds -> Signals]
  /\ \A r \in RunIds : signal[r] = "KILL" => signal'[r] = "KILL"

\* SIGKILL is the last signal of a server.
LEMMA Sent ==
  ASSUME Typed, NEW S, NEW s \in {"TERM", "KILL"}, SendTo(S, s), UNCHANGED <<run, server, port>>
  PROVE  Sending /\ \A r \in RunIds : r \in S /\ s = "KILL" => signal'[r] = "KILL"
BY DEF Typed, Sending, SendTo, Signals

LEMMA PortSignalled ==
  ASSUME Typed, NEW p, NEW s \in {"TERM", "KILL"}, SignalPort(p, s) \/ KillPort(p),
         UNCHANGED <<run, server, port>>
  PROVE  Sending
<1>1. CASE UNCHANGED signal
  BY <1>1 DEF Sending, Typed
<1>2. CASE SendTo(ListenersOn(p), s) \/ SendTo(ListenersOn(p), "KILL")
  BY <1>2, Sent
<1> QED  BY <1>1, <1>2 DEF SignalPort, KillPort

\* Such a step keeps what is said of the servers of earlier runs, and of this
\* run's unless it goes back before its start.
LEMMA SendingKeeps ==
  ASSUME CampaignInv, Sending, pc' \in Phases, pc' \in Early => pc \in Early,
         ready' \subseteq RunIds
  PROVE  Typed' /\ OthersAreKilled'
BY DEF CampaignInv, Sending, Typed, OthersAreKilled, Alive

\* The port is cleared and chosen.
LEMMA PrepareInv == CampaignInv /\ (prepare_server_port \/ Evict \/ ChoosePort) => CampaignInv'
<1> SUFFICES ASSUME CampaignInv, prepare_server_port \/ Evict \/ ChoosePort PROVE CampaignInv'
  OBVIOUS
<1>1. /\ pc \in {"prepare", "evict", "choose"} /\ pc' \in {"evict", "choose", "start", "failed"}
      /\ UNCHANGED <<run, served, ready, server, port>>
  BY DEF prepare_server_port, Evict, ChoosePort, historyVars, machineVars
<1>2. Sending
  <2>1. CASE prepare_server_port \/ Evict
    BY <1>1, <2>1, PortSignalled DEF prepare_server_port, Evict, CampaignInv
  <2>2. CASE ChoosePort
    BY <1>1, <2>2 DEF ChoosePort, machineVars, Sending, CampaignInv, Typed
  <2> QED  BY <2>1, <2>2
<1>3. Typed' /\ OthersAreKilled'
  BY <1>1, <1>2, SendingKeeps DEF Early, Phases, CampaignInv, Typed
<1>4. run \notin ready
  BY <1>1 DEF CampaignInv, ReadyRuns, Early, Typed, RunIds
<1>5. KilledAfterStop'
  BY <1>1, <1>4 DEF KilledAfterStop, Stopped
<1>6. PortIsOwn'
  <2>1. CASE pc' = "start"
    <3>1. can_bind_port(actual_port') /\ UNCHANGED machineVars
      BY <1>1, <2>1 DEF prepare_server_port, Evict, ChoosePort, Usable, FreeFrom
    <3>2. ListenersOn(actual_port') = {}
      BY <3>1 DEF can_bind_port
    <3> QED  BY <3>1, <3>2 DEF PortIsOwn, ListenersOn, machineVars
  <2> QED  BY <1>1, <2>1 DEF PortIsOwn
<1>7. ReadyRuns' /\ NeverMeasuresAnotherRun'
  BY <1>1, <1>4 DEF CampaignInv, ReadyRuns, NeverMeasuresAnotherRun
<1> QED  BY <1>3, <1>5, <1>6, <1>7 DEF CampaignInv

LEMMA StartInv == CampaignInv /\ start_server => CampaignInv'
<1> SUFFICES ASSUME CampaignInv, start_server PROVE CampaignInv'
  OBVIOUS
<1>1. /\ pc = "start" /\ UNCHANGED <<run, served, ready, signal, actual_port>>
      /\ \/ /\ pc' = "poll" /\ server' = [server EXCEPT ![run] = "starting"]
            /\ port' = [port EXCEPT ![run] = actual_port]
         \/ pc' = "failed" /\ UNCHANGED <<server, port>>
  BY DEF start_server, historyVars
<1>2. /\ run \in RunIds /\ server' \in [RunIds -> States] /\ DOMAIN port' = RunIds
      /\ \A r \in RunIds : r # run => server'[r] = server[r] /\ port'[r] = port[r]
  BY <1>1 DEF CampaignInv, Typed, States
<1>3. Typed'
  BY <1>1, <1>2 DEF CampaignInv, Typed, Phases
<1>4. \A r \in RunIds : Alive(r) => r < run /\ signal[r] = "KILL"
  BY <1>1 DEF CampaignInv, OthersAreKilled, Early
<1>5. OthersAreKilled'
  BY <1>1, <1>2, <1>4 DEF OthersAreKilled, Alive, Early
<1>6. run \notin ready
  BY <1>1, <1>2 DEF CampaignInv, ReadyRuns, Early, RunIds
<1>7. KilledAfterStop'
  BY <1>1, <1>6 DEF KilledAfterStop, Stopped
<1>8. PortIsOwn'
  BY <1>1, <1>2 DEF CampaignInv, PortIsOwn, ListenersOn
<1>9. ReadyRuns' /\ NeverMeasuresAnotherRun'
  BY <1>1, <1>6 DEF CampaignInv, ReadyRuns, NeverMeasuresAnotherRun
<1> QED  BY <1>3, <1>5, <1>7, <1>8, <1>9 DEF CampaignInv

\* The script waits for the server or runs the cases: no process is touched.
Waiting == PollServer \/ WaitTimesOut \/ Connected \/ RunCase \/ CaseHangs \/ HangEnds \/ CasesEnd

LEMMA WaitInv == CampaignInv /\ Waiting => CampaignInv'
<1> SUFFICES ASSUME CampaignInv, Waiting PROVE CampaignInv'
  OBVIOUS
<1> USE DEF Waiting, PollServer, WaitTimesOut, Connected, RunCase, CaseHangs, Measure, HangEnds,
            CasesEnd
<1>1. /\ UNCHANGED <<run, actual_port, server, signal, port>>
      /\ pc \in {"poll", "connect", "cases", "hung"}
      /\ pc' \in {"poll", "connect", "cases", "hung", "stop", "failed"}
      /\ ready' = ready \/ (ready' = ready \cup {run} /\ pc' = "cases")
      /\ pc' \in {"poll", "connect", "failed"} => ready' = ready /\ pc \in {"poll", "connect"}
  BY DEF machineVars, historyVars
<1>2. Typed' /\ OthersAreKilled'
  BY <1>1, SendingKeeps DEF Sending, CampaignInv, Typed, Early, Phases
<1>3. pc \in {"poll", "connect"} => run \notin ready
  BY DEF CampaignInv, ReadyRuns, Typed, RunIds
<1>4. KilledAfterStop'
  BY <1>1, <1>3 DEF KilledAfterStop, Stopped
<1>5. PortIsOwn'
  BY <1>1 DEF CampaignInv, PortIsOwn, ListenersOn
<1>6. ReadyRuns'
  BY <1>1, <1>3 DEF CampaignInv, ReadyRuns, Early
<1>7. NeverMeasuresAnotherRun'
  <2>1. CASE served' = served
    BY <2>1 DEF CampaignInv, NeverMeasuresAnotherRun
  <2>2. CASE Measure
    <3>1. pc = "cases" /\ served' = served \cup ({run} \X Answers(actual_port))
      BY <2>2
    <3>2. Answers(actual_port) \subseteq {0, run}
      BY <3>1 DEF Answers, CampaignInv, PortIsOwn, ListenersOn
    <3> QED  BY <3>1, <3>2 DEF CampaignInv, NeverMeasuresAnotherRun
  <2> QED  BY <2>1, <2>2 DEF historyVars
<1> QED  BY <1>2, <1>4, <1>5, <1>6, <1>7 DEF CampaignInv

\* stop_server: once it has waited, the server is gone or has been sent SIGKILL.
Stopping == stop_server \/ WaitEnds \/ ReapEnds \/ ClearPort

LEMMA StopInv == CampaignInv /\ Stopping => CampaignInv'
<1> SUFFICES ASSUME CampaignInv, Stopping PROVE CampaignInv'
  OBVIOUS
<1>1. /\ UNCHANGED <<run, server, port, served, ready, raising>>
      /\ pc \in {"stop", "wait", "reap", "port"}
      /\ pc' \in {"wait", "reap", "port", "port again"}
  BY DEF Stopping, stop_server, WaitEnds, Escalate, ReapEnds, ClearPort, historyVars, machineVars
<1>2. run \in RunIds /\ Typed
  BY DEF CampaignInv, Typed
<1>3. Sending
  <2>1. CASE UNCHANGED signal
    BY <1>1, <1>2, <2>1 DEF Sending, Typed
  <2>2. CASE SendTo({run}, "TERM") \/ SendTo({run}, "KILL")
    BY <1>1, <1>2, <2>2, Sent
  <2>3. CASE ClearPort
    BY <1>1, <1>2, <2>3, PortSignalled DEF ClearPort
  <2> QED  BY <2>1, <2>2, <2>3 DEF Stopping, stop_server, WaitEnds, Escalate, ReapEnds, machineVars
<1>4. Typed' /\ OthersAreKilled'
  BY <1>1, <1>2, <1>3, SendingKeeps DEF Early, Phases, Typed
<1>5. KilledAfterStop'
  <2> SUFFICES ASSUME pc' # "wait", raising # "broken", Alive(run) PROVE signal'[run] = "KILL"
    BY <1>1 DEF KilledAfterStop, Stopped, Alive
  <2>1. CASE pc \in {"reap", "port"}
    BY <1>2, <1>3, <2>1 DEF CampaignInv, KilledAfterStop, Stopped, Sending
  <2>2. CASE pc = "wait"
    <3>1. SendTo({run}, "KILL")
      BY <2>2 DEF Stopping, stop_server, WaitEnds, Escalate, ReapEnds, ClearPort
    <3> QED  BY <1>1, <1>2, <3>1, Sent
  <2>3. CASE pc = "stop"
    BY <2>3 DEF Stopping, stop_server, WaitEnds, ReapEnds, ClearPort
  <2> QED  BY <1>1, <2>1, <2>2, <2>3
<1>6. PortIsOwn'
  BY <1>1 DEF PortIsOwn
<1>7. ReadyRuns' /\ NeverMeasuresAnotherRun'
  BY <1>1 DEF CampaignInv, ReadyRuns, NeverMeasuresAnotherRun, Early
<1> QED  BY <1>4, <1>5, <1>6, <1>7 DEF CampaignInv

\* The next run begins, or the script ends.
LEMMA LeaveInv == CampaignInv /\ Leave => CampaignInv'
<1> SUFFICES ASSUME CampaignInv, Leave PROVE CampaignInv'
  OBVIOUS
<1>1. /\ pc = "port again" /\ UNCHANGED <<server, port, served, ready, raising>>
      /\ \/ pc' = "failed" /\ run' = run
         \/ pc' = "done" /\ run' = run
         \/ pc' = "prepare" /\ run' = run + 1 /\ run < Len(Runs) /\ raising = "no"
  BY DEF Leave, historyVars
<1>2. Typed /\ run \in RunIds
  BY DEF CampaignInv, Typed
<1>3. /\ signal' \in [RunIds -> Signals]
      /\ \A r \in RunIds : signal[r] = "KILL" => signal'[r] = "KILL"
  <2>1. CASE UNCHANGED signal
    BY <1>2, <2>1 DEF Typed
  <2>2. CASE SendTo(ListenersOn(actual_port), "KILL")
    BY <1>2, <2>2 DEF SendTo, Typed, Signals
  <2> QED  BY <2>1, <2>2 DEF Leave, KillPort, SignalPort
<1>4. run' \in RunIds /\ run \in Nat /\ run' \in {run, run + 1}
  <2>1. run \in Nat /\ 1 <= run /\ run <= Len(Runs) /\ Len(Runs) \in Nat
    BY <1>2, RunsTyped DEF RunIds
  <2>2. CASE run' = run
    BY <1>2, <2>1, <2>2
  <2>3. CASE run' = run + 1 /\ run < Len(Runs)
    BY <2>1, <2>3 DEF RunIds
  <2> QED  BY <1>1, <2>2, <2>3
<1>5. Typed'
  BY <1>1, <1>2, <1>3, <1>4 DEF Typed, Phases
<1>6. raising # "broken" /\ Alive(run) => signal'[run] = "KILL"
  BY <1>1, <1>2, <1>3 DEF CampaignInv, KilledAfterStop, Stopped
<1>7. \A r \in RunIds : r \in Nat /\ (Alive(r) => r = run \/ (r < run /\ signal'[r] = "KILL"))
  BY <1>3 DEF CampaignInv, OthersAreKilled, RunIds
<1>8. OthersAreKilled'
  <2>1. CASE run' = run /\ pc' \in {"failed", "done"}
    <3>1. \A r \in RunIds : Alive(r)' => Alive(r)
      BY <1>1 DEF Alive
    <3>2. pc' \notin Early
      BY <2>1 DEF Early
    <3> QED  BY <1>7, <2>1, <3>1, <3>2 DEF OthersAreKilled
  <2>2. CASE run' = run + 1 /\ raising = "no"
    <3>1. \A r \in RunIds : Alive(r) => r < run + 1 /\ signal'[r] = "KILL"
      <4> TAKE r \in RunIds
      <4> HAVE Alive(r)
      <4>1. CASE r = run
        BY <1>4, <1>6, <2>2, <4>1
      <4>2. CASE r < run /\ signal'[r] = "KILL"
        <5>1. r \in Nat /\ run \in Nat
          BY <1>4, <1>7
        <5> QED  BY <4>2, <5>1
      <4> QED  BY <1>7, <4>1, <4>2
    <3> QED  BY <1>1, <2>2, <3>1 DEF OthersAreKilled, Alive
  <2> QED  BY <1>1, <2>1, <2>2
<1>9. KilledAfterStop'
  BY <1>1, <1>6 DEF KilledAfterStop, Stopped, Alive
<1>10. PortIsOwn'
  BY <1>1 DEF PortIsOwn
<1>11. ReadyRuns' /\ NeverMeasuresAnotherRun'
  <2>1. \A r \in ready : r \in Nat /\ (r < run \/ r = run)
    <3>1. \A r \in ready : r \in RunIds
      BY <1>2 DEF Typed
    <3> QED  BY <3>1 DEF CampaignInv, ReadyRuns, RunIds
  <2>2. \A r \in ready : r < run + 1
    <3>1. run \in Nat
      BY <1>4
    <3> QED  BY <2>1, <3>1
  <2>3. \A r \in ready : r < run' \/ (r = run' /\ pc' \in {"failed", "done"})
    <3>1. CASE run' = run /\ pc' \in {"failed", "done"}
      BY <2>1, <3>1
    <3>2. CASE run' = run + 1
      BY <2>2, <3>2
    <3> QED  BY <1>1, <3>1, <3>2
  <2> QED  BY <1>1, <2>3 DEF CampaignInv, ReadyRuns, NeverMeasuresAnotherRun, Early
<1> QED  BY <1>5, <1>8, <1>9, <1>10, <1>11 DEF CampaignInv

\* Ctrl-C: out of the cases to stop_server, which is what makes it safe; out of
\* the clean-up it is what the invariant does not speak of.
LEMMA InterruptInv == CampaignInv /\ Interrupt => CampaignInv'
<1> SUFFICES ASSUME CampaignInv, Interrupt PROVE CampaignInv'
  OBVIOUS
<1>1. /\ UNCHANGED <<run, server, signal, port, served, ready>>
      /\ pc \notin {"done", "failed"} /\ pc' = Handler(pc)
      /\ pc \in CleanUp => raising' = "broken"
  BY DEF Interrupt, machineVars, historyVars
<1>2. /\ pc' \in {"stop", "port", "failed"}
      /\ pc' = "stop" => pc \in {"cases", "hung"}
      /\ pc' = "port" => pc \in CleanUp
      /\ pc' = "failed" => pc \in CleanUp \cup Early \cup {"poll", "connect"}
  <2>1. pc \in Phases
    BY DEF CampaignInv, Typed
  <2>2. CASE pc \in {"cases", "hung"}
    BY <1>1, <2>2 DEF Handler
  <2>3. CASE pc \in {"stop", "wait", "reap"}
    BY <1>1, <2>3 DEF Handler, CleanUp
  <2>4. CASE pc \in Early \cup {"poll", "connect", "port", "port again"}
    BY <1>1, <2>4 DEF Handler, CleanUp, Early
  <2> QED  BY <1>1, <2>1, <2>2, <2>3, <2>4 DEF Phases, Early
<1>3. Typed' /\ OthersAreKilled'
  BY <1>1, <1>2, SendingKeeps DEF Sending, CampaignInv, Typed, Early, Phases
<1>4. pc \in Early \cup {"poll", "connect"} => run \notin ready
  BY DEF CampaignInv, ReadyRuns, Typed, RunIds
<1>5. KilledAfterStop'
  BY <1>1, <1>2, <1>4 DEF KilledAfterStop, Stopped
<1>6. PortIsOwn'
  BY <1>2 DEF PortIsOwn
<1>7. ReadyRuns' /\ NeverMeasuresAnotherRun'
  BY <1>1, <1>2, <1>4 DEF CampaignInv, ReadyRuns, NeverMeasuresAnotherRun, Early
<1> QED  BY <1>3, <1>5, <1>6, <1>7 DEF CampaignInv

\* The machine starts no server, and one that was sent SIGKILL does not bind.
LEMMA MachineInv ==
  ASSUME CampaignInv,
         ForeignArrives \/ \E r \in RunIds : ServerBinds(r) \/ ServerDies(r) \/ ServerEnds(r)
  PROVE  CampaignInv'
<1>1. UNCHANGED <<run, served, pc, raising, actual_port, ready>>
  BY DEF ForeignArrives, ServerBinds, ServerDies, ServerEnds, scriptVars, historyVars
<1>2. \/ UNCHANGED <<server, signal, port>>
      \/ \E r \in RunIds, s \in {"listening", "deaf", "dead"} :
           Alive(r) /\ Becomes(r, s) /\ (s = "listening" => signal[r] # "KILL")
  BY DEF ForeignArrives, ServerBinds, ServerDies, ServerEnds, Alive
<1>3. CASE UNCHANGED <<server, signal, port>>
  BY <1>1, <1>3 DEF CampaignInv, Typed, OthersAreKilled, KilledAfterStop, Stopped, PortIsOwn,
                    ListenersOn, ReadyRuns, NeverMeasuresAnotherRun, Alive
<1>4. ASSUME NEW r \in RunIds, NEW s \in {"listening", "deaf", "dead"}, Alive(r), Becomes(r, s),
             s = "listening" => signal[r] # "KILL"
      PROVE  CampaignInv'
  <2>1. Typed'
    BY <1>1, <1>4 DEF CampaignInv, Typed, Becomes, States, Signals
  <2>2. \A q \in RunIds : Alive(q)' => Alive(q) /\ signal'[q] = signal[q]
    BY <1>4 DEF CampaignInv, Typed, Becomes, Alive
  <2>3. OthersAreKilled' /\ KilledAfterStop'
    BY <1>1, <2>1, <2>2 DEF CampaignInv, OthersAreKilled, KilledAfterStop, Stopped, Typed
  <2>4. s = "listening" => r = run
    BY <1>4 DEF CampaignInv, OthersAreKilled
  <2>5. PortIsOwn'
    <3>1. \A q \in RunIds \ {run} : server'[q] = "listening" =>
            server[q] = "listening" /\ port'[q] = port[q]
      BY <1>4, <2>4 DEF CampaignInv, Typed, Becomes
    <3> QED  BY <1>1, <3>1 DEF CampaignInv, PortIsOwn, ListenersOn
  <2> QED  BY <1>1, <2>1, <2>3, <2>5 DEF CampaignInv, ReadyRuns, NeverMeasuresAnotherRun
<1> QED  BY <1>2, <1>3, <1>4

LEMMA CampaignStepInv == CampaignInv /\ Next => CampaignInv'
BY PrepareInv, StartInv, WaitInv, StopInv, LeaveInv, InterruptInv, MachineInv
   DEF Next, Script, Waiting, Stopping

\* A step of the campaign leaves the executables alone, waits only for a server
\* that was started, and becomes ready only by waiting.
LEMMA CampaignFrame ==
  ASSUME Next
  PROVE  /\ UNCHANGED executables
         /\ \/ pc' = pc /\ UNCHANGED <<run, ready>>
            \/ pc' \notin {"poll", "connect"} /\ UNCHANGED ready
            \/ pc = "start" /\ executables[Runs[run]]["server"] # 0 /\ UNCHANGED <<run, ready>>
            \/ pc \in {"poll", "connect"} /\ ready' \in {ready, ready \cup {run}} /\ run' = run
<1>1. CASE prepare_server_port \/ Evict \/ ChoosePort \/ start_server
  BY <1>1 DEF prepare_server_port, Evict, ChoosePort, start_server, historyVars
<1>2. CASE Waiting
  BY <1>2 DEF Waiting, PollServer, WaitTimesOut, Connected, RunCase, CaseHangs, Measure, HangEnds,
              CasesEnd, historyVars
<1>3. CASE Stopping \/ Leave
  BY <1>3 DEF Stopping, stop_server, WaitEnds, Escalate, ReapEnds, ClearPort, Leave, historyVars
<1>4. CASE Interrupt
  BY <1>4 DEF Interrupt, Handler, historyVars
<1>5. CASE ForeignArrives \/ \E r \in RunIds : ServerBinds(r) \/ ServerDies(r) \/ ServerEnds(r)
  BY <1>5 DEF ForeignArrives, ServerBinds, ServerDies, ServerEnds, scriptVars, historyVars
<1> QED  BY <1>1, <1>2, <1>3, <1>4, <1>5 DEF Next, Script, Waiting, Stopping

LEMMA HadServerInv == IInv /\ Next => HadServer'
BY CampaignFrame DEF IInv, HadServer

-----------------------------------------------------------------------------
(* The theorems.                                                            *)

LEMMA StepInv == IInv /\ [ProjectNext]_projectVars => IInv'
<1> SUFFICES ASSUME IInv, [ProjectNext]_projectVars PROVE IInv'
  OBVIOUS
<1>1. CASE Building
  <2>1. CampaignInv' /\ ready' = ready /\ pc' = pc
    BY <1>1 DEF Building, IInv, CampaignInv, Typed, OthersAreKilled, KilledAfterStop, Stopped,
                PortIsOwn, ListenersOn, ReadyRuns, Alive, NeverMeasuresAnotherRun, campaignVars,
                scriptVars, machineVars, historyVars
  <2>2. pc = "prepare" /\ ready = {}
    <3>1. pc = "prepare" /\ run = 1
      BY <1>1 DEF Building, Before
    <3>2. \A r \in ready : r \in RunIds /\ r < 1
      BY <3>1 DEF IInv, CampaignInv, ReadyRuns, Typed, Early
    <3> QED  BY <3>1, <3>2, RunsTyped DEF RunIds
  <2>3. HadServer'
    BY <2>1, <2>2 DEF HadServer
  <2>4. BuildInv'
    BY <1>1, BuildStepInv DEF Building, IInv
  <2> QED  BY <2>1, <2>3, <2>4 DEF IInv
<1>2. CASE Measuring
  <2>1. BuildInv'
    <3>1. UNCHANGED executables
      BY <1>2, CampaignFrame DEF Measuring
    <3> QED  BY <1>2, <3>1 DEF Measuring, IInv, builderVars, BuildInv, BuildTyped, InTree,
                               AllTogether, Together, B!Targets
  <2> QED  BY <1>2, <2>1, CampaignStepInv, HadServerInv DEF Measuring, IInv
<1>3. CASE UNCHANGED projectVars
  BY <1>3 DEF IInv, CampaignInv, Typed, OthersAreKilled, KilledAfterStop, Stopped, PortIsOwn,
              ListenersOn, ReadyRuns, Alive, NeverMeasuresAnotherRun, BuildInv, BuildTyped, InTree, AllTogether, Together, HadServer, B!Targets,
              projectVars, builderVars, vars, scriptVars, machineVars, historyVars
<1> QED  BY <1>1, <1>2, <1>3 DEF ProjectNext

\* Every reachable state of builds and campaign satisfies the invariant.
THEOREM Inductive == ProjectSpec => []IInv
<1>1. ProjectInit => IInv
  BY CampaignInitInv, BuildInitInv DEF ProjectInit, IInv
<1> QED  BY <1>1, StepInv, PTL DEF ProjectSpec

\* No run is served by another run's server, which wait_for_server would not
\* notice (run_bench.py:428): one that is still there was sent SIGKILL, binds no
\* port any more, and the port it may still hold is not taken for this run's.
THEOREM RunsAreTheirOwn == ProjectSpec => []NeverMeasuresAnotherRun
<1>1. IInv => NeverMeasuresAnotherRun
  BY DEF IInv, CampaignInv
<1> QED  BY <1>1, Inductive, PTL

\* However the script ends, unless Ctrl-C broke off the clean-up (run_bench.py:
\* 368-406), each server that was ready and is still there has been sent SIGKILL;
\* and one that is there beside a later run's server always has.
THEOREM NoServerStays == ProjectSpec => []ServersAreStopped
<1>1. IInv => ServersAreStopped
  <2> SUFFICES ASSUME IInv PROVE ServersAreStopped
    OBVIOUS
  <2>1. Typed /\ OthersAreKilled /\ KilledAfterStop
    BY DEF IInv, CampaignInv
  <2>2. \A r \in RunIds : r \in Nat
    BY DEF RunIds
  <2>3. pc \in {"done", "failed"} /\ raising # "broken" => \A r \in ready : Alive(r) => signal[r] = "KILL"
    BY <2>1 DEF Typed, OthersAreKilled, KilledAfterStop, Stopped
  <2>4. \A r, q \in RunIds : Alive(r) /\ Alive(q) /\ r < q => signal[r] = "KILL"
    BY <2>1, <2>2 DEF Typed, OthersAreKilled
  <2> QED  BY <2>3, <2>4 DEF ServersAreStopped
<1> QED  BY <1>1, Inductive, PTL

\* What is measured together was built from the same sources, however the
\* builds before it broke off.
THEOREM OneVersion == ProjectSpec => []MeasuredTogether
<1>1. IInv => MeasuredTogether
  <2> SUFFICES ASSUME IInv, NEW r \in ready, executables[Runs[r]]["bench"] # 0
               PROVE  executables[Runs[r]]["server"] = executables[Runs[r]]["bench"]
    BY DEF MeasuredTogether
  <2>1. Runs[r] \in Compilers
    BY RunsTyped DEF IInv, CampaignInv, Typed
  <2> QED  BY <2>1 DEF IInv, HadServer, BuildInv, AllTogether, Together
<1> QED  BY <1>1, Inductive, PTL
=============================================================================
