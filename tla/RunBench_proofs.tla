-------------------------- MODULE RunBench_proofs --------------------------
(* What run_bench.py leaves behind when it is broken off, for any benches,  *)
(* kinds of processes and number of Ctrl-C: whatever process is left has    *)
(* been sent SIGKILL, which each phase of the clean-up hands on to the      *)
(* next; and for any configurations and number of campaigns: no files of    *)
(* different campaigns are mixed.                                           *)
EXTENDS RunBench, SequenceTheorems, WellFoundedInduction, TLAPS

USE ShutdownAssumption

-----------------------------------------------------------------------------
(* The inductive invariant.                                                 *)

Phases == {"start", "ready", "settle", "launch", "wait", "benches", "stop", "port",
           "left", "unready"}
Signals == {"none", "TERM", "KILL"}

Typed ==
  /\ pc \in Phases /\ processes \in Seq(Procs) /\ index \in Nat
  /\ hits \in Seq(DOMAIN Handler) /\ pids \subseteq Procs
  /\ tools \subseteq {"fuser", "lsof"} /\ listening \in BOOLEAN
  /\ proc \in [Procs -> {"off", "on", "gone"}] /\ signal \in [Procs -> Signals]

\* Nothing more can be done about a process.
Finished(p) == Alive(p) => signal[p] = "KILL"

\* While the cases are run nobody has interrupted; the benches come last.
InOrder ==
  /\ pc \in {"start", "ready", "settle"} => processes = <<>>
  /\ pc \in {"start", "ready", "settle", "launch", "wait"} => hits = <<>>
  /\ pc = "launch" => Len(processes) < Len(Benches)

\* After one Ctrl-C: the benches are finished one after the other, then the
\* server, and who is waited for the last time has been sent SIGKILL.
Stopping ==
  OneInterrupt =>
    /\ pc = "benches" => \A i \in 1..index : i <= Len(processes) => Finished(processes[i])
    /\ pc \in {"stop", "port", "left"} => \A p \in ToSet(processes) : Finished(p)
    /\ pc \in {"port", "left"} => Finished(Server)
    /\ pc \in {"benches", "stop"} /\ step = "reap" => \A p \in Target : Finished(p)

\* A server that was ready and has not been told to end listens.
ReadyListens ==
  pc \notin {"start", "ready", "unready"} /\ Alive(Server) /\ signal[Server] = "none"
    => listening

OnlyKilled == listening => Finished(Server)

\* What clearing the port has come to.
Clearing ==
  /\ pc = "port" /\ step \in {"look2", "lsof"} /\ "fuser" \in tools => OnlyKilled
  /\ pc = "port" /\ step \in {"look3", "kill -KILL"} => OnlyKilled \/ Server \in pids
  /\ pc = "left" /\ tools # {} /\ "port" \notin ToSet(hits) => OnlyKilled

IInv == Typed /\ InOrder /\ Stopping /\ ReadyListens /\ Clearing

-----------------------------------------------------------------------------
(* The processes, which nobody starts any more once the cases are over.     *)

Onward ==
  /\ proc' \in [Procs -> {"off", "on", "gone"}] /\ signal' \in [Procs -> Signals]
  /\ listening' \in BOOLEAN
  /\ \A p \in Procs : /\ proc'[p] = "on" => proc[p] = "on"
                      /\ signal[p] = "KILL" => signal'[p] = "KILL"
                      /\ signal'[p] = "none" => signal[p] = "none"
  /\ listening /\ signal[Server] = "none" => listening'
  /\ listening' => listening \/ (proc[Server] = "on" /\ signal[Server] = "none")

LEMMA Members == Server \in Procs /\ \A b \in ToSet(Benches) : b \in Procs /\ b # Server
BY DEF Procs

LEMMA OnwardKeeps ==
  ASSUME Typed, ReadyListens, Onward, pc \notin {"start", "ready", "unready"}
  PROVE  /\ \A p \in Procs : Finished(p) => Finished(p)'
         /\ ReadyListens'
         /\ OnlyKilled => OnlyKilled'
<1>1. \A p \in Procs : Finished(p) => Finished(p)'
  BY DEF Onward, Finished, Alive
<1>2. ReadyListens'
  BY Members DEF Onward, ReadyListens, Alive
<1>3. ASSUME OnlyKilled, listening' PROVE OnlyKilled'
  <2>1. listening
    BY <1>3 DEF Onward, ReadyListens, Alive
  <2> QED  BY <2>1, <1>1, <1>3, Members DEF OnlyKilled
<1> QED  BY <1>1, <1>2, <1>3 DEF OnlyKilled

\* Signals only get stronger.
LEMMA SendOnward ==
  ASSUME Typed, NEW s \in {"TERM", "KILL"}, NEW S, Send(s, S), UNCHANGED <<proc, listening>>
  PROVE  /\ Onward
         /\ s = "KILL" => \A p \in Procs : p \in S => Finished(p)'
<1>1. signal' \in [Procs -> Signals]
  BY DEF Typed, Send, Signals
<1>2. \A p \in Procs : /\ signal[p] = "KILL" => signal'[p] = "KILL"
                       /\ signal'[p] = "none" => signal[p] = "none"
  BY DEF Typed, Send
<1>3. s = "KILL" => \A p \in Procs : p \in S => Finished(p)'
  BY DEF Typed, Send, Finished, Alive
<1> QED  BY <1>1, <1>2, <1>3 DEF Onward, Typed

LEMMA NothingHappens ==
  ASSUME Typed, UNCHANGED <<proc, listening, signal>>
  PROVE  Onward
BY DEF Typed, Onward

LEMMA ProcessesKeep ==
  ASSUME IInv, Onward, UNCHANGED <<scriptVars, tools>>
  PROVE  IInv'
<1> USE DEF scriptVars
<1>1. Typed' /\ InOrder'
  BY DEF IInv, Typed, InOrder, Onward
<1>2. CASE pc \in {"start", "ready", "unready"}
  BY <1>1, <1>2 DEF IInv, Stopping, ReadyListens, Clearing
<1>3. CASE pc \notin {"start", "ready", "unready"}
  <2>1. /\ \A p \in Procs : Finished(p) => Finished(p)'
        /\ ReadyListens' /\ (OnlyKilled => OnlyKilled')
    BY <1>3, OnwardKeeps DEF IInv
  <2>2. Target' = Target /\ Target \subseteq Procs /\ ToSet(processes) \subseteq Procs
        /\ \A i \in 1..Len(processes) : processes[i] \in Procs
    BY Members, ElementOfSeq DEF IInv, Typed, Target, ToSet
  <2>3. Stopping'
    BY <2>1, <2>2, Members DEF IInv, Typed, Stopping, OneInterrupt
  <2>4. Clearing'
    BY <2>1 DEF IInv, Clearing
  <2> QED  BY <1>1, <2>1, <2>3, <2>4 DEF IInv
<1> QED  BY <1>2, <1>3

LEMMA ProcessStepInv ==
  ASSUME IInv,
         \/ ServerListens \/ ServerCloses \/ ServerCrashes
         \/ \E p \in Procs : Dies(p)
         \/ \E b \in ToSet(Benches) : BenchEnds(b)
  PROVE  IInv'
<1> SUFFICES Onward /\ UNCHANGED <<scriptVars, tools>>
  BY ProcessesKeep
<1> Typed
  BY DEF IInv
<1> USE DEF Typed, Onward, Alive
<1>1. CASE ServerListens
  BY <1>1 DEF ServerListens
<1>2. CASE ServerCloses
  BY <1>2 DEF ServerCloses
<1>3. CASE ServerCrashes
  BY <1>3, Members DEF ServerCrashes
<1>4. ASSUME NEW p \in Procs, Dies(p) PROVE Onward /\ UNCHANGED <<scriptVars, tools>>
  BY <1>4 DEF Dies
<1>5. ASSUME NEW b \in ToSet(Benches), BenchEnds(b)
      PROVE  Onward /\ UNCHANGED <<scriptVars, tools>>
  BY <1>5, Members DEF BenchEnds
<1> QED  BY <1>1, <1>2, <1>3, <1>4, <1>5

-----------------------------------------------------------------------------
(* The campaign, until something goes wrong.                                *)

LEMMA InitInv == Init => IInv
<1> SUFFICES ASSUME Init PROVE IInv
  OBVIOUS
<1>1. Typed
  BY EmptySeq DEF Init, Typed, Phases, Signals
<1>2. InOrder /\ Stopping /\ ReadyListens /\ Clearing
  BY EmptySeq DEF Init, InOrder, Stopping, OneInterrupt, ReadyListens, Clearing
<1> QED  BY <1>1, <1>2 DEF IInv

LEMMA BeginsInv ==
  ASSUME IInv, start_server \/ wait_for_server \/ settle
  PROVE  IInv'
<1>1. hits = <<>> /\ processes = <<>> /\ Len(Benches) # 0 /\ ~OneInterrupt'
  <2>1. hits = <<>> /\ processes = <<>> /\ hits' = hits
    BY DEF IInv, InOrder, start_server, wait_for_server, settle
  <2>2. Len(Benches) # 0
    BY EmptySeq
  <2> QED  BY <2>1, <2>2, EmptySeq DEF OneInterrupt
<1>2. CASE start_server
  <2>1. Typed'
    BY <1>2 DEF IInv, Typed, Phases, start_server
  <2>2. InOrder' /\ Stopping' /\ ReadyListens' /\ Clearing'
    BY <1>1, <1>2 DEF start_server, InOrder, Stopping, ReadyListens, Clearing
  <2> QED  BY <2>1, <2>2 DEF IInv
<1>3. CASE wait_for_server
  <2>1. Typed'
    BY <1>3 DEF IInv, Typed, Phases, wait_for_server
  <2>2. InOrder' /\ Stopping' /\ Clearing'
    BY <1>1, <1>3 DEF wait_for_server, InOrder, Stopping, Clearing
  <2>3. ReadyListens'
    BY <1>3 DEF wait_for_server, ReadyListens
  <2> QED  BY <2>1, <2>2, <2>3 DEF IInv
<1>4. CASE settle
  <2>1. Typed'
    BY <1>4 DEF IInv, Typed, Phases, settle
  <2>2. InOrder' /\ Stopping' /\ Clearing'
    BY <1>1, <1>4, EmptySeq, LenProperties DEF settle, InOrder, Stopping, Clearing
  <2>3. ReadyListens'
    BY <1>4 DEF IInv, settle, ReadyListens, Alive
  <2> QED  BY <2>1, <2>2, <2>3 DEF IInv
<1> QED  BY <1>2, <1>3, <1>4

\* The bench that is next, which is not the server.
LEMMA NextBench ==
  ASSUME Typed, Len(processes) < Len(Benches)
  PROVE  LET b == Benches[Len(processes) + 1] IN b \in Procs /\ b # Server
<1>1. Len(processes) + 1 \in 1..Len(Benches)
  BY LenProperties DEF Typed
<1>2. Benches[Len(processes) + 1] \in ToSet(Benches)
  BY <1>1, ElementOfSeq
<1> QED  BY <1>2, Members

LEMMA LaunchInv == ASSUME IInv, start_bench_instance PROVE IInv'
<1> DEFINE b == Benches[Len(processes) + 1]
<1>1. b \in Procs /\ b # Server
  BY NextBench DEF IInv, start_bench_instance
<1>2. hits' = <<>> /\ ~OneInterrupt'
  BY EmptySeq DEF IInv, InOrder, start_bench_instance, OneInterrupt
<1>3. processes' = Append(processes, b) /\ pc' \in {"wait", "launch"}
  BY DEF start_bench_instance
<1>4. processes' \in Seq(Procs) /\ Len(processes') = Len(processes) + 1
  BY <1>1, <1>3, AppendProperties DEF IInv, Typed
<1>5. Typed'
  BY <1>1, <1>3, <1>4 DEF IInv, Typed, Phases, start_bench_instance
<1>6. InOrder'
  BY <1>2, <1>4, LenProperties DEF IInv, Typed, InOrder, start_bench_instance
<1>7. ReadyListens'
  BY <1>1 DEF IInv, Typed, ReadyListens, Alive, start_bench_instance
<1> QED  BY <1>2, <1>3, <1>5, <1>6, <1>7 DEF IInv, Stopping, Clearing

LEMMA Handlers ==
  /\ DOMAIN Handler = {"ready", "settle", "launch", "wait", "benches", "stop", "port"}
  /\ Handler["ready"] = "unready" /\ Handler["settle"] = "stop"
  /\ Handler["launch"] = "benches" /\ Handler["wait"] = "benches"
  /\ Handler["benches"] = "stop" /\ Handler["stop"] = "port" /\ Handler["port"] = "left"
BY DEF Handler

LEMMA InterruptInv == ASSUME IInv, Interrupt PROVE IInv'
<1>1. pc \in DOMAIN Handler /\ hits' = Append(hits, pc)
  BY DEF Interrupt
<1>2. hits' \in Seq(DOMAIN Handler) /\ Len(hits') = Len(hits) + 1
      /\ hits'[Len(hits) + 1] = pc /\ Len(hits) \in Nat
  BY <1>1, AppendProperties, LenProperties DEF IInv, Typed
<1>3. /\ pc' = Handler[pc] /\ index' = 0 /\ step' = FirstStep(pc')
      /\ UNCHANGED <<processes, pids, listening, signal, tools>>
  BY DEF Interrupt
<1>4. /\ proc' \in [Procs -> {"off", "on", "gone"}]
      /\ proc'[Server] = proc[Server]
  <2>1. CASE UNCHANGED proc
    BY <2>1 DEF IInv, Typed
  <2>2. CASE pc = "launch" /\ proc' = [proc EXCEPT ![Benches[Len(processes) + 1]] = "on"]
    BY <2>2, NextBench DEF IInv, Typed, InOrder
  <2> QED  BY <2>1, <2>2 DEF Interrupt
<1>5. pc' \in {"unready", "stop", "benches", "port", "left"}
  BY <1>1, <1>3, Handlers
<1>6. Typed' /\ InOrder'
  BY <1>2, <1>3, <1>4, <1>5 DEF IInv, Typed, InOrder, Phases
<1>7. ReadyListens'
  BY <1>1, <1>3, <1>4, Handlers DEF IInv, ReadyListens, Alive
<1>8. Stopping'
  <2> SUFFICES ASSUME OneInterrupt' PROVE Stopping'
    BY DEF Stopping
  <2>1. pc \in {"settle", "launch", "wait"}
    BY <1>2 DEF OneInterrupt
  <2>2. CASE pc = "settle"
    <3>1. pc' = "stop" /\ step' = "signal" /\ processes' = <<>>
      BY <1>3, <2>2, Handlers DEF IInv, InOrder, FirstStep
    <3>2. ToSet(processes)' = {}
      BY <3>1, EmptySeq DEF ToSet
    <3> QED  BY <3>1, <3>2 DEF Stopping
  <2>3. CASE pc \in {"launch", "wait"}
    <3>1. pc' = "benches" /\ step' = "signal" /\ index' = 0
      BY <1>3, <2>3, Handlers DEF FirstStep
    <3> QED  BY <3>1 DEF Stopping
  <2> QED  BY <2>1, <2>2, <2>3
<1>9. Clearing'
  <2>1. CASE pc' = "left"
    <3>1. pc = "port"
      BY <1>1, <1>3, <2>1, Handlers
    <3>2. "port" \in ToSet(hits)'
      <4>1. Len(hits) + 1 \in 1..Len(hits')
        BY <1>2
      <4> QED  BY <4>1, <1>2, <3>1 DEF ToSet
    <3> QED  BY <2>1, <3>2 DEF Clearing
  <2>2. CASE pc' = "port"
    BY <1>3, <2>2 DEF FirstStep, Clearing
  <2> QED  BY <2>1, <2>2 DEF Clearing
<1> QED  BY <1>6, <1>7, <1>8, <1>9 DEF IInv

-----------------------------------------------------------------------------
(* Stopping.                                                                *)

Late == {"launch", "wait", "benches", "stop", "port", "left"}

\* A step of the script once there are benches: what is left to show of it.
LEMMA LateKeeps ==
  ASSUME IInv, Onward, pc \in Late, UNCHANGED <<processes, hits, tools>>,
         pc' \in {"wait", "benches", "stop", "port", "left"}, pc' = "wait" => pc = "wait",
         index' \in Nat, pids' \subseteq Procs, Stopping', Clearing'
  PROVE  IInv'
<1>1. Typed' /\ InOrder'
  BY DEF IInv, Typed, Late, InOrder, Onward, Phases
<1>2. ReadyListens'
  BY OnwardKeeps DEF IInv, Late
<1> QED  BY <1>1, <1>2 DEF IInv

LEMMA BreakOffInv == ASSUME IInv, LaunchRaises \/ WaitForBench PROVE IInv'
<1>1. /\ pc \in {"launch", "wait"} /\ pc' \in {"wait", "stop"} /\ (pc' = "wait" => pc = "wait")
      /\ index' \in Nat /\ UNCHANGED <<processes, hits, tools, pids, proc, listening, signal>>
  BY DEF IInv, Typed, LaunchRaises, WaitForBench
<1>2. ~OneInterrupt'
  BY <1>1, EmptySeq DEF IInv, InOrder, OneInterrupt
<1>3. Stopping' /\ Clearing'
  BY <1>1, <1>2 DEF Stopping, Clearing
<1> QED  BY <1>1, <1>3, NothingHappens, LateKeeps DEF IInv, Typed, Late

LEMMA Targets ==
  /\ pc = "stop" => Target = {Server}
  /\ pc = "benches" => Target = IF index < Len(processes) THEN {processes[index + 1]} ELSE {}
  /\ Target # {} => pc \in {"benches", "stop"}
BY DEF Target

\* On to the next, if the one that was being stopped is finished.
LEMMA StoppedInv ==
  ASSUME IInv, Stopped, NEW p \in Target, OneInterrupt => Finished(p),
         UNCHANGED <<processes, pids, hits, proc, listening, signal, tools>>
  PROVE  IInv'
<1>1. /\ pc \in {"benches", "stop"} /\ index' \in Nat
      /\ pc = "stop" => p = Server /\ pc' = "port" /\ step' = "fuser -TERM" /\ index' = index
      /\ pc = "benches" => /\ pc' = "benches" /\ step' = "signal" /\ index' = index + 1
                           /\ p = processes[index + 1]
  <2>1. CASE pc = "stop"
    BY <2>1, Targets DEF IInv, Typed, Stopped, FirstStep
  <2>2. CASE pc = "benches"
    BY <2>2, Targets DEF IInv, Typed, Stopped, FirstStep
  <2> QED  BY <2>1, <2>2, Targets
<1>2. Onward /\ \A q \in Procs : Finished(q)' = Finished(q)
  BY NothingHappens DEF IInv, Finished, Alive
<1>3. OneInterrupt' = OneInterrupt /\ ToSet(processes)' = ToSet(processes)
  BY DEF OneInterrupt, ToSet
<1>4. ASSUME OneInterrupt PROVE Stopping'
  <2>1. CASE pc = "stop"
    BY <1>1, <1>2, <1>3, <1>4, <2>1 DEF IInv, Stopping, Finished, Alive
  <2>2. CASE pc = "benches"
    <3>1. ASSUME NEW i \in 1..index', i <= Len(processes) PROVE Finished(processes[i])'
      <4>1. i \in 1..index \/ i = index + 1
        BY <1>1, <2>2 DEF IInv, Typed
      <4>2. Finished(processes[i])
        BY <1>1, <1>4, <2>2, <3>1, <4>1 DEF IInv, Stopping
      <4> QED  BY <4>2 DEF Finished, Alive
    <3> QED  BY <1>1, <2>2, <3>1 DEF Stopping
  <2> QED  BY <1>1, <2>1, <2>2
<1>5. Stopping'
  BY <1>3, <1>4 DEF Stopping
<1>6. Clearing'
  BY <1>1 DEF Clearing
<1> QED  BY <1>1, <1>2, <1>5, <1>6, LateKeeps DEF IInv, Typed, Late

\* One more signal, and then a wait.
LEMMA SignalledInv ==
  ASSUME IInv, NEW p \in Target, NEW s \in {"TERM", "KILL"}, Send(s, {p}),
         step' \in {"wait", "reap"}, step' = "reap" => s = "KILL",
         UNCHANGED <<pc, index, processes, pids, hits, proc, listening, tools>>
  PROVE  IInv'
<1>1. /\ pc \in {"benches", "stop"} /\ Target = {p} /\ Target' = Target
  BY DEF Target
<1>2. Onward /\ (s = "KILL" => \A q \in Procs : q = p => Finished(q)')
  BY SendOnward DEF IInv
<1>3. \A q \in Procs : Finished(q) => Finished(q)'
  BY <1>1, <1>2, OnwardKeeps DEF IInv
<1>4. p \in Procs /\ \A i \in 1..Len(processes) : processes[i] \in Procs
  BY <1>1, Members, ElementOfSeq DEF IInv, Typed, Target
<1>5. ToSet(processes)' = ToSet(processes) /\ ToSet(processes) \subseteq Procs
  BY <1>4 DEF ToSet
<1>6. Stopping'
  <2> SUFFICES ASSUME OneInterrupt PROVE Stopping'
    BY DEF Stopping, OneInterrupt
  <2>1. CASE pc = "benches"
    <3>1. ASSUME NEW i \in 1..index, i <= Len(processes) PROVE Finished(processes[i])'
      <4>1. Finished(processes[i]) /\ processes[i] \in Procs
        BY <1>4, <2>1, <3>1 DEF IInv, Typed, Stopping
      <4> QED  BY <1>3, <4>1 DEF Finished, Alive
    <3>2. step' = "reap" => \A q \in Target : Finished(q)'
      BY <1>1, <1>2, <1>4
    <3> QED  BY <1>1, <2>1, <3>1, <3>2 DEF Stopping
  <2>2. CASE pc = "stop"
    <3>1. \A q \in ToSet(processes) : Finished(q)'
      BY <1>3, <1>5, <2>2 DEF IInv, Stopping
    <3>2. step' = "reap" => \A q \in Target : Finished(q)'
      BY <1>1, <1>2, <1>4
    <3> QED  BY <1>1, <1>5, <2>2, <3>1, <3>2 DEF Stopping
  <2> QED  BY <1>1, <2>1, <2>2
<1>7. Clearing'
  BY <1>1 DEF Clearing
<1> QED  BY <1>1, <1>2, <1>6, <1>7, LateKeeps DEF IInv, Typed, Late

LEMMA StopStepInv == ASSUME IInv, Signal \/ WaitEnds \/ ReapEnds PROVE IInv'
<1> DEFINE Rest == UNCHANGED <<processes, pids, hits, proc, listening, tools>>
<1>1. CASE Signal
  <2>1. PICK p \in Target :
          \/ step' = "wait" /\ Send("TERM", {p}) /\ UNCHANGED <<pc, index>>
          \/ ~Alive(p) /\ Stopped /\ UNCHANGED signal
    BY <1>1 DEF Signal
  <2>2. Rest
    BY <1>1 DEF Signal
  <2> QED  BY <2>1, <2>2, StoppedInv, SignalledInv DEF Finished
<1>2. CASE WaitEnds
  <2>1. PICK p \in Target :
          \/ step' = "reap" /\ Send("KILL", {p}) /\ UNCHANGED <<pc, index>>
          \/ ~Alive(p) /\ Stopped /\ UNCHANGED signal
    BY <1>2 DEF WaitEnds, Escalate
  <2>2. Rest
    BY <1>2 DEF WaitEnds
  <2> QED  BY <2>1, <2>2, StoppedInv, SignalledInv DEF Finished
<1>3. CASE ReapEnds
  <2>1. step = "reap" /\ Target # {} /\ Stopped /\ Rest /\ UNCHANGED signal
    BY <1>3 DEF ReapEnds
  <2>2. pc \in {"benches", "stop"}
    BY <2>1 DEF Target
  <2>3. PICK p \in Target : OneInterrupt => Finished(p)
    BY <2>1, <2>2 DEF IInv, Stopping
  <2> QED  BY <2>1, <2>3, StoppedInv
<1> QED  BY <1>1, <1>2, <1>3

LEMMA BenchesStoppedInv == ASSUME IInv, BenchesStopped PROVE IInv'
<1>1. /\ pc = "benches" /\ pc' = "stop" /\ step' = "signal" /\ ~(index < Len(processes))
      /\ UNCHANGED <<processes, index, pids, hits, proc, listening, signal, tools>>
  BY Targets DEF BenchesStopped
<1>2. ASSUME OneInterrupt PROVE \A q \in ToSet(processes) : Finished(q)
  <2>1. \A i \in 1..Len(processes) : i \in 1..index /\ i <= Len(processes)
    BY <1>1, LenProperties DEF IInv, Typed
  <2>2. \A i \in 1..Len(processes) : Finished(processes[i])
    BY <1>1, <1>2, <2>1 DEF IInv, Stopping
  <2>3. DOMAIN processes = 1..Len(processes)
    BY LenProperties DEF IInv, Typed
  <2> QED  BY <2>2, <2>3 DEF ToSet
<1>3. Stopping'
  BY <1>1, <1>2 DEF Stopping, OneInterrupt, ToSet, Finished, Alive
<1>4. Clearing'
  BY <1>1 DEF Clearing
<1> QED  BY <1>1, <1>3, <1>4, NothingHappens, LateKeeps DEF IInv, Typed, Late

-----------------------------------------------------------------------------
(* Clearing the port, and the theorems.                                     *)

\* What is finished stays so, and the rest is about the port.
LEMMA PortKeeps ==
  ASSUME IInv, Onward, pc = "port", pc' \in {"port", "left"}, pids' \subseteq Procs,
         UNCHANGED <<processes, index, hits, tools>>, Clearing'
  PROVE  IInv'
<1>1. \A q \in Procs : Finished(q) => Finished(q)'
  BY OnwardKeeps DEF IInv
<1>2. ToSet(processes)' = ToSet(processes) /\ ToSet(processes) \subseteq Procs
  <2>1. \A i \in DOMAIN processes : processes[i] \in Procs
    BY LenProperties, ElementOfSeq DEF IInv, Typed
  <2> QED  BY <2>1 DEF ToSet
<1>3. Stopping'
  BY <1>1, <1>2, Members DEF IInv, Stopping, OneInterrupt
<1> QED  BY <1>3, LateKeeps DEF IInv, Typed, Late

LEMMA FuserInv ==
  ASSUME IInv, NEW s \in {"TERM", "KILL"}, NEW from, NEW next, Fuser(s, from, next),
         next \notin {"lsof", "look3", "kill -KILL"}, next = "look2" => s = "KILL"
  PROVE  IInv'
<1> DEFINE found == IF "fuser" \in tools THEN OnPort ELSE {}
<1>1. /\ pc = "port" /\ pc' = pc /\ step' = next /\ Send(s, found)
      /\ UNCHANGED <<processes, index, pids, hits, proc, listening, tools>>
  BY DEF Fuser
<1>2. Onward /\ (s = "KILL" => \A p \in Procs : p \in found => Finished(p)')
  BY <1>1, SendOnward DEF IInv
<1>3. ASSUME next = "look2", "fuser" \in tools PROVE OnlyKilled'
  <2>1. Server \in found => Finished(Server)'
    BY <1>2, <1>3, Members
  <2>2. Alive(Server) /\ listening => Server \in found
    BY <1>3 DEF OnPort
  <2>3. Alive(Server)' = Alive(Server) /\ listening' = listening
    BY <1>1 DEF Alive
  <2> QED  BY <2>1, <2>2, <2>3 DEF OnlyKilled, Finished
<1>4. Clearing'
  BY <1>1, <1>3 DEF Clearing
<1> QED  BY <1>1, <1>2, <1>4, PortKeeps DEF IInv, Typed

LEMMA LookInv ==
  ASSUME IInv, NEW from, NEW next, Look(from, next), next # "look2", next # "look3",
         next = "lsof" => from = "look2", next = "kill -KILL" => from = "look3"
  PROVE  IInv'
<1>1. /\ pc = "port" /\ step = from /\ pc' \in {"port", "left"}
      /\ pc' = "left" => ~(listening /\ Alive(Server))
      /\ pc' = "port" => step' = next
      /\ UNCHANGED <<processes, index, pids, hits, proc, listening, signal, tools>>
  BY DEF Look, can_bind_port
<1>2. OnlyKilled' = OnlyKilled /\ (pc' = "left" => OnlyKilled)
  BY <1>1 DEF OnlyKilled, Finished, Alive
<1>3. Clearing'
  BY <1>1, <1>2 DEF IInv, Clearing
<1> QED  BY <1>1, <1>3, NothingHappens, PortKeeps DEF IInv, Typed

LEMMA LsofInv == ASSUME IInv, LsofTerm PROVE IInv'
<1>1. pc = "port" /\ step = "lsof" /\ UNCHANGED <<processes, index, hits, proc, listening, tools>>
  BY DEF LsofTerm
<1>2. CASE "lsof" \in tools
  <2>1. /\ pids' = OnPortOrConnected /\ Send("TERM", OnPortOrConnected)
        /\ step' = "look3" /\ UNCHANGED pc
    BY <1>2 DEF LsofTerm
  <2>2. Onward
    BY <1>1, <2>1, SendOnward DEF IInv
  <2>3. pids' \subseteq Procs
    BY <2>1, Members DEF OnPortOrConnected, OnPort
  <2>4. listening' /\ Alive(Server)' => Server \in pids'
    BY <1>1, <2>1 DEF OnPortOrConnected, OnPort, Alive
  <2>5. Clearing'
    BY <1>1, <2>1, <2>4 DEF Clearing, OnlyKilled, Finished
  <2> QED  BY <1>1, <2>1, <2>2, <2>3, <2>5, PortKeeps
<1>3. CASE "lsof" \notin tools
  <2>1. pc' = "left" /\ UNCHANGED <<pids, signal, step>>
    BY <1>3 DEF LsofTerm
  <2>2. tools # {} => OnlyKilled
    BY <1>1, <1>3 DEF IInv, Typed, Clearing
  <2>3. OnlyKilled' = OnlyKilled
    BY <1>1, <2>1 DEF OnlyKilled, Finished, Alive
  <2>4. Clearing'
    BY <1>1, <2>1, <2>2, <2>3 DEF Clearing
  <2> QED  BY <1>1, <2>1, <2>4, NothingHappens, PortKeeps DEF IInv, Typed
<1> QED  BY <1>2, <1>3

LEMMA LsofKillInv == ASSUME IInv, LsofKill PROVE IInv'
<1>1. /\ pc = "port" /\ step = "kill -KILL" /\ Send("KILL", pids) /\ pc' = "left"
      /\ UNCHANGED <<step, processes, index, pids, hits, proc, listening, tools>>
  BY DEF LsofKill
<1>2. Onward /\ \A p \in Procs : p \in pids => Finished(p)'
  BY <1>1, SendOnward DEF IInv
<1>3. OnlyKilled'
  <2>1. CASE OnlyKilled
    BY <1>1, <1>2, <2>1, OnwardKeeps DEF IInv
  <2>2. CASE Server \in pids
    BY <1>2, <2>2, Members DEF OnlyKilled
  <2> QED  BY <1>1, <2>1, <2>2 DEF IInv, Clearing
<1>4. Clearing'
  BY <1>1, <1>3 DEF Clearing
<1> QED  BY <1>1, <1>2, <1>4, PortKeeps DEF IInv, Typed

LEMMA PortStepInv == ASSUME IInv, kill_processes_on_port PROVE IInv'
<1>1. CASE Fuser("TERM", "fuser -TERM", "look1") \/ Fuser("KILL", "fuser -KILL", "look2")
  BY <1>1, FuserInv
<1>2. CASE Look("look1", "fuser -KILL") \/ Look("look2", "lsof") \/ Look("look3", "kill -KILL")
  BY <1>2, LookInv
<1> QED  BY <1>1, <1>2, LsofInv, LsofKillInv DEF kill_processes_on_port

LEMMA StepInv == IInv /\ [Next]_vars => IInv'
<1> SUFFICES ASSUME IInv, [Next]_vars PROVE IInv'
  OBVIOUS
<1>1. CASE UNCHANGED vars
  BY <1>1, NothingHappens, ProcessesKeep DEF IInv, vars
<1>2. CASE Next
  BY <1>2, BeginsInv, LaunchInv, BreakOffInv, InterruptInv, StopStepInv, BenchesStoppedInv,
     PortStepInv, ProcessStepInv DEF Next, Script
<1> QED  BY <1>1, <1>2

-----------------------------------------------------------------------------
(* Lists of lists, joined.                                                  *)

\* A set of natural numbers with 0 that has each successor has all of them.
LEMMA AllNaturals ==
  ASSUME NEW G, 0 \in G, \A n \in Nat : n \in G => n + 1 \in G
  PROVE  \A n \in Nat : n \in G
<1> DEFINE T == Nat \ G
<1> SUFFICES ASSUME T # {} PROVE FALSE
  OBVIOUS
<1>1. T \subseteq Nat
  OBVIOUS
<1>2. PICK x \in T : \A y \in T : ~(<<y, x>> \in OpToRel(<, Nat))
  <2> HIDE DEF T
  <2> QED  BY <1>1, NatLessThanWellFounded, WFMin
<1>3. x \in Nat /\ x # 0 /\ x - 1 \in Nat /\ x - 1 < x
  OBVIOUS
<1>4. x - 1 \in T
  BY <1>3
<1>5. <<x - 1, x>> \in OpToRel(<, Nat)
  BY <1>3 DEF OpToRel
<1> QED  BY <1>2, <1>4, <1>5

\* h joins the first n lists of ss, as FlattenSeq does.
Joins(h, ss, n) == h = [i \in 1..n |-> IF i = 1 THEN ss[i] ELSE h[i - 1] \o ss[i]]

\* s has the elements of the first n lists.
HasFirst(s, S, ss, n) ==
  s \in Seq(S) /\ \A x : x \in ToSet(s) <=> \E i \in 1..n : x \in ToSet(ss[i])

LEMMA SetOfConcat ==
  ASSUME NEW S, NEW s \in Seq(S), NEW t \in Seq(S)
  PROVE  s \o t \in Seq(S) /\ ToSet(s \o t) = ToSet(s) \cup ToSet(t)
<1>1. s \o t \in Seq(S) /\ Range(s \o t) = Range(s) \cup Range(t)
  BY ConcatProperties, RangeConcatenation
<1>2. \A u : ToSet(u) = Range(u)
  BY DEF ToSet, Range
<1> QED  BY <1>1, <1>2

LEMMA JoinsExist == ASSUME NEW ss, NEW m \in Nat PROVE \E h : Joins(h, ss, m)
<1> DEFINE G == {k \in Nat : \E h : Joins(h, ss, k)}
<1>1. 0 \in G
  <2>1. Joins([i \in 1..0 |-> <<>>], ss, 0)
    BY DEF Joins
  <2> QED  BY <2>1
<1>2. ASSUME NEW k \in Nat, k \in G PROVE k + 1 \in G
  <2>1. PICK g : Joins(g, ss, k)
    BY <1>2
  <2> DEFINE h == [i \in 1..k + 1 |-> IF i = 1 THEN ss[i] ELSE g[i - 1] \o ss[i]]
  <2>2. \A i \in 1..k : h[i] = g[i]
    <3>1. \A i \in 1..k : g[i] = IF i = 1 THEN ss[i] ELSE g[i - 1] \o ss[i]
      BY <2>1, Zenon DEF Joins
    <3>2. \A i \in 1..k : i \in 1..k + 1
      OBVIOUS
    <3> QED  BY <3>1, <3>2, Zenon
  <2>3. \A i \in 1..k + 1 : h[i] = IF i = 1 THEN ss[i] ELSE g[i - 1] \o ss[i]
    OBVIOUS
  <2>4. \A i \in 1..k + 1 : i # 1 => i - 1 \in 1..k
    OBVIOUS
  <2>5. DOMAIN h = 1..k + 1 /\ h = [i \in DOMAIN h |-> h[i]]
    OBVIOUS
  <2> HIDE DEF h
  <2>6. \A i \in 1..k + 1 : h[i] = IF i = 1 THEN ss[i] ELSE h[i - 1] \o ss[i]
    BY <2>2, <2>3, <2>4
  <2>7. Joins(h, ss, k + 1)
    BY <2>5, <2>6 DEF Joins
  <2> QED  BY <2>7
<1> HIDE DEF G
<1>3. m \in G
  BY <1>1, <1>2, AllNaturals
<1> QED  BY <1>3 DEF G

LEMMA JoinsHave ==
  ASSUME NEW S, NEW ss, NEW m \in Nat \ {0}, \A i \in 1..m : ss[i] \in Seq(S),
         NEW h, Joins(h, ss, m)
  PROVE  HasFirst(h[m], S, ss, m)
<1> DEFINE G == {k \in Nat : k + 1 <= m => HasFirst(h[k + 1], S, ss, k + 1)}
<1>1. 0 \in G
  <2>1. h[1] = ss[1] /\ 1..1 = {1} /\ ss[1] \in Seq(S)
    BY DEF Joins
  <2> QED  BY <2>1 DEF HasFirst
<1>2. ASSUME NEW k \in Nat, k \in G PROVE k + 1 \in G
  <2> DEFINE n == k + 1
  <2> SUFFICES ASSUME n + 1 <= m PROVE HasFirst(h[n + 1], S, ss, n + 1)
    OBVIOUS
  <2>1. n \in Nat \ {0} /\ HasFirst(h[n], S, ss, n)
    BY <1>2
  <2> HIDE DEF n
  <2>2. h[n + 1] = h[n] \o ss[n + 1] /\ ss[n + 1] \in Seq(S)
    <3>1. ASSUME NEW i \in 1..m, i = n + 1 PROVE h[i] = h[n] \o ss[i]
      <4>1. i # 1 /\ i - 1 = n
        BY <2>1, <3>1
      <4>2. h[i] = IF i = 1 THEN ss[i] ELSE h[i - 1] \o ss[i]
        BY Zenon DEF Joins
      <4> QED  BY <4>1, <4>2, Zenon
    <3>2. n + 1 \in 1..m
      BY <2>1
    <3> QED  BY <3>1, <3>2, Zenon
  <2>3. h[n + 1] \in Seq(S) /\ ToSet(h[n + 1]) = ToSet(h[n]) \cup ToSet(ss[n + 1])
    BY <2>1, <2>2, SetOfConcat DEF HasFirst
  <2>4. \A i : i \in 1..n + 1 <=> i \in 1..n \/ i = n + 1
    BY <2>1
  <2> QED  BY <2>1, <2>3, <2>4 DEF HasFirst
<1> HIDE DEF G
<1>3. m - 1 \in G
  BY <1>1, <1>2, AllNaturals
<1> QED  BY <1>3 DEF G

\* FlattenSeq has the elements of all of them.
LEMMA Flattened ==
  ASSUME NEW S, NEW ss, NEW m \in Nat, ss \in [1..m -> Seq(S)]
  PROVE  HasFirst(FlattenSeq(ss), S, ss, m)
<1>1. ss \in Seq(Seq(S)) /\ Len(ss) = m
  BY SeqDef, LenProperties
<1>2. CASE m = 0
  <2>1. ss = <<>> /\ FlattenSeq(ss) = ss
    BY <1>1, <1>2, EmptySeq DEF FlattenSeq
  <2>2. ss \in Seq(S) /\ ToSet(ss) = {} /\ 1..m = {}
    BY <1>2, <2>1, EmptySeq DEF ToSet
  <2> QED  BY <2>1, <2>2 DEF HasFirst
<1>3. CASE m # 0
  <2>1. FlattenSeq(ss) = (CHOOSE h : Joins(h, ss, m))[m]
    BY <1>1, <1>3 DEF FlattenSeq, Joins
  <2>2. PICK h : Joins(h, ss, m) /\ FlattenSeq(ss) = h[m]
    BY <2>1, JoinsExist
  <2> QED  BY <1>3, <2>2, JoinsHave, SMTT(30)
<1> QED  BY <1>2, <1>3

-----------------------------------------------------------------------------
(* The files of a campaign, in the order in which main writes them.         *)

Others == {<<"data", "results">>, <<"data", "summary">>, <<"data", "csv">>,
           <<"main", "with_raw">>, <<"main", "no_raw">>,
           <<"versus", "with_raw">>, <<"versus", "no_raw">>}

Images(config) ==
  {<<"scatter", name, c>> : name \in ToSet(ScatterNames), c \in ToSet(config.compilers)}
  \cup {<<"comparison", name, t>> : name \in ToSet(ComparisonNames), t \in ToSet(config.threads)}

Names(config) == Others \cup Images(config)

ImagesOf(config) == ToSet(Files!Scatter(config)) \cup ToSet(Files!Comparison(config))

\* Files has these operators under names of its own.
LEMMA SameOperators ==
  /\ \A ss : Files!FlattenSeq(ss) = FlattenSeq(ss)
  /\ \A s : Files!ToSet(s) = ToSet(s)
BY DEF Files!FlattenSeq, FlattenSeq, Files!ToSet, ToSet

LEMMA ImagesTyped ==
  ASSUME NEW config \in Configs
  PROVE  /\ Files!Scatter(config) \in Seq(Images(config))
         /\ Files!Comparison(config) \in Seq(Images(config))
<1> USE RunBenchAssumption
<1> DEFINE S == Images(config)
<1>1. Files!Scatter(config) \in Seq(S)
  <2> DEFINE row(i) == [j \in DOMAIN ScatterNames |-> <<"scatter", ScatterNames[j], config.compilers[i]>>]
             ss == [i \in DOMAIN config.compilers |-> row(i)]
             m == Len(config.compilers)
  <2>1. /\ m \in Nat /\ DOMAIN config.compilers = 1..m
        /\ Len(ScatterNames) \in Nat /\ DOMAIN ScatterNames = 1..Len(ScatterNames)
    BY LenProperties
  <2>2. ASSUME NEW i \in 1..m PROVE row(i) \in Seq(S)
    <3>1. ASSUME NEW j \in DOMAIN ScatterNames
          PROVE  <<"scatter", ScatterNames[j], config.compilers[i]>> \in S
      <4>1. ScatterNames[j] \in ToSet(ScatterNames) /\ config.compilers[i] \in ToSet(config.compilers)
        BY <2>1 DEF ToSet
      <4> QED  BY <4>1 DEF Images
    <3> HIDE DEF S
    <3>2. row(i) \in [1..Len(ScatterNames) -> S]
      BY <2>1, <3>1
    <3> QED  BY <2>1, <3>2, SeqDef
  <2>3. ss \in [1..m -> Seq(S)]
    BY <2>1, <2>2
  <2>4. Files!Scatter(config) = FlattenSeq(ss)
    BY SameOperators DEF Files!Scatter
  <2> HIDE DEF ss, m, S
  <2> QED  BY <2>1, <2>3, <2>4, Flattened DEF HasFirst
<1>2. Files!Comparison(config) \in Seq(S)
  <2> DEFINE row(i) == [j \in DOMAIN ComparisonNames |-> <<"comparison", ComparisonNames[j], config.threads[i]>>]
             ss == [i \in DOMAIN config.threads |-> row(i)]
             m == Len(config.threads)
  <2>1. /\ m \in Nat /\ DOMAIN config.threads = 1..m
        /\ Len(ComparisonNames) \in Nat /\ DOMAIN ComparisonNames = 1..Len(ComparisonNames)
    BY LenProperties
  <2>2. ASSUME NEW i \in 1..m PROVE row(i) \in Seq(S)
    <3>1. ASSUME NEW j \in DOMAIN ComparisonNames
          PROVE  <<"comparison", ComparisonNames[j], config.threads[i]>> \in S
      <4>1. ComparisonNames[j] \in ToSet(ComparisonNames) /\ config.threads[i] \in ToSet(config.threads)
        BY <2>1 DEF ToSet
      <4> QED  BY <4>1 DEF Images
    <3> HIDE DEF S
    <3>2. row(i) \in [1..Len(ComparisonNames) -> S]
      BY <2>1, <3>1
    <3> QED  BY <2>1, <3>2, SeqDef
  <2>3. ss \in [1..m -> Seq(S)]
    BY <2>1, <2>2
  <2>4. Files!Comparison(config) = FlattenSeq(ss)
    BY SameOperators DEF Files!Comparison
  <2> HIDE DEF ss, m, S
  <2> QED  BY <2>1, <2>3, <2>4, Flattened DEF HasFirst
<1> QED  BY <1>1, <1>2

\* The results come first, and all the images before the reports.
LEMMA OrderFacts ==
  ASSUME NEW config \in Configs
  PROVE  LET order == Files!Order(config)
         IN  /\ order \in Seq(Names(config)) /\ Len(order) > 0
             /\ order[1] = <<"data", "results">>
             /\ \A k \in 1..Len(order) : Files!IsReport(order[k]) /\ config.plots =>
                  \A g \in ImagesOf(config) : \E i \in 1..k - 1 : order[i] = g
<1> DEFINE S == Names(config)
           data == Files!Data
           plots == Files!generate_plots(config)
           reports == Files!generate_reports(config)
           front == data \o plots
<1>1. data \in Seq(S) /\ Len(data) = 3 /\ data[1] = <<"data", "results">>
  BY DEF Files!Data, Names, Others
<1>2. plots \in Seq(S) /\ plots \in Seq(Images(config))
  <2>1. <<>> \in Seq(Images(config)) /\ Images(config) \subseteq S
    BY EmptySeq DEF Names
  <2>2. plots \in Seq(Images(config))
    BY <2>1, ImagesTyped, ConcatProperties DEF Files!generate_plots
  <2> HIDE DEF S, plots
  <2> QED  BY <2>1, <2>2, SeqMonotonic
<1>3. reports \in Seq(S)
  <2>1. <<>> \in Seq(S) /\ Files!MainReports \in Seq(S) /\ Files!ComparisonReports \in Seq(S)
    BY EmptySeq DEF Files!MainReports, Files!ComparisonReports, Names, Others
  <2> HIDE DEF S
  <2> QED  BY <2>1, ConcatProperties DEF Files!generate_reports
<1>4. Files!Order(config) = front \o reports
  BY DEF Files!Order
<1>5. config.plots => \A g \in ImagesOf(config) : \E i \in 1..Len(plots) : plots[i] = g
  <2> HAVE config.plots
  <2>1. plots = Files!Scatter(config) \o Files!Comparison(config)
    BY DEF Files!generate_plots
  <2>2. ToSet(plots) = ImagesOf(config)
    BY <2>1, ImagesTyped, SetOfConcat DEF ImagesOf
  <2>3. DOMAIN plots = 1..Len(plots)
    BY <1>2, LenProperties
  <2> QED  BY <2>2, <2>3 DEF ToSet
<1>6. \A i \in 1..Len(data) : ~Files!IsReport(data[i])
  BY <1>1 DEF Files!Data, Files!IsReport
<1>7. \A i \in 1..Len(plots) : ~Files!IsReport(plots[i])
  <2>1. \A g \in Images(config) : ~Files!IsReport(g)
    BY DEF Images, Files!IsReport
  <2> HIDE DEF plots
  <2> QED  BY <1>2, <2>1, ElementOfSeq
<1> HIDE DEF S, data, plots, reports
<1>8. /\ front \in Seq(S) /\ Len(front) = 3 + Len(plots) /\ Len(plots) \in Nat
      /\ \A i \in 1..Len(front) : front[i] = IF i <= 3 THEN data[i] ELSE plots[i - 3]
  <2>1. /\ data \o plots \in Seq(S) /\ Len(data \o plots) = Len(data) + Len(plots)
        /\ \A i \in 1..Len(data) + Len(plots) :
             (data \o plots)[i] = IF i <= Len(data) THEN data[i] ELSE plots[i - Len(data)]
    BY <1>1, <1>2, ConcatProperties, ZenonT(40)
  <2>2. Len(plots) \in Nat
    BY <1>2, LenProperties
  <2> QED  BY <1>1, <2>1, <2>2
<1> HIDE DEF front
<1>9. /\ front \o reports \in Seq(S) /\ Len(front \o reports) = Len(front) + Len(reports)
      /\ Len(reports) \in Nat
      /\ \A i \in 1..Len(front \o reports) :
           (front \o reports)[i] = IF i <= Len(front) THEN front[i] ELSE reports[i - Len(front)]
  BY <1>3, <1>8, ConcatProperties, LenProperties, ZenonT(40)
<1> DEFINE order == front \o reports
<1> HIDE DEF order
<1>10. /\ order \in Seq(S) /\ Len(order) > 0 /\ order[1] = <<"data", "results">>
       /\ \A i \in 1..Len(front) : i \in 1..Len(order) /\ order[i] = front[i]
  BY <1>1, <1>8, <1>9 DEF order
<1>11. ASSUME NEW k \in 1..Len(order), Files!IsReport(order[k]), config.plots,
             NEW g \in ImagesOf(config)
       PROVE  \E i \in 1..k - 1 : order[i] = g
  <2>1. k > Len(front)
    <3> SUFFICES ASSUME k <= Len(front) PROVE FALSE
      BY <1>8
    <3>1. order[k] = IF k <= 3 THEN data[k] ELSE plots[k - 3]
      BY <1>8, <1>10
    <3>2. k <= 3 => k \in 1..Len(data)
      BY <1>1
    <3>3. ~(k <= 3) => k - 3 \in 1..Len(plots)
      BY <1>8
    <3> QED  BY <1>6, <1>7, <1>11, <3>1, <3>2, <3>3
  <2>2. PICK j \in 1..Len(plots) : plots[j] = g
    BY <1>5, <1>11
  <2>3. j + 3 \in 1..Len(front) /\ j + 3 \in 1..k - 1 /\ ~(j + 3 <= 3) /\ j + 3 - 3 = j
    BY <1>8, <2>1
  <2>4. order[j + 3] = g
    BY <1>8, <1>10, <2>2, <2>3
  <2> QED  BY <2>3, <2>4
<1>12. Files!Order(config) = order
  BY <1>4 DEF order
<1> QED  BY <1>10, <1>11, <1>12 DEF S

-----------------------------------------------------------------------------
(* The inductive invariant of the files.                                    *)

FilePhases == {"idle", "measure", "write", "done", "failed"}

\* A name stands for a file of this campaign, whole, and a report with all its
\* images.
WrittenNow(f) ==
  /\ f \in DOMAIN disk /\ disk[f].of = Len(configs) /\ disk[f].state = "whole"
  /\ Files!Config.plots /\ Files!IsReport(f) =>
       {image[1] : image \in disk[f].images} = ToSet(Files!Candidates(f))

FilesTyped ==
  /\ configs \in Seq(Configs) /\ main_pc \in FilePhases
  /\ main_pc # "idle" => configs # <<>>
  /\ \A f \in DOMAIN disk : disk[f].of \in 1..Len(configs)

\* What is left to write is the rest of the order; everything before is written.
WrittenTo(k) ==
  LET order == Files!Order(Files!Config)
  IN  todo = SubSeq(order, k, Len(order)) /\ \A i \in 1..k - 1 : WrittenNow(order[i])

InTheOrder ==
  main_pc = "write" => \E k \in 1..Len(Files!Order(Files!Config)) + 1 : WrittenTo(k)

FilesInv == FilesTyped /\ InTheOrder /\ NothingMixed /\ FinishedIsComplete

-----------------------------------------------------------------------------
(* The steps of main.                                                       *)

LEMMA ConfigTyped ==
  ASSUME FilesTyped, configs # <<>>
  PROVE  Files!Config \in Configs /\ Len(configs) \in Nat \ {0} /\ Files!Campaign = Len(configs)
<1>1. Len(configs) \in Nat \ {0}
  BY EmptySeq DEF FilesTyped
<1> QED  BY <1>1, ElementOfSeq DEF FilesTyped, Files!Config, Files!Campaign

\* The images that a report finds are candidates that are there.
LEMMA WantedFacts ==
  ASSUME FilesTyped, configs # <<>>, NEW f
  PROVE  LET wanted == Files!Wanted(f)
         IN  /\ Len(wanted) \in Nat /\ DOMAIN wanted = 1..Len(wanted)
             /\ \A g : g \in ToSet(wanted) <=> g \in ToSet(Files!Candidates(f)) /\ g \in DOMAIN disk
             /\ ToSet(Files!Candidates(f)) \subseteq ImagesOf(Files!Config)
<1> DEFINE S == Images(Files!Config)
           all == Files!Candidates(f)
           m == Len(all)
           ss == [i \in DOMAIN all |-> IF all[i] \in DOMAIN disk THEN <<all[i]>> ELSE <<>>]
<1>1. all \in Seq(S) /\ ToSet(all) \subseteq ImagesOf(Files!Config)
  BY ConfigTyped, ImagesTyped DEF Files!Candidates, ImagesOf
<1>2. Files!Wanted(f) = FlattenSeq(ss)
  BY SameOperators DEF Files!Wanted
<1> HIDE DEF S, all
<1>3. m \in Nat /\ DOMAIN all = 1..m /\ \A i \in 1..m : all[i] \in S
  BY <1>1, LenProperties, ElementOfSeq
<1>4. ss \in [1..m -> Seq(S)]
  BY <1>3, EmptySeq
<1>5. \A i \in 1..m : \A x : x \in ToSet(ss[i]) <=> x = all[i] /\ x \in DOMAIN disk
  <2> SUFFICES ASSUME NEW i \in 1..m
               PROVE  \A x : x \in ToSet(ss[i]) <=> x = all[i] /\ x \in DOMAIN disk
    OBVIOUS
  <2>1. ss[i] = IF all[i] \in DOMAIN disk THEN <<all[i]>> ELSE <<>>
    BY <1>3
  <2>2. \A x : ToSet(<<x>>) = {x} /\ ToSet(<<>>) = {}
    BY DEF ToSet
  <2> HIDE DEF ss
  <2> QED  BY <2>1, <2>2
<1> HIDE DEF ss, m
<1>6. /\ FlattenSeq(ss) \in Seq(S)
      /\ \A x : x \in ToSet(FlattenSeq(ss)) <=> \E i \in 1..m : x \in ToSet(ss[i])
  BY <1>3, <1>4, Flattened DEF HasFirst
<1>7. \A x : x \in ToSet(FlattenSeq(ss)) <=> x \in ToSet(all) /\ x \in DOMAIN disk
  <2>1. \A x : x \in ToSet(all) <=> \E i \in 1..m : x = all[i]
    BY <1>3 DEF ToSet
  <2> QED  BY <1>5, <1>6, <2>1
<1> QED  BY <1>1, <1>2, <1>6, <1>7, LenProperties DEF all

\* The next file of those that are left.
LEMMA NextFile ==
  ASSUME FilesInv, main_pc = "write"
  PROVE  LET order == Files!Order(Files!Config)
         IN  /\ todo = <<>> => \A i \in 1..Len(order) : WrittenNow(order[i])
             /\ todo # <<>> => \E k \in 1..Len(order) :
                  /\ Head(todo) = order[k] /\ Tail(todo) = SubSeq(order, k + 1, Len(order))
                  /\ \A i \in 1..k - 1 : WrittenNow(order[i])
<1> DEFINE order == Files!Order(Files!Config)
           n == Len(order)
           S == Names(Files!Config)
<1>1. Files!Config \in Configs
  BY ConfigTyped DEF FilesInv, FilesTyped
<1>2. order \in Seq(S) /\ n \in Nat
  BY <1>1, OrderFacts, LenProperties
<1>3. PICK k \in 1..n + 1 : WrittenTo(k)
  BY DEF FilesInv, InTheOrder
<1> HIDE DEF S, n, order
<1>4. todo = SubSeq(order, k, n) /\ \A i \in 1..k - 1 : WrittenNow(order[i])
  BY <1>3 DEF WrittenTo, order, n
<1>5. CASE k = n + 1
  <2>1. todo = <<>>
    BY <1>2, <1>4, <1>5, SubSeqEmpty
  <2> QED  BY <1>2, <1>4, <1>5, <2>1 DEF order, n
<1>6. CASE k # n + 1
  <2>1. k \in 1..n /\ n \in k..n
    BY <1>2, <1>6
  <2>2. Head(todo) = order[k] /\ Tail(todo) = SubSeq(order, k + 1, n)
    BY <1>2, <1>4, <2>1, HeadTailOfSubSeq DEF n
  <2>3. todo # <<>>
    <3>1. \A i \in k..n : order[i] \in S
      BY <1>2, ElementOfSeq DEF n
    <3>2. Len(SubSeq(order, k, n)) = n - k + 1
      BY <1>2, <2>1, <3>1, SubSeqProperties
    <3>3. Len(todo) # 0
      BY <1>2, <1>4, <2>1, <3>2
    <3>4. Len(<<>>) = 0
      BY EmptySeq
    <3> QED  BY <3>3, <3>4
  <2> QED  BY <1>4, <2>1, <2>2, <2>3 DEF order, n
<1> QED  BY <1>5, <1>6

\* With plots on all the candidates are of this campaign when a report is due.
LEMMA ShownFacts ==
  ASSUME FilesInv, main_pc = "write", todo # <<>>, Files!IsReport(Head(todo)),
         NEW n \in 0..Len(Files!Wanted(Head(todo))), Files!Config.plots
  PROVE  LET shown == Files!Shown(Head(todo), n)
         IN  /\ \A image \in shown : image[2] = Len(configs)
             /\ n = Len(Files!Wanted(Head(todo))) =>
                  {image[1] : image \in shown} = ToSet(Files!Candidates(Head(todo)))
<1> DEFINE f == Head(todo)
           order == Files!Order(Files!Config)
           wanted == Files!Wanted(f)
           candidates == ToSet(Files!Candidates(f))
<1>1. FilesTyped /\ configs # <<>> /\ Files!Config \in Configs
  BY ConfigTyped DEF FilesInv, FilesTyped
<1>2. PICK k \in 1..Len(order) : f = order[k] /\ \A i \in 1..k - 1 : WrittenNow(order[i])
  BY NextFile
<1>3. \A g \in ImagesOf(Files!Config) : WrittenNow(g)
  BY <1>1, <1>2, OrderFacts
<1> HIDE DEF f, candidates, wanted, order
<1>4. /\ Len(wanted) \in Nat /\ DOMAIN wanted = 1..Len(wanted)
      /\ \A g : g \in ToSet(wanted) <=> g \in candidates /\ g \in DOMAIN disk
      /\ candidates \subseteq ImagesOf(Files!Config)
  BY <1>1, WantedFacts DEF wanted, candidates
<1>5. \A i \in 1..n : wanted[i] \in candidates
  BY <1>4 DEF wanted, f, ToSet
<1>6. \A g \in candidates : g \in DOMAIN disk /\ disk[g].of = Len(configs)
  BY <1>3, <1>4 DEF WrittenNow
<1>7. Files!Shown(f, n) = {<<wanted[i], disk[wanted[i]].of>> : i \in 1..n}
  BY DEF Files!Shown, wanted
<1>8. \A image \in Files!Shown(f, n) : image[2] = Len(configs)
  BY <1>5, <1>6, <1>7
<1>9. ASSUME n = Len(wanted)
      PROVE  {image[1] : image \in Files!Shown(f, n)} = candidates
  <2>1. {image[1] : image \in Files!Shown(f, n)} = {wanted[i] : i \in 1..n}
    <3>1. ASSUME NEW image \in Files!Shown(f, n) PROVE image[1] \in {wanted[i] : i \in 1..n}
      <4>1. PICK i \in 1..n : image = <<wanted[i], disk[wanted[i]].of>>
        BY <1>7
      <4> QED  BY <4>1
    <3>2. ASSUME NEW i \in 1..n PROVE \E image \in Files!Shown(f, n) : image[1] = wanted[i]
      <4>1. <<wanted[i], disk[wanted[i]].of>> \in Files!Shown(f, n)
        BY <1>7
      <4> QED  BY <4>1
    <3> QED  BY <3>1, <3>2
  <2>2. {wanted[i] : i \in 1..n} = ToSet(wanted)
    BY <1>4, <1>9 DEF ToSet
  <2>3. ToSet(wanted) = candidates
    BY <1>4, <1>6
  <2> QED  BY <2>1, <2>2, <2>3
<1> QED  BY <1>8, <1>9 DEF f, wanted, candidates

\* The configuration of a campaign does not change.
LEMMA SameConfig ==
  ASSUME UNCHANGED configs
  PROVE  /\ UNCHANGED <<Files!Config, Files!Campaign>>
         /\ \A f : UNCHANGED <<Files!Candidates(f), ToSet(Files!Candidates(f))>>
<1>1. UNCHANGED <<Files!Config, Files!Campaign>>
  BY DEF Files!Config, Files!Campaign
<1>2. \A f : UNCHANGED Files!Candidates(f)
  BY <1>1 DEF Files!Candidates
<1> QED  BY <1>1, <1>2 DEF ToSet

\* A file that is written, or opened only, is of this campaign, and the results
\* were written before.
LEMMA PutKeeps ==
  ASSUME FilesInv, main_pc = "write", todo # <<>>, UNCHANGED configs,
         NEW h, h = Head(todo), NEW state, NEW images, Files!Put(h, state, images),
         Files!Config.plots => \A image \in images : image[2] = Len(configs)
  PROVE  /\ NothingMixed'
         /\ \A f \in DOMAIN disk' : disk'[f].of \in 1..Len(configs)
         /\ \A f : WrittenNow(f) /\ f # h => WrittenNow(f)'
         /\ /\ state = "whole"
            /\ Files!Config.plots /\ Files!IsReport(h) =>
                 {image[1] : image \in images} = ToSet(Files!Candidates(h))
            => WrittenNow(h)'
<1> DEFINE results == <<"data", "results">>
<1>1. /\ configs # <<>> /\ FilesTyped /\ Len(configs) \in Nat \ {0}
      /\ Files!Campaign = Len(configs) /\ Files!Config \in Configs
  BY ConfigTyped DEF FilesInv, FilesTyped
<1>2. h = results \/ WrittenNow(results)
  <2>1. PICK k \in 1..Len(Files!Order(Files!Config)) :
          /\ h = Files!Order(Files!Config)[k]
          /\ \A i \in 1..k - 1 : WrittenNow(Files!Order(Files!Config)[i])
    BY NextFile
  <2>2. k = 1 \/ 1 \in 1..k - 1
    OBVIOUS
  <2> QED  BY <1>1, <2>1, <2>2, OrderFacts
<1> HIDE DEF results
<1>3. /\ DOMAIN disk' = DOMAIN disk \cup {h}
      /\ disk'[h] = [of |-> Len(configs), state |-> state, images |-> images]
      /\ \A f \in DOMAIN disk : f # h => disk'[f] = disk[f]
  BY <1>1 DEF Files!Put
<1>4. \A f \in DOMAIN disk' : disk'[f].of \in 1..Len(configs)
  BY <1>1, <1>3 DEF FilesTyped
<1>5. Files!OwnImages'
  <2>1. ASSUME NEW f \in DOMAIN disk', configs[disk'[f].of].plots, NEW image \in disk'[f].images
        PROVE  image[2] = disk'[f].of
    <3>1. CASE f = h
      BY <1>1, <1>3, <2>1, <3>1 DEF Files!Config
    <3>2. CASE f # h
      BY <1>3, <2>1, <3>2 DEF FilesInv, NothingMixed, Files!OwnImages
    <3> QED  BY <3>1, <3>2
  <2> QED  BY <2>1 DEF Files!OwnImages
<1>6. Files!ResultsAreNewest'
  <2>1. results \in DOMAIN disk' /\ disk'[results].of = Len(configs)
    BY <1>2, <1>3 DEF WrittenNow
  <2> QED  BY <1>1, <1>4, <2>1 DEF Files!ResultsAreNewest, results
<1>7. \A f : WrittenNow(f) /\ f # h => WrittenNow(f)'
  BY <1>3, SameConfig DEF WrittenNow
<1>8. ASSUME /\ state = "whole"
             /\ Files!Config.plots /\ Files!IsReport(h) =>
                  {image[1] : image \in images} = ToSet(Files!Candidates(h))
      PROVE  WrittenNow(h)'
  BY <1>3, <1>8, SameConfig DEF WrittenNow
<1> QED  BY <1>4, <1>5, <1>6, <1>7, <1>8 DEF NothingMixed

LEMMA FilesInit == Files!Init => FilesInv
BY EmptySeq DEF Files!Init, FilesInv, FilesTyped, FilePhases, InTheOrder, NothingMixed,
   Files!OwnImages, Files!ResultsAreNewest, FinishedIsComplete, Files!FinishedIsComplete

LEMMA StartKeeps == ASSUME FilesInv, NEW config \in Configs, Files!Start(config) PROVE FilesInv'
<1>1. /\ configs' = Append(configs, config) /\ main_pc' = "measure" /\ UNCHANGED <<todo, disk>>
  BY DEF Files!Start
<1>2. /\ configs' \in Seq(Configs) /\ configs' # <<>> /\ Len(configs') = Len(configs) + 1
      /\ \A i \in 1..Len(configs) : configs'[i] = configs[i]
      /\ Len(configs) \in Nat
  BY <1>1, AppendProperties, LenProperties DEF FilesInv, FilesTyped
<1>3. FilesTyped'
  BY <1>1, <1>2 DEF FilesInv, FilesTyped, FilePhases
<1>4. NothingMixed'
  BY <1>1, <1>2 DEF FilesInv, FilesTyped, NothingMixed, Files!OwnImages, Files!ResultsAreNewest
<1>5. InTheOrder' /\ FinishedIsComplete'
  BY <1>1 DEF InTheOrder, FinishedIsComplete, Files!FinishedIsComplete
<1> QED  BY <1>3, <1>4, <1>5 DEF FilesInv

\* A step that writes nothing.
LEMMA QuietKeeps ==
  ASSUME FilesInv, UNCHANGED <<configs, disk>>, main_pc # "idle", main_pc' \in FilePhases
  PROVE  FilesTyped' /\ NothingMixed'
BY DEF FilesInv, FilesTyped, NothingMixed, Files!OwnImages, Files!ResultsAreNewest

LEMMA MeasuredKeeps == ASSUME FilesInv, Files!Measured PROVE FilesInv'
<1> DEFINE order == Files!Order(Files!Config)
<1>1. /\ main_pc = "measure" /\ main_pc' = "write" /\ todo' = order
      /\ UNCHANGED <<configs, disk>>
  BY DEF Files!Measured
<1>2. FilesTyped' /\ NothingMixed'
  BY <1>1, QuietKeeps DEF FilePhases
<1>3. Files!Config \in Configs /\ UNCHANGED Files!Config
  BY <1>1, ConfigTyped, SameConfig DEF FilesInv, FilesTyped
<1>4. SubSeq(order, 1, Len(order)) = order /\ Len(order) \in Nat
  BY <1>3, OrderFacts, SubSeqFull, LenProperties
<1>5. WrittenTo(1)'
  BY <1>1, <1>3, <1>4 DEF WrittenTo
<1>6. InTheOrder'
  BY <1>3, <1>4, <1>5 DEF InTheOrder
<1>7. FinishedIsComplete'
  BY <1>1 DEF FinishedIsComplete, Files!FinishedIsComplete
<1> QED  BY <1>2, <1>6, <1>7 DEF FilesInv

LEMMA FailsKeeps == ASSUME FilesInv, Files!MeasureFails PROVE FilesInv'
<1>1. main_pc = "measure" /\ main_pc' = "failed" /\ UNCHANGED <<configs, disk>>
  BY DEF Files!MeasureFails
<1>2. InTheOrder' /\ FinishedIsComplete'
  BY <1>1 DEF InTheOrder, FinishedIsComplete, Files!FinishedIsComplete
<1> QED  BY <1>1, <1>2, QuietKeeps DEF FilesInv, FilePhases

LEMMA FinishKeeps == ASSUME FilesInv, Files!Finish PROVE FilesInv'
<1> DEFINE order == Files!Order(Files!Config)
<1>1. /\ main_pc = "write" /\ todo = <<>> /\ main_pc' = "done" /\ UNCHANGED <<configs, disk>>
  BY DEF Files!Finish
<1>2. FilesTyped' /\ NothingMixed' /\ InTheOrder'
  BY <1>1, QuietKeeps DEF FilePhases, InTheOrder
<1>3. Files!Config \in Configs /\ Files!Campaign = Len(configs)
  BY <1>1, ConfigTyped DEF FilesInv, FilesTyped
<1>4. \A i \in 1..Len(order) : WrittenNow(order[i])
  BY <1>1, NextFile
<1>5. \A f \in ToSet(order) : WrittenNow(f)
  BY <1>3, <1>4, OrderFacts, LenProperties DEF ToSet
<1>6. FinishedIsComplete'
  <2> SUFFICES ASSUME NEW f \in ToSet(order)
               PROVE  /\ f \in DOMAIN disk /\ disk[f].of = Files!Campaign /\ disk[f].state = "whole"
                      /\ Files!Config.plots /\ Files!IsReport(f) =>
                           {image[1] : image \in disk[f].images} = ToSet(Files!Candidates(f))
    BY <1>1, SameConfig, SameOperators DEF FinishedIsComplete, Files!FinishedIsComplete
  <2> QED  BY <1>3, <1>5 DEF WrittenNow
<1> QED  BY <1>2, <1>6 DEF FilesInv

\* The next file is written, and it goes on with those after it.
LEMMA GoesOn ==
  ASSUME FilesInv, main_pc = "write", todo # <<>>, todo' = Tail(todo),
         UNCHANGED <<configs, main_pc>>, NEW images, Files!Put(Head(todo), "whole", images),
         Files!Config.plots => \A image \in images : image[2] = Len(configs),
         Files!Config.plots /\ Files!IsReport(Head(todo)) =>
           {image[1] : image \in images} = ToSet(Files!Candidates(Head(todo)))
  PROVE  FilesInv'
<1> DEFINE order == Files!Order(Files!Config)
<1>1. PICK h : h = Head(todo)
  OBVIOUS
<1>2. /\ NothingMixed' /\ \A f \in DOMAIN disk' : disk'[f].of \in 1..Len(configs)
      /\ \A f : WrittenNow(f) => WrittenNow(f)'
      /\ WrittenNow(h)'
  BY <1>1, PutKeeps
<1>3. FilesTyped'
  BY <1>2 DEF FilesInv, FilesTyped
<1>4. PICK k \in 1..Len(order) :
        /\ h = order[k] /\ Tail(todo) = SubSeq(order, k + 1, Len(order))
        /\ \A i \in 1..k - 1 : WrittenNow(order[i])
  BY <1>1, NextFile
<1>5. UNCHANGED order /\ Len(order) \in Nat
  <2>1. Files!Config \in Configs
    BY ConfigTyped DEF FilesInv, FilesTyped
  <2> QED  BY <2>1, SameConfig, OrderFacts, LenProperties
<1>6. WrittenTo(k + 1)'
  <2>1. \A i \in 1..k : i = k \/ i \in 1..k - 1
    OBVIOUS
  <2>2. \A i \in 1..k : WrittenNow(order[i])'
    BY <1>2, <1>4, <1>5, <2>1
  <2> QED  BY <1>4, <1>5, <2>2 DEF WrittenTo
<1>7. InTheOrder'
  BY <1>5, <1>6 DEF InTheOrder
<1>8. FinishedIsComplete'
  BY DEF FinishedIsComplete, Files!FinishedIsComplete
<1> QED  BY <1>2, <1>3, <1>7, <1>8 DEF FilesInv

\* ... or main ends there.
LEMMA EndsThere ==
  ASSUME FilesInv, main_pc = "write", todo # <<>>, main_pc' = "failed", UNCHANGED configs,
         \/ UNCHANGED disk
         \/ \E state, images :
              /\ Files!Put(Head(todo), state, images)
              /\ Files!Config.plots => \A image \in images : image[2] = Len(configs)
  PROVE  FilesInv'
<1>1. FilesTyped' /\ NothingMixed'
  <2>1. CASE UNCHANGED disk
    BY <2>1, QuietKeeps DEF FilePhases
  <2>2. ASSUME NEW state, NEW images, Files!Put(Head(todo), state, images),
               Files!Config.plots => \A image \in images : image[2] = Len(configs)
        PROVE  FilesTyped' /\ NothingMixed'
    <3>1. NothingMixed' /\ \A f \in DOMAIN disk' : disk'[f].of \in 1..Len(configs)
      BY <2>2, PutKeeps
    <3> QED  BY <3>1 DEF FilesInv, FilesTyped, FilePhases
  <2> QED  BY <2>1, <2>2
<1>2. InTheOrder' /\ FinishedIsComplete'
  BY DEF InTheOrder, FinishedIsComplete, Files!FinishedIsComplete
<1> QED  BY <1>1, <1>2 DEF FilesInv

LEMMA WriteFileKeeps == ASSUME FilesInv, Files!WriteFile \/ Files!WriteBreaks PROVE FilesInv'
<1>1. CASE Files!WriteFile
  <2>1. /\ main_pc = "write" /\ todo # <<>> /\ ~Files!IsReport(Head(todo))
        /\ Files!Put(Head(todo), "whole", {}) /\ todo' = Tail(todo)
        /\ UNCHANGED <<configs, main_pc>>
    BY <1>1 DEF Files!WriteFile, Files!Write
  <2> QED  BY <2>1, GoesOn
<1>2. CASE Files!WriteBreaks
  <2>1. /\ main_pc = "write" /\ todo # <<>> /\ main_pc' = "failed" /\ UNCHANGED configs
        /\ UNCHANGED disk \/ Files!Put(Head(todo), "torn", {})
    BY <1>2 DEF Files!WriteBreaks
  <2> QED  BY <2>1, EndsThere
<1> QED  BY <1>1, <1>2

LEMMA ReportKeeps ==
  ASSUME FilesInv, Files!WriteReport \/ Files!ReportRaises \/ Files!ReportBreaks
  PROVE  FilesInv'
<1> DEFINE f == Head(todo)
           m == Len(Files!Wanted(f))
<1>1. main_pc = "write" /\ todo # <<>> /\ Files!IsReport(f) /\ UNCHANGED configs
  BY DEF Files!WriteReport, Files!ReportRaises, Files!ReportBreaks
<1>2. m \in Nat
  BY <1>1, WantedFacts DEF FilesInv, FilesTyped
<1>3. ASSUME NEW n \in 0..m, Files!Config.plots
      PROVE  /\ \A image \in Files!Shown(f, n) : image[2] = Len(configs)
             /\ n = m => {image[1] : image \in Files!Shown(f, n)} = ToSet(Files!Candidates(f))
  BY <1>1, <1>3, ShownFacts
<1>4. CASE Files!WriteReport
  <2>1. Files!Put(f, "whole", Files!Shown(f, m)) /\ todo' = Tail(todo) /\ UNCHANGED main_pc
    BY <1>4 DEF Files!WriteReport
  <2>2. m \in 0..m
    BY <1>2
  <2> HIDE DEF m
  <2>3. Files!Config.plots =>
          /\ \A image \in Files!Shown(f, m) : image[2] = Len(configs)
          /\ {image[1] : image \in Files!Shown(f, m)} = ToSet(Files!Candidates(f))
    BY <1>3, <2>2
  <2> QED  BY <1>1, <2>1, <2>3, GoesOn
<1>5. CASE Files!ReportRaises \/ Files!ReportBreaks
  <2>1. /\ main_pc' = "failed"
        /\ \/ \E n \in 0..m : Files!Put(f, "cut", Files!Shown(f, n))
           \/ Files!Put(f, "torn", {})
    BY <1>2, <1>5 DEF Files!ReportRaises, Files!ReportBreaks
  <2>2. ASSUME NEW n \in 0..m, Files!Put(f, "cut", Files!Shown(f, n)) PROVE FilesInv'
    BY <1>1, <1>3, <2>1, <2>2, EndsThere
  <2>3. CASE Files!Put(f, "torn", {})
    BY <1>1, <2>1, <2>3, EndsThere
  <2> QED  BY <2>1, <2>2, <2>3
<1> QED  BY <1>4, <1>5

LEMMA FilesStep == ASSUME FilesInv, Files!Next PROVE FilesInv'
BY StartKeeps, MeasuredKeeps, FailsKeeps, FinishKeeps, WriteFileKeeps, ReportKeeps DEF Files!Next

LEMMA FilesStutter == ASSUME FilesInv, UNCHANGED fileVars PROVE FilesInv'
<1>1. UNCHANGED <<configs, main_pc, todo, disk>>
  BY DEF fileVars
<1>2. UNCHANGED Files!Config /\ \A f : UNCHANGED Files!Candidates(f)
  BY <1>1, SameConfig
<1>3. FilesTyped' /\ NothingMixed' /\ FinishedIsComplete'
  BY <1>1, <1>2 DEF FilesInv, FilesTyped, NothingMixed, Files!OwnImages, Files!ResultsAreNewest,
                    FinishedIsComplete, Files!FinishedIsComplete, Files!Campaign
<1>4. InTheOrder'
  BY <1>1, <1>2, SameConfig DEF FilesInv, InTheOrder, WrittenTo, WrittenNow
<1> QED  BY <1>3, <1>4 DEF FilesInv

-----------------------------------------------------------------------------
(* The processes and the files.                                             *)

LEMMA AnyInvariant == AnySpec => [](IInv /\ FilesInv)
<1>1. AnyInit => IInv /\ FilesInv
  BY InitInv, FilesInit DEF AnyInit
<1>2. IInv /\ FilesInv /\ [AnyNext]_allVars => (IInv /\ FilesInv)'
  BY StepInv, FilesStep, FilesStutter DEF AnyNext, allVars
<1> QED  BY <1>1, <1>2, PTL DEF AnySpec

\* One Ctrl-C is enough, for any number of benches: when run_bench.py has left
\* after a single one during the cases, SIGKILL has been sent to the server and
\* to every bench it started that is still there.
THEOREM OneIsEnough == AnySpec => []OneInterruptStopsAll
<1>1. IInv => OneInterruptStopsAll
  BY DEF IInv, Stopping, OneInterruptStopsAll, Finished
<1> QED  BY <1>1, AnyInvariant, PTL

\* However often Ctrl-C comes before the port is cleared: with fuser or lsof no
\* server that was ready and has not been sent SIGKILL still listens when
\* run_bench.py has left.
THEOREM PortIsCleared == AnySpec => []NoListenerIsLeft
<1>1. IInv => NoListenerIsLeft
  BY DEF IInv, Clearing, NoListenerIsLeft, OnlyKilled, Finished
<1> QED  BY <1>1, AnyInvariant, PTL

\* The files of any number of campaigns of any configurations are not mixed,
\* wherever each of them breaks off: a report of a campaign with plots shows no
\* image of another, and no file is newer than the results.
THEOREM FilesAreOfOne == AnySpec => []NothingMixed
<1>1. FilesInv => NothingMixed
  BY DEF FilesInv
<1> QED  BY <1>1, AnyInvariant, PTL

\* main has finished only with all files of this campaign there and whole, and
\* with all the images in its reports, whatever those before it left.
THEOREM FinishedHasAll == AnySpec => []FinishedIsComplete
<1>1. FilesInv => FinishedIsComplete
  BY DEF FilesInv
<1> QED  BY <1>1, AnyInvariant, PTL
=============================================================================
