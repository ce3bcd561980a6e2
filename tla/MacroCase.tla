----------------------------- MODULE MacroCase -----------------------------
(* run_macro_bench_case of run_bench.py: launch one bench_tcp after the     *)
(* other, wait for all, read the JSON file each one leaves, count.  An      *)
(* interrupt (Ctrl-C) can come at any point; the benches are in sessions of *)
(* their own, so it reaches the script only.  Without a case, one of the    *)
(* programs is run by hand.                                                 *)
EXTENDS Receivers, Sequences, FiniteSetsExt

VARIABLES
  case,        \* "running", "done", "interrupted", "crashed", or "none"
  spawned,     \* the process that Popen has started and nobody knows yet, or none
  processes,   \* the processes list: started and appended, in order
  waited,      \* how many of them proc.wait() has returned for
  json,        \* json[p]: p's output file: "none", "stale", "empty", or the
               \*   verdict of this run that it reports
  result       \* what the case returns: success, failed, bytes

caseVars == <<case, spawned, processes, waited, json, result>>
macroVars == <<receiverVars, caseVars>>

None == [success |-> 0, failed |-> 0, bytes |-> 0]

TypeOK == /\ ReceiverTypes
          /\ case \in {"none", "running", "done", "interrupted", "crashed"}
          /\ spawned \subseteq Procs
          /\ processes \in Seq(Procs) /\ waited \in 0 .. Cardinality(Procs)
          /\ json \in [Procs -> {"none", "stale", "empty", "success", "failure"}]
          /\ result.success \in Nat /\ result.failed \in Nat /\ result.bytes \in Nat

\* Files of an earlier campaign may be there.
CaseInit ==
  /\ ReceiverInit
  /\ \/ case = "none"
     \/ case = "running" /\ program \in Benches
  /\ spawned = {} /\ processes = <<>> /\ waited = 0
  /\ json \in [Procs -> {"none", "stale"}]
  /\ result = None

Started == {processes[i] : i \in DOMAIN processes}

Ended(p) == proc[p] \in {"success", "failure", "killed"}

-----------------------------------------------------------------------------
\* The output file of an earlier run is removed.  Seeded bug: it is kept.
Unlinked_Kept(p) == json
Unlinked(p) == [json EXCEPT ![p] = "none"]

\* start_bench_instance: the old file goes, the process starts.
start_bench_instance(p) ==
  /\ case = "running" /\ spawned = {} /\ p \notin Started
  /\ json' = Unlinked(p)
  /\ proc' = [proc EXCEPT ![p] = "connecting"]
  /\ spawned' = {p}
  /\ UNCHANGED <<program, total_bytes, server, inFlight, upset, faults,
                 case, processes, waited, result>>

\* ... or an exception leaves the case: only KeyboardInterrupt is caught.
StartRaises ==
  /\ case = "running" /\ spawned = {} /\ Started # Procs
  /\ faults < MaxFaults /\ faults' = faults + 1
  /\ case' = "crashed"
  /\ UNCHANGED <<program, proc, total_bytes, server, inFlight, upset, spawned,
                 processes, waited, json, result>>

\* processes.append.
AppendProcess ==
  /\ case = "running"
  /\ \E p \in spawned : processes' = Append(processes, p)
  /\ spawned' = {}
  /\ UNCHANGED <<receiverVars, case, waited, json, result>>

\* proc.wait() of the next process, once all are started.
Wait ==
  /\ case = "running" /\ Started = Procs /\ waited < Len(processes)
  /\ Ended(processes[waited + 1])
  /\ waited' = waited + 1
  /\ UNCHANGED <<receiverVars, case, spawned, processes, json, result>>

\* KeyboardInterrupt: stop_bench_process for every process of the list.
\* Seeded bug: only for those not waited for yet.
ToStop_Rest == {processes[i] : i \in waited + 2 .. Len(processes)}
ToStop == Started

Interrupt ==
  /\ case = "running" /\ waited < Cardinality(Procs)
  /\ case' = "interrupted"
  /\ proc' = [p \in Procs |-> IF p \in ToStop /\ ~Ended(p)
                              THEN "killed" ELSE proc[p]]
  /\ UNCHANGED <<program, total_bytes, server, inFlight, upset, faults,
                 spawned, processes, waited, json, result>>

\* parse_benchmark_json: a file counts when it can be read and reports no
\* error; a stale one would too.
Valid(p) == json[p] \in {"success", "stale"}

\* real_bytes: one file per valid run; the script of async-berkeley adds up
\* the downloaded_bytes counters instead, if there are any.
Received(S) == MapThenSumSet(LAMBDA p : total_bytes[p], S)

real_bytes(S) == IF program = "berkeley_bench" /\ Received(S) > 0
                 THEN Received(S) ELSE Cardinality(S) * Size

\* All have been waited for: count and return.
Account ==
  /\ case = "running" /\ waited = Cardinality(Procs)
  /\ case' = "done"
  /\ LET S == {p \in Procs : Valid(p)}
     IN  result' = [success |-> Cardinality(S),
                    failed  |-> Cardinality(Procs \ S),
                    bytes   |-> real_bytes(S)]
  /\ UNCHANGED <<receiverVars, spawned, processes, waited, json>>

\* A bench that comes to its verdict leaves it in its file.
BenchStep(p) ==
  /\ Download(p)
  /\ json' = IF /\ program \in Benches /\ proc'[p] # proc[p]
                /\ proc'[p] \in {"success", "failure"}
             THEN [json EXCEPT ![p] = proc'[p]] ELSE json
  /\ UNCHANGED <<case, spawned, processes, waited, result>>

\* A bench dies (killed from outside, out of memory) before it has written.
BenchDies(p) ==
  /\ proc[p] \in {"connecting", "reading"} /\ Fault(p)
  /\ proc' = [proc EXCEPT ![p] = "killed"]
  /\ \E j \in {json[p], "empty"} : json' = [json EXCEPT ![p] = j]
  /\ UNCHANGED <<program, total_bytes, server, inFlight,
                 case, spawned, processes, waited, result>>

\* Without a case: a program is started by hand.
Start(p) ==
  /\ case = "none" /\ \A q \in Procs : proc[q] = "off"
  /\ proc' = [proc EXCEPT ![p] = "connecting"]
  /\ UNCHANGED <<program, total_bytes, server, inFlight, upset, faults, caseVars>>

CaseNext ==
  \/ StartRaises \/ AppendProcess \/ Wait \/ Interrupt \/ Account
  \/ \E p \in Procs : \/ start_bench_instance(p) \/ Start(p)
                      \/ BenchStep(p) \/ BenchDies(p)

CaseSpec == CaseInit /\ [][CaseNext]_macroVars

-----------------------------------------------------------------------------
\* The case counts its own downloads: every success it reports is a verdict
\* reached by a process of this case, everyone else is counted as failed, and
\* the bytes of the script that adds up counters are those that its successful
\* processes received.
CountsOwnRuns ==
  case = "done" =>
    /\ result.success = Cardinality({p \in Procs : proc[p] = "success"})
    /\ result.success + result.failed = Cardinality(Procs)
    /\ program = "berkeley_bench" =>
         result.bytes = Received({p \in Procs : proc[p] = "success"})

\* An interrupt leaves at most the one process running that had been started
\* but was not in the list yet.
InterruptStopsBenches ==
  case = "interrupted" => \A p \in Procs : proc[p] # "off" /\ ~Ended(p) => p \in spawned
=============================================================================
