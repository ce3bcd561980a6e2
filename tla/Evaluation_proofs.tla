------------------------- MODULE Evaluation_proofs -------------------------
(* What run_bench.py makes of its downloads and of its measurements, for    *)
(* any machine, loads, lengths and numbers of benches, cases and            *)
(* repetitions: a case counts its own processes, the energy it reports is   *)
(* that of the load, although the counter turns, the statistics are in      *)
(* order, and nothing is lost on the way into the reports.                  *)
EXTENDS Evaluation, Lists_proofs

USE ReceiversAssumption

-----------------------------------------------------------------------------
(* A case: what is true of its processes, its list of them and their files. *)

Verdicts == {"success", "failure"}
States == {"off", "connecting", "reading", "success", "failure", "killed"}
CaseStates == {"none", "running", "done", "interrupted", "crashed"}

CaseTyped ==
  /\ program \in Benches \cup Clients /\ proc \in [Procs -> States]
  /\ total_bytes \in [Procs -> Nat] /\ inFlight \in [Procs -> Nat]
  /\ server \in [Procs -> {"none", "sending", "closed", "reset"}]
  /\ case \in CaseStates /\ spawned \subseteq Procs
  /\ processes \in Seq(Procs) /\ waited \in Nat
  /\ json \in [Procs -> {"none", "stale", "empty"} \cup Verdicts]

\* A connection that nothing happened to is closed after the last chunk.
Served ==
  \A p \in Procs : /\ server[p] = "closed" => p \in upset \/ total_bytes[p] + inFlight[p] = Size
                   /\ server[p] = "reset" => p \in upset

\* The bench of async-berkeley succeeds with at least a chunk.
GotSome ==
  program = "berkeley_bench" => \A p \in Procs : proc[p] = "success" => total_bytes[p] > 0

DownloadInv == Served /\ GotSome /\ NoFalseFailure

\* Every process of the case is known once: it is in the list, or is the one
\* that has just been started, or has not been.
Known ==
  /\ case = "none" => processes = <<>> /\ spawned = {}
  /\ case # "none" => program \in Benches
  /\ \A i, j \in DOMAIN processes : processes[i] = processes[j] => i = j
  /\ \A p, q \in spawned : p = q
  /\ spawned \cap Started = {}
  /\ case # "none" => \A p \in Procs \ (Started \cup spawned) : proc[p] = "off"

\* The file of a process that was started is its own, and says what it came to.
OwnFiles ==
  \A p \in Started \cup spawned : /\ json[p] # "stale"
                                  /\ json[p] = "success" <=> proc[p] = "success"

\* Those that were waited for have ended; one is waited for once all are started.
WaitedFor ==
  /\ waited <= Len(processes)
  /\ \A i \in 1 .. waited : Ended(processes[i])
  /\ waited # 0 => Started = Procs

Over == case = "done" => \A p \in Procs : Ended(p)

CaseInv == Known /\ OwnFiles /\ WaitedFor /\ Over /\ CountsOwnRuns /\ InterruptStopsBenches

MacroInv == CaseTyped /\ DownloadInv /\ CaseInv

-----------------------------------------------------------------------------
(* The sum of what a set of processes has received.                         *)

One(s) == CHOOSE p \in s : TRUE

\* g sums f over the sets in D, as MapThenSumSet does.
Sums(g, f, D) == g = [s \in D |-> IF s = {} THEN 0 ELSE f[One(s)] + g[s \ {One(s)}]]

Small(S, n) == {s \in SUBSET S : Cardinality(s) <= n}

\* A small set without one of its elements is smaller.
LEMMA SmallSets ==
  ASSUME NEW S, IsFiniteSet(S), NEW n \in Nat, NEW s \in Small(S, n + 1), s # {}
  PROVE  s \ {One(s)} \in Small(S, n)
<1>1. IsFiniteSet(s) /\ One(s) \in s
  BY FS_Subset DEF Small, One
<1>2. Cardinality(s \ {One(s)}) = Cardinality(s) - 1 /\ Cardinality(s) \in Nat
  BY <1>1, FS_RemoveElement, FS_CardinalityType
<1> QED  BY <1>2 DEF Small

\* Such a sum is there: from the smaller sets to the larger.
LEMMA SumsExist == ASSUME NEW f, NEW S, IsFiniteSet(S) PROVE \E g : Sums(g, f, SUBSET S)
<1> DEFINE G == {n \in Nat : \E g : Sums(g, f, Small(S, n))}
<1>1. 0 \in G
  <2>1. \A s \in Small(S, 0) : s = {}
    BY FS_Subset, FS_EmptySet, FS_CardinalityType DEF Small
  <2>2. Sums([s \in Small(S, 0) |-> 0], f, Small(S, 0))
    BY <2>1 DEF Sums
  <2> QED  BY <2>2
<1>2. ASSUME NEW n \in Nat, n \in G PROVE n + 1 \in G
  <2>1. PICK g : Sums(g, f, Small(S, n))
    BY <1>2
  <2> DEFINE h == [s \in Small(S, n + 1) |-> IF s = {} THEN 0 ELSE f[One(s)] + g[s \ {One(s)}]]
  <2>2. \A s \in Small(S, n) : s \in Small(S, n + 1) /\ h[s] = g[s]
    <3>1. \A s \in Small(S, n) : Cardinality(s) \in Nat
      BY FS_Subset, FS_CardinalityType DEF Small
    <3>2. \A s \in Small(S, n) : s \in Small(S, n + 1)
      BY <3>1 DEF Small
    <3> QED  BY <2>1, <3>2 DEF Sums
  <2>3. \A s \in Small(S, n + 1) : s # {} => h[s] = f[One(s)] + h[s \ {One(s)}]
    BY <2>2, SmallSets
  <2>4. Sums(h, f, Small(S, n + 1))
    BY <2>3 DEF Sums
  <2> QED  BY <2>4
<1> HIDE DEF G
<1>3. Cardinality(S) \in G
  BY <1>1, <1>2, AllNaturals, FS_CardinalityType
<1>4. Small(S, Cardinality(S)) = SUBSET S
  BY FS_Subset DEF Small
<1> QED  BY <1>3, <1>4 DEF G

\* Without processes nothing was received, and with processes that have all
\* received something, something was.
LEMMA ReceivedSome ==
  ASSUME NEW S, IsFiniteSet(S), \A p \in S : total_bytes[p] \in Nat /\ total_bytes[p] > 0
  PROVE  /\ S = {} => Received(S) = 0
         /\ S # {} => Received(S) > 0
<1>1. Received(S) = (CHOOSE g : Sums(g, total_bytes, SUBSET S))[S]
  BY DEF Received, MapThenSumSet, MapThenFoldSet, Sums, One
<1>2. PICK g : Sums(g, total_bytes, SUBSET S) /\ Received(S) = g[S]
  BY <1>1, SumsExist
<1>3. /\ g[{}] = 0
      /\ \A s \in SUBSET S : s # {} => g[s] = total_bytes[One(s)] + g[s \ {One(s)}]
  BY <1>2 DEF Sums
<1> HIDE DEF Received
<1> DEFINE G == {n \in Nat : \A s \in Small(S, n) : g[s] \in Nat}
<1>4. 0 \in G
  <2>1. \A s \in Small(S, 0) : s = {}
    BY FS_Subset, FS_EmptySet, FS_CardinalityType DEF Small
  <2>2. \A s \in Small(S, 0) : g[s] \in Nat
    BY <1>3, <2>1
  <2> QED  BY <2>2
<1>5. ASSUME NEW n \in Nat, n \in G PROVE n + 1 \in G
  <2>1. ASSUME NEW s \in Small(S, n + 1), s # {} PROVE g[s] \in Nat
    <3>1. s \ {One(s)} \in Small(S, n) /\ One(s) \in S /\ s \in SUBSET S
      BY <2>1, SmallSets DEF Small, One
    <3>2. g[s \ {One(s)}] \in Nat /\ total_bytes[One(s)] \in Nat
      BY <1>5, <3>1
    <3>3. g[s] = total_bytes[One(s)] + g[s \ {One(s)}]
      BY <1>3, <2>1, <3>1
    <3> QED  BY <3>2, <3>3
  <2>2. g[{}] \in Nat
    BY <1>3
  <2>3. \A s \in Small(S, n + 1) : g[s] \in Nat
    BY <2>1, <2>2
  <2> QED  BY <2>3
<1>6. \A s \in SUBSET S : g[s] \in Nat
  <2> HIDE DEF G
  <2>1. Cardinality(S) \in G
    BY <1>4, <1>5, AllNaturals, FS_CardinalityType
  <2>2. Small(S, Cardinality(S)) = SUBSET S
    BY FS_Subset DEF Small
  <2> QED  BY <2>1, <2>2 DEF G
<1>7. CASE S = {}
  BY <1>2, <1>3, <1>7
<1>8. CASE S # {}
  <2>1. One(S) \in S /\ S \ {One(S)} \in SUBSET S /\ S \in SUBSET S
    BY <1>8 DEF One
  <2>2. Received(S) = total_bytes[One(S)] + g[S \ {One(S)}]
    BY <1>2, <1>3, <1>8, <2>1
  <2>3. g[S \ {One(S)}] \in Nat /\ total_bytes[One(S)] \in Nat /\ total_bytes[One(S)] > 0
    BY <1>6, <2>1
  <2> QED  BY <1>8, <2>2, <2>3
<1> QED  BY <1>7, <1>8

-----------------------------------------------------------------------------
(* The steps.                                                               *)

\* It does not change unless a process receives something or succeeds.
LEMMA ReceivedSame ==
  ASSUME UNCHANGED <<proc, total_bytes>>
  PROVE  UNCHANGED Received({p \in Procs : proc[p] = "success"})
BY DEF Received, MapThenSumSet, MapThenFoldSet

\* Nothing has been started.
LEMMA CaseInitInv == CaseInit => MacroInv
<1> SUFFICES ASSUME CaseInit PROVE MacroInv
  OBVIOUS
<1> USE DEF CaseInit, ReceiverInit
<1>1. CaseTyped
  BY EmptySeq DEF CaseTyped, States, CaseStates
<1>2. DownloadInv
  BY DEF DownloadInv, Served, GotSome, NoFalseFailure
<1>3. processes = <<>> /\ Len(processes) = 0 /\ Started = {}
  BY EmptySeq DEF Started
<1>4. CaseInv
  BY <1>3 DEF CaseInv, Known, OwnFiles, WaitedFor, Over, CountsOwnRuns, InterruptStopsBenches
<1> QED  BY <1>1, <1>2, <1>4 DEF MacroInv

\* The verdict is one, or the program goes on; a whole download is a success for
\* every program, and most that see an interrupted recv go on.
LEMMA EndsFacts ==
  ASSUME program \in Benches \cup Clients, NEW end, NEW total \in Nat
  PROVE  /\ Ends(end, total) \in Verdicts \cup {"again"}
         /\ program = "berkeley_bench" /\ Ends(end, total) = "success" => total > 0
         /\ end = "eof" /\ total = Size /\ Size # 0 => Ends(end, total) = "success"
         /\ end = "intr" /\ program \in CallRecv \ {"bsd_client"} => Ends(end, total) = "again"
<1> USE DEF Verdict, Verdicts, CallRecv
<1>1. CASE program = "bsd_client"
  BY <1>1 DEF Ends, bsd_client
<1>2. CASE program = "bsd_bench"
  BY <1>2 DEF Ends, bsd_bench
<1>3. CASE program = "v_client"
  BY <1>3 DEF Ends, v_client
<1>4. CASE program = "v_bench"
  BY <1>4 DEF Ends, v_bench
<1>5. CASE program = "asio_client"
  BY <1>5 DEF Ends, asio_client
<1>6. CASE program = "asio_bench"
  BY <1>6 DEF Ends, asio_bench
<1>7. CASE program = "corosio_client"
  BY <1>7 DEF Ends, corosio_client
<1>8. CASE program = "corosio_bench"
  BY <1>8 DEF Ends, corosio_bench
<1>9. CASE program = "berkeley_client"
  BY <1>9 DEF Ends, berkeley_client
<1>10. CASE program = "berkeley_bench"
  BY <1>10 DEF Ends, berkeley_bench
<1>11. CASE program = "taps_client"
  BY <1>11 DEF Ends, taps_client
<1>12. CASE program = "taps_bench"
  BY <1>12 DEF Ends, taps_bench, EXPECTED_FILE_SIZE_BYTES
<1> QED  BY <1>1, <1>2, <1>3, <1>4, <1>5, <1>6, <1>7,
          <1>8, <1>9, <1>10, <1>11, <1>12 DEF Benches, Clients

\* What a step of a download may do: p reads, or comes to a verdict.
LEMMA DownloadStep ==
  ASSUME CaseTyped, DownloadInv, NEW p \in Procs, Download(p)
  PROVE  /\ DownloadInv'
         /\ proc' \in [Procs -> States] /\ total_bytes' \in [Procs -> Nat]
         /\ inFlight' \in [Procs -> Nat] /\ program' = program
         /\ server' \in [Procs -> {"none", "sending", "closed", "reset"}]
         /\ \A q \in Procs : proc'[q] # proc[q] =>
              q = p /\ proc[p] \in {"connecting", "reading"} /\ proc'[p] \in {"reading"} \cup Verdicts
         /\ \A q \in Procs : total_bytes'[q] # total_bytes[q] => proc[q] = "reading"
<1> USE DEF CaseTyped, DownloadInv, Served, GotSome, NoFalseFailure, NoFault, Fault, States, Verdicts
<1>1. CASE Connect(p)
  BY <1>1 DEF Connect
<1>2. CASE Send(p)
  BY <1>2 DEF Send
<1>3. CASE Close(p)
  BY <1>3 DEF Close
<1>4. CASE Receive(p)
  BY <1>4 DEF Receive
<1>5. CASE ReceiveEnds(p)
  <2>1. PICK end \in {"eof", "reset", "intr", "error", "disk"} :
          /\ end = "eof" => server[p] = "closed" /\ inFlight[p] = 0 /\ NoFault
          /\ end = "reset" => server[p] = "reset" /\ inFlight[p] = 0 /\ NoFault
          /\ end = "intr" => program \in CallRecv /\ NoFault
          /\ end \in {"error", "disk"} => Fault(p)
          /\ proc' = IF Ends(end, total_bytes[p]) = "again" THEN proc
                     ELSE [proc EXCEPT ![p] = Ends(end, total_bytes[p])]
    BY <1>5 DEF ReceiveEnds
  <2>2. proc[p] = "reading" /\ UNCHANGED <<program, total_bytes, server, inFlight>>
    BY <1>5 DEF ReceiveEnds
  <2> DEFINE v == Ends(end, total_bytes[p])
  <2>3. /\ v \in Verdicts \cup {"again"}
        /\ program = "berkeley_bench" /\ v = "success" => total_bytes[p] > 0
        /\ end = "eof" /\ total_bytes[p] = Size /\ Size # 0 => v = "success"
        /\ end = "intr" /\ program \in CallRecv \ {"bsd_client"} => v = "again"
    BY EndsFacts
  <2> HIDE DEF v
  <2>4. proc' = IF v = "again" THEN proc ELSE [proc EXCEPT ![p] = v]
    BY <2>1 DEF v
  <2>5. upset' = upset \/ upset' = upset \cup {p}
    BY <2>1
  <2>6. Served' /\ GotSome'
    BY <2>2, <2>3, <2>4, <2>5
  <2>7. v = "failure" => p \in upset' \/ Size = 0 \/ program = "bsd_client"
    <3>1. CASE end = "eof"
      BY <2>1, <2>3, <3>1
    <3>2. CASE end = "reset"
      BY <2>1, <2>5, <3>2
    <3>3. CASE end = "intr"
      BY <2>1, <2>3, <3>3
    <3>4. CASE end \in {"error", "disk"}
      BY <2>1, <3>4
    <3> QED  BY <3>1, <3>2, <3>3, <3>4
  <2>8. NoFalseFailure'
    BY <2>2, <2>4, <2>5, <2>7
  <2> QED  BY <2>2, <2>3, <2>4, <2>6, <2>8
<1> QED  BY <1>1, <1>2, <1>3, <1>4, <1>5 DEF Download

\* The list with one more process.
LEMMA ProcessJoins ==
  ASSUME CaseTyped, NEW p \in Procs
  PROVE  /\ Append(processes, p) \in Seq(Procs)
         /\ Len(Append(processes, p)) = Len(processes) + 1
         /\ DOMAIN Append(processes, p) = 1 .. Len(processes) + 1
         /\ \A i \in 1 .. Len(processes) : Append(processes, p)[i] = processes[i]
         /\ Append(processes, p)[Len(processes) + 1] = p
BY AppendProperties, LenProperties DEF CaseTyped

\* What has been started are the processes of the list.
LEMMA StartedProcs ==
  ASSUME CaseTyped
  PROVE  /\ DOMAIN processes = 1 .. Len(processes) /\ Len(processes) \in Nat
         /\ Started \subseteq Procs
         /\ \A i \in 1 .. Len(processes) : processes[i] \in Procs /\ processes[i] \in Started
BY LenProperties, ElementOfSeq DEF CaseTyped, Started

\* All are in the list once: it is as long as they are many.
LEMMA ListIsWhole ==
  ASSUME CaseTyped, Known, Started = Procs
  PROVE  Len(processes) = Cardinality(Procs)
<1>1. processes \in Bijection(1 .. Len(processes), Procs)
  <2>1. processes \in [1 .. Len(processes) -> Procs]
    BY StartedProcs, LenProperties DEF CaseTyped
  <2> QED  BY <2>1, StartedProcs DEF Known, Started, Bijection, Injection, Surjection, IsInjective
<1>2. IsFiniteSet(1 .. Len(processes)) /\ Cardinality(1 .. Len(processes)) = Len(processes)
  <2> DEFINE n == Len(processes)
  <2>1. n \in Nat
    BY StartedProcs
  <2> HIDE DEF n
  <2>2. /\ IsFiniteSet(1 .. n)
        /\ Cardinality(1 .. n) = IF 1 > n THEN 0 ELSE n - 1 + 1
    BY <2>1, FS_Interval
  <2>3. IsFiniteSet(1 .. n) /\ Cardinality(1 .. n) = n
    BY <2>1, <2>2
  <2> QED  BY <2>3 DEF n
<1>3. ExistsBijection(1 .. Len(processes), Procs)
  BY <1>1 DEF ExistsBijection
<1> QED  BY <1>2, <1>3, FS_Bijection

\* A start that fails ends the case.
LEMMA StartRaisesInv == ASSUME MacroInv, StartRaises PROVE MacroInv'
<1>1. /\ case = "running" /\ case' = "crashed"
      /\ UNCHANGED <<program, proc, total_bytes, server, inFlight, upset, spawned, processes, waited, json, result>>
  BY DEF StartRaises
<1>2. CaseTyped'
  BY <1>1 DEF MacroInv, CaseTyped, CaseStates
<1>3. DownloadInv'
  BY <1>1 DEF MacroInv, DownloadInv, Served, GotSome, NoFalseFailure
<1>4. CaseInv'
  BY <1>1 DEF MacroInv, CaseInv, Known, Started, OwnFiles, WaitedFor, Over, CountsOwnRuns,
              InterruptStopsBenches, Ended
<1> QED  BY <1>2, <1>3, <1>4 DEF MacroInv

\* The process just started enters the list.
LEMMA AppendInv == ASSUME MacroInv, AppendProcess PROVE MacroInv'
<1>1. PICK p \in spawned : processes' = Append(processes, p)
  BY DEF AppendProcess
<1>2. case = "running" /\ spawned' = {} /\ UNCHANGED <<receiverVars, case, waited, json, result>>
  BY DEF AppendProcess
<1>3. p \in Procs /\ spawned = {p} /\ p \notin Started
  BY <1>1 DEF MacroInv, CaseTyped, CaseInv, Known
<1>4. /\ processes' \in Seq(Procs) /\ Len(processes') = Len(processes) + 1
      /\ DOMAIN processes' = 1 .. Len(processes) + 1
      /\ \A i \in 1 .. Len(processes) : processes'[i] = processes[i]
      /\ processes'[Len(processes) + 1] = p
  BY <1>1, <1>3, ProcessJoins DEF MacroInv
<1>5. /\ DOMAIN processes = 1 .. Len(processes) /\ Len(processes) \in Nat
      /\ \A i \in 1 .. Len(processes) : processes[i] \in Started
  BY StartedProcs DEF MacroInv
<1>6. Started' = Started \cup {p}
  BY <1>4, <1>5, SMTT(30) DEF Started
<1>7. CaseTyped'
  BY <1>2, <1>4 DEF MacroInv, CaseTyped, receiverVars
<1>8. DownloadInv'
  BY <1>2 DEF MacroInv, DownloadInv, Served, GotSome, NoFalseFailure, receiverVars
<1>9. Known'
  <2>1. \A i, j \in DOMAIN processes' : processes'[i] = processes'[j] => i = j
    BY <1>3, <1>4, <1>5 DEF MacroInv, CaseInv, Known
  <2> QED  BY <1>2, <1>3, <1>6, <2>1 DEF MacroInv, CaseInv, Known, receiverVars
<1>10. OwnFiles'
  BY <1>2, <1>3, <1>6 DEF MacroInv, CaseInv, OwnFiles, receiverVars
<1>11. WaitedFor'
  <2>1. waited = 0
    BY <1>3 DEF MacroInv, CaseTyped, CaseInv, WaitedFor
  <2> QED  BY <1>2, <1>4, <1>5, <2>1 DEF WaitedFor
<1>12. Over' /\ CountsOwnRuns' /\ InterruptStopsBenches'
  BY <1>2 DEF Over, CountsOwnRuns, InterruptStopsBenches
<1> QED  BY <1>7, <1>8, <1>9, <1>10, <1>11, <1>12 DEF MacroInv, CaseInv

\* A process is started, its old file unlinked.
LEMMA StartBenchInv == ASSUME MacroInv, NEW p \in Procs, start_bench_instance(p) PROVE MacroInv'
<1>1. /\ case = "running" /\ spawned = {} /\ spawned' = {p} /\ p \notin Started
      /\ proc' = [proc EXCEPT ![p] = "connecting"] /\ json' = [json EXCEPT ![p] = "none"]
      /\ UNCHANGED <<program, total_bytes, server, inFlight, upset, faults,
                     case, processes, waited, result>>
  BY DEF start_bench_instance, Unlinked
<1>2. CaseTyped'
  BY <1>1 DEF MacroInv, CaseTyped, States
<1>3. DownloadInv'
  BY <1>1 DEF MacroInv, CaseTyped, DownloadInv, Served, GotSome, NoFalseFailure
<1>4. Started' = Started /\ \A i \in 1 .. Len(processes) : processes[i] \in Started
  BY <1>1, StartedProcs DEF MacroInv, Started
<1>5. Known' /\ OwnFiles'
  BY <1>1, <1>4 DEF MacroInv, CaseTyped, CaseInv, Known, OwnFiles
<1>6. WaitedFor'
  <2>1. \A i \in 1 .. waited : processes[i] # p
    BY <1>1, <1>4 DEF MacroInv, CaseTyped, CaseInv, WaitedFor
  <2> QED  BY <1>1, <1>4, <2>1, StartedProcs DEF MacroInv, CaseTyped, CaseInv, WaitedFor, Ended
<1>7. Over' /\ CountsOwnRuns' /\ InterruptStopsBenches'
  BY <1>1 DEF Over, CountsOwnRuns, InterruptStopsBenches
<1> QED  BY <1>2, <1>3, <1>5, <1>6, <1>7 DEF MacroInv, CaseInv

\* The next process is waited for.
LEMMA WaitInv == ASSUME MacroInv, Wait PROVE MacroInv'
<1>1. /\ case = "running" /\ Started = Procs /\ waited < Len(processes)
      /\ Ended(processes[waited + 1]) /\ waited' = waited + 1
      /\ UNCHANGED <<program, proc, total_bytes, server, inFlight, upset, faults,
                     case, spawned, processes, json, result>>
  BY DEF Wait, receiverVars
<1>2. CaseTyped'
  BY <1>1 DEF MacroInv, CaseTyped
<1>3. DownloadInv'
  BY <1>1 DEF MacroInv, DownloadInv, Served, GotSome, NoFalseFailure
<1>4. Started' = Started
  BY <1>1 DEF Started
<1>5. Known' /\ OwnFiles'
  BY <1>1, <1>4 DEF MacroInv, CaseInv, Known, OwnFiles
<1>6. WaitedFor'
  BY <1>1, <1>4, StartedProcs DEF MacroInv, CaseTyped, CaseInv, WaitedFor, Ended
<1>7. Over' /\ CountsOwnRuns' /\ InterruptStopsBenches'
  BY <1>1 DEF Over, CountsOwnRuns, InterruptStopsBenches
<1> QED  BY <1>2, <1>3, <1>5, <1>6, <1>7 DEF MacroInv, CaseInv

\* An interrupt ends the case, and the processes of the list.
LEMMA InterruptInv == ASSUME MacroInv, Interrupt PROVE MacroInv'
<1>1. /\ case = "running" /\ case' = "interrupted"
      /\ proc' = [p \in Procs |-> IF p \in Started /\ ~Ended(p) THEN "killed" ELSE proc[p]]
      /\ UNCHANGED <<program, total_bytes, server, inFlight, upset, faults,
                     spawned, processes, waited, json, result>>
  BY DEF Interrupt, ToStop
<1>2. CaseTyped'
  BY <1>1 DEF MacroInv, CaseTyped, CaseStates, States
<1>3. DownloadInv'
  BY <1>1 DEF MacroInv, CaseTyped, DownloadInv, Served, GotSome, NoFalseFailure
<1>4. Started' = Started
  BY <1>1 DEF Started
<1>5. Known'
  BY <1>1, <1>4 DEF MacroInv, CaseTyped, CaseInv, Known
<1>6. OwnFiles'
  BY <1>1, <1>4, StartedProcs DEF MacroInv, CaseTyped, CaseInv, OwnFiles, Ended
<1>7. WaitedFor'
  BY <1>1, <1>4, StartedProcs DEF MacroInv, CaseTyped, CaseInv, WaitedFor, Ended
<1>8. Over' /\ CountsOwnRuns'
  BY <1>1 DEF Over, CountsOwnRuns
<1>9. InterruptStopsBenches'
  BY <1>1 DEF MacroInv, CaseTyped, CaseInv, Known, InterruptStopsBenches, Ended
<1> QED  BY <1>2, <1>3, <1>5, <1>6, <1>7, <1>8, <1>9 DEF MacroInv, CaseInv

\* The files of all processes are counted.
LEMMA AccountInv == ASSUME MacroInv, Account PROVE MacroInv'
<1> DEFINE S == {p \in Procs : Valid(p)}
<1>1. /\ case = "running" /\ waited = Cardinality(Procs) /\ case' = "done"
      /\ result' = [success |-> Cardinality(S), failed |-> Cardinality(Procs \ S),
                    bytes |-> real_bytes(S)]
      /\ UNCHANGED <<program, proc, total_bytes, server, inFlight, upset, faults,
                     spawned, processes, waited, json>>
  BY DEF Account, receiverVars
<1>2. CaseTyped'
  BY <1>1 DEF MacroInv, CaseTyped, CaseStates
<1>3. DownloadInv'
  BY <1>1 DEF MacroInv, DownloadInv, Served, GotSome, NoFalseFailure
<1>4. Started' = Started
  BY <1>1 DEF Started
<1>5. Known' /\ OwnFiles'
  BY <1>1, <1>4 DEF MacroInv, CaseInv, Known, OwnFiles
<1>6. WaitedFor'
  BY <1>1, <1>4 DEF MacroInv, CaseInv, WaitedFor, Ended
<1>7. Started = Procs
  <2>1. CASE waited = 0
    BY <1>1, <2>1, FS_EmptySet, StartedProcs DEF MacroInv
  <2>2. CASE waited # 0
    BY <2>2 DEF MacroInv, CaseInv, WaitedFor
  <2> QED  BY <2>1, <2>2
<1>8. \A p \in Procs : Ended(p)
  <2>1. Len(processes) = waited
    BY <1>1, <1>7, ListIsWhole DEF MacroInv, CaseInv
  <2> QED  BY <1>7, <2>1, StartedProcs DEF MacroInv, CaseTyped, CaseInv, WaitedFor, Started
<1>9. Over'
  BY <1>1, <1>8 DEF Over, Ended
<1>10. S = {p \in Procs : proc[p] = "success"}
  BY <1>7 DEF MacroInv, CaseInv, OwnFiles, Valid
<1>11. /\ IsFiniteSet(S) /\ Cardinality(S) \in Nat
       /\ Cardinality(S) + Cardinality(Procs \ S) = Cardinality(Procs)
  <2>1. IsFiniteSet(S) /\ Procs \cap S = S
    BY FS_Subset
  <2> HIDE DEF S
  <2>2. Cardinality(Procs \ S) = Cardinality(Procs) - Cardinality(S)
    BY <2>1, FS_Difference
  <2> QED  BY <2>1, <2>2, FS_CardinalityType
<1>12. program = "berkeley_bench" => real_bytes(S) = Received(S)
  <2> HAVE program = "berkeley_bench"
  <2>1. \A p \in S : total_bytes[p] \in Nat /\ total_bytes[p] > 0
    BY <1>10 DEF MacroInv, CaseTyped, DownloadInv, GotSome
  <2> HIDE DEF S
  <2>2. (S = {} => Received(S) = 0) /\ (S # {} => Received(S) > 0)
    BY <1>11, <2>1, ReceivedSome
  <2>3. S = {} => Cardinality(S) = 0
    BY FS_EmptySet
  <2> QED  BY <2>2, <2>3 DEF real_bytes
<1>13. CountsOwnRuns'
  <2>1. /\ result'.success = Cardinality(S) /\ result'.failed = Cardinality(Procs \ S)
        /\ result'.bytes = real_bytes(S)
    BY <1>1
  <2>2. Received({p \in Procs : proc[p] = "success"})' = Received(S)
    BY <1>1, <1>10, ReceivedSame
  <2>3. {p \in Procs : proc'[p] = "success"} = S
    BY <1>1, <1>10
  <2> HIDE DEF S
  <2>4. /\ result'.success = Cardinality({p \in Procs : proc'[p] = "success"})
        /\ result'.success + result'.failed = Cardinality(Procs)
    BY <1>11, <2>1, <2>3
  <2>5. program' = "berkeley_bench" => result'.bytes = Received(S)
    BY <1>1, <1>12, <2>1
  <2> QED  BY <2>2, <2>4, <2>5 DEF CountsOwnRuns
<1>14. InterruptStopsBenches'
  BY <1>1 DEF InterruptStopsBenches
<1> QED  BY <1>2, <1>3, <1>5, <1>6, <1>9, <1>13, <1>14 DEF MacroInv, CaseInv

\* A process receives, or ends with its file.
LEMMA BenchStepInv == ASSUME MacroInv, NEW p \in Procs, BenchStep(p) PROVE MacroInv'
<1>1. /\ UNCHANGED <<case, spawned, processes, waited, result>>
      /\ json' = IF program \in Benches /\ proc'[p] # proc[p] /\ proc'[p] \in Verdicts
                 THEN [json EXCEPT ![p] = proc'[p]] ELSE json
  BY DEF BenchStep, Verdicts
<1>2. /\ DownloadInv'
      /\ proc' \in [Procs -> States] /\ total_bytes' \in [Procs -> Nat]
      /\ inFlight' \in [Procs -> Nat] /\ program' = program
      /\ server' \in [Procs -> {"none", "sending", "closed", "reset"}]
      /\ \A q \in Procs : proc'[q] # proc[q] =>
           q = p /\ proc[p] \in {"connecting", "reading"} /\ proc'[p] \in {"reading"} \cup Verdicts
      /\ \A q \in Procs : total_bytes'[q] # total_bytes[q] => proc[q] = "reading"
  BY DownloadStep DEF MacroInv, BenchStep
<1>3. CaseTyped'
  BY <1>1, <1>2 DEF MacroInv, CaseTyped, Verdicts
<1>4. Started' = Started
  BY <1>1 DEF Started
<1>5. \A q \in Procs : Ended(q) => proc'[q] = proc[q] /\ total_bytes'[q] = total_bytes[q]
  BY <1>2 DEF Ended
<1>6. Known'
  BY <1>1, <1>2, <1>4 DEF MacroInv, CaseInv, Known
<1>7. OwnFiles'
  <2>1. case = "none" => Started = {}
    BY StartedProcs DEF MacroInv, CaseInv, Known, Started
  <2>2. ASSUME NEW q \in Started \cup spawned
        PROVE  json'[q] # "stale" /\ (json'[q] = "success" <=> proc'[q] = "success")
    <3>1. q \in Procs /\ program \in Benches
      BY <2>1, StartedProcs DEF MacroInv, CaseTyped, CaseInv, Known
    <3>2. json[q] # "stale" /\ (json[q] = "success" <=> proc[q] = "success")
      BY DEF MacroInv, CaseInv, OwnFiles
    <3>3. CASE proc'[q] = proc[q]
      BY <1>1, <3>1, <3>2, <3>3 DEF MacroInv, CaseTyped
    <3>4. CASE proc'[q] # proc[q]
      BY <1>1, <1>2, <3>1, <3>2, <3>4 DEF MacroInv, CaseTyped, Verdicts
    <3> QED  BY <3>3, <3>4
  <2> QED  BY <1>1, <1>4, <2>2 DEF OwnFiles
<1>8. WaitedFor'
  <2>1. WaitedFor
    BY DEF MacroInv, CaseInv
  <2>2. \A i \in 1 .. waited : processes[i] \in Procs
    BY <2>1, StartedProcs DEF MacroInv, CaseTyped, WaitedFor
  <2>3. \A i \in 1 .. waited : Ended(processes[i])'
    BY <1>1, <1>5, <2>1, <2>2 DEF WaitedFor, Ended
  <2> QED  BY <1>1, <1>4, <2>1, <2>3 DEF WaitedFor
<1>9. Over'
  BY <1>1, <1>5 DEF MacroInv, CaseInv, Over, Ended
<1>10. CountsOwnRuns'
  <2> SUFFICES ASSUME case = "done" PROVE CountsOwnRuns'
    BY <1>1 DEF CountsOwnRuns
  <2>1. \A q \in Procs : proc'[q] = proc[q] /\ total_bytes'[q] = total_bytes[q]
    BY <1>5 DEF MacroInv, CaseInv, Over
  <2>2. proc' = proc /\ total_bytes' = total_bytes
    BY <1>2, <2>1 DEF MacroInv, CaseTyped
  <2>3. UNCHANGED Received({q \in Procs : proc[q] = "success"})
    BY <2>2, ReceivedSame
  <2> QED  BY <1>1, <1>2, <2>2, <2>3 DEF MacroInv, CaseInv, CountsOwnRuns
<1>11. InterruptStopsBenches'
  BY <1>1, <1>2 DEF MacroInv, CaseInv, InterruptStopsBenches, Ended
<1> QED  BY <1>2, <1>3, <1>6, <1>7, <1>8, <1>9, <1>10, <1>11 DEF MacroInv, CaseInv

\* A process dies without a file.
LEMMA BenchDiesInv == ASSUME MacroInv, NEW p \in Procs, BenchDies(p) PROVE MacroInv'
<1>1. /\ proc[p] \in {"connecting", "reading"} /\ upset' = upset \cup {p}
      /\ proc' = [proc EXCEPT ![p] = "killed"]
      /\ UNCHANGED <<program, total_bytes, server, inFlight,
                     case, spawned, processes, waited, result>>
  BY DEF BenchDies, Fault
<1>2. PICK j \in {json[p], "empty"} : json' = [json EXCEPT ![p] = j]
  BY DEF BenchDies
<1>3. CaseTyped'
  BY <1>1, <1>2 DEF MacroInv, CaseTyped, States
<1>4. DownloadInv'
  BY <1>1 DEF MacroInv, CaseTyped, DownloadInv, Served, GotSome, NoFalseFailure
<1>5. Started' = Started
  BY <1>1 DEF Started
<1>6. Known' /\ OwnFiles'
  BY <1>1, <1>2, <1>5, StartedProcs DEF MacroInv, CaseTyped, CaseInv, Known, OwnFiles
<1>7. WaitedFor'
  <2>1. WaitedFor
    BY DEF MacroInv, CaseInv
  <2>2. \A i \in 1 .. waited : processes[i] # p
    BY <1>1, <2>1 DEF WaitedFor, Ended
  <2>3. \A i \in 1 .. waited : processes[i] \in Procs
    BY <2>1, StartedProcs DEF MacroInv, CaseTyped, WaitedFor
  <2>4. \A q \in Procs \ {p} : proc'[q] = proc[q]
    BY <1>1 DEF MacroInv, CaseTyped
  <2>5. \A i \in 1 .. waited : Ended(processes[i])'
    BY <1>1, <2>1, <2>2, <2>3, <2>4 DEF WaitedFor, Ended
  <2> QED  BY <1>1, <1>5, <2>1, <2>5 DEF WaitedFor
<1>8. InterruptStopsBenches'
  BY <1>1 DEF MacroInv, CaseTyped, CaseInv, InterruptStopsBenches, Ended
<1>9. case # "done"
  BY <1>1 DEF MacroInv, CaseInv, Over, Ended
<1>10. Over' /\ CountsOwnRuns'
  BY <1>1, <1>9 DEF Over, CountsOwnRuns
<1> QED  BY <1>3, <1>4, <1>6, <1>7, <1>8, <1>10 DEF MacroInv, CaseInv

\* A client of its own starts, outside of any case.
LEMMA StartInv == ASSUME MacroInv, NEW p \in Procs, Start(p) PROVE MacroInv'
<1>1. /\ case = "none" /\ proc[p] = "off" /\ proc' = [proc EXCEPT ![p] = "connecting"]
      /\ UNCHANGED <<program, total_bytes, server, inFlight, upset, faults,
                     case, spawned, processes, waited, json, result>>
  BY DEF Start, caseVars
<1>2. CaseTyped'
  BY <1>1 DEF MacroInv, CaseTyped, States
<1>3. DownloadInv'
  BY <1>1 DEF MacroInv, CaseTyped, DownloadInv, Served, GotSome, NoFalseFailure
<1>4. Started' = Started /\ Started = {} /\ spawned = {} /\ Len(processes) = 0
  BY <1>1, StartedProcs, EmptySeq DEF MacroInv, CaseInv, Known, Started
<1>5. CaseInv'
  BY <1>1, <1>4 DEF MacroInv, CaseTyped, CaseInv, Known, OwnFiles, WaitedFor, Over, CountsOwnRuns,
                    InterruptStopsBenches
<1> QED  BY <1>2, <1>3, <1>5 DEF MacroInv

\* Every step of the case preserves it.
LEMMA CaseStepInv == MacroInv /\ [CaseNext]_macroVars => MacroInv'
<1> SUFFICES ASSUME MacroInv, [CaseNext]_macroVars PROVE MacroInv'
  OBVIOUS
<1>1. CASE UNCHANGED macroVars
  BY <1>1 DEF macroVars, caseVars, receiverVars, MacroInv, CaseTyped, DownloadInv, Served, GotSome,
              NoFalseFailure, CaseInv, Known, Started, OwnFiles, WaitedFor, Over, Ended,
              CountsOwnRuns, Received, MapThenSumSet, MapThenFoldSet, InterruptStopsBenches
<1>2. CASE CaseNext
  BY <1>2, StartRaisesInv, AppendInv, WaitInv, InterruptInv, AccountInv, StartBenchInv,
     StartInv, BenchStepInv, BenchDiesInv DEF CaseNext
<1> QED  BY <1>1, <1>2

\* Whatever part of the evaluation a behaviour is of, the case goes its way.
LEMMA CaseInvariant == AnySpec => []MacroInv
<1>1. AnyInit => MacroInv
  BY CaseInitInv DEF AnyInit
<1>2. MacroInv /\ [AnyNext]_<<part, macroVars, measureVars, reportVars>> => MacroInv'
  BY CaseStepInv DEF AnyNext
<1> QED  BY <1>1, <1>2, PTL DEF AnySpec

-----------------------------------------------------------------------------
(* What it counts, and whom an interrupt leaves.                            *)

\* Whatever the program, a download that was served to its end is a success: a
\* process that has failed is one to which something happened (but for bsd's
\* tcpclient, which does not retry an interrupted recv, and for an empty file).
THEOREM FailuresAreFailures == AnySpec => []NoFalseFailure
<1>1. MacroInv => NoFalseFailure
  BY DEF MacroInv, DownloadInv
<1> QED  BY <1>1, CaseInvariant, PTL

\* What run_macro_bench_case returns is what its own processes came to: neither
\* a file of an earlier run nor one that was not written counts, whichever order
\* the benches end in and whatever happens to them.
THEOREM CaseIsCounted == AnySpec => []CountsOwnRuns
<1>1. MacroInv => CountsOwnRuns
  BY DEF MacroInv, CaseInv
<1> QED  BY <1>1, CaseInvariant, PTL

\* KeyboardInterrupt stops every bench of the list, so that only one that Popen
\* had started and nobody had appended yet can go on.
THEOREM InterruptLeavesOne == AnySpec => []InterruptStopsBenches
<1>1. MacroInv => InterruptStopsBenches
  BY DEF MacroInv, CaseInv
<1> QED  BY <1>1, CaseInvariant, PTL

HIDE ReceiversAssumption

USE EnergyAssumption, MeasurementsAssumption

-----------------------------------------------------------------------------
(* The largest element, and sums.                                           *)

\* The largest element of a set of numbers up to n.
LEMMA LargestIndex ==
  ASSUME NEW n \in Nat, NEW t \in SUBSET (1..n), t # {}
  PROVE  Max(t) \in t /\ \A y \in t : y <= Max(t)
<1>0. \A x \in t : x \in Nat /\ n - x \in Nat
  <2>1. \A x \in t : x \in 1..n
    OBVIOUS
  <2>2. \A x \in 1..n : x \in Nat /\ n - x \in Nat
    OBVIOUS
  <2> QED  BY <2>1, <2>2
<1> DEFINE T == {n - x : x \in t}
<1>1. PICK m \in T : \A y \in T : m <= y
  <2>1. T \in SUBSET Nat /\ T # {}
    BY <1>0
  <2> HIDE DEF T
  <2> QED  BY <2>1, Smallest
<1>2. PICK x \in t : m = n - x
  BY <1>1
<1>3. \A y \in t : n - y \in T
  OBVIOUS
<1>4. \A y \in t : x >= y
  <2> SUFFICES ASSUME NEW y \in t PROVE x >= y
    OBVIOUS
  <2>1. n - x <= n - y
    BY <1>1, <1>2, <1>3
  <2> QED  BY <1>0, <2>1
<1>5. PICK z \in t : z = Max(t) /\ \A y \in t : z >= y
  BY <1>4, Zenon DEF Max
<1> QED  BY <1>0, <1>5

\* The largest of the first k numbers.
LEMMA LargestOfAll == ASSUME NEW k \in Nat \ {0} PROVE Max(1..k) = k
<1>1. 1..k \in SUBSET (1..k) /\ k \in 1..k
  OBVIOUS
<1>2. Max(1..k) \in 1..k /\ k <= Max(1..k)
  BY <1>1, LargestIndex
<1> QED  BY <1>2

\* g adds up the elements of s with the indices in each set of D, the one with
\* the largest index last, as FoldLeft does.
Adds(g, s, D) == g = [t \in D |-> IF t = {} THEN 0 ELSE g[t \ {Max(t)}] + s[Max(t)]]

\* The function that a sum over a set of indices is made of.
LEMMA AddsExist == ASSUME NEW s, NEW n \in Nat PROVE \E g : Adds(g, s, SUBSET (1..n))
<1> DEFINE G == {k \in Nat : \E g : Adds(g, s, SUBSET (1..k))}
<1>1. 0 \in G
  <2>1. \A t \in SUBSET (1..0) : t = {}
    OBVIOUS
  <2>2. Adds([t \in SUBSET (1..0) |-> 0], s, SUBSET (1..0))
    BY <2>1 DEF Adds
  <2> QED  BY <2>2
<1>2. ASSUME NEW k \in Nat, k \in G PROVE k + 1 \in G
  <2>1. PICK g : Adds(g, s, SUBSET (1..k))
    BY <1>2
  <2> DEFINE D == SUBSET (1..k + 1)
             h == [t \in D |-> IF t = {} THEN 0 ELSE g[t \ {Max(t)}] + s[Max(t)]]
  <2>2. \A t \in SUBSET (1..k) : t \in D /\ h[t] = g[t]
    <3>1. \A t \in SUBSET (1..k) : t \in D
      OBVIOUS
    <3>2. \A t \in SUBSET (1..k) : g[t] = IF t = {} THEN 0 ELSE g[t \ {Max(t)}] + s[Max(t)]
      BY <2>1, Zenon DEF Adds
    <3> HIDE DEF D
    <3> QED  BY <3>1, <3>2, Zenon
  <2>3. \A t \in D : t # {} => t \ {Max(t)} \in SUBSET (1..k)
    <3> SUFFICES ASSUME NEW t \in D, t # {}, NEW y \in t \ {Max(t)} PROVE y \in 1..k
      OBVIOUS
    <3>1. Max(t) \in t /\ y <= Max(t) /\ y # Max(t)
      <4>1. k + 1 \in Nat /\ t \in SUBSET (1..k + 1)
        OBVIOUS
      <4> HIDE DEF D
      <4>2. Max(t) \in t /\ \A x \in t : x <= Max(t)
        BY <4>1, LargestIndex
      <4> QED  BY <4>2
    <3>2. y \in 1..k + 1 /\ Max(t) \in 1..k + 1
      BY <3>1
    <3> QED  BY <3>1, <3>2
  <2>4. DOMAIN h = D /\ h = [t \in DOMAIN h |-> h[t]]
    OBVIOUS
  <2>5. \A t \in D : h[t] = IF t = {} THEN 0 ELSE g[t \ {Max(t)}] + s[Max(t)]
    OBVIOUS
  <2> HIDE DEF h, D
  <2>6. \A t \in D : h[t] = IF t = {} THEN 0 ELSE h[t \ {Max(t)}] + s[Max(t)]
    BY <2>2, <2>3, <2>5, Zenon
  <2>7. Adds(h, s, D)
    BY <2>4, <2>6 DEF Adds
  <2> QED  BY <2>7 DEF D
<1> HIDE DEF G
<1>3. n \in G
  BY <1>1, <1>2, AllNaturals
<1> QED  BY <1>3 DEF G

Sum(s) == FoldLeft(LAMBDA a, b : a + b, 0, s)

\* A sum is made from the first element on.
Makes(g, n, s) ==
  /\ Sum(s) = g[1..n] /\ g[1..0] = 0
  /\ \A k \in Nat : k + 1 <= n => k + 1 \in 1..n /\ g[1..k + 1] = g[1..k] + s[k + 1]

\* The function that a sum over a list is made of.
LEMMA SumMade == ASSUME NEW n \in Nat, NEW s \in [1..n -> Int] PROVE \E g : Makes(g, n, s)
<1>1. Sum(s) = (CHOOSE g : Adds(g, s, SUBSET (1..n)))[1..n]
  <2>1. DOMAIN s = 1..n
    OBVIOUS
  <2>2. Sum(s) = (CHOOSE g : Adds(g, s, SUBSET DOMAIN s))[DOMAIN s]
    BY DEF Sum, FoldLeft, MapThenFoldSet, Adds
  <2> QED  BY <2>1, <2>2
<1>2. PICK g : Adds(g, s, SUBSET (1..n)) /\ Sum(s) = g[1..n]
  BY <1>1, AddsExist
<1>3. \A t \in SUBSET (1..n) : g[t] = IF t = {} THEN 0 ELSE g[t \ {Max(t)}] + s[Max(t)]
  BY <1>2, Zenon DEF Adds
<1>4. g[1..0] = 0
  <2>1. 1..0 = {} /\ {} \in SUBSET (1..n)
    OBVIOUS
  <2> QED  BY <1>3, <2>1
<1>5. ASSUME NEW k \in Nat, k + 1 <= n
      PROVE  k + 1 \in 1..n /\ g[1..k + 1] = g[1..k] + s[k + 1]
  <2>1. /\ 1..k + 1 \in SUBSET (1..n) /\ 1..k + 1 # {} /\ k + 1 \in 1..n
        /\ (1..k + 1) \ {k + 1} = 1..k
    <3>1. \A x : x \in 1..k + 1 => x \in 1..n
      BY <1>5
    <3>2. k + 1 \in 1..k + 1 /\ k + 1 \in 1..n
      BY <1>5
    <3>3. \A x : x \in (1..k + 1) \ {k + 1} <=> x \in 1..k
      OBVIOUS
    <3> QED  BY <3>1, <3>2, <3>3
  <2>2. Max(1..k + 1) = k + 1
    BY LargestOfAll
  <2> QED  BY <1>3, <2>1, <2>2
<1> QED  BY <1>2, <1>4, <1>5 DEF Makes

\* A sum lies between as many times a lower and an upper bound of its elements.
LEMMA SumBounds ==
  ASSUME NEW n \in Nat, NEW s \in [1..n -> Int], NEW lo \in Int, NEW hi \in Int,
         \A i \in 1..n : lo <= s[i] /\ s[i] <= hi
  PROVE  Sum(s) \in Int /\ n * lo <= Sum(s) /\ Sum(s) <= n * hi
<1>1. PICK g : Makes(g, n, s)
  BY SumMade
<1> DEFINE G == {k \in Nat : k <= n => /\ g[1..k] \in Int
                                       /\ k * lo <= g[1..k] /\ g[1..k] <= k * hi}
<1>2. 0 \in G
  BY <1>1 DEF Makes
<1>3. ASSUME NEW k \in Nat, k \in G PROVE k + 1 \in G
  <2> SUFFICES ASSUME k + 1 <= n
               PROVE  /\ g[1..k + 1] \in Int
                      /\ (k + 1) * lo <= g[1..k + 1] /\ g[1..k + 1] <= (k + 1) * hi
    OBVIOUS
  <2> DEFINE a == g[1..k]
             x == s[k + 1]
             u == k * lo
             w == k * hi
  <2>1. g[1..k + 1] = a + x /\ k + 1 \in 1..n
    BY <1>1 DEF Makes
  <2>2. a \in Int /\ u <= a /\ a <= w
    BY <1>3
  <2>3. (k + 1) * lo = u + lo /\ (k + 1) * hi = w + hi
    OBVIOUS
  <2>4. x \in Int /\ lo <= x /\ x <= hi
    BY <2>1
  <2>5. u \in Int /\ w \in Int
    OBVIOUS
  <2> HIDE DEF a, x, u, w
  <2>6. a + x \in Int /\ u + lo <= a + x /\ a + x <= w + hi
    BY <2>2, <2>4, <2>5
  <2> QED  BY <2>1, <2>3, <2>6
<1> HIDE DEF G
<1>4. n \in G
  BY <1>2, <1>3, AllNaturals
<1> QED  BY <1>1, <1>4 DEF G, Makes

\* Two sums, each with one more term.
LEMMA BothSums ==
  ASSUME NEW a \in Int, NEW b \in Int, NEW x \in Int, NEW y \in Int, NEW u \in Int, NEW c \in Int,
         a + b = u, x + y = c
  PROVE  (a + x) + (b + y) = u + c
OBVIOUS

\* What two lists have in each place is as much in all places.
LEMMA SumOfBoth ==
  ASSUME NEW n \in Nat, NEW s \in [1..n -> Int], NEW t \in [1..n -> Int], NEW c \in Int,
         \A i \in 1..n : s[i] + t[i] = c
  PROVE  Sum(s) + Sum(t) = n * c
<1>1. PICK g : Makes(g, n, s)
  BY SumMade
<1>2. PICK h : Makes(h, n, t)
  BY SumMade
<1> DEFINE G == {k \in Nat : k <= n => /\ g[1..k] \in Int /\ h[1..k] \in Int
                                       /\ g[1..k] + h[1..k] = k * c}
<1>3. 0 \in G
  BY <1>1, <1>2 DEF Makes
<1>4. ASSUME NEW k \in Nat, k \in G PROVE k + 1 \in G
  <2> SUFFICES ASSUME k + 1 <= n
               PROVE  /\ g[1..k + 1] \in Int /\ h[1..k + 1] \in Int
                      /\ g[1..k + 1] + h[1..k + 1] = (k + 1) * c
    OBVIOUS
  <2> DEFINE a == g[1..k]
             b == h[1..k]
             x == s[k + 1]
             y == t[k + 1]
             u == k * c
  <2>1. g[1..k + 1] = a + x /\ h[1..k + 1] = b + y /\ k + 1 \in 1..n
    BY <1>1, <1>2 DEF Makes
  <2>2. a \in Int /\ b \in Int /\ a + b = u
    BY <1>4
  <2>3. (k + 1) * c = u + c /\ u \in Int
    OBVIOUS
  <2>4. x \in Int /\ y \in Int /\ x + y = c
    BY <2>1
  <2> HIDE DEF a, b, x, y, u
  <2>5. a + x \in Int /\ b + y \in Int
    BY <2>2, <2>4
  <2>6. (a + x) + (b + y) = u + c
    BY <2>2, <2>3, <2>4, BothSums
  <2> QED  BY <2>1, <2>3, <2>5, <2>6
<1> HIDE DEF G
<1>5. n \in G
  BY <1>3, <1>4, AllNaturals
<1> QED  BY <1>1, <1>2, <1>5 DEF G, Makes

-----------------------------------------------------------------------------
(* The inductive invariant of the energy.                                   *)

Result == [elapsed : Nat, raw : Nat, load : Nat, net : Int]

Typed ==
  /\ counter \in 0..MaxRange /\ window \in {"none", "idle", "case"} /\ e1 \in 0..MaxRange
  /\ elapsed \in Nat /\ used \in Nat /\ samples \in Seq(Nat)
  /\ baseline \in {"absent", "unreadable", "written"} /\ settled \in BOOLEAN
  /\ results \in Seq(Result)

\* The energy of the window, and the counter, which has turned at most once.
Real == IdlePower * elapsed + used

Follows == counter = e1 + Real \/ counter + MaxRange + 1 = e1 + Real

InWindow ==
  /\ window # "none" => Follows
  /\ window = "idle" => elapsed <= SAMPLE_SECONDS /\ used = 0
  /\ window = "case" => elapsed <= MaxSeconds /\ Real * MaxSeconds <= MaxRange * elapsed

\* The idle measurement is over before the first case begins, and is not
\* repeated: no case has the one baseline and is judged by the other.
IdleFirst ==
  /\ window = "idle" => ~settled /\ results = <<>> /\ Len(samples) < REPETITIONS
  /\ window = "case" => settled
  /\ baseline = "written" => Len(samples) = REPETITIONS
  /\ settled \/ results # <<>> => samples = <<>> \/ baseline = "written"

\* A sample misses at most the microjoule of a turn.
Sampled ==
  \A i \in DOMAIN samples :
    /\ IdlePower * SAMPLE_SECONDS - 1 <= samples[i]
    /\ samples[i] <= IdlePower * SAMPLE_SECONDS

EnergyInv == Typed /\ InWindow /\ IdleFirst /\ Sampled /\ EnergyIsTheLoads

-----------------------------------------------------------------------------
(* The arithmetic.                                                          *)

\* A larger factor makes a product at least as large.
LEMMA Times ==
  ASSUME NEW a \in Int, NEW b \in Int, NEW c \in Nat, a <= b
  PROVE  a * c <= b * c /\ c * a <= c * b
OBVIOUS

\* The remainder of a number that is less than twice the modulus.
LEMMA TurnsOnce ==
  ASSUME NEW m \in Nat \ {0}, NEW a \in Nat, a < m + m
  PROVE  a % m = IF a < m THEN a ELSE a - m
OBVIOUS

\* energy_delta is the energy of the window, but for the microjoule of a turn.
LEMMA Delta ==
  ASSUME Typed, Follows, Real \in 0..MaxRange
  PROVE  /\ energy_delta(e1, counter) \in Nat
         /\ energy_delta(e1, counter) \in {Real, Real - 1}
BY DEF Typed, Follows, energy_delta

\* The counter follows the energy of a window that is at most one turn.
LEMMA StillFollows ==
  ASSUME Typed, Follows, Real \in Nat, NEW more \in Nat, Real + more <= MaxRange,
         counter' = Turned(counter, more), e1' = e1, Real' = Real + more
  PROVE  counter' \in 0..MaxRange /\ Follows'
<1>1. counter \in Nat /\ e1 \in Nat /\ e1 <= MaxRange /\ counter <= MaxRange
  BY DEF Typed
<1>2. counter' = IF counter + more < MaxRange + 1 THEN counter + more
                 ELSE (counter + more) - (MaxRange + 1)
  <2> DEFINE M == MaxRange + 1
             c == counter + more
  <2>1. M \in Nat \ {0} /\ c \in Nat /\ c < M + M
    BY <1>1
  <2>2. counter' = c % M
    BY DEF Turned
  <2> HIDE DEF M, c
  <2>3. c % M = IF c < M THEN c ELSE c - M
    BY <2>1, TurnsOnce
  <2>4. counter' = IF c < M THEN c ELSE c - M
    BY <2>2, <2>3
  <2> QED  BY <2>4 DEF M, c
<1> QED  BY <1>1, <1>2 DEF Follows

\* energy_net, with a baseline that is the idle energy of scale seconds but for
\* a microjoule for each of n turns, and without.
LEMMA NetOfLoad ==
  ASSUME NEW power \in Int, NEW idle \in Nat, NEW seconds \in Nat, NEW load \in Nat,
         NEW scale \in Nat \ {0}, NEW n \in Nat, NEW raw \in Nat,
         raw \in {idle * seconds + load, idle * seconds + load - 1},
         idle * scale - n <= power, power <= idle * scale
  PROVE  LET net == energy_net(raw, power, seconds, scale)
         IN  /\ net \in Int
             /\ net >= (load - 1) * scale /\ net <= load * scale + n * seconds
<1> DEFINE all == idle * seconds
           A == all * scale
<1>1. all \in Nat /\ A \in Nat
  OBVIOUS
<1>2. /\ (all + load - 1) * scale <= raw * scale
      /\ raw * scale <= (all + load) * scale
  <2> HIDE DEF all
  <2> QED  BY <1>1, Times DEF all
<1>3. /\ (all + load - 1) * scale = A + (load - 1) * scale
      /\ (all + load) * scale = A + load * scale
  <2> HIDE DEF all
  <2> QED  BY <1>1
<1>4. /\ (idle * scale - n) * seconds <= power * seconds
      /\ power * seconds <= (idle * scale) * seconds
  BY Times
<1>5. (idle * scale - n) * seconds = A - n * seconds /\ (idle * scale) * seconds = A
  <2>1. (idle * scale) * seconds = A
    OBVIOUS
  <2>2. (idle * scale - n) * seconds = (idle * scale) * seconds - n * seconds
    OBVIOUS
  <2> QED  BY <2>1, <2>2
<1> DEFINE rs == raw * scale
           ps == power * seconds
           ns == n * seconds
           ls == load * scale
<1>6. rs \in Int /\ ps \in Int /\ ns \in Nat /\ ls \in Nat /\ (load - 1) * scale = ls - scale
  OBVIOUS
<1>7. energy_net(raw, power, seconds, scale) = IF rs > ps THEN rs - ps ELSE 0
  BY DEF energy_net
<1> HIDE DEF A, rs, ps, ns, ls, all
<1>8. A + ls - scale <= rs /\ rs <= A + ls /\ A - ns <= ps /\ ps <= A
  BY <1>2, <1>3, <1>4, <1>5, <1>6 DEF rs, ps, ns, ls
<1>9. /\ energy_net(raw, power, seconds, scale) >= ls - scale
      /\ energy_net(raw, power, seconds, scale) <= ls + ns
      /\ energy_net(raw, power, seconds, scale) \in Int
  BY <1>1, <1>6, <1>7, <1>8
<1> QED  BY <1>6, <1>9 DEF ls, ns

\* Without a baseline all energy of the window is the load's.
LEMMA GrossOfLoad ==
  ASSUME NEW seconds \in Nat, NEW real \in Nat, NEW scale \in Nat \ {0}, NEW n \in Nat,
         NEW raw \in Nat, raw \in {real, real - 1}
  PROVE  LET net == energy_net(raw, 0, seconds, scale)
         IN  /\ net \in Int
             /\ net >= (real - 1) * scale /\ net <= real * scale + n * seconds
<1>1. raw * scale \in Nat /\ n * seconds \in Nat /\ 0 * seconds = 0
  OBVIOUS
<1>2. energy_net(raw, 0, seconds, scale) = raw * scale
  <2> DEFINE rs == raw * scale
  <2> HIDE DEF rs
  <2> QED  BY <1>1 DEF rs, energy_net
<1>3. (real - 1) * scale <= raw * scale /\ raw * scale <= real * scale
  BY Times
<1> QED  BY <1>1, <1>2, <1>3

-----------------------------------------------------------------------------
(* Every action preserves it.                                               *)

\* A step that leaves the results and the choice of the baseline alone leaves
\* the energies as right as they were.
LEMMA SameResults ==
  ASSUME EnergyIsTheLoads, results' = results, baseline' = baseline
  PROVE  EnergyIsTheLoads'
BY DEF EnergyIsTheLoads, Scale

\* Nothing has been measured.
LEMMA MeasureBegins == MeasureInit => EnergyInv
<1> SUFFICES ASSUME MeasureInit PROVE EnergyInv
  OBVIOUS
<1>1. samples = <<>> /\ results = <<>> /\ window = "none" /\ ~settled /\ baseline # "written"
  BY DEF MeasureInit
<1>2. Typed
  <2>1. e1 = 0 /\ 0 \in 0..MaxRange
    BY DEF MeasureInit
  <2>2. elapsed \in Nat /\ used \in Nat /\ settled \in BOOLEAN
    BY DEF MeasureInit
  <2>3. samples \in Seq(Nat) /\ results \in Seq(Result)
    BY <1>1
  <2>4. counter \in 0..MaxRange /\ baseline \in {"absent", "unreadable", "written"}
    BY DEF MeasureInit
  <2> QED  BY <1>1, <2>1, <2>2, <2>3, <2>4, Zenon DEF Typed
<1>3. InWindow
  BY <1>1 DEF InWindow
<1>4. IdleFirst
  BY <1>1 DEF IdleFirst
<1>5. Sampled
  BY <1>1 DEF Sampled
<1>6. EnergyIsTheLoads
  BY <1>1 DEF EnergyIsTheLoads
<1> QED  BY <1>2, <1>3, <1>4, <1>5, <1>6 DEF EnergyInv

\* The energy of a window is at most one turn.
LEMMA OneTurn ==
  ASSUME Typed, InWindow, window # "none"
  PROVE  Real \in 0..MaxRange
<1>1. elapsed \in Nat /\ used \in Nat /\ Real \in Nat
  BY DEF Typed, Real
<1>2. CASE window = "idle"
  <2>1. elapsed <= SAMPLE_SECONDS /\ Real = IdlePower * elapsed
    <3>1. used = 0 /\ elapsed <= SAMPLE_SECONDS
      BY <1>2 DEF InWindow
    <3> QED  BY <1>1, <3>1 DEF Real
  <2>2. IdlePower * elapsed <= IdlePower * SAMPLE_SECONDS
    BY <1>1, <2>1, Times
  <2> QED  BY <1>1, <2>1, <2>2
<1>3. CASE window = "case"
  <2> DEFINE r == Real
             top == MaxRange * MaxSeconds
  <2>1. elapsed <= MaxSeconds /\ r * MaxSeconds <= MaxRange * elapsed
    BY <1>3 DEF InWindow
  <2>2. MaxRange * elapsed <= top
    BY <1>1, <2>1, Times
  <2>3. r * MaxSeconds <= top
    BY <1>1, <2>1, <2>2
  <2>4. r <= MaxRange
    <3> SUFFICES ASSUME MaxRange + 1 <= r PROVE FALSE
      BY <1>1
    <3>1. (MaxRange + 1) * MaxSeconds <= r * MaxSeconds
      BY <1>1, Times
    <3>2. (MaxRange + 1) * MaxSeconds = top + MaxSeconds
      OBVIOUS
    <3>3. r * MaxSeconds \in Int /\ top \in Int
      BY <1>1
    <3> HIDE DEF top, r
    <3> QED  BY <2>3, <3>1, <3>2, <3>3
  <2> QED  BY <1>1, <2>4
<1> QED  BY <1>2, <1>3 DEF Typed

\* A second of the idle measurement.
LEMMA SleepKeeps == ASSUME EnergyInv, Sleep PROVE EnergyInv'
<1> USE DEF EnergyInv
<1>1. /\ window = "idle" /\ elapsed < SAMPLE_SECONDS /\ used = 0 /\ elapsed \in Nat
      /\ counter' = Turned(counter, IdlePower) /\ elapsed' = elapsed + 1 /\ used' = used
      /\ UNCHANGED <<window, e1, samples, baseline, settled, results, summary>>
  BY DEF Sleep, Second, InWindow, Typed
<1>2. Real = IdlePower * elapsed /\ Real' = Real + IdlePower /\ Real \in Nat
  <2>1. IdlePower * (elapsed + 1) = IdlePower * elapsed + IdlePower
    BY <1>1
  <2> QED  BY <1>1, <2>1 DEF Real
<1>3. Real + IdlePower <= MaxRange
  <2>1. IdlePower * (elapsed + 1) <= IdlePower * SAMPLE_SECONDS
    BY <1>1, Times
  <2>2. IdlePower * (elapsed + 1) = Real + IdlePower
    BY <1>1, <1>2
  <2> QED  BY <1>2, <2>1, <2>2
<1>4. counter' \in 0..MaxRange /\ Follows'
  BY <1>1, <1>2, <1>3, StillFollows DEF InWindow
<1>5. Typed' /\ InWindow' /\ IdleFirst' /\ Sampled'
  BY <1>1, <1>4 DEF Typed, InWindow, IdleFirst, Sampled
<1>6. EnergyIsTheLoads'
  BY <1>1, SameResults
<1> QED  BY <1>5, <1>6

\* A second of a case.
LEMMA WorkKeeps == ASSUME EnergyInv, Work PROVE EnergyInv'
<1> USE DEF EnergyInv
<1>1. PICK l \in Loads : Second(l)
  BY DEF Work
<1>2. /\ window = "case" /\ elapsed < MaxSeconds /\ elapsed \in Nat /\ used \in Nat /\ l \in Nat
      /\ counter' = Turned(counter, IdlePower + l) /\ elapsed' = elapsed + 1 /\ used' = used + l
      /\ UNCHANGED <<window, e1, samples, baseline, settled, results, summary>>
  BY <1>1 DEF Work, Second, Typed
<1>3. Real' = Real + (IdlePower + l) /\ Real \in Nat /\ Real' \in Nat
  <2>1. IdlePower * (elapsed + 1) = IdlePower * elapsed + IdlePower
    BY <1>2
  <2> QED  BY <1>2, <2>1 DEF Real
<1>4. Real' * MaxSeconds <= MaxRange * elapsed'
  <2> DEFINE r == Real
             p == IdlePower + l
  <2>1. p * MaxSeconds <= MaxRange /\ p \in Nat
    BY <1>2
  <2>2. (r + p) * MaxSeconds = r * MaxSeconds + p * MaxSeconds
    BY <1>3, <2>1
  <2>3. MaxRange * (elapsed + 1) = MaxRange * elapsed + MaxRange
    BY <1>2
  <2>4. r * MaxSeconds <= MaxRange * elapsed
    BY <1>2 DEF InWindow
  <2>5. r * MaxSeconds \in Nat /\ p * MaxSeconds \in Nat /\ MaxRange * elapsed \in Nat
    BY <1>2, <1>3, <2>1
  <2>6. Real' = r + p
    BY <1>3
  <2> HIDE DEF r, p
  <2>7. (r + p) * MaxSeconds <= MaxRange * (elapsed + 1)
    BY <2>1, <2>2, <2>3, <2>4, <2>5
  <2> QED  BY <1>2, <2>6, <2>7
<1>5. elapsed' <= MaxSeconds
  BY <1>2
<1>6. Real' <= MaxRange
  <2> DEFINE r == Real'
             top == MaxRange * MaxSeconds
  <2>1. MaxRange * elapsed' <= top
    BY <1>2, <1>5, Times
  <2> SUFFICES ASSUME MaxRange + 1 <= r PROVE FALSE
    BY <1>3
  <2>2. (MaxRange + 1) * MaxSeconds <= r * MaxSeconds
    BY <1>3, Times
  <2>3. (MaxRange + 1) * MaxSeconds = top + MaxSeconds
    OBVIOUS
  <2>4. r * MaxSeconds \in Int /\ top \in Int /\ MaxRange * elapsed' \in Int
    BY <1>2, <1>3
  <2> HIDE DEF top, r
  <2> QED  BY <1>4, <2>1, <2>2, <2>3, <2>4 DEF r
<1>7. counter' \in 0..MaxRange /\ Follows'
  BY <1>2, <1>3, <1>6, StillFollows DEF InWindow
<1>8. Typed' /\ InWindow' /\ IdleFirst' /\ Sampled'
  BY <1>2, <1>4, <1>5, <1>7 DEF Typed, InWindow, IdleFirst, Sampled
<1>9. EnergyIsTheLoads'
  BY <1>2, SameResults
<1> QED  BY <1>8, <1>9

\* A window is opened: of the idle measurement before its samples are taken,
\* of a case once it has settled.
LEMMA OpenKeeps ==
  ASSUME EnergyInv, NEW w \in {"idle", "case"}, Open(w),
         w = "idle" => results = <<>> /\ ~settled /\ Len(samples) < REPETITIONS,
         w = "case" => settled
  PROVE  EnergyInv'
<1> USE DEF EnergyInv
<1>1. /\ window' = w /\ e1' = counter /\ elapsed' = 0 /\ used' = 0
      /\ UNCHANGED <<counter, samples, baseline, settled, results, summary>>
  BY DEF Open
<1>2. Typed' /\ IdleFirst' /\ Sampled'
  BY <1>1 DEF Typed, IdleFirst, Sampled
<1>3. counter \in 0..MaxRange /\ IdlePower * 0 + 0 = 0 /\ 0 * MaxSeconds = 0 /\ MaxRange * 0 = 0
  BY DEF Typed
<1>4. Real' = 0
  BY <1>1, <1>3 DEF Real
<1>5. Follows'
  BY <1>1, <1>3, <1>4 DEF Follows
<1>6. elapsed' <= SAMPLE_SECONDS /\ elapsed' <= MaxSeconds
      /\ Real' * MaxSeconds <= MaxRange * elapsed'
  BY <1>1, <1>3, <1>4
<1>7. InWindow'
  BY <1>1, <1>5, <1>6 DEF InWindow
<1>8. EnergyIsTheLoads'
  BY <1>1, SameResults
<1> QED  BY <1>2, <1>7, <1>8

\* A sample of the idle measurement is taken.
LEMMA EndSampleKeeps == ASSUME EnergyInv, EndSample PROVE EnergyInv'
<1> USE DEF EnergyInv
<1> DEFINE raw == energy_delta(e1, counter)
<1>1. /\ window = "idle" /\ elapsed = SAMPLE_SECONDS /\ used = 0 /\ Follows
      /\ samples' = Append(samples, raw) /\ window' = "none"
      /\ UNCHANGED <<counter, e1, elapsed, used, baseline, settled, results, summary>>
  BY DEF EndSample, InWindow
<1>2. Real \in 0..MaxRange
  BY <1>1, OneTurn
<1>3. raw \in Nat /\ raw \in {Real, Real - 1}
  BY <1>1, <1>2, Delta
<1>4. Real = IdlePower * SAMPLE_SECONDS
  <2>1. IdlePower * SAMPLE_SECONDS \in Nat
    OBVIOUS
  <2> QED  BY <1>1, <2>1 DEF Real
<1> HIDE DEF raw
<1>5. /\ samples \in Seq(Nat) /\ ~settled /\ results = <<>> /\ Len(samples) < REPETITIONS
      /\ baseline # "written"
  BY <1>1 DEF Typed, IdleFirst
<1>6. Len(samples') = Len(samples) + 1 /\ samples' \in Seq(Nat)
  BY <1>1, <1>3, <1>5
<1>7. Typed'
  BY <1>1, <1>6 DEF Typed
<1>8. InWindow' /\ IdleFirst'
  BY <1>1, <1>5 DEF InWindow, IdleFirst
<1>9. Sampled'
  <2> SUFFICES ASSUME NEW i \in DOMAIN samples'
               PROVE  /\ IdlePower * SAMPLE_SECONDS - 1 <= samples'[i]
                      /\ samples'[i] <= IdlePower * SAMPLE_SECONDS
    BY DEF Sampled
  <2>1. samples'[i] = IF i \in DOMAIN samples THEN samples[i] ELSE raw
    BY <1>1, <1>3, <1>5
  <2>2. CASE i \in DOMAIN samples
    BY <2>1, <2>2 DEF Sampled
  <2>3. CASE i \notin DOMAIN samples
    <3>1. samples'[i] = raw
      BY <2>1, <2>3
    <3> DEFINE real == IdlePower * SAMPLE_SECONDS
    <3>2. real \in Nat /\ raw \in {real, real - 1}
      BY <1>3, <1>4
    <3> HIDE DEF real
    <3>3. real - 1 <= raw /\ raw <= real
      BY <3>2
    <3> QED  BY <3>1, <3>3 DEF real
  <2> QED  BY <2>2, <2>3
<1>10. EnergyIsTheLoads'
  BY <1>1, SameResults
<1> QED  BY <1>7, <1>8, <1>9, <1>10

\* With the first case the choice of the baseline has been made.
LEMMA WriteBaselineKeeps == ASSUME EnergyInv, WriteBaseline PROVE EnergyInv'
<1> USE DEF EnergyInv
<1>1. /\ window = "none" /\ Len(samples) = REPETITIONS /\ baseline # "written"
      /\ baseline' = "written"
      /\ UNCHANGED <<counter, window, e1, elapsed, used, samples, settled, results, summary>>
  BY DEF WriteBaseline, windowVars
<1>2. results = <<>> /\ ~settled
  <2>1. samples # <<>>
    BY <1>1
  <2> QED  BY <1>1, <2>1 DEF IdleFirst, Typed
<1>3. Typed' /\ InWindow' /\ IdleFirst' /\ Sampled'
  BY <1>1, <1>2 DEF Typed, InWindow, IdleFirst, Sampled
<1>4. EnergyIsTheLoads'
  BY <1>1, <1>2 DEF EnergyIsTheLoads
<1> QED  BY <1>3, <1>4

\* The machine settles before a case.
LEMMA SettleKeeps == ASSUME EnergyInv, settle PROVE EnergyInv'
<1> USE DEF EnergyInv
<1>1. /\ window = "none" /\ ~settled /\ settled' = TRUE
      /\ samples # <<>> => baseline = "written"
      /\ counter' = Turned(counter, IdlePower)
      /\ UNCHANGED <<window, e1, elapsed, used, samples, baseline, results, summary>>
  BY DEF settle, windowVars
<1>2. counter' \in 0..MaxRange
  <2>1. counter + IdlePower \in Nat /\ MaxRange + 1 \in Nat \ {0}
    BY DEF Typed
  <2> DEFINE c == counter + IdlePower
             M == MaxRange + 1
  <2>2. counter' = c % M
    BY <1>1 DEF Turned
  <2> HIDE DEF c, M
  <2>3. c % M \in 0..M - 1
    BY <2>1 DEF c, M
  <2> QED  BY <2>2, <2>3 DEF M
<1>3. Typed' /\ InWindow' /\ IdleFirst' /\ Sampled'
  BY <1>1, <1>2 DEF Typed, InWindow, IdleFirst, Sampled
<1>4. EnergyIsTheLoads'
  BY <1>1, SameResults
<1> QED  BY <1>3, <1>4

\* The written baseline is the idle energy of Scale seconds, but for a
\* microjoule for each turn.
LEMMA BaselineIsIdle ==
  ASSUME Typed, IdleFirst, Sampled, baseline = "written"
  PROVE  /\ IDLE_POWER_W \in Int
         /\ IdlePower * Scale - REPETITIONS <= IDLE_POWER_W
         /\ IDLE_POWER_W <= IdlePower * Scale
<1> DEFINE one == IdlePower * SAMPLE_SECONDS
<1>1. one \in Nat /\ samples \in [1..REPETITIONS -> Int]
  <2>1. samples \in Seq(Nat) /\ Len(samples) = REPETITIONS
    BY DEF Typed, IdleFirst
  <2>2. samples \in [1..REPETITIONS -> Nat]
    BY <2>1
  <2> QED  BY <2>2
<1>2. \A i \in 1..REPETITIONS : one - 1 <= samples[i] /\ samples[i] <= one
  BY <1>1 DEF Sampled
<1>3. IDLE_POWER_W = Sum(samples)
  BY DEF IDLE_POWER_W, Sum
<1> HIDE DEF one
<1>4. /\ Sum(samples) \in Int /\ REPETITIONS * (one - 1) <= Sum(samples)
      /\ Sum(samples) <= REPETITIONS * one
  <2> DEFINE lo == one - 1
  <2>1. lo \in Int /\ one \in Int /\ REPETITIONS \in Nat
    BY <1>1
  <2>2. \A i \in 1..REPETITIONS : lo <= samples[i] /\ samples[i] <= one
    BY <1>2
  <2> HIDE DEF lo
  <2>3. /\ Sum(samples) \in Int /\ REPETITIONS * lo <= Sum(samples)
        /\ Sum(samples) <= REPETITIONS * one
    BY <1>1, <2>1, <2>2, SumBounds
  <2> QED  BY <2>3 DEF lo
<1>5. REPETITIONS * (one - 1) = REPETITIONS * one - REPETITIONS
  BY <1>1
<1>6. REPETITIONS * one = IdlePower * Scale
  BY DEF one, Scale
<1> QED  BY <1>3, <1>4, <1>5, <1>6

\* A repetition ends with its result.
LEMMA EndCaseKeeps == ASSUME EnergyInv, EndCase PROVE EnergyInv'
<1> USE DEF EnergyInv
<1> DEFINE raw == energy_delta(e1, counter)
           net == energy_net(raw, IDLE_POWER_W, elapsed, Scale)
           new == [elapsed |-> elapsed, raw |-> raw, load |-> used, net |-> net]
           real == used + (IF baseline = "written" THEN 0 ELSE IdlePower * elapsed)
<1>1. /\ window = "case" /\ window' = "none" /\ settled /\ Follows
      /\ results' = Append(results, new)
      /\ settled' = (Len(results') % MACRO_REPETITIONS # 0)
      /\ UNCHANGED <<counter, e1, elapsed, used, samples, baseline, summary>>
  BY DEF EndCase, InWindow, IdleFirst
<1>2. Real \in 0..MaxRange
  BY <1>1, OneTurn
<1>3. raw \in Nat /\ raw \in {Real, Real - 1}
  BY <1>1, <1>2, Delta
<1>4. elapsed \in Nat /\ used \in Nat /\ IdlePower * elapsed \in Nat /\ Scale \in Nat \ {0}
  <2>1. elapsed \in Nat /\ used \in Nat
    BY DEF Typed
  <2>2. Scale \in Nat \ {0}
    BY DEF Scale
  <2> QED  BY <2>1, <2>2
<1> HIDE DEF raw, net
<1>5. net \in Int /\ net >= (real - 1) * Scale /\ net <= real * Scale + REPETITIONS * elapsed
  <2>1. CASE baseline = "written"
    <3>1. raw \in {IdlePower * elapsed + used, IdlePower * elapsed + used - 1}
      BY <1>2, <1>3, <1>4 DEF Real
    <3>2. /\ IDLE_POWER_W \in Int /\ IdlePower * Scale - REPETITIONS <= IDLE_POWER_W
          /\ IDLE_POWER_W <= IdlePower * Scale
      BY <2>1, BaselineIsIdle
    <3>3. /\ net \in Int
          /\ net >= (used - 1) * Scale /\ net <= used * Scale + REPETITIONS * elapsed
      <4>1. IdlePower \in Nat /\ REPETITIONS \in Nat
        OBVIOUS
      <4>2. /\ energy_net(raw, IDLE_POWER_W, elapsed, Scale) \in Int
            /\ energy_net(raw, IDLE_POWER_W, elapsed, Scale) >= (used - 1) * Scale
            /\ energy_net(raw, IDLE_POWER_W, elapsed, Scale) <= used * Scale + REPETITIONS * elapsed
        BY <1>3, <1>4, <3>1, <3>2, <4>1, NetOfLoad
      <4> QED  BY <4>2 DEF net
    <3>4. real = used
      BY <1>4, <2>1
    <3> HIDE DEF real
    <3> QED  BY <3>3, <3>4
  <2>2. CASE baseline # "written"
    <3>1. real = Real /\ real \in Nat
      BY <1>4, <2>2 DEF Real
    <3>2. IDLE_POWER_W = 0
      BY <2>2 DEF IDLE_POWER_W
    <3> HIDE DEF real
    <3>3. REPETITIONS \in Nat /\ raw \in {real, real - 1}
      BY <1>3, <3>1
    <3>4. /\ energy_net(raw, 0, elapsed, Scale) \in Int
          /\ energy_net(raw, 0, elapsed, Scale) >= (real - 1) * Scale
          /\ energy_net(raw, 0, elapsed, Scale) <= real * Scale + REPETITIONS * elapsed
      BY <1>3, <1>4, <3>1, <3>3, GrossOfLoad
    <3> QED  BY <3>2, <3>4 DEF net
  <2> QED  BY <2>1, <2>2
<1>6. new \in Result
  BY <1>3, <1>4, <1>5 DEF Result
<1>7. results \in Seq(Result) /\ results' \in Seq(Result) /\ results' # <<>>
  BY <1>1, <1>6 DEF Typed
<1>8. Typed'
  BY <1>1, <1>7 DEF Typed
<1>9. samples = <<>> \/ baseline = "written"
  BY <1>1 DEF IdleFirst
<1>10. InWindow' /\ IdleFirst' /\ Sampled'
  BY <1>1, <1>9 DEF InWindow, IdleFirst, Sampled
<1>11. EnergyIsTheLoads'
  <2> DEFINE Right(r) ==
        LET all == r.load + (IF baseline = "written" THEN 0 ELSE IdlePower * r.elapsed)
        IN  /\ r.net >= (all - 1) * Scale
            /\ r.net <= all * Scale + REPETITIONS * r.elapsed
  <2>1. \A i \in DOMAIN results : Right(results[i])
    BY DEF EnergyIsTheLoads
  <2>2. Right(new)
    BY <1>5
  <2>3. \A i \in DOMAIN results' :
          results'[i] = IF i \in DOMAIN results THEN results[i] ELSE new
    <3> HIDE DEF new
    <3> QED  BY <1>1, <1>6, <1>7
  <2> HIDE DEF Right, new
  <2>4. \A i \in DOMAIN results' : Right(results'[i])
    BY <2>1, <2>2, <2>3
  <2> QED  BY <1>1, <2>4, Zenon DEF EnergyIsTheLoads, Right, Scale
<1> QED  BY <1>8, <1>10, <1>11

\* Every step of the measurement preserves it.
LEMMA EnergyStep == EnergyInv /\ [MeasureNext]_measureVars => EnergyInv'
<1> SUFFICES ASSUME EnergyInv, [MeasureNext]_measureVars PROVE EnergyInv'
  OBVIOUS
<1>1. CASE StartSample
  BY <1>1, OpenKeeps DEF StartSample
<1>2. CASE StartCase
  BY <1>2, OpenKeeps DEF StartCase
<1>3. CASE Summarize
  <2>1. UNCHANGED <<counter, window, e1, elapsed, used, samples, baseline, settled, results>>
    BY <1>3 DEF Summarize, windowVars
  <2> QED  BY <2>1, SameResults DEF EnergyInv, Typed, InWindow, Follows, Real, IdleFirst, Sampled
<1>4. CASE UNCHANGED measureVars
  <2>1. UNCHANGED <<counter, window, e1, elapsed, used, samples, baseline, settled, results>>
    BY <1>4 DEF measureVars, windowVars
  <2> QED  BY <2>1, SameResults DEF EnergyInv, Typed, InWindow, Follows, Real, IdleFirst, Sampled
<1> QED  BY <1>1, <1>2, <1>3, <1>4, SleepKeeps, WorkKeeps, EndSampleKeeps, WriteBaselineKeeps,
            SettleKeeps, EndCaseKeeps DEF MeasureNext

\* In the measurements as run_bench.py makes them, with the reports that follow.
LEMMA MeasuresOnly ==
  /\ AnyInit => MeasureInit
  /\ [AnyNext]_<<part, macroVars, measureVars, reportVars>> => [MeasureNext]_measureVars
BY DEF AnyInit, AnyNext

\* Whatever the loads, the lengths of the cases and the range of the counter:
\* energy_j is the energy of the load, but for the microjoules of the turns.
THEOREM EnergyOfTheLoad == AnySpec => []EnergyIsTheLoads
<1>1. AnyInit => EnergyInv
  BY MeasuresOnly, MeasureBegins
<1>2. EnergyInv /\ [AnyNext]_<<part, macroVars, measureVars, reportVars>> => EnergyInv'
  BY MeasuresOnly, EnergyStep
<1>3. EnergyInv => EnergyIsTheLoads
  BY DEF EnergyInv
<1> QED  BY <1>1, <1>2, <1>3, PTL DEF AnySpec

-----------------------------------------------------------------------------
(* What sorted returns.                                                     *)

Sorted(n, s) == s \in [1..n -> Nat] /\ Ascending(s)

\* What a permutation is.
LEMMA Permutes ==
  ASSUME NEW S, NEW p
  PROVE  p \in Bijection(S, S) <=> /\ p \in [S -> S]
                                   /\ \A i, j \in S : p[i] = p[j] => i = j
                                   /\ \A i \in S : \E j \in S : p[j] = i
BY DEF Bijection, Injection, Surjection, IsInjective

\* The values can be put in order: the smallest one first, and the others, one
\* of them now in its place, in order after it.
LEMMA OrderExists ==
  ASSUME NEW n \in Nat, NEW v \in [1..n -> Nat]
  PROVE  \E p \in Bijection(1..n, 1..n) : \A i, j \in 1..n : i <= j => v[p[i]] <= v[p[j]]
<1> DEFINE InOrder(k, w, p) == \A i, j \in 1..k : i <= j => w[p[i]] <= w[p[j]]
           G == {k \in Nat : \A w \in [1..k -> Nat] :
                               \E p \in Bijection(1..k, 1..k) : InOrder(k, w, p)}
<1>1. 0 \in G
  <2>1. [i \in 1..0 |-> i] \in Bijection(1..0, 1..0)
    BY Permutes
  <2>2. \A w : InOrder(0, w, [i \in 1..0 |-> i])
    OBVIOUS
  <2> QED  BY <2>1, <2>2
<1>2. ASSUME NEW k \in Nat, k \in G PROVE k + 1 \in G
  <2> SUFFICES ASSUME NEW w \in [1..k + 1 -> Nat]
               PROVE  \E p \in Bijection(1..k + 1, 1..k + 1) : InOrder(k + 1, w, p)
    OBVIOUS
  <2>0. /\ 1 \in 1..k + 1
        /\ \A i \in 1..k : i + 1 \in 1..k + 1 /\ i + 1 # 1
        /\ \A i \in 1..k + 1 : i # 1 => i - 1 \in 1..k /\ i - 1 + 1 = i
    OBVIOUS
  <2>1. PICK m \in 1..k + 1 : \A i \in 1..k + 1 : w[m] <= w[i]
    <3> DEFINE T == {w[i] : i \in 1..k + 1}
    <3>1. T \in SUBSET Nat /\ T # {}
      BY <2>0
    <3> HIDE DEF T
    <3>2. PICK x \in T : \A y \in T : x <= y
      BY <3>1, Smallest
    <3> QED  BY <3>2 DEF T
  <2> DEFINE q == [i \in 1..k + 1 |-> IF i = 1 THEN m ELSE IF i = m THEN 1 ELSE i]
             u == [i \in 1..k |-> w[q[i + 1]]]
  <2>2. \A i \in 1..k + 1 : q[i] \in 1..k + 1
    BY <2>0
  <2>3. \A i, j \in 1..k + 1 : q[i] = q[j] => i = j
    BY <2>0
  <2>4. \A i \in 1..k + 1 : q[q[i]] = i
    BY <2>0
  <2>5. u \in [1..k -> Nat]
    BY <2>0, <2>2
  <2>6. \A i \in 1..k : u[i] = w[q[i + 1]]
    OBVIOUS
  <2>7. q[1] = m
    BY <2>0
  <2> HIDE DEF q, u
  <2>8. PICK p \in Bijection(1..k, 1..k) : InOrder(k, u, p)
    BY <1>2, <2>5
  <2>9. /\ \A i \in 1..k : p[i] \in 1..k
        /\ \A i, j \in 1..k : p[i] = p[j] => i = j
        /\ \A i \in 1..k : \E j \in 1..k : p[j] = i
    <3>1. p \in [1..k -> 1..k]
      BY <2>8, Permutes, Zenon
    <3> QED  BY <2>8, <3>1, Permutes
  <2> DEFINE r == [i \in 1..k + 1 |-> IF i = 1 THEN m ELSE q[p[i - 1] + 1]]
  <2>10. /\ DOMAIN r = 1..k + 1 /\ r = [i \in DOMAIN r |-> r[i]] /\ r[1] = m
         /\ \A i \in 1..k + 1 : i # 1 => r[i] = q[p[i - 1] + 1]
    BY <2>0
  <2> HIDE DEF r
  <2>11. \A i \in 1..k + 1 : r[i] \in 1..k + 1
    BY <2>0, <2>2, <2>9, <2>10
  <2>12. \A i \in 1..k + 1 : i # 1 => r[i] # m
    <3> SUFFICES ASSUME NEW i \in 1..k + 1, i # 1, r[i] = m PROVE FALSE
      OBVIOUS
    <3>1. p[i - 1] \in 1..k
      BY <2>0, <2>9
    <3>2. p[i - 1] + 1 \in 1..k + 1 /\ p[i - 1] + 1 # 1
      BY <2>0, <3>1
    <3>3. q[p[i - 1] + 1] = q[1]
      BY <2>7, <2>10
    <3> QED  BY <2>0, <2>3, <3>2, <3>3
  <2>13. \A i, j \in 1..k + 1 : r[i] = r[j] => i = j
    <3> SUFFICES ASSUME NEW i \in 1..k + 1, NEW j \in 1..k + 1, r[i] = r[j] PROVE i = j
      OBVIOUS
    <3>1. CASE i = 1 \/ j = 1
      BY <2>10, <2>12, <3>1
    <3>2. CASE i # 1 /\ j # 1
      <4>1. i - 1 \in 1..k /\ j - 1 \in 1..k /\ p[i - 1] \in 1..k /\ p[j - 1] \in 1..k
        BY <2>0, <2>9, <3>2
      <4>2. q[p[i - 1] + 1] = q[p[j - 1] + 1]
        BY <2>10, <3>2
      <4>3. p[i - 1] + 1 = p[j - 1] + 1
        BY <2>0, <2>3, <4>1, <4>2
      <4>4. p[i - 1] = p[j - 1]
        <5>1. \A x, y \in 1..k : x + 1 = y + 1 => x = y
          OBVIOUS
        <5> QED  BY <4>1, <4>3, <5>1
      <4>5. i - 1 = j - 1
        BY <2>9, <4>1, <4>4
      <4> QED  BY <4>5
    <3> QED  BY <3>1, <3>2
  <2>14. \A i \in 1..k + 1 : \E j \in 1..k + 1 : r[j] = i
    <3> SUFFICES ASSUME NEW i \in 1..k + 1 PROVE \E j \in 1..k + 1 : r[j] = i
      OBVIOUS
    <3>1. CASE q[i] = 1
      <4>1. i = m
        BY <2>4, <2>7, <3>1
      <4> QED  BY <2>0, <2>10, <4>1
    <3>2. CASE q[i] # 1
      <4>1. q[i] - 1 \in 1..k /\ q[i] - 1 + 1 = q[i]
        BY <2>0, <2>2, <3>2
      <4>2. PICK j \in 1..k : p[j] = q[i] - 1
        BY <2>9, <4>1, ZenonT(40)
      <4>3. j + 1 \in 1..k + 1 /\ j + 1 # 1 /\ j + 1 - 1 = j
        OBVIOUS
      <4>4. r[j + 1] = q[p[j] + 1]
        BY <2>10, <4>3, SMTT(30)
      <4>5. r[j + 1] = q[q[i]]
        BY <4>1, <4>2, <4>4
      <4> QED  BY <2>4, <4>3, <4>5
    <3> QED  BY <3>1, <3>2
  <2>15. r \in Bijection(1..k + 1, 1..k + 1)
    <3>1. r \in [1..k + 1 -> 1..k + 1]
      BY <2>10, <2>11
    <3> DEFINE S == 1..k + 1
    <3>2. /\ r \in [S -> S] /\ \A i, j \in S : r[i] = r[j] => i = j
          /\ \A i \in S : \E j \in S : r[j] = i
      BY <2>13, <2>14, <3>1
    <3> HIDE DEF S
    <3>3. r \in Bijection(S, S)
      BY <3>2, Permutes
    <3> QED  BY <3>3 DEF S
  <2>16. InOrder(k + 1, w, r)
    <3> SUFFICES ASSUME NEW i \in 1..k + 1, NEW j \in 1..k + 1, i <= j PROVE w[r[i]] <= w[r[j]]
      OBVIOUS
    <3>1. CASE i = 1
      BY <2>1, <2>10, <2>11, <3>1
    <3>2. CASE i # 1
      <4>1. i - 1 \in 1..k /\ j - 1 \in 1..k /\ i - 1 <= j - 1 /\ j # 1
        BY <3>2
      <4>2. u[p[i - 1]] <= u[p[j - 1]]
        BY <2>8, <4>1
      <4>3. w[r[i]] = u[p[i - 1]] /\ w[r[j]] = u[p[j - 1]]
        <5>1. p[i - 1] \in 1..k /\ p[j - 1] \in 1..k
          BY <2>9, <4>1
        <5>2. u[p[i - 1]] = w[q[p[i - 1] + 1]] /\ u[p[j - 1]] = w[q[p[j - 1] + 1]]
          BY <2>6, <5>1
        <5> QED  BY <2>10, <3>2, <4>1, <5>2
      <4> QED  BY <4>2, <4>3
    <3> QED  BY <3>1, <3>2
  <2> HIDE DEF InOrder
  <2> QED  BY <2>15, <2>16
<1> HIDE DEF G
<1>3. n \in G
  BY <1>1, <1>2, AllNaturals
<1> QED  BY <1>3 DEF G

\* sorted returns the same values, in order.
LEMMA SortedIsInOrder ==
  ASSUME NEW n \in Nat, NEW v \in [1..n -> Nat]
  PROVE  /\ Sorted(n, sorted(v))
         /\ \A i \in 1..n : \E j \in 1..n : sorted(v)[i] = v[j]
         /\ \A j \in 1..n : \E i \in 1..n : sorted(v)[i] = v[j]
<1>0. DOMAIN v = 1..n
  OBVIOUS
<1>1. PICK p \in Bijection(1..n, 1..n) : \A i, j \in 1..n : i <= j => v[p[i]] <= v[p[j]]
  BY OrderExists
<1> DEFINE s == [i \in DOMAIN v |-> v[p[i]]]
<1>2. s \in Arrangements(v)
  BY <1>0, <1>1, Zenon DEF Arrangements
<1>3. Ascending(s)
  BY <1>0, <1>1 DEF Ascending
<1> HIDE DEF s
<1>4. sorted(v) \in Arrangements(v) /\ Ascending(sorted(v))
  BY <1>2, <1>3, Zenon DEF sorted
<1>5. PICK r \in Bijection(1..n, 1..n) : sorted(v) = [i \in 1..n |-> v[r[i]]]
  BY <1>0, <1>4, Zenon DEF Arrangements
<1>6. r \in [1..n -> 1..n] /\ \A j \in 1..n : \E i \in 1..n : r[i] = j
  BY <1>5, Permutes, Zenon
<1>7. \A i \in 1..n : r[i] \in 1..n /\ sorted(v)[i] = v[r[i]] /\ v[r[i]] \in Nat
  BY <1>5, <1>6
<1>8. sorted(v) \in [1..n -> Nat]
  BY <1>5, <1>7
<1>9. Sorted(n, sorted(v))
  BY <1>4, <1>8 DEF Sorted
<1>10. \A i \in 1..n : \E j \in 1..n : sorted(v)[i] = v[j]
  BY <1>7, Zenon
<1>11. \A j \in 1..n : \E i \in 1..n : sorted(v)[i] = v[j]
  <2> SUFFICES ASSUME NEW j \in 1..n PROVE \E i \in 1..n : sorted(v)[i] = v[j]
    OBVIOUS
  <2>1. PICK i \in 1..n : r[i] = j
    BY <1>6
  <2>2. sorted(v)[i] = v[j]
    BY <1>7, <2>1
  <2> QED  BY <2>2
<1> QED  BY <1>9, <1>10, <1>11

-----------------------------------------------------------------------------
(* The order of the percentiles.                                            *)

\* In order, s[i] is at most s[j] for i at most j.
LEMMA InOrder ==
  ASSUME NEW n \in Nat, NEW s, Sorted(n, s), NEW i \in 1..n, NEW j \in 1..n, i <= j
  PROVE  s[i] \in Nat /\ s[j] \in Nat /\ s[i] <= s[j]
BY DEF Sorted, Ascending

\* A hundred times the position of a percentile, which counts from 0, and the
\* position below it.
At(n, p) == (n - 1) * p
Below(n, p) == floor(At(n, p))

\* The positions a percentile lies between are positions of the list.
LEMMA Positions ==
  ASSUME NEW n \in Nat \ {0}, NEW p \in 0..100
  PROVE  /\ At(n, p) \in Nat /\ Below(n, p) \in Nat /\ Below(n, p) + 1 \in 1..n
         /\ 100 * Below(n, p) <= At(n, p) /\ At(n, p) < 100 * Below(n, p) + 100
         /\ At(n, p) = 100 * Below(n, p) => ceil(At(n, p)) = Below(n, p)
         /\ At(n, p) # 100 * Below(n, p) => /\ ceil(At(n, p)) = Below(n, p) + 1
                                            /\ Below(n, p) + 2 \in 1..n
<1>0. PICK k : k = At(n, p)
  OBVIOUS
<1>1. k \in Nat /\ k <= (n - 1) * 100 /\ n - 1 \in Nat
  <2>1. n - 1 \in Nat /\ p \in Nat /\ p <= 100
    OBVIOUS
  <2>2. (n - 1) * p \in Nat
    BY <2>1
  <2>3. (n - 1) * p <= (n - 1) * 100
    BY <2>1, Times
  <2> QED  BY <1>0, <2>1, <2>2, <2>3 DEF At
<1>2. k \div 100 \in Nat /\ 100 * (k \div 100) <= k /\ k < 100 * (k \div 100) + 100
  BY <1>1
<1>3. (k + 99) \div 100 = IF k = 100 * (k \div 100) THEN k \div 100 ELSE k \div 100 + 1
  BY <1>1
<1> DEFINE f == k \div 100
<1> HIDE DEF f
<1>4. f \in Nat /\ 100 * f <= k /\ k < 100 * f + 100
  BY <1>2 DEF f
<1>5. f + 1 \in 1..n /\ (k # 100 * f => f + 2 \in 1..n)
  BY <1>1, <1>4
<1>6. floor(k) = f /\ ceil(k) = IF k = 100 * f THEN f ELSE f + 1
  BY <1>3 DEF f, floor, ceil
<1>7. Below(n, p) = f
  BY <1>0, <1>6 DEF Below
<1> QED  BY <1>0, <1>1, <1>4, <1>5, <1>6, <1>7

\* A percentile lies where it should:
\* between the value below it and the one above, and as far as its position.
Lies(n, s, p) ==
  /\ percentile(s, p) \in Nat
  /\ 100 * s[Below(n, p) + 1] <= percentile(s, p)
  /\ At(n, p) = 100 * Below(n, p) => percentile(s, p) = 100 * s[Below(n, p) + 1]
  /\ At(n, p) # 100 * Below(n, p) =>
       /\ percentile(s, p) <= 100 * s[Below(n, p) + 2]
       /\ percentile(s, p) = 100 * s[Below(n, p) + 1]
            + (At(n, p) - 100 * Below(n, p)) * (s[Below(n, p) + 2] - s[Below(n, p) + 1])

\* The percentile lies between two neighbours in the sorted list.
LEMMA Between ==
  ASSUME NEW n \in Nat \ {0}, NEW s, Sorted(n, s), NEW p \in 0..100
  PROVE  Lies(n, s, p)
<1>0. PICK k \in Nat, f \in Nat : k = At(n, p) /\ f = Below(n, p)
  BY Positions
<1>1. Len(s) = n
  BY DEF Sorted
<1>2. /\ k \in Nat /\ f \in Nat /\ f + 1 \in 1..n
      /\ \/ k = 100 * f /\ ceil(k) = f
         \/ 100 * f < k /\ k < 100 * f + 100 /\ ceil(k) = f + 1 /\ f + 2 \in 1..n
  <2>1. /\ Below(n, p) + 1 \in 1..n
        /\ 100 * Below(n, p) <= At(n, p) /\ At(n, p) < 100 * Below(n, p) + 100
    BY Positions
  <2>2. /\ At(n, p) = 100 * Below(n, p) => ceil(At(n, p)) = Below(n, p)
        /\ At(n, p) # 100 * Below(n, p) => /\ ceil(At(n, p)) = Below(n, p) + 1
                                           /\ Below(n, p) + 2 \in 1..n
    BY Positions, Zenon
  <2>3. /\ f + 1 \in 1..n /\ 100 * f <= k /\ k < 100 * f + 100
    BY <1>0, <2>1
  <2>4. /\ k = 100 * f => ceil(k) = f
        /\ k # 100 * f => ceil(k) = f + 1 /\ f + 2 \in 1..n
    BY <1>0, <2>2, Zenon
  <2> QED  BY <2>3, <2>4
<1>3. percentile(s, p) = IF f = ceil(k) THEN 100 * s[f + 1]
                         ELSE s[f + 1] * Weight(k) + s[ceil(k) + 1] * (100 - Weight(k))
  BY <1>0, <1>1 DEF percentile, At, Below
<1>4. CASE k = 100 * f
  <2>1. percentile(s, p) = 100 * s[f + 1]
    BY <1>2, <1>3, <1>4
  <2>2. s[f + 1] \in Nat
    BY <1>2, InOrder
  <2> QED  BY <1>0, <1>4, <2>1, <2>2 DEF Lies
<1>5. CASE k # 100 * f
  <2> DEFINE x == s[f + 1]
             y == s[f + 2]
             r == k - 100 * f
  <2>1. f + 1 \in 1..n /\ f + 2 \in 1..n /\ f + 1 <= f + 2 /\ ceil(k) = f + 1 /\ r \in 1..99
    BY <1>2, <1>5
  <2>2. x \in Nat /\ y \in Nat /\ x <= y
    BY <2>1, InOrder
  <2>3. Weight(k) = 100 - r /\ 100 - Weight(k) = r /\ ceil(k) + 1 = f + 2
    BY <1>2, <2>1 DEF Weight
  <2>4. percentile(s, p) = x * (100 - r) + y * r
    BY <1>2, <1>3, <2>1, <2>3
  <2> HIDE DEF x, y, r
  <2>5. x * (100 - r) + y * r = 100 * x + r * (y - x)
    <3>1. x * (100 - r) = 100 * x - r * x /\ r * (y - x) = r * y - r * x /\ y * r = r * y
      BY <2>1, <2>2
    <3>2. r * x \in Int /\ r * y \in Int
      BY <2>1, <2>2
    <3> DEFINE rx == r * x
               ry == r * y
    <3> HIDE DEF rx, ry
    <3>3. (100 * x - rx) + ry = 100 * x + (ry - rx)
      BY <2>2, <3>2 DEF rx, ry
    <3> QED  BY <3>1, <3>3 DEF rx, ry
  <2>6. 0 <= r * (y - x) /\ r * (y - x) <= 100 * (y - x) /\ r * (y - x) \in Int
    <3>1. y - x \in Nat /\ r \in Int /\ 0 <= r /\ r <= 100
      BY <2>1, <2>2
    <3>2. 0 * (y - x) <= r * (y - x) /\ r * (y - x) <= 100 * (y - x)
      BY <3>1, Times
    <3> QED  BY <3>1, <3>2
  <2>7. percentile(s, p) = 100 * x + r * (y - x)
    BY <2>4, <2>5
  <2>8. /\ percentile(s, p) \in Nat /\ 100 * x <= percentile(s, p)
        /\ percentile(s, p) <= 100 * y
    BY <2>2, <2>6, <2>7
  <2> QED  BY <1>0, <1>5, <2>1, <2>7, <2>8 DEF x, y, r, Lies
<1> QED  BY <1>4, <1>5

\* A higher percentile is at least as large.
LEMMA Grows ==
  ASSUME NEW n \in Nat \ {0}, NEW s, Sorted(n, s), NEW p \in 0..100, NEW q \in 0..100, p <= q
  PROVE  percentile(s, p) <= percentile(s, q)
<1>0. PICK j \in Nat, k \in Nat, f \in Nat, g \in Nat :
        j = At(n, p) /\ k = At(n, q) /\ f = Below(n, p) /\ g = Below(n, q)
  BY Positions
<1>1. j <= k
  <2>1. n - 1 \in Nat /\ p \in Int /\ q \in Int
    OBVIOUS
  <2>2. (n - 1) * p <= (n - 1) * q
    BY <2>1, Times
  <2> QED  BY <1>0, <2>2 DEF At
<1>2. /\ j \in Nat /\ f \in Nat /\ f + 1 \in 1..n
      /\ 100 * f <= j /\ j < 100 * f + 100 /\ (j # 100 * f => f + 2 \in 1..n)
  BY <1>0, Positions
<1>3. /\ k \in Nat /\ g \in Nat /\ g + 1 \in 1..n
      /\ 100 * g <= k /\ k < 100 * g + 100
  BY <1>0, Positions
<1>4. /\ percentile(s, p) \in Nat
      /\ j = 100 * f => percentile(s, p) = 100 * s[f + 1]
      /\ j # 100 * f =>
           /\ percentile(s, p) <= 100 * s[f + 2]
           /\ percentile(s, p) = 100 * s[f + 1] + (j - 100 * f) * (s[f + 2] - s[f + 1])
  <2>1. Lies(n, s, p)
    BY Between
  <2> QED  BY <1>0, <2>1, Zenon DEF Lies
<1>5. /\ percentile(s, q) \in Nat /\ 100 * s[g + 1] <= percentile(s, q)
      /\ k # 100 * g =>
           percentile(s, q) = 100 * s[g + 1] + (k - 100 * g) * (s[g + 2] - s[g + 1])
  <2>1. Lies(n, s, q)
    BY Between
  <2> QED  BY <1>0, <2>1, Zenon DEF Lies
<1>6. f <= g
  BY <1>1, <1>2, <1>3
<1>7. CASE j = 100 * f
  <2>1. s[f + 1] <= s[g + 1] /\ s[f + 1] \in Nat /\ s[g + 1] \in Nat
    BY <1>2, <1>3, <1>6, InOrder
  <2> QED  BY <1>4, <1>5, <1>7, <2>1
<1>8. CASE j # 100 * f /\ f # g
  <2>1. f + 2 \in 1..n /\ f + 2 <= g + 1
    BY <1>2, <1>3, <1>6, <1>8
  <2>2. s[f + 2] <= s[g + 1] /\ s[f + 2] \in Nat /\ s[g + 1] \in Nat
    BY <1>3, <2>1, InOrder
  <2>3. percentile(s, p) <= 100 * s[f + 2]
    BY <1>4, <1>8
  <2> QED  BY <1>4, <1>5, <2>2, <2>3
<1>9. CASE j # 100 * f /\ f = g
  <2> DEFINE x == s[f + 1]
             d == s[f + 2] - s[f + 1]
             a == j - 100 * f
             b == k - 100 * f
  <2>1. f + 1 \in 1..n /\ f + 2 \in 1..n /\ f + 1 <= f + 2
    BY <1>2, <1>9
  <2>2. s[f + 1] \in Nat /\ s[f + 2] \in Nat /\ s[f + 1] <= s[f + 2]
    BY <2>1, InOrder
  <2>3. d \in Nat /\ x \in Nat
    BY <2>2
  <2>4. a \in Nat /\ b \in Nat /\ a <= b /\ k # 100 * g
    BY <1>1, <1>2, <1>3, <1>9
  <2>5. percentile(s, p) = 100 * x + a * d
    BY <1>4, <1>9
  <2>6. percentile(s, q) = 100 * x + b * d
    BY <1>5, <1>9, <2>4
  <2> HIDE DEF x, d, a, b
  <2>7. a * d <= b * d /\ a * d \in Int /\ b * d \in Int
    BY <2>3, <2>4, Times
  <2> QED  BY <2>3, <2>5, <2>6, <2>7
<1> QED  BY <1>7, <1>8, <1>9

\* A percentile is at most a hundred times the largest value.
LEMMA AtMostLast ==
  ASSUME NEW n \in Nat \ {0}, NEW s, Sorted(n, s), NEW p \in 0..100
  PROVE  percentile(s, p) <= 100 * s[n]
<1>1. PICK k \in Nat, f \in Nat : k = At(n, p) /\ f = Below(n, p)
  BY Positions
<1>2. f + 1 \in 1..n /\ (k # 100 * f => f + 2 \in 1..n) /\ n \in 1..n
  <2>1. /\ Below(n, p) + 1 \in 1..n
        /\ At(n, p) # 100 * Below(n, p) => Below(n, p) + 2 \in 1..n
    BY Positions, Zenon
  <2>2. n \in 1..n
    OBVIOUS
  <2> QED  BY <1>1, <2>1, <2>2, Zenon
<1>3. Lies(n, s, p)
  BY Between
<1>4. /\ percentile(s, p) \in Nat
      /\ k = 100 * f => percentile(s, p) = 100 * s[f + 1]
      /\ k # 100 * f => percentile(s, p) <= 100 * s[f + 2]
  BY <1>1, <1>3, Zenon DEF Lies
<1>5. s[f + 1] \in Nat /\ s[n] \in Nat /\ s[f + 1] <= s[n]
  BY <1>2, InOrder
<1>6. CASE k = 100 * f
  BY <1>4, <1>5, <1>6
<1>7. CASE k # 100 * f
  <2>1. s[f + 2] \in Nat /\ s[f + 2] <= s[n]
    BY <1>2, <1>7, InOrder
  <2> QED  BY <1>4, <1>5, <1>7, <2>1
<1> QED  BY <1>6, <1>7

\* A percentile is at least the first value.
LEMMA AtLeastFirst ==
  ASSUME NEW n \in Nat \ {0}, NEW s, Sorted(n, s), NEW p \in 0..100
  PROVE  100 * s[1] <= percentile(s, p)
<1>1. PICK f \in Nat : f = Below(n, p)
  BY Positions
<1>2. f + 1 \in 1..n /\ 1 \in 1..n /\ 1 <= f + 1
  <2>1. Below(n, p) + 1 \in 1..n
    BY Positions, Zenon
  <2>2. f + 1 \in 1..n
    BY <1>1, <2>1, Zenon
  <2> QED  BY <2>2
<1>3. Lies(n, s, p)
  BY Between
<1>4. percentile(s, p) \in Nat /\ 100 * s[f + 1] <= percentile(s, p)
  BY <1>1, <1>3, Zenon DEF Lies
<1>5. s[1] \in Nat /\ s[f + 1] \in Nat /\ s[1] <= s[f + 1]
  BY <1>2, InOrder
<1> QED  BY <1>4, <1>5

\* The 50th percentile is the median.
LEMMA MedianIsP50 ==
  ASSUME NEW n \in Nat \ {0}, NEW s, Sorted(n, s)
  PROVE  percentile(s, 50) = median(s)
<1>0. Len(s) = n /\ 50 \in 0..100
  BY DEF Sorted
<1>1. PICK k \in Nat, f \in Nat : k = At(n, 50) /\ f = Below(n, 50)
  BY <1>0, Positions
<1>2. k = (n - 1) * 50 /\ 100 * f <= k /\ k < 100 * f + 100 /\ f + 1 \in 1..n
      /\ (k # 100 * f => f + 2 \in 1..n)
  <2>1. /\ 100 * f <= k /\ k < 100 * f + 100 /\ f + 1 \in 1..n
        /\ (k # 100 * f => f + 2 \in 1..n)
    BY <1>0, <1>1, Positions
  <2> QED  BY <1>1, <2>1 DEF At
<1>3. Lies(n, s, 50)
  BY <1>0, Between
<1>4. /\ k = 100 * f => percentile(s, 50) = 100 * s[f + 1]
      /\ k # 100 * f => percentile(s, 50) = 100 * s[f + 1] + (k - 100 * f) * (s[f + 2] - s[f + 1])
  BY <1>1, <1>3, Zenon DEF Lies
<1>5. CASE k = 100 * f
  <2>1. n = 2 * f + 1
    BY <1>2, <1>5
  <2>2. n % 2 = 1 /\ (n + 1) \div 2 = f + 1
    BY <2>1
  <2>3. median(s) = 100 * s[f + 1]
    BY <1>0, <2>2 DEF median
  <2> QED  BY <1>4, <1>5, <2>3
<1>6. CASE k # 100 * f
  <2>1. n = 2 * (f + 1) /\ k - 100 * f = 50
    BY <1>2, <1>6
  <2>2. n % 2 = 0 /\ n \div 2 = f + 1 /\ f + 1 + 1 = f + 2
    BY <2>1
  <2>3. median(s) = 50 * (s[f + 1] + s[f + 2])
    BY <1>0, <2>2 DEF median
  <2>4. s[f + 1] \in Nat /\ s[f + 2] \in Nat
    BY <1>2, <1>6, InOrder
  <2>5. percentile(s, 50) = 100 * s[f + 1] + 50 * (s[f + 2] - s[f + 1])
    BY <1>4, <1>6, <2>1
  <2> QED  BY <2>3, <2>4, <2>5
<1> QED  BY <1>5, <1>6

\* What compute_stats returns is in order.
StatsOrder(s) ==
  /\ s.min <= s.p25 /\ s.p25 <= s.p50 /\ s.p50 <= s.p95 /\ s.p95 <= s.max
  /\ s.p50 = s.median
  /\ s.min * s.count <= 100 * s.total /\ 100 * s.total <= s.max * s.count

\* What compute_stats returns.
LEMMA ComputeStats ==
  ASSUME NEW n \in Nat \ {0}, NEW v \in [1..n -> Nat]
  PROVE  StatsOrder(compute_stats(v))
<1>1. n \in Nat /\ n \in 1..n /\ 1 \in 1..n /\ Len(v) = n
  OBVIOUS
<1> DEFINE o == sorted(v)
<1>2. /\ Sorted(n, o)
      /\ \A i \in 1..n : \E j \in 1..n : o[i] = v[j]
      /\ \A j \in 1..n : \E i \in 1..n : o[i] = v[j]
  BY <1>1, SortedIsInOrder, Zenon
<1>3. compute_stats(v) =
        [count |-> Len(v), total |-> Sum(v), median |-> median(o),
         min |-> 100 * Min(ToSet(v)), max |-> 100 * Max(ToSet(v)),
         p25 |-> percentile(o, 25), p50 |-> percentile(o, 50), p95 |-> percentile(o, 95)]
  BY DEF compute_stats, Sum
<1> HIDE DEF o
<1>4. \A j \in 1..n : o[1] <= v[j] /\ v[j] <= o[n] /\ v[j] \in Nat
  <2> SUFFICES ASSUME NEW j \in 1..n PROVE o[1] <= v[j] /\ v[j] <= o[n] /\ v[j] \in Nat
    OBVIOUS
  <2>1. PICK i \in 1..n : o[i] = v[j]
    BY <1>2
  <2>2. 1 <= i /\ i <= n
    OBVIOUS
  <2>3. o[1] <= o[i]
    BY <1>1, <1>2, <2>2, InOrder
  <2>4. o[i] <= o[n] /\ o[i] \in Nat
    BY <1>1, <1>2, <2>2, InOrder
  <2> QED  BY <2>1, <2>3, <2>4
<1>5. o[1] \in ToSet(v) /\ o[n] \in ToSet(v) /\ \A x \in ToSet(v) : o[1] <= x /\ x <= o[n]
  <2>1. DOMAIN v = 1..n
    OBVIOUS
  <2>2. \A i \in 1..n : o[i] \in ToSet(v)
    BY <1>2, <2>1 DEF ToSet
  <2>3. \A x \in ToSet(v) : \E j \in 1..n : x = v[j]
    BY <2>1 DEF ToSet
  <2> QED  BY <1>1, <1>4, <2>2, <2>3
<1>6. o[1] \in Nat /\ o[n] \in Nat /\ ToSet(v) \subseteq Nat
  <2>1. o[1] \in Nat /\ o[n] \in Nat
    BY <1>1, <1>2 DEF Sorted
  <2>2. ToSet(v) \subseteq Nat
    BY DEF ToSet
  <2> QED  BY <2>1, <2>2
<1>7. Min(ToSet(v)) = o[1]
  <2>1. Min(ToSet(v)) \in ToSet(v) /\ \A y \in ToSet(v) : Min(ToSet(v)) <= y
    BY <1>5, Zenon DEF Min
  <2> QED  BY <1>5, <1>6, <2>1
<1>8. Max(ToSet(v)) = o[n]
  <2>1. Max(ToSet(v)) \in ToSet(v) /\ \A y \in ToSet(v) : Max(ToSet(v)) >= y
    <3>1. \E x \in ToSet(v) : \A y \in ToSet(v) : x >= y
      BY <1>5, <1>6
    <3> QED  BY <3>1, Zenon DEF Max
  <2> QED  BY <1>5, <1>6, <2>1
<1>9. 25 \in 0..100 /\ 50 \in 0..100 /\ 95 \in 0..100 /\ 25 <= 50 /\ 50 <= 95
  OBVIOUS
<1>10. percentile(o, 25) <= percentile(o, 50) /\ percentile(o, 50) <= percentile(o, 95)
  BY <1>2, <1>9, Grows
<1>11. 100 * o[1] <= percentile(o, 25) /\ percentile(o, 95) <= 100 * o[n]
  BY <1>2, <1>9, AtLeastFirst, AtMostLast
<1>12. percentile(o, 50) = median(o)
  BY <1>2, MedianIsP50
<1>13. /\ (100 * o[1]) * n <= 100 * Sum(v) /\ 100 * Sum(v) <= (100 * o[n]) * n
  <2>1. v \in [1..n -> Int] /\ o[1] \in Int /\ o[n] \in Int
    BY <1>6
  <2>2. \A i \in 1..n : o[1] <= v[i] /\ v[i] <= o[n]
    BY <1>4
  <2>3. Sum(v) \in Int /\ n * o[1] <= Sum(v) /\ Sum(v) <= n * o[n]
    BY <1>1, <2>1, <2>2, SumBounds
  <2>4. (100 * o[1]) * n = 100 * (n * o[1]) /\ (100 * o[n]) * n = 100 * (n * o[n])
    BY <1>6
  <2>5. n * o[1] \in Int /\ n * o[n] \in Int
    BY <1>6
  <2> QED  BY <2>3, <2>4, <2>5
<1> QED  BY <1>1, <1>3, <1>7, <1>8, <1>10, <1>11, <1>12, <1>13 DEF StatsOrder

-----------------------------------------------------------------------------
\* The summary is made of the lengths of every case, and stays as it is.
LEMMA StatsStep == EnergyInv /\ StatsInOrder /\ [MeasureNext]_measureVars => StatsInOrder'
<1> SUFFICES ASSUME EnergyInv, StatsInOrder, [MeasureNext]_measureVars PROVE StatsInOrder'
  OBVIOUS
<1>1. CASE Summarize
  <2> DEFINE taken(k) == [i \in 1 .. MACRO_REPETITIONS |->
                            results[(k - 1) * MACRO_REPETITIONS + i].elapsed]
  <2>1. /\ Len(results) = Cases * MACRO_REPETITIONS /\ results \in Seq(Result)
        /\ summary' = [k \in 1 .. Cases |-> compute_stats(taken(k))]
    BY <1>1 DEF Summarize, EnergyInv, Typed
  <2>2. ASSUME NEW k \in 1..Cases PROVE taken(k) \in [1..MACRO_REPETITIONS -> Nat]
    <3>1. ASSUME NEW i \in 1..MACRO_REPETITIONS
          PROVE  results[(k - 1) * MACRO_REPETITIONS + i].elapsed \in Nat
      <4> DEFINE R == MACRO_REPETITIONS
                 a == (k - 1) * R
      <4>1. a \in Nat /\ a <= (Cases - 1) * R /\ (Cases - 1) * R = Cases * R - R
        <5>1. k - 1 \in Nat /\ k - 1 <= Cases - 1 /\ Cases - 1 \in Nat /\ R \in Nat
          OBVIOUS
        <5> HIDE DEF R
        <5>2. a \in Nat /\ a <= (Cases - 1) * R
          BY <5>1, Times
        <5>3. (Cases - 1) * R = Cases * R - R
          BY <5>1
        <5> QED  BY <5>2, <5>3
      <4>2. Cases * R \in Nat /\ R \in Nat
        OBVIOUS
      <4> DEFINE all == Cases * R
      <4> HIDE DEF a, all
      <4>3. a + i \in 1..all
        BY <4>1, <4>2 DEF all
      <4>4. results[a + i] \in Result
        BY <2>1, <4>3 DEF all
      <4> QED  BY <4>4 DEF a, Result
    <3> QED  BY <3>1
  <2> HIDE DEF taken
  <2>3. ASSUME NEW k \in 1..Cases PROVE StatsOrder(compute_stats(taken(k)))
    BY <2>2, ComputeStats
  <2>4. DOMAIN summary' = 1..Cases /\ \A k \in 1..Cases : summary'[k] = compute_stats(taken(k))
    BY <2>1
  <2>5. \A k \in DOMAIN summary' : StatsOrder(summary'[k])
    BY <2>3, <2>4
  <2> QED  BY <2>5 DEF StatsInOrder, StatsOrder
<1>2. CASE ~Summarize
  <2>1. summary' = summary
    BY <1>2 DEF MeasureNext, measureVars, Sleep, Work, Second, StartSample, StartCase, Open, EndSample,
                WriteBaseline, settle, EndCase
  <2> QED  BY <2>1 DEF StatsInOrder
<1> QED  BY <1>1, <1>2

\* Whatever was measured, in any number of cases and repetitions: the summary
\* of compute_stats is in order, from the smallest value to the largest, its
\* 50th percentile is the median, and the mean lies between the two.
THEOREM SummaryInOrder == AnySpec => []StatsInOrder
<1>1. AnyInit => EnergyInv /\ StatsInOrder
  <2>1. MeasureInit => StatsInOrder
    BY DEF MeasureInit, StatsInOrder
  <2> QED  BY <2>1, MeasuresOnly, MeasureBegins
<1>2. EnergyInv /\ StatsInOrder /\ [AnyNext]_<<part, macroVars, measureVars, reportVars>>
        => EnergyInv' /\ StatsInOrder'
  BY MeasuresOnly, EnergyStep, StatsStep
<1> QED  BY <1>1, <1>2, PTL DEF AnySpec

HIDE EnergyAssumption
HIDE MeasurementsAssumption

-----------------------------------------------------------------------------
(* What is run: each repetition of each case, once, in the order of the     *)
(* loops.                                                                   *)

Compilers == {"gcc", "clang"}
Run == [compiler : Compilers, threads : Nat, clients : Nat, repetition : Nat]

\* Of a case, an earlier repetition comes first; and nothing comes twice.
Later(S) == {p \in S \X S : Key(p[1]) = Key(p[2]) => p[1].repetition < p[2].repetition}

RunOf(c, t, k, rep) == [compiler |-> c, threads |-> t, clients |-> k, repetition |-> rep]

\* The loops, from the inner to the outer.
RunsOfCase(f, c, t, k) == [rep \in 1 .. f.repetitions |-> RunOf(c, t, k, rep)]
RunsOfThreads(f, c, t) == FlattenSeq([k \in DOMAIN f.cases |-> RunsOfCase(f, c, t, f.cases[k])])
RunsOfCompiler(f, c) ==
  FlattenSeq([t \in DOMAIN f.threads |-> RunsOfThreads(f, c, f.threads[t])])
Runs(f) == FlattenSeq([c \in DOMAIN f.compilers |-> RunsOfCompiler(f, f.compilers[c])])

Repetitions(f) == 1 .. f.repetitions
CasesOf(f) == ToSet(f.compilers) \X ToSet(f.threads) \X ToSet(f.cases)

\* What the assumption says of a configuration.
LEMMA ConfigTypes ==
  ASSUME NEW f \in Configs
  PROVE  /\ f.compilers \in Seq(Compilers) /\ IsInjective(f.compilers)
         /\ f.threads \in Seq(Nat) /\ IsInjective(f.threads)
         /\ f.cases \in Seq(Nat) /\ IsInjective(f.cases)
         /\ f.repetitions \in Nat \ {0}
         /\ \A k \in ToSet(f.cases) : \A v \in Measured[k] :
              /\ \A m \in Metrics : v[m] \in Int
              /\ v["success"] + v["failed"] = k
BY EvaluationAssumption DEF Compilers

\* The repetitions of a case, in their order.
LEMMA CaseRuns ==
  ASSUME NEW f \in Configs, NEW c \in Compilers, NEW t \in Nat, NEW k \in Nat
  PROVE  /\ RunsOfCase(f, c, t, k) \in Seq(Run) /\ Chain(RunsOfCase(f, c, t, k), Later(Run))
         /\ \A x : x \in ToSet(RunsOfCase(f, c, t, k))
                     <=> \E rep \in Repetitions(f) : x = RunOf(c, t, k, rep)
<1> DEFINE n == f.repetitions
           s == RunsOfCase(f, c, t, k)
<1>1. n \in Nat
  BY ConfigTypes
<1>2. s = [rep \in 1 .. n |-> RunOf(c, t, k, rep)]
        /\ \A rep \in 1 .. n : RunOf(c, t, k, rep) \in Run
  BY <1>1 DEF RunsOfCase, RunOf, Run
<1>3. s \in Seq(Run) /\ Len(s) = n /\ DOMAIN s = 1 .. n
  <2>1. s \in [1 .. n -> Run]
    BY <1>2
  <2> HIDE DEF s, n
  <2> QED  BY <1>1, <2>1, Listed
<1>4. \A rep \in 1 .. n : s[rep] = RunOf(c, t, k, rep)
  BY <1>2
<1> HIDE DEF s, n
<1>5. Chain(s, Later(Run))
  <2> SUFFICES ASSUME NEW a \in 1 .. n, NEW b \in 1 .. n, a < b PROVE <<s[a], s[b]>> \in Later(Run)
    BY <1>3 DEF Chain
  <2>1. s[a] = RunOf(c, t, k, a) /\ s[b] = RunOf(c, t, k, b) /\ s[a] \in Run /\ s[b] \in Run
    BY <1>2, <1>4
  <2>2. s[a].repetition = a /\ s[b].repetition = b
    BY <2>1 DEF RunOf
  <2> QED  BY <2>1, <2>2 DEF Later
<1>6. \A x : x \in ToSet(s) <=> \E rep \in 1 .. n : x = RunOf(c, t, k, rep)
  BY <1>3, <1>4 DEF ToSet
<1> QED  BY <1>3, <1>5, <1>6 DEF s, n, Repetitions

\* Lists that differ in their cases make a chain, whichever is first.
LEMMA OtherCases ==
  ASSUME NEW s, NEW t, ToSet(s) \subseteq Run, ToSet(t) \subseteq Run,
         \A x \in ToSet(s), y \in ToSet(t) : Key(x) # Key(y)
  PROVE  Before(s, t, Later(Run))
BY DEF Before, Later

\* An injective list has two different elements at two places.
LEMMA Differs ==
  ASSUME NEW S, NEW s \in Seq(S), IsInjective(s)
  PROVE  /\ \A i, j \in 1 .. Len(s) : i < j => s[i] # s[j]
         /\ Len(s) \in Nat /\ DOMAIN s = 1 .. Len(s)
         /\ \A i \in 1 .. Len(s) : s[i] \in S
         /\ \A x : x \in ToSet(s) <=> \E i \in 1 .. Len(s) : x = s[i]
<1>1. Len(s) \in Nat /\ DOMAIN s = 1 .. Len(s) /\ \A i \in 1 .. Len(s) : s[i] \in S
  BY ElementsOf, ElementOfSeq
<1>2. \A i, j \in DOMAIN s : s[i] = s[j] => i = j
  BY DEF IsInjective
<1> QED  BY <1>1, <1>2 DEF ToSet

\* What a loop makes of its list: as long as each round makes other cases.
LEMMA InLoop ==
  ASSUME NEW S, NEW s \in Seq(S), IsInjective(s), NEW ss \in [1 .. Len(s) -> Seq(Run)],
         \A i \in 1 .. Len(s) : Chain(ss[i], Later(Run)), NEW f \in {1, 2, 3},
         \A i \in 1 .. Len(s) : \A x \in ToSet(ss[i]) : Key(x)[f] = s[i]
  PROVE  HasFirst(FlattenSeq(ss), Run, ss, Len(s), Later(Run))
<1> DEFINE n == Len(s)
<1>1. n \in Nat /\ \A i, j \in 1 .. n : i < j => s[i] # s[j]
  BY Differs
<1>2. ASSUME NEW i \in 1 .. n, NEW j \in 1 .. n, i < j PROVE Before(ss[i], ss[j], Later(Run))
  <2>1. ToSet(ss[i]) \subseteq Run /\ ToSet(ss[j]) \subseteq Run
    BY ElementsOf
  <2>2. ASSUME NEW x \in ToSet(ss[i]), NEW y \in ToSet(ss[j]) PROVE Key(x) # Key(y)
    <3>1. Key(x)[f] = s[i] /\ Key(y)[f] = s[j]
      BY <1>2, <2>2
    <3>2. s[i] # s[j]
      BY <1>1, <1>2
    <3> QED  BY <3>1, <3>2
  <2> QED  BY <2>1, <2>2, OtherCases
<1> QED  BY <1>1, <1>2, Flattened

\* The runs of all cases with a number of threads.
LEMMA ThreadsRuns ==
  ASSUME NEW f \in Configs, NEW c \in Compilers, NEW t \in Nat
  PROVE  /\ RunsOfThreads(f, c, t) \in Seq(Run) /\ Chain(RunsOfThreads(f, c, t), Later(Run))
         /\ \A x : x \in ToSet(RunsOfThreads(f, c, t))
                     <=> \E k \in ToSet(f.cases), rep \in Repetitions(f) :
                             x = RunOf(c, t, k, rep)
<1> DEFINE s == f.cases
           n == Len(s)
           ss == [i \in DOMAIN s |-> RunsOfCase(f, c, t, s[i])]
<1>1. s \in Seq(Nat) /\ IsInjective(s)
  BY ConfigTypes
<1> HIDE DEF s
<1>2. /\ n \in Nat /\ DOMAIN s = 1 .. n /\ \A i \in 1 .. n : s[i] \in Nat
      /\ \A x : x \in ToSet(s) <=> \E i \in 1 .. n : x = s[i]
  BY <1>1, Differs
<1> HIDE DEF n
<1>3. \A i \in 1 .. n : ss[i] = RunsOfCase(f, c, t, s[i])
  BY <1>2
<1>4. ss \in [1 .. n -> Seq(Run)] /\ \A i \in 1 .. n : Chain(ss[i], Later(Run))
  BY <1>2, CaseRuns
<1> HIDE DEF ss
<1>5. ASSUME NEW i \in 1 .. n
      PROVE  \A x : x \in ToSet(ss[i])
                              <=> \E rep \in Repetitions(f) : x = RunOf(c, t, s[i], rep)
  <2>1. s[i] \in Nat /\ ss[i] = RunsOfCase(f, c, t, s[i])
    BY <1>2, <1>3
  <2> DEFINE k == s[i]
  <2> HIDE DEF k
  <2>2. \A x : x \in ToSet(RunsOfCase(f, c, t, k))
                <=> \E rep \in Repetitions(f) : x = RunOf(c, t, k, rep)
    BY <2>1, CaseRuns DEF k
  <2> QED  BY <2>1, <2>2 DEF k
<1>6. \A i \in 1 .. n : \A x \in ToSet(ss[i]) : Key(x)[3] = s[i]
  <2> SUFFICES ASSUME NEW i \in 1 .. n, NEW x \in ToSet(ss[i]) PROVE Key(x)[3] = s[i]
    OBVIOUS
  <2> QED  BY <1>5 DEF Key, RunOf
<1>7. HasFirst(FlattenSeq(ss), Run, ss, n, Later(Run))
  BY <1>1, <1>4, <1>6, InLoop DEF n
<1>8. FlattenSeq(ss) = RunsOfThreads(f, c, t)
  BY DEF ss, s, RunsOfThreads
<1>9. \A x : x \in ToSet(FlattenSeq(ss))
               <=> \E i \in 1 .. n : \E rep \in Repetitions(f) : x = RunOf(c, t, s[i], rep)
  <2> DEFINE In(x, i) == \E rep \in Repetitions(f) : x = RunOf(c, t, s[i], rep)
  <2>1. \A i \in 1 .. n : \A x : x \in ToSet(ss[i]) <=> In(x, i)
    BY <1>5
  <2> HIDE DEF In
  <2>2. \A x : x \in ToSet(FlattenSeq(ss)) <=> \E i \in 1 .. n : In(x, i)
    BY <1>7, <2>1, Zenon DEF HasFirst
  <2> QED  BY <2>2 DEF In
<1>10. \A x : x \in ToSet(FlattenSeq(ss)) <=> \E k \in ToSet(f.cases), rep \in Repetitions(f) :
        x = RunOf(c, t, k, rep)
  BY <1>2, <1>9, Zenon DEF s
<1> QED  BY <1>7, <1>8, <1>10 DEF HasFirst

\* The runs of a compiler.
LEMMA CompilerRuns ==
  ASSUME NEW f \in Configs, NEW c \in Compilers
  PROVE  /\ RunsOfCompiler(f, c) \in Seq(Run) /\ Chain(RunsOfCompiler(f, c), Later(Run))
         /\ \A x : x \in ToSet(RunsOfCompiler(f, c))
                     <=> \E t \in ToSet(f.threads), k \in ToSet(f.cases),
                            rep \in Repetitions(f) :
                             x = RunOf(c, t, k, rep)
<1> DEFINE s == f.threads
           n == Len(s)
           ss == [i \in DOMAIN s |-> RunsOfThreads(f, c, s[i])]
<1>1. s \in Seq(Nat) /\ IsInjective(s)
  BY ConfigTypes
<1> HIDE DEF s
<1>2. /\ n \in Nat /\ DOMAIN s = 1 .. n /\ \A i \in 1 .. n : s[i] \in Nat
      /\ \A x : x \in ToSet(s) <=> \E i \in 1 .. n : x = s[i]
  BY <1>1, Differs
<1> HIDE DEF n
<1>3. \A i \in 1 .. n : ss[i] = RunsOfThreads(f, c, s[i])
  BY <1>2
<1>4. ss \in [1 .. n -> Seq(Run)] /\ \A i \in 1 .. n : Chain(ss[i], Later(Run))
  BY <1>2, ThreadsRuns
<1> HIDE DEF ss
<1>5. ASSUME NEW i \in 1 .. n
      PROVE  \A x : x \in ToSet(ss[i])
                              <=> \E k \in ToSet(f.cases), rep \in Repetitions(f) :
                                      x = RunOf(c, s[i], k, rep)
  <2>1. s[i] \in Nat /\ ss[i] = RunsOfThreads(f, c, s[i])
    BY <1>2, <1>3
  <2> QED  BY <2>1, ThreadsRuns
<1>6. \A i \in 1 .. n : \A x \in ToSet(ss[i]) : Key(x)[2] = s[i]
  <2> SUFFICES ASSUME NEW i \in 1 .. n, NEW x \in ToSet(ss[i]) PROVE Key(x)[2] = s[i]
    OBVIOUS
  <2> QED  BY <1>5 DEF Key, RunOf
<1>7. HasFirst(FlattenSeq(ss), Run, ss, n, Later(Run))
  BY <1>1, <1>4, <1>6, InLoop DEF n
<1>8. FlattenSeq(ss) = RunsOfCompiler(f, c)
  BY DEF ss, s, RunsOfCompiler
<1>9. \A x : x \in ToSet(FlattenSeq(ss))
               <=> \E i \in 1 .. n : \E k \in ToSet(f.cases), rep \in Repetitions(f) :
                       x = RunOf(c, s[i], k, rep)
  <2> DEFINE In(x, i) == \E k \in ToSet(f.cases), rep \in Repetitions(f) :
                           x = RunOf(c, s[i], k, rep)
  <2>1. \A i \in 1 .. n : \A x : x \in ToSet(ss[i]) <=> In(x, i)
    BY <1>5
  <2> HIDE DEF In
  <2>2. \A x : x \in ToSet(FlattenSeq(ss)) <=> \E i \in 1 .. n : In(x, i)
    BY <1>7, <2>1, Zenon DEF HasFirst
  <2> QED  BY <2>2 DEF In
<1>10. \A x : x \in ToSet(FlattenSeq(ss))
                 <=> \E t \in ToSet(f.threads), k \in ToSet(f.cases), rep \in Repetitions(f) :
        x = RunOf(c, t, k, rep)
  BY <1>2, <1>9, Zenon DEF s
<1> QED  BY <1>7, <1>8, <1>10 DEF HasFirst

\* Every repetition of every case is run, once, the earlier one first.
LEMMA AllRuns ==
  ASSUME NEW f \in Configs
  PROVE  /\ Runs(f) \in Seq(Run) /\ Chain(Runs(f), Later(Run))
         /\ \A x : x \in ToSet(Runs(f))
                     <=> \E c \in ToSet(f.compilers), t \in ToSet(f.threads),
                            k \in ToSet(f.cases), rep \in Repetitions(f) :
                                    x = RunOf(c, t, k, rep)
<1> DEFINE s == f.compilers
           n == Len(s)
           ss == [i \in DOMAIN s |-> RunsOfCompiler(f, s[i])]
<1>1. s \in Seq(Compilers) /\ IsInjective(s)
  BY ConfigTypes
<1> HIDE DEF s
<1>2. /\ n \in Nat /\ DOMAIN s = 1 .. n /\ \A i \in 1 .. n : s[i] \in Compilers
      /\ \A x : x \in ToSet(s) <=> \E i \in 1 .. n : x = s[i]
  BY <1>1, Differs
<1> HIDE DEF n
<1>3. \A i \in 1 .. n : ss[i] = RunsOfCompiler(f, s[i])
  BY <1>2
<1>4. ss \in [1 .. n -> Seq(Run)] /\ \A i \in 1 .. n : Chain(ss[i], Later(Run))
  BY <1>2, CompilerRuns
<1> HIDE DEF ss
<1>5. ASSUME NEW i \in 1 .. n
      PROVE  \A x : x \in ToSet(ss[i])
                              <=> \E t \in ToSet(f.threads), k \in ToSet(f.cases),
                                     rep \in Repetitions(f) :
                                      x = RunOf(s[i], t, k, rep)
  <2>1. s[i] \in Compilers /\ ss[i] = RunsOfCompiler(f, s[i])
    BY <1>2, <1>3
  <2> QED  BY <2>1, CompilerRuns
<1>6. \A i \in 1 .. n : \A x \in ToSet(ss[i]) : Key(x)[1] = s[i]
  <2> SUFFICES ASSUME NEW i \in 1 .. n, NEW x \in ToSet(ss[i]) PROVE Key(x)[1] = s[i]
    OBVIOUS
  <2> QED  BY <1>5 DEF Key, RunOf
<1>7. HasFirst(FlattenSeq(ss), Run, ss, n, Later(Run))
  BY <1>1, <1>4, <1>6, InLoop DEF n
<1>8. FlattenSeq(ss) = Runs(f)
  BY DEF ss, s, Runs
<1>9. \A x : x \in ToSet(FlattenSeq(ss))
               <=> \E i \in 1 .. n :
                    \E t \in ToSet(f.threads), k \in ToSet(f.cases), rep \in Repetitions(f) :
                       x = RunOf(s[i], t, k, rep)
  <2> DEFINE In(x, i) == \E t \in ToSet(f.threads), k \in ToSet(f.cases),
                             rep \in Repetitions(f) : x = RunOf(s[i], t, k, rep)
  <2>1. \A i \in 1 .. n : \A x : x \in ToSet(ss[i]) <=> In(x, i)
    BY <1>5
  <2> HIDE DEF In
  <2>2. \A x : x \in ToSet(FlattenSeq(ss)) <=> \E i \in 1 .. n : In(x, i)
    BY <1>7, <2>1, Zenon DEF HasFirst
  <2> QED  BY <2>2 DEF In
<1>10. \A x : x \in ToSet(FlattenSeq(ss))
                 <=> \E c \in ToSet(f.compilers), t \in ToSet(f.threads),
                            k \in ToSet(f.cases), rep \in Repetitions(f) :
                                    x = RunOf(c, t, k, rep)
  BY <1>2, <1>9, Zenon DEF s
<1> QED  BY <1>7, <1>8, <1>10 DEF HasFirst

\* The model's ToRun is the list above.
LEMMA RunsAreToRun == ToRun = Runs(config)
BY DEF ToRun, Runs, RunsOfCompiler, RunsOfThreads, RunsOfCase, RunOf

-----------------------------------------------------------------------------
(* The results of all cases.                                                *)

\* A result: of a run, with its values.
Entry(f) == [compiler : Compilers, threads : Nat, clients : Nat, repetition : Nat,
             value : UNION {Measured[k] : k \in ToSet(f.cases)}]

\* The results of the first runs.
Taken(f, s) ==
  /\ s \in Seq(Entry(f)) /\ Len(s) <= Len(Runs(f))
  /\ \A i \in 1 .. Len(s) :
       /\ RunOf(s[i].compiler, s[i].threads, s[i].clients, s[i].repetition) = Runs(f)[i]
       /\ s[i].value \in Measured[s[i].clients]

\* One result of each repetition of each case, and no other.
Complete(f, s) ==
  /\ s \in Seq(Entry(f)) /\ Chain(s, Later(Entry(f)))
  /\ \A x \in ToSet(s) : /\ Key(x) \in CasesOf(f) /\ x.repetition \in Repetitions(f)
                         /\ x.value \in Measured[x.clients]
  /\ \A k \in CasesOf(f), rep \in Repetitions(f) :
       \E x \in ToSet(s) : Key(x) = k /\ x.repetition = rep

\* Equal runs have equal fields.
LEMMA SameRun ==
  ASSUME NEW c, NEW t, NEW k, NEW r, NEW c1, NEW t1, NEW k1, NEW r1,
         RunOf(c, t, k, r) = RunOf(c1, t1, k1, r1)
  PROVE  c = c1 /\ t = t1 /\ k = k1 /\ r = r1
<1>1. /\ RunOf(c, t, k, r).compiler = RunOf(c1, t1, k1, r1).compiler
      /\ RunOf(c, t, k, r).threads = RunOf(c1, t1, k1, r1).threads
      /\ RunOf(c, t, k, r).clients = RunOf(c1, t1, k1, r1).clients
      /\ RunOf(c, t, k, r).repetition = RunOf(c1, t1, k1, r1).repetition
  OBVIOUS
<1> QED  BY <1>1 DEF RunOf

\* When every run has its result, they are complete.
LEMMA AllTaken ==
  ASSUME NEW f \in Configs, NEW s, Taken(f, s), Len(s) = Len(Runs(f))
  PROVE  Complete(f, s)
<1> DEFINE n == Len(s)
           all == Runs(f)
           of(x) == RunOf(x.compiler, x.threads, x.clients, x.repetition)
<1>1. /\ s \in Seq(Entry(f)) /\ n \in Nat /\ DOMAIN s = 1 .. n
      /\ ToSet(s) = {s[i] : i \in 1 .. n}
      /\ \A i \in 1 .. n : s[i] \in Entry(f)
  BY ElementsOf, ElementOfSeq DEF Taken
<1>2. /\ all \in Seq(Run) /\ Chain(all, Later(Run)) /\ Len(all) = n
      /\ ToSet(all) = {all[i] : i \in 1 .. n}
  BY AllRuns, ElementsOf
<1>3. \A x : x \in ToSet(all)
               <=> \E c \in ToSet(f.compilers), t \in ToSet(f.threads), k \in ToSet(f.cases),
                      rep \in Repetitions(f) : x = RunOf(c, t, k, rep)
  BY AllRuns
<1>4. \A i \in 1 .. n : of(s[i]) = all[i] /\ s[i].value \in Measured[s[i].clients]
  BY DEF Taken
<1>5. Chain(s, Later(Entry(f)))
  <2> SUFFICES ASSUME NEW a \in 1 .. n, NEW b \in 1 .. n, a < b
               PROVE  <<s[a], s[b]>> \in Later(Entry(f))
    BY DEF Chain
  <2>1. <<all[a], all[b]>> \in Later(Run)
    BY <1>2 DEF Chain
  <2>2. Key(all[a]) = Key(all[b]) => all[a].repetition < all[b].repetition
    BY <2>1 DEF Later
  <2>3. ASSUME NEW i \in 1 .. n
        PROVE  Key(all[i]) = Key(s[i]) /\ all[i].repetition = s[i].repetition
    <3>1. all[i] = of(s[i])
      BY <1>4
    <3>2. of(s[i]) = [compiler |-> s[i].compiler, threads |-> s[i].threads,
                      clients |-> s[i].clients, repetition |-> s[i].repetition]
      BY DEF RunOf
    <3> HIDE DEF all, of
    <3> QED  BY <3>1, <3>2 DEF Key
  <2> QED  BY <1>1, <2>2, <2>3 DEF Later
<1>6. ASSUME NEW x \in ToSet(s)
      PROVE  /\ Key(x) \in CasesOf(f) /\ x.repetition \in Repetitions(f)
             /\ x.value \in Measured[x.clients]
  <2>1. PICK i \in 1 .. n : x = s[i]
    BY <1>1
  <2>2. all[i] \in ToSet(all) /\ of(x) = all[i] /\ x.value \in Measured[x.clients]
    BY <1>2, <1>4, <2>1
  <2> HIDE DEF all
  <2>3. PICK c \in ToSet(f.compilers), t \in ToSet(f.threads), k \in ToSet(f.cases),
             rep \in Repetitions(f) : of(x) = RunOf(c, t, k, rep)
    BY <1>3, <2>2
  <2>4. x.compiler = c /\ x.threads = t /\ x.clients = k /\ x.repetition = rep
    BY <2>3, SameRun
  <2> QED  BY <2>2, <2>4 DEF Key, CasesOf
<1>7. ASSUME NEW k \in CasesOf(f), NEW rep \in Repetitions(f)
      PROVE  \E x \in ToSet(s) : Key(x) = k /\ x.repetition = rep
  <2>1. /\ k = <<k[1], k[2], k[3]>> /\ k[1] \in ToSet(f.compilers)
        /\ k[2] \in ToSet(f.threads) /\ k[3] \in ToSet(f.cases)
    BY DEF CasesOf
  <2>2. RunOf(k[1], k[2], k[3], rep) \in ToSet(all)
    BY <1>3, <2>1
  <2> HIDE DEF all
  <2>3. PICK i \in 1 .. n : RunOf(k[1], k[2], k[3], rep) = all[i]
    BY <1>2, <2>2
  <2>4. s[i] \in ToSet(s) /\ of(s[i]) = RunOf(k[1], k[2], k[3], rep)
    BY <1>1, <1>4, <2>3
  <2>5. /\ s[i].compiler = k[1] /\ s[i].threads = k[2] /\ s[i].clients = k[3]
        /\ s[i].repetition = rep
    BY <2>4, SameRun
  <2> QED  BY <2>1, <2>4, <2>5 DEF Key
<1> QED  BY <1>1, <1>5, <1>6, <1>7 DEF Complete

\* A repetition of a case has one result.
LEMMA OneResult ==
  ASSUME NEW f, NEW s, Complete(f, s), NEW x \in ToSet(s), NEW y \in ToSet(s),
         Key(x) = Key(y), x.repetition = y.repetition
  PROVE  x = y
<1>1. s \in Seq(Entry(f)) /\ Chain(s, Later(Entry(f))) /\ x \in Entry(f)
  BY ElementsOf DEF Complete
<1>2. Len(s) \in Nat /\ \E i, j \in 1 .. Len(s) : x = s[i] /\ y = s[j]
  BY <1>1, ElementsOf
<1>3. PICK i \in 1 .. Len(s), j \in 1 .. Len(s) : x = s[i] /\ y = s[j]
  BY <1>2
<1>4. x.repetition \in Nat
  BY <1>1 DEF Entry
<1>5. i < j => x.repetition < y.repetition
  BY <1>1, <1>3 DEF Chain, Later
<1>6. j < i => y.repetition < x.repetition
  BY <1>1, <1>3 DEF Chain, Later
<1>7. i = j
  BY <1>2, <1>4, <1>5, <1>6
<1> QED  BY <1>3, <1>7

-----------------------------------------------------------------------------
(* The results of one case, in the order of its repetitions.                *)

OfCase(q, f, s, k) ==
  /\ q \in Seq(Entry(f)) /\ \A x : x \in ToSet(q) <=> x \in ToSet(s) /\ Key(x) = k
  /\ \A i, j \in 1 .. Len(q) : i < j => q[i].repetition < q[j].repetition

\* They are as many as the repetitions, one of each.
LEMMA OnePerRepetition ==
  ASSUME NEW f \in Configs, NEW s, Complete(f, s), NEW k \in CasesOf(f), NEW q, OfCase(q, f, s, k)
  PROVE  /\ Len(q) = f.repetitions /\ DOMAIN q = Repetitions(f)
         /\ \A i \in Repetitions(f) : /\ q[i] \in ToSet(s) /\ Key(q[i]) = k
                                      /\ q[i].repetition = i
<1> DEFINE n == Len(q)
           reps == [i \in 1 .. n |-> q[i].repetition]
<1>1. /\ n \in Nat /\ DOMAIN q = 1 .. n /\ ToSet(q) = {q[i] : i \in 1 .. n}
      /\ \A i \in 1 .. n : q[i] \in Entry(f)
  BY ElementsOf, ElementOfSeq DEF OfCase
<1>2. reps \in [1 .. n -> Nat]
  BY <1>1 DEF Entry
<1>3. f.repetitions \in Nat
  BY ConfigTypes
<1>4. \A i \in 1 .. n : reps[i] = q[i].repetition
  OBVIOUS
<1>5. \A i \in 1 .. n : q[i] \in ToSet(s) /\ Key(q[i]) = k
  BY <1>1 DEF OfCase
<1>6. \A i, j \in 1 .. n : i < j => q[i].repetition < q[j].repetition
  BY DEF OfCase
<1>7. \A x \in ToSet(s) : Key(x) = k => \E i \in 1 .. n : x = q[i]
  BY <1>1 DEF OfCase
<1> HIDE DEF reps, n
<1>8. reps \in Seq(Nat) /\ Len(reps) = n
  BY <1>1, <1>2, Listed
<1>9. Chain(reps, Less)
  BY <1>2, <1>4, <1>6, <1>8 DEF Chain, Less
<1>10. ToSet(reps) = 1 .. f.repetitions
  <2>1. ToSet(reps) = {reps[i] : i \in 1 .. n}
    BY <1>8, ElementsOf
  <2>2. \A i \in 1 .. n : reps[i] \in 1 .. f.repetitions
    BY <1>4, <1>5 DEF Complete, Repetitions
  <2>3. \A rep \in 1 .. f.repetitions : \E i \in 1 .. n : reps[i] = rep
    BY <1>4, <1>7 DEF Complete, Repetitions
  <2> QED  BY <2>1, <2>2, <2>3
<1>11. Len(reps) = f.repetitions /\ \A i \in 1 .. f.repetitions : reps[i] = i
  BY <1>3, <1>8, <1>9, <1>10, CountsUp
<1> QED  BY <1>1, <1>4, <1>5, <1>8, <1>11 DEF n, Repetitions

\* There is one such list.
LEMMA OneList ==
  ASSUME NEW f \in Configs, NEW s, Complete(f, s), NEW k \in CasesOf(f),
         NEW p, OfCase(p, f, s, k), NEW q, OfCase(q, f, s, k)
  PROVE  p = q
<1>1. /\ Len(p) = f.repetitions /\ Len(q) = f.repetitions
      /\ \A i \in Repetitions(f) : /\ p[i] \in ToSet(s) /\ Key(p[i]) = k /\ p[i].repetition = i
                                   /\ q[i] \in ToSet(s) /\ Key(q[i]) = k /\ q[i].repetition = i
  BY OnePerRepetition
<1>2. \A i \in Repetitions(f) : p[i] = q[i]
  BY <1>1, OneResult
<1>3. p \in Seq(Entry(f)) /\ q \in Seq(Entry(f))
  BY DEF OfCase
<1> QED  BY <1>1, <1>2, <1>3, SeqEqual DEF Repetitions

\* What summarize_results groups under a case are its results.
LEMMA ResultsOfCase ==
  ASSUME NEW f \in Configs, NEW s, Complete(f, s), NEW k \in CasesOf(f)
  PROVE  OfCase(ResultsOf(s, k), f, s, k)
<1> DEFINE q == ResultsOf(s, k)
           E == Entry(f)
           T == {r \in ToSet(s) : Key(r) = k}
<1>1. s \in Seq(E) /\ Chain(s, Later(E))
  BY DEF Complete
<1>2. q = Select(s, T)
  BY DEF ResultsOf
<1> HIDE DEF q, E
<1>3. q \in Seq(E) /\ Chain(q, Later(E)) /\ ToSet(q) = ToSet(s) \cap T
  BY <1>1, <1>2, Selected
<1>4. \A x : x \in ToSet(q) <=> x \in ToSet(s) /\ Key(x) = k
  BY <1>3
<1>5. \A i \in 1 .. Len(q) : q[i] \in ToSet(q)
  BY <1>3, ElementsOf
<1>6. \A i, j \in 1 .. Len(q) : i < j => q[i].repetition < q[j].repetition
  BY <1>3, <1>4, <1>5 DEF Chain, Later
<1> QED  BY <1>3, <1>4, <1>6 DEF OfCase, q, E

-----------------------------------------------------------------------------
(* The summary: an item for each case, with all its repetitions.            *)

ItemOf(s, k) ==
  [compiler |-> k[1], threads |-> k[2], clients |-> k[3], runs |-> Len(ResultsOf(s, k)),
   stats |-> [m \in Metrics |-> compute_stats(Values(ResultsOf(s, k), m))]]
Items(f, s) == {ItemOf(s, k) : k \in CasesOf(f)}

Summarizes(u, f, s) ==
  /\ u \in Seq(Items(f, s)) /\ ToSet(u) = Items(f, s)
  /\ \A i, j \in 1 .. Len(u) : i < j => Case(u[i]) # Case(u[j])

\* The case of an item.
LEMMA CaseOfItem ==
  ASSUME NEW f, NEW s, NEW k \in CasesOf(f)
  PROVE  /\ ItemOf(s, k).compiler = k[1] /\ ItemOf(s, k).threads = k[2]
         /\ ItemOf(s, k).clients = k[3] /\ Case(ItemOf(s, k)) = CaseNamed(k)
         /\ k = <<k[1], k[2], k[3]>>
         /\ k[1] \in ToSet(f.compilers) /\ k[2] \in ToSet(f.threads) /\ k[3] \in ToSet(f.cases)
<1>1. /\ ItemOf(s, k).compiler = k[1] /\ ItemOf(s, k).threads = k[2]
      /\ ItemOf(s, k).clients = k[3]
  BY DEF ItemOf
<1>2. Case(ItemOf(s, k)) = CaseNamed(k)
  BY <1>1, Zenon DEF Case, CaseNamed
<1> QED  BY <1>1, <1>2 DEF CasesOf

\* The name of a case tells it from all others.
LEMMA CasesDiffer ==
  ASSUME NEW f, NEW k \in CasesOf(f), NEW l \in CasesOf(f), CaseNamed(k) = CaseNamed(l)
  PROVE  k = l
<1>1. /\ CaseNamed(k).compiler = CaseNamed(l).compiler
      /\ CaseNamed(k).threads = CaseNamed(l).threads
      /\ CaseNamed(k).clients = CaseNamed(l).clients
  OBVIOUS
<1>2. k[1] = l[1] /\ k[2] = l[2] /\ k[3] = l[3]
  BY <1>1 DEF CaseNamed
<1>3. k = <<k[1], k[2], k[3]>> /\ l = <<l[1], l[2], l[3]>>
  BY DEF CasesOf
<1> QED  BY <1>2, <1>3

\* Whatever the order of the names, each case has its item, once.
LEMMA Summarized ==
  ASSUME NEW f \in Configs, NEW s, Complete(f, s)
  PROVE  Summarizes(summarize_results(s), f, s)
<1> DEFINE K == CasesOf(f)
           of == [i \in DOMAIN s |-> Key(s[i])]
           cases == Keys(of)
           keys == SortedBy(cases, CaseOrder(cases))
           u == summarize_results(s)
<1>1. /\ Len(s) \in Nat /\ DOMAIN s = 1 .. Len(s) /\ ToSet(s) = {s[i] : i \in 1 .. Len(s)}
      /\ \A x \in ToSet(s) : Key(x) \in K
  BY ElementsOf DEF Complete
<1>2. of \in [1 .. Len(s) -> K] /\ \A i \in 1 .. Len(s) : of[i] = Key(s[i])
  BY <1>1
<1>3. 1 \in Repetitions(f)
  BY ConfigTypes DEF Repetitions
<1>4. u = [i \in DOMAIN keys |-> ItemOf(s, keys[i])]
  BY DEF summarize_results, ItemOf
<1> HIDE DEF of, K
<1>5. of \in Seq(K) /\ Len(of) = Len(s)
  BY <1>1, <1>2, Listed
<1>6. ToSet(of) = K
  <2>1. ToSet(of) = {of[i] : i \in 1 .. Len(s)} /\ ToSet(of) \subseteq K
    BY <1>5, ElementsOf
  <2>2. \A k \in K : \E i \in 1 .. Len(s) : k = of[i]
    BY <1>1, <1>2, <1>3 DEF Complete, K
  <2> QED  BY <2>1, <2>2
<1>7. cases \in Seq(K) /\ ToSet(cases) = K /\ Chain(cases, Unlike(K))
  BY <1>5, <1>6, KeysOnce
<1> DEFINE R == CaseOrder(cases)
<1> HIDE DEF cases, R
<1>8. keys \in Seq(K) /\ ToSet(keys) = K /\ Chain(keys, Unlike(K))
  BY <1>7, Sorting DEF R
<1> HIDE DEF keys, u
<1>9. /\ Len(keys) \in Nat /\ DOMAIN keys = 1 .. Len(keys)
      /\ ToSet(keys) = {keys[i] : i \in 1 .. Len(keys)}
      /\ \A i \in 1 .. Len(keys) : keys[i] \in K
  BY <1>8, ElementsOf, ElementOfSeq
<1>10. /\ u \in [1 .. Len(keys) -> Items(f, s)]
       /\ \A i \in 1 .. Len(keys) : u[i] = ItemOf(s, keys[i])
  BY <1>4, <1>9 DEF Items, K
<1>11. u \in Seq(Items(f, s)) /\ Len(u) = Len(keys)
  BY <1>9, <1>10, Listed
<1>12. ToSet(u) = Items(f, s)
  <2>1. ToSet(u) = {u[i] : i \in 1 .. Len(keys)} /\ ToSet(u) \subseteq Items(f, s)
    BY <1>11, ElementsOf
  <2>2. ASSUME NEW x \in Items(f, s) PROVE \E i \in 1 .. Len(keys) : x = u[i]
    <3>1. PICK k \in K : x = ItemOf(s, k)
      BY DEF Items, K
    <3>2. PICK i \in 1 .. Len(keys) : k = keys[i]
      BY <1>8, <1>9
    <3> QED  BY <1>10, <3>1, <3>2
  <2> QED  BY <2>1, <2>2
<1>13. ASSUME NEW i \in 1 .. Len(u), NEW j \in 1 .. Len(u), i < j PROVE Case(u[i]) # Case(u[j])
  <2>1. keys[i] \in K /\ keys[j] \in K /\ keys[i] # keys[j]
    BY <1>8, <1>9, <1>11, <1>13 DEF Chain, Unlike
  <2>2. Case(u[i]) = CaseNamed(keys[i]) /\ Case(u[j]) = CaseNamed(keys[j])
    BY <1>10, <1>11, <2>1, CaseOfItem DEF K
  <2> QED  BY <2>1, <2>2, CasesDiffer DEF K
<1> QED  BY <1>11, <1>12, <1>13 DEF Summarizes, u

-----------------------------------------------------------------------------
(* The mean of a case.                                                      *)

CaseMean(s, k, m) == Mean(Values(ResultsOf(s, k), m))

\* The values of a metric that a case has, one for each repetition.
LEMMA ValuesOfCase ==
  ASSUME NEW f \in Configs, NEW s, Complete(f, s), NEW k \in CasesOf(f), NEW m \in Metrics
  PROVE  LET v == Values(ResultsOf(s, k), m)
         IN  /\ v \in [Repetitions(f) -> Int] /\ Len(v) = f.repetitions /\ v # <<>>
             /\ \A i \in Repetitions(f) : v[i] = ResultsOf(s, k)[i].value[m]
<1> DEFINE q == ResultsOf(s, k)
           v == Values(q, m)
           n == f.repetitions
<1>1. /\ DOMAIN q = 1 .. n
      /\ \A i \in 1 .. n : q[i] \in ToSet(s) /\ Key(q[i]) = k
  BY ResultsOfCase, OnePerRepetition DEF Repetitions
<1>2. n \in Nat \ {0}
  BY ConfigTypes
<1>3. v = [i \in 1 .. n |-> q[i].value[m]]
  BY <1>1 DEF Values
<1> HIDE DEF q, v, n
<1>4. ASSUME NEW i \in 1 .. n PROVE q[i].value[m] \in Int
  <2>1. q[i].value \in Measured[q[i].clients] /\ Key(q[i]) \in CasesOf(f)
    BY <1>1 DEF Complete
  <2>2. q[i].clients \in ToSet(f.cases)
    BY <2>1 DEF Key, CasesOf
  <2> QED  BY <2>1, <2>2, ConfigTypes
<1>5. v \in [1 .. n -> Int] /\ \A i \in 1 .. n : v[i] = q[i].value[m]
  BY <1>3, <1>4
<1>6. v \in Seq(Int) /\ Len(v) = n
  BY <1>2, <1>5, Listed
<1>7. v # <<>>
  BY <1>2, <1>6, EmptySeq
<1> QED  BY <1>5, <1>6, <1>7 DEF q, v, n, Repetitions

\* The mean in the statistics, in a cell and of the values are the same.
LEMMA MeanOfItem ==
  ASSUME NEW f \in Configs, NEW s, Complete(f, s), NEW k \in CasesOf(f), NEW m \in Metrics
  PROVE  /\ MeanOf(ItemOf(s, k).stats[m]) = CaseMean(s, k, m)
         /\ Cell(ItemOf(s, k).stats[m]).mean = CaseMean(s, k, m)
         /\ CaseMean(s, k, m)[2] = f.repetitions
<1> DEFINE v == Values(ResultsOf(s, k), m)
<1>1. ItemOf(s, k).stats[m] = compute_stats(v)
  BY DEF ItemOf
<1>2. Len(v) = f.repetitions
  BY ValuesOfCase
<1> HIDE DEF v
<1>3. compute_stats(v).total = Mean(v)[1] /\ compute_stats(v).count = Len(v)
  BY DEF compute_stats, Mean
<1>4. MeanOf(compute_stats(v)) = Mean(v) /\ Mean(v)[2] = Len(v)
  BY <1>3 DEF MeanOf, Mean
<1>5. Cell(compute_stats(v)).mean = MeanOf(compute_stats(v))
  BY DEF Cell
<1> QED  BY <1>1, <1>2, <1>4, <1>5 DEF CaseMean, v

-----------------------------------------------------------------------------
(* The points of the plots.                                                 *)

\* The curves under a legend have a point at k, and it has this value.
Shows(curves, field, legend, k, value) ==
  /\ \A i \in DOMAIN curves : curves[i][field] = legend =>
       \A q \in ToSet(curves[i].mean) : q[1] = k => q[2] = value
  /\ \E i \in DOMAIN curves : /\ curves[i][field] = legend
                              /\ \E q \in ToSet(curves[i].mean) : q[1] = k

\* A curve that shows one value at k has one point there.
LEMMA OnePoint ==
  ASSUME NEW curves, NEW field, NEW legend, NEW k, NEW value,
         Shows(curves, field, legend, k, value)
  PROVE  PointsAt(curves, field, legend, k) = {value}
<1> DEFINE at(i) == {p[2] : p \in {q \in ToSet(curves[i].mean) : q[1] = k}}
           I == {j \in DOMAIN curves : curves[j][field] = legend}
<1>1. \A i \in I : at(i) \subseteq {value}
  BY DEF Shows
<1>2. \E i \in I : value \in at(i)
  BY DEF Shows
<1>3. PointsAt(curves, field, legend, k) = UNION {at(i) : i \in I}
  BY DEF PointsAt
<1> HIDE DEF at, I
<1> QED  BY <1>1, <1>2, <1>3

\* A list with an element has a first one.
LEMMA FirstOne ==
  ASSUME NEW S, NEW q \in Seq(S), NEW x \in ToSet(q)
  PROVE  q # <<>> /\ 1 \in DOMAIN q /\ q[1] \in ToSet(q)
<1>1. /\ Len(q) \in Nat /\ DOMAIN q = 1 .. Len(q) /\ ToSet(q) = {q[i] : i \in 1 .. Len(q)}
  BY ElementsOf
<1>2. 1 \in 1 .. Len(q)
  BY <1>1
<1>3. q # <<>>
  BY <1>2, EmptySeq
<1> QED  BY <1>1, <1>2, <1>3

\* What is chosen of a summary by compiler and threads.
LEMMA ItemsOf ==
  ASSUME NEW f, NEW s, NEW u, Summarizes(u, f, s), NEW k \in CasesOf(f)
  PROVE  LET q == RunsOf(u, k[1], k[2])
         IN  /\ q \in Seq(Items(f, s)) /\ ItemOf(s, k) \in ToSet(q)
             /\ \A x \in ToSet(q) : x.clients = k[3] => x = ItemOf(s, k)
<1> DEFINE q == RunsOf(u, k[1], k[2])
           T == {r \in ToSet(u) : r.compiler = k[1] /\ r.threads = k[2]}
<1>1. u \in Seq(Items(f, s)) /\ ToSet(u) = Items(f, s)
  BY DEF Summarizes
<1>2. q = Select(u, T)
  BY DEF RunsOf
<1>3. \A x : x \in T <=> x \in Items(f, s) /\ x.compiler = k[1] /\ x.threads = k[2]
  BY <1>1
<1> HIDE DEF q, T
<1>4. q \in Seq(Items(f, s)) /\ ToSet(q) = ToSet(u) \cap T
  BY <1>1, <1>2, SelectedSet
<1>5. ItemOf(s, k) \in ToSet(q)
  BY <1>1, <1>3, <1>4, CaseOfItem DEF Items
<1>6. ASSUME NEW x \in ToSet(q), x.clients = k[3] PROVE x = ItemOf(s, k)
  <2>1. x \in Items(f, s) /\ x.compiler = k[1] /\ x.threads = k[2]
    BY <1>3, <1>4
  <2>2. PICK l \in CasesOf(f) : x = ItemOf(s, l)
    BY <2>1 DEF Items
  <2>3. l[1] = k[1] /\ l[2] = k[2] /\ l[3] = k[3]
    BY <1>6, <2>1, <2>2, CaseOfItem
  <2>4. l = <<l[1], l[2], l[3]>> /\ k = <<k[1], k[2], k[3]>>
    BY CaseOfItem
  <2> QED  BY <2>2, <2>3, <2>4
<1> QED  BY <1>4, <1>5, <1>6 DEF q

\* The comparison's plot shows a case at the mean of its results.
LEMMA ComparedPoint ==
  ASSUME NEW f \in Configs, NEW s, Complete(f, s), NEW u, Summarizes(u, f, s),
         NEW k \in CasesOf(f), NEW m \in Metrics
  PROVE  PointsAt(make_compiler_comparison_plot(f, u, k[2], m), "compiler", k[1], k[3])
           = {CaseMean(s, k, m)}
<1> DEFINE of(c) == SortedBy(RunsOf(u, c, k[2]), ByClients(u))
           T == {c \in ToSet(f.compilers) : of(c) # <<>>}
           run == Select(f.compilers, T)
           mean(c) == [j \in DOMAIN of(c) |-> <<of(c)[j].clients, MeanOf(of(c)[j].stats[m])>>]
           curves == make_compiler_comparison_plot(f, u, k[2], m)
           c == k[1]
<1>1. curves = [i \in DOMAIN run |-> [compiler |-> run[i], mean |-> mean(run[i])]]
  BY DEF make_compiler_comparison_plot
<1>2. /\ of(c) \in Seq(Items(f, s)) /\ ItemOf(s, k) \in ToSet(of(c))
      /\ \A x \in ToSet(of(c)) : x.clients = k[3] => x = ItemOf(s, k)
  <2> DEFINE q == RunsOf(u, k[1], k[2])
             R == ByClients(u)
  <2>1. /\ q \in Seq(Items(f, s)) /\ ItemOf(s, k) \in ToSet(q)
        /\ \A x \in ToSet(q) : x.clients = k[3] => x = ItemOf(s, k)
    BY ItemsOf
  <2> HIDE DEF q, R
  <2>2. SortedBy(q, R) \in Seq(Items(f, s)) /\ ToSet(SortedBy(q, R)) = ToSet(q)
    BY <2>1, Sorting
  <2> QED  BY <2>1, <2>2 DEF q, R
<1>3. f.compilers \in Seq(Compilers) /\ c \in ToSet(f.compilers) /\ ItemOf(s, k).clients = k[3]
  BY ConfigTypes, CaseOfItem
<1>4. c \in T
  BY <1>2, <1>3, FirstOne
<1> HIDE DEF of, T, curves
<1>5. run \in Seq(Compilers) /\ c \in ToSet(run)
  BY <1>3, <1>4, SelectedSet
<1> HIDE DEF run
<1>6. PICK i \in DOMAIN run : run[i] = c
  BY <1>5 DEF ToSet
<1>7. /\ DOMAIN of(c) = 1 .. Len(of(c))
      /\ ToSet(of(c)) = {of(c)[j] : j \in 1 .. Len(of(c))}
  BY <1>2, ElementsOf
<1>8. \A p : p \in ToSet(mean(c))
               <=> \E x \in ToSet(of(c)) : p = <<x.clients, MeanOf(x.stats[m])>>
  BY <1>7 DEF ToSet
<1> HIDE DEF mean
<1>9. MeanOf(ItemOf(s, k).stats[m]) = CaseMean(s, k, m)
  BY MeanOfItem
<1>10. \A p \in ToSet(mean(c)) : p[1] = k[3] => p[2] = CaseMean(s, k, m)
  BY <1>2, <1>8, <1>9
<1>11. \E p \in ToSet(mean(c)) : p[1] = k[3]
  <2> DEFINE x == ItemOf(s, k)
             p == <<x.clients, MeanOf(x.stats[m])>>
  <2>1. p \in ToSet(mean(c))
    BY <1>2, <1>8
  <2>2. p[1] = k[3]
    BY <1>3
  <2> QED  BY <2>1, <2>2
<1>12. /\ DOMAIN curves = DOMAIN run
       /\ \A j \in DOMAIN run : curves[j]["compiler"] = run[j] /\ curves[j].mean = mean(run[j])
  BY <1>1
<1> DEFINE name == "compiler"
           value == CaseMean(s, k, m)
<1>13. \A j \in DOMAIN run : curves[j][name] = run[j] /\ curves[j].mean = mean(run[j])
  BY <1>12
<1> HIDE DEF name, value
<1>14. \A j \in DOMAIN curves : curves[j][name] = c =>
         \A q \in ToSet(curves[j].mean) : q[1] = k[3] => q[2] = value
  BY <1>10, <1>12, <1>13 DEF value
<1>15. \E j \in DOMAIN curves : /\ curves[j][name] = c
                                /\ \E q \in ToSet(curves[j].mean) : q[1] = k[3]
  BY <1>6, <1>11, <1>12, <1>13
<1>16. Shows(curves, name, c, k[3], value)
  BY <1>14, <1>15 DEF Shows
<1>17. PointsAt(curves, name, c, k[3]) = {value}
  BY <1>16, OnePoint
<1> QED  BY <1>17 DEF curves, name, value

\* The results of one compiler and number of threads, sorted by clients and
\* repetition: no two are alike in both.
LEMMA SortedRuns ==
  ASSUME NEW f \in Configs, NEW s, Complete(f, s), NEW c, NEW t
  PROVE  LET q == SortedBy(RunsOf(s, c, t), ByRun(s))
         IN  /\ q \in Seq(Entry(f)) /\ Chain(q, ByRun(s))
             /\ \A x : x \in ToSet(q) <=> x \in ToSet(s) /\ x.compiler = c /\ x.threads = t
<1> DEFINE p == RunsOf(s, c, t)
           T == {r \in ToSet(s) : r.compiler = c /\ r.threads = t}
           E == Entry(f)
           R == ByRun(s)
           q == SortedBy(p, R)
<1>1. s \in Seq(E) /\ Chain(s, Later(E)) /\ ToSet(s) \subseteq E
  BY ElementsOf DEF Complete
<1>2. p = Select(s, T)
  BY DEF RunsOf
<1>3. \A x \in E : x.clients \in Nat /\ x.repetition \in Nat
  BY DEF Entry
<1>4. ASSUME NEW x \in T, NEW y \in T, x # y PROVE <<x, y>> \in R \/ <<y, x>> \in R
  <2>1. /\ x \in ToSet(s) /\ y \in ToSet(s) /\ x.compiler = y.compiler /\ x.threads = y.threads
        /\ x.clients \in Nat /\ x.repetition \in Nat /\ y.clients \in Nat /\ y.repetition \in Nat
    BY <1>1, <1>3
  <2>2. x.clients = y.clients => x.repetition # y.repetition
    BY <1>4, <2>1, OneResult DEF Key
  <2> QED  BY <2>1, <2>2 DEF ByRun
<1>5. ASSUME NEW x \in T, NEW y \in T, NEW z \in T, <<x, y>> \in R, <<y, z>> \in R
      PROVE  <<x, z>> \in R
  <2>1. /\ x \in ToSet(s) /\ z \in ToSet(s)
        /\ x.clients \in Nat /\ x.repetition \in Nat /\ y.clients \in Nat /\ y.repetition \in Nat
        /\ z.clients \in Nat /\ z.repetition \in Nat
    BY <1>1, <1>3
  <2> QED  BY <1>5, <2>1 DEF ByRun
<1>6. \A x : x \in T <=> x \in ToSet(s) /\ x.compiler = c /\ x.threads = t
  OBVIOUS
<1> HIDE DEF p, T, E, R
<1>7. p \in Seq(E) /\ Chain(p, Later(E)) /\ ToSet(p) = ToSet(s) \cap T
  BY <1>1, <1>2, Selected
<1>8. ToSet(p) = T
  BY <1>6, <1>7
<1>9. p \in Seq(T)
  BY <1>7, <1>8, ListOfElements
<1>10. Chain(p, Unlike(T))
  <2>1. \A x, y \in T : <<x, y>> \in Later(E) => <<x, y>> \in Unlike(T)
    <3> SUFFICES ASSUME NEW x \in T, NEW y \in T, <<x, y>> \in Later(E) PROVE x # y
      BY DEF Unlike
    <3>1. Key(x) = Key(y) => x.repetition < y.repetition
      BY DEF Later
    <3>2. x.repetition \in Nat
      BY <1>1, <1>3, <1>6
    <3> QED  BY <3>1, <3>2
  <2> QED  BY <1>7, <1>8, <2>1, ChainWeaker
<1>11. Chain(q, R)
  BY <1>4, <1>5, <1>9, <1>10, SortedInOrder
<1>12. q \in Seq(E) /\ ToSet(q) = ToSet(p)
  BY <1>7, Sorting
<1> QED  BY <1>6, <1>8, <1>11, <1>12 DEF p, R, E

\* Of these, those of one number of clients are the results of the case.
LEMMA SameRuns ==
  ASSUME NEW f \in Configs, NEW s, Complete(f, s), NEW k \in CasesOf(f)
  PROVE  LET of == SortedBy(RunsOf(s, k[1], k[2]), ByRun(s))
         IN  of # <<>> /\ RunsAt(of, k[3]) = ResultsOf(s, k)
<1> DEFINE of == SortedBy(RunsOf(s, k[1], k[2]), ByRun(s))
           T == {r \in ToSet(of) : r.clients = k[3]}
           q == RunsAt(of, k[3])
           E == Entry(f)
           R == ByRun(s)
<1>1. /\ of \in Seq(E) /\ Chain(of, R)
      /\ \A x : x \in ToSet(of) <=> x \in ToSet(s) /\ x.compiler = k[1] /\ x.threads = k[2]
  BY SortedRuns
<1>2. q = Select(of, T)
  BY DEF RunsAt
<1>3. \A x : x \in T <=> x \in ToSet(of) /\ x.clients = k[3]
  OBVIOUS
<1> HIDE DEF of, T, q, E, R
<1>4. q \in Seq(E) /\ Chain(q, R) /\ ToSet(q) = ToSet(of) \cap T
  BY <1>1, <1>2, Selected
<1>5. k = <<k[1], k[2], k[3]>>
  BY CaseOfItem
<1>6. \A x : Key(x) = k <=> x.compiler = k[1] /\ x.threads = k[2] /\ x.clients = k[3]
  <2> SUFFICES ASSUME NEW x
               PROVE  Key(x) = k <=> x.compiler = k[1] /\ x.threads = k[2] /\ x.clients = k[3]
    OBVIOUS
  <2>1. Key(x) = <<x.compiler, x.threads, x.clients>>
    BY DEF Key
  <2>2. /\ Key(x)[1] = x.compiler /\ Key(x)[2] = x.threads /\ Key(x)[3] = x.clients
    BY <2>1
  <2> QED  BY <1>5, <2>1, <2>2
<1>7. \A x : x \in ToSet(q) <=> x \in ToSet(s) /\ Key(x) = k
  BY <1>1, <1>3, <1>4, <1>6
<1>8. ASSUME NEW i \in 1 .. Len(q), NEW j \in 1 .. Len(q), i < j
      PROVE  q[i].repetition < q[j].repetition
  <2>1. <<q[i], q[j]>> \in R
    BY <1>4, <1>8 DEF Chain
  <2>2. q[i] \in ToSet(q) /\ q[j] \in ToSet(q)
    BY <1>4, ElementsOf
  <2>3. q[i].clients = k[3] /\ q[j].clients = k[3]
    BY <1>6, <1>7, <2>2
  <2>4. k[3] \in Nat
    <3>1. f.cases \in Seq(Nat)
      BY ConfigTypes
    <3>2. ToSet(f.cases) \subseteq Nat
      BY <3>1, ElementsOf
    <3> QED  BY <3>2, CaseOfItem
  <2> QED  BY <2>1, <2>3, <2>4 DEF R, ByRun
<1>9. OfCase(q, f, s, k)
  BY <1>4, <1>7, <1>8 DEF OfCase, E
<1>10. q = ResultsOf(s, k)
  BY <1>9, ResultsOfCase, OneList
<1>11. \E x : x \in ToSet(of)
  <2>1. Len(q) = f.repetitions /\ f.repetitions \in Nat \ {0}
    BY <1>9, OnePerRepetition, ConfigTypes
  <2>2. 1 \in 1 .. Len(q)
    BY <2>1
  <2> QED  BY <1>4, <2>2, ElementsOf
<1>12. of # <<>>
  BY <1>1, <1>11, FirstOne
<1> QED  BY <1>10, <1>12 DEF of, q

\* The compiler's own plot shows a case at the mean of its results.
LEMMA ScatteredPoint ==
  ASSUME NEW f \in Configs, NEW s, Complete(f, s), NEW k \in CasesOf(f), NEW m \in Metrics
  PROVE  PointsAt(make_per_run_scatter_with_mean(f, s, k[1], m), "threads", k[2], k[3])
           = {CaseMean(s, k, m)}
<1> DEFINE of(t) == SortedBy(RunsOf(s, k[1], t), ByRun(s))
           at(t, n) == Values(RunsAt(of(t), n), m)
           N(t) == {n \in ToSet(f.cases) : at(t, n) # <<>>}
           cases(t) == Select(f.cases, N(t))
           T == {t \in ToSet(f.threads) : of(t) # <<>>}
           run == Select(f.threads, T)
           mean(t) == [j \in DOMAIN cases(t) |-> <<cases(t)[j], Mean(at(t, cases(t)[j]))>>]
           runs(t) == [j \in DOMAIN of(t) |-> <<of(t)[j].clients, of(t)[j].value[m]>>]
           curves == make_per_run_scatter_with_mean(f, s, k[1], m)
           t == k[2]
           value == CaseMean(s, k, m)
<1>1. curves = [i \in DOMAIN run |->
                 [threads |-> run[i], runs |-> runs(run[i]), mean |-> mean(run[i])]]
  BY DEF make_per_run_scatter_with_mean
<1>2. of(t) # <<>> /\ RunsAt(of(t), k[3]) = ResultsOf(s, k)
  BY SameRuns
<1>3. at(t, k[3]) # <<>> /\ Mean(at(t, k[3])) = value
  BY <1>2, ValuesOfCase DEF CaseMean
<1>4. f.threads \in Seq(Nat) /\ t \in ToSet(f.threads)
        /\ f.cases \in Seq(Nat) /\ k[3] \in ToSet(f.cases)
  BY ConfigTypes, CaseOfItem
<1>5. t \in T /\ k[3] \in N(t)
  BY <1>2, <1>3, <1>4
<1> HIDE DEF of, at, T, N, runs, value
<1>6. run \in Seq(Nat) /\ t \in ToSet(run)
  BY <1>4, <1>5, SelectedSet
<1>7. cases(t) \in Seq(Nat) /\ k[3] \in ToSet(cases(t))
  BY <1>4, <1>5, SelectedSet
<1> HIDE DEF run, curves, cases
<1>8. PICK i \in DOMAIN run : run[i] = t
  BY <1>6 DEF ToSet
<1>9. \A p : p \in ToSet(mean(t)) <=> \E n \in ToSet(cases(t)) : p = <<n, Mean(at(t, n))>>
  BY DEF ToSet
<1> HIDE DEF mean
<1>10. \A p \in ToSet(mean(t)) : p[1] = k[3] => p[2] = value
  BY <1>3, <1>9
<1>11. \E p \in ToSet(mean(t)) : p[1] = k[3]
  <2> DEFINE p == <<k[3], Mean(at(t, k[3]))>>
  <2>1. p \in ToSet(mean(t)) /\ p[1] = k[3]
    BY <1>7, <1>9
  <2> QED  BY <2>1
<1> DEFINE name == "threads"
<1>12. /\ DOMAIN curves = DOMAIN run
       /\ \A j \in DOMAIN run : curves[j][name] = run[j] /\ curves[j].mean = mean(run[j])
  BY <1>1
<1> HIDE DEF name
<1>13. Shows(curves, name, t, k[3], value)
  BY <1>8, <1>10, <1>11, <1>12 DEF Shows
<1>14. PointsAt(curves, name, t, k[3]) = {value}
  BY <1>13, OnePoint
<1> QED  BY <1>14 DEF curves, name, value

-----------------------------------------------------------------------------
(* The rows of the tables.                                                  *)

\* The row of a case in a table of the summary.
LEMMA RowOfCase ==
  ASSUME NEW f \in Configs, NEW s, Complete(f, s), NEW u, Summarizes(u, f, s),
         NEW k \in CasesOf(f), NEW M \in SUBSET Metrics, NEW m \in M
  PROVE  LET table == [i \in DOMAIN u |-> Row(u[i], M)]
         IN  RowsFor(table, k)[1].cells[m].mean = CaseMean(s, k, m)
<1> DEFINE table == [i \in DOMAIN u |-> Row(u[i], M)]
           n == Len(u)
           S == {Row(x, M) : x \in Items(f, s)}
           T == {r \in ToSet(table) : r.case = CaseNamed(k)}
           q == RowsFor(table, k)
<1>1. /\ n \in Nat /\ DOMAIN u = 1 .. n /\ ToSet(u) = {u[i] : i \in 1 .. n}
      /\ u \in Seq(Items(f, s)) /\ \A i \in 1 .. n : u[i] \in Items(f, s)
      /\ ToSet(u) = Items(f, s)
  BY ElementsOf, ElementOfSeq DEF Summarizes
<1>2. table \in [1 .. n -> S] /\ \A i \in 1 .. n : table[i] = Row(u[i], M)
  BY <1>1
<1>3. q = Select(table, T)
  BY DEF RowsFor
<1>4. \A r : r \in T <=> r \in ToSet(table) /\ r.case = CaseNamed(k)
  OBVIOUS
<1> HIDE DEF table, n, T, q
<1>5. table \in Seq(S) /\ Len(table) = n /\ ToSet(table) = {table[i] : i \in 1 .. n}
  BY <1>1, <1>2, Listed, ElementsOf
<1>6. \A r : r \in ToSet(table) <=> \E x \in Items(f, s) : r = Row(x, M)
  BY <1>1, <1>2, <1>5
<1> HIDE DEF S
<1>7. q \in Seq(S) /\ ToSet(q) = ToSet(table) \cap T
  BY <1>3, <1>5, SelectedSet
<1>8. \A x : Row(x, M).case = Case(x) /\ Row(x, M).cells = [a \in M |-> Cell(x.stats[a])]
  BY DEF Row
<1>9. \A l \in CasesOf(f) : Case(ItemOf(s, l)) = CaseNamed(l)
  BY CaseOfItem
<1>10. Row(ItemOf(s, k), M) \in ToSet(q)
  BY <1>4, <1>6, <1>7, <1>8, <1>9 DEF Items
<1>11. \A r \in ToSet(q) : r = Row(ItemOf(s, k), M)
  <2> SUFFICES ASSUME NEW r \in ToSet(q) PROVE r = Row(ItemOf(s, k), M)
    OBVIOUS
  <2>1. PICK l \in CasesOf(f) : r = Row(ItemOf(s, l), M)
    BY <1>6, <1>7 DEF Items
  <2>2. CaseNamed(l) = CaseNamed(k)
    BY <1>4, <1>7, <1>8, <1>9, <2>1
  <2> QED  BY <2>1, <2>2, CasesDiffer
<1>12. q[1] = Row(ItemOf(s, k), M)
  BY <1>7, <1>10, <1>11, FirstOne
<1>13. q[1].cells[m] = Cell(ItemOf(s, k).stats[m])
  <2> DEFINE x == ItemOf(s, k)
  <2>1. q[1].cells = [a \in M |-> Cell(x.stats[a])]
    BY <1>8, <1>12
  <2> QED  BY <2>1
<1>14. Cell(ItemOf(s, k).stats[m]).mean = CaseMean(s, k, m)
  BY MeanOfItem
<1> QED  BY <1>13, <1>14 DEF q, table

\* The row of a case in the comparison's table, the cells of its compiler.
LEMMA ComparedRow ==
  ASSUME NEW f \in Configs, NEW s, Complete(f, s), NEW u, Summarizes(u, f, s),
         NEW k \in CasesOf(f), NEW m \in {"elapsed_ms", "energy_j", "throughput_mib_s"}
  PROVE  LET table == build_comparison_table_rows(f, u, k[2])
             row == Select(table, {r \in ToSet(table) : r.clients = k[3]})[1]
         IN  (IF k[1] = "gcc" THEN row.gcc ELSE row.clang)[m].mean = CaseMean(s, k, m)
<1> DEFINE M == {"elapsed_ms", "energy_j", "throughput_mib_s"}
           found(c, n) == RunsAt(RunsOf(u, c, k[2]), n)
           cells(c, n) == IF found(c, n) = <<>> THEN <<>> ELSE Row(found(c, n)[1], M).cells
           rowOf(n) == [clients |-> n, gcc |-> cells("gcc", n), clang |-> cells("clang", n)]
           table == build_comparison_table_rows(f, u, k[2])
           T == {r \in ToSet(table) : r.clients = k[3]}
           q == Select(table, T)
           S == {rowOf(n) : n \in ToSet(f.cases)}
<1>1. table = [i \in DOMAIN f.cases |-> rowOf(f.cases[i])]
  BY DEF build_comparison_table_rows
<1>2. /\ found(k[1], k[3]) # <<>> /\ found(k[1], k[3])[1] = ItemOf(s, k)
  <2> DEFINE p == RunsOf(u, k[1], k[2])
             U == {r \in ToSet(p) : r.clients = k[3]}
  <2>1. /\ p \in Seq(Items(f, s)) /\ ItemOf(s, k) \in ToSet(p)
        /\ \A x \in ToSet(p) : x.clients = k[3] => x = ItemOf(s, k)
    BY ItemsOf
  <2>2. ItemOf(s, k) \in U /\ \A x \in U : x = ItemOf(s, k)
    BY <2>1, CaseOfItem
  <2>3. found(k[1], k[3]) = Select(p, U)
    BY DEF RunsAt
  <2> HIDE DEF p, U, found
  <2>4. /\ Select(p, U) \in Seq(Items(f, s))
        /\ ToSet(Select(p, U)) = ToSet(p) \cap U
    BY <2>1, SelectedSet
  <2> QED  BY <2>1, <2>2, <2>3, <2>4, FirstOne
<1>3. cells(k[1], k[3])[m].mean = CaseMean(s, k, m)
  <2>1. m \in Metrics /\ m \in M
    BY DEF Metrics
  <2>2. cells(k[1], k[3])[m] = Cell(ItemOf(s, k).stats[m])
    BY <1>2, <2>1 DEF Row
  <2> QED  BY <2>1, <2>2, MeanOfItem
<1>4. /\ Len(f.cases) \in Nat /\ DOMAIN f.cases = 1 .. Len(f.cases)
      /\ ToSet(f.cases) = {f.cases[i] : i \in 1 .. Len(f.cases)} /\ k[3] \in ToSet(f.cases)
  <2>1. f.cases \in Seq(Nat)
    BY ConfigTypes
  <2>2. k[3] \in ToSet(f.cases)
    BY CaseOfItem
  <2> QED  BY <2>1, <2>2, ElementsOf
<1> HIDE DEF cells, found
<1>5. \A n : rowOf(n).clients = n /\ rowOf(n).gcc = cells("gcc", n)
                /\ rowOf(n).clang = cells("clang", n)
  OBVIOUS
<1> HIDE DEF rowOf
<1>6. table \in [1 .. Len(f.cases) -> S]
  BY <1>1, <1>4
<1>7. \A r : r \in ToSet(table) <=> \E n \in ToSet(f.cases) : r = rowOf(n)
  BY <1>1, <1>4 DEF ToSet
<1>8. \A r : r \in T <=> r \in ToSet(table) /\ r.clients = k[3]
  OBVIOUS
<1> HIDE DEF table, T, S
<1>9. table \in Seq(S)
  BY <1>4, <1>6, Listed
<1>10. q \in Seq(S) /\ ToSet(q) = ToSet(table) \cap T
  BY <1>9, SelectedSet
<1>11. rowOf(k[3]) \in ToSet(q) /\ \A r \in ToSet(q) : r = rowOf(k[3])
  BY <1>4, <1>5, <1>7, <1>8, <1>10
<1> HIDE DEF q
<1>12. q[1] = rowOf(k[3])
  BY <1>10, <1>11, FirstOne
<1>13. k[1] \in {"gcc", "clang"}
  BY CaseOfItem, ConfigTypes, ElementsOf DEF Compilers
<1>14. (IF k[1] = "gcc" THEN q[1].gcc ELSE q[1].clang) = cells(k[1], k[3])
  BY <1>5, <1>12, <1>13
<1> QED  BY <1>3, <1>14 DEF q, T, table

-----------------------------------------------------------------------------
(* Pages of text.                                                           *)

\* The pages after one more line, as in add_text_page.
WithLine(acc, line) ==
  LET page == Append(acc.page, line)
  IN  IF acc.y - 1 < LastLine
      THEN [pages |-> Append(acc.pages, page), page |-> <<>>, y |-> TopLine]
      ELSE [pages |-> acc.pages, page |-> page, y |-> acc.y - 1]

NoPages == [pages |-> <<>>, page |-> <<>>, y |-> FirstLine]

Writes(u, lines, n) ==
  u = [k \in 0 .. n |-> IF k = 0 THEN NoPages ELSE WithLine(u[k - 1], lines[k])]

\* The function that add_text_page is made of.
LEMMA WritesExist == ASSUME NEW lines, NEW m \in Nat PROVE \E u : Writes(u, lines, m)
<1> DEFINE G == {n \in Nat : \E u : Writes(u, lines, n)}
<1>1. 0 \in G
  <2> DEFINE u == [k \in 0 .. 0 |-> NoPages]
  <2>1. u = [k \in 0 .. 0 |-> IF k = 0 THEN NoPages ELSE WithLine(u[k - 1], lines[k])]
    OBVIOUS
  <2>2. Writes(u, lines, 0)
    BY <2>1 DEF Writes
  <2> QED  BY <2>2
<1>2. ASSUME NEW n \in Nat, n \in G PROVE n + 1 \in G
  <2>1. PICK v : Writes(v, lines, n)
    BY <1>2
  <2> DEFINE u == [k \in 0 .. n + 1 |-> IF k = 0 THEN NoPages ELSE WithLine(v[k - 1], lines[k])]
  <2>2. \A k \in 0 .. n : u[k] = v[k]
    <3>1. \A k \in 0 .. n : v[k] = IF k = 0 THEN NoPages ELSE WithLine(v[k - 1], lines[k])
      BY <2>1, Zenon DEF Writes
    <3>2. \A k \in 0 .. n : k \in 0 .. n + 1
      OBVIOUS
    <3> QED  BY <3>1, <3>2, Zenon
  <2>3. \A k \in 0 .. n + 1 : u[k] = IF k = 0 THEN NoPages ELSE WithLine(v[k - 1], lines[k])
    OBVIOUS
  <2>4. \A k \in 0 .. n + 1 : k # 0 => k - 1 \in 0 .. n
    OBVIOUS
  <2>5. DOMAIN u = 0 .. n + 1 /\ u = [k \in DOMAIN u |-> u[k]]
    OBVIOUS
  <2> HIDE DEF u
  <2>6. \A k \in 0 .. n + 1 : u[k] = IF k = 0 THEN NoPages ELSE WithLine(u[k - 1], lines[k])
    BY <2>2, <2>3, <2>4
  <2>7. Writes(u, lines, n + 1)
    BY <2>5, <2>6 DEF Writes
  <2> QED  BY <2>7
<1> HIDE DEF G
<1>3. m \in G
  BY <1>1, <1>2, AllNaturals
<1> QED  BY <1>3 DEF G

\* Wherever the pages begin and end, they have all lines, in order.
LEMMA TextOnPages ==
  ASSUME NEW S, NEW lines \in Seq(S), NEW title
  PROVE  HaveAll(add_text_page(title, lines), title, lines, S)
<1> DEFINE m == Len(lines)
           first(n) == SubSeq(lines, 1, n)
<1>1. m \in Nat /\ DOMAIN lines = 1 .. m /\ \A i \in 1 .. m : lines[i] \in S
  BY ElementsOf, ElementOfSeq
<1>2. PICK u : /\ Writes(u, lines, m)
               /\ LET all == Append(u[m].pages, u[m].page)
                  IN  add_text_page(title, lines)
                        = [p \in DOMAIN all |-> [title |-> title, rows |-> all[p]]]
  <2> DEFINE w == CHOOSE u : Writes(u, lines, m)
  <2>1. LET all == Append(w[m].pages, w[m].page)
        IN  add_text_page(title, lines) = [p \in DOMAIN all |-> [title |-> title, rows |-> all[p]]]
    BY Zenon DEF add_text_page, Writes, WithLine, NoPages
  <2>2. Writes(w, lines, m)
    BY <1>1, WritesExist
  <2> HIDE DEF w
  <2> QED  BY <2>1, <2>2
<1>3. \A k \in 0 .. m : u[k] = IF k = 0 THEN NoPages ELSE WithLine(u[k - 1], lines[k])
  BY <1>2, Zenon DEF Writes
<1> DEFINE good(acc, list) == /\ acc.pages \in Seq(Seq(S)) /\ acc.page \in Seq(S)
                              /\ FlattenSeq(acc.pages) \o acc.page = list
<1>4. ASSUME NEW acc, NEW list, good(acc, list), NEW x \in S
      PROVE  good(WithLine(acc, x), Append(list, x))
  <2> DEFINE page == Append(acc.page, x)
             a == FlattenSeq(acc.pages)
  <2>1. a \in Seq(S)
    <3> DEFINE T == Seq(S)
               ss == acc.pages
    <3>1. ss \in Seq(T)
      BY <1>4
    <3>2. Len(ss) \in Nat /\ ss \in [1 .. Len(ss) -> T]
      <4> HIDE DEF ss, T
      <4> QED  BY <3>1, LenProperties
    <3> HIDE DEF ss
    <3>3. FlattenSeq(ss) \in Seq(S)
      BY <3>2, FlattenTyped
    <3> QED  BY <3>3 DEF ss
  <2>2. page \in Seq(S) /\ page = acc.page \o <<x>> /\ <<x>> \in Seq(S)
    BY <1>4, AppendProperties, AppendIsConcat
  <2>3. a \o page = Append(list, x)
    <3>0. \A p, q, t \in Seq(S) : p \o (q \o t) = (p \o q) \o t
      BY ConcatAssociative
    <3>1. a \o (acc.page \o <<x>>) = (a \o acc.page) \o <<x>>
      BY <1>4, <2>1, <2>2, <3>0, Zenon
    <3>2. list \in Seq(S) /\ list \o <<x>> = Append(list, x)
      BY <1>4, <2>1, ConcatProperties, AppendIsConcat
    <3> QED  BY <1>4, <2>2, <3>1, <3>2
  <2>4. CASE acc.y - 1 < LastLine
    <3> DEFINE r == WithLine(acc, x)
    <3>1. r.pages = Append(acc.pages, page) /\ r.page = <<>>
      BY <2>4 DEF WithLine
    <3> HIDE DEF r, page
    <3>2. /\ Append(acc.pages, page) \in Seq(Seq(S))
          /\ FlattenSeq(Append(acc.pages, page)) = a \o page
      BY <1>4, <2>2, JoinedAppend
    <3>3. a \o page \in Seq(S) /\ <<>> \in Seq(S)
      BY <2>1, <2>2, ConcatProperties, EmptySeq
    <3>4. (a \o page) \o <<>> = a \o page
      BY <3>3, ConcatEmptySeq
    <3> HIDE DEF a
    <3> QED  BY <2>3, <3>1, <3>2, <3>3, <3>4 DEF r
  <2>5. CASE ~(acc.y - 1 < LastLine)
    <3>1. WithLine(acc, x).pages = acc.pages /\ WithLine(acc, x).page = page
      BY <2>5 DEF WithLine
    <3> QED  BY <1>4, <2>2, <2>3, <3>1
  <2> QED  BY <2>4, <2>5
<1> HIDE DEF good
<1> DEFINE G == {n \in Nat : n <= m => good(u[n], first(n))}
<1>5. 0 \in G
  <2>1. u[0] = NoPages
    BY <1>1, <1>3
  <2>2. first(0) = <<>>
    BY SubSeqEmpty
  <2>3. <<>> \in Seq(Seq(S)) /\ <<>> \in Seq(S)
    BY EmptySeq
  <2>4. FlattenSeq(<<>>) = <<>>
    <3>1. 0 \in Nat /\ <<>> \in [1 .. 0 -> S]
      OBVIOUS
    <3> QED  BY <3>1, FlattenJoins
  <2>5. <<>> \o <<>> = <<>>
    BY <2>3, ConcatEmptySeq
  <2>6. NoPages.pages = <<>> /\ NoPages.page = <<>>
    BY DEF NoPages
  <2> HIDE DEF first
  <2> QED  BY <2>1, <2>2, <2>3, <2>4, <2>5, <2>6 DEF good
<1>6. ASSUME NEW n \in Nat, n \in G PROVE n + 1 \in G
  <2> SUFFICES ASSUME n + 1 <= m PROVE good(u[n + 1], first(n + 1))
    OBVIOUS
  <2>1. n + 1 \in 0 .. m /\ n + 1 # 0 /\ n + 1 - 1 = n /\ n + 1 \in 1 .. m /\ n <= m
    BY <1>1
  <2>2. u[n + 1] = WithLine(u[n], lines[n + 1]) /\ lines[n + 1] \in S
    BY <1>1, <1>3, <2>1
  <2>3. good(u[n], first(n))
    BY <1>6, <2>1
  <2>4. first(n + 1) = Append(first(n), lines[n + 1])
    <3>1. first(n + 1) = first(n) \o <<lines[n + 1]>>
      <4>1. 1 \in 1 .. m /\ n + 1 \in 1 .. m
        BY <1>1, <2>1
      <4> QED  BY <2>1, <4>1, SubSeqRecursiveSecond
    <3>2. first(n) \in Seq(S)
      <4>1. \A i \in 1 .. n : lines[i] \in S
        BY <1>1, <2>1
      <4> QED  BY <4>1, SubSeqProperties
    <3> QED  BY <2>2, <3>1, <3>2, AppendIsConcat
  <2> HIDE DEF G, first
  <2> QED  BY <1>4, <2>2, <2>3, <2>4
<1> HIDE DEF G
<1>7. m \in G
  BY <1>1, <1>5, <1>6, AllNaturals
<1>8. good(u[m], lines)
  <2>1. first(m) = lines
    BY SubSeqFull
  <2> HIDE DEF first, m
  <2>2. good(u[m], first(m))
    BY <1>1, <1>7 DEF G
  <2> QED  BY <2>1, <2>2
<1> DEFINE all == Append(u[m].pages, u[m].page)
           ps == add_text_page(title, lines)
           T == Seq(S)
<1>9. all \in Seq(T) /\ FlattenSeq(all) = lines
  BY <1>8, JoinedAppend DEF good
<1>10. ps = [p \in DOMAIN all |-> [title |-> title, rows |-> all[p]]]
  BY <1>2
<1> HIDE DEF all, ps, T, m
<1>11. Len(all) \in Nat /\ DOMAIN all = 1 .. Len(all) /\ \A i \in 1 .. Len(all) : all[i] \in T
  BY <1>9, ElementsOf, ElementOfSeq
<1>12. ps \in [1 .. Len(all) -> [title : {title}, rows : T]]
  BY <1>10, <1>11
<1>13. ps \in Seq([title : {title}, rows : T])
  BY <1>11, <1>12, Listed
<1>14. [i \in DOMAIN ps |-> ps[i].rows] = all
  <2>1. DOMAIN ps = DOMAIN all /\ \A i \in DOMAIN all : ps[i].rows = all[i]
    BY <1>10
  <2>2. all = [i \in DOMAIN all |-> all[i]]
    <3>1. all = [i \in 1 .. Len(all) |-> all[i]]
      BY <1>9, LenProperties
    <3> QED  BY <1>11, <3>1
  <2> QED  BY <2>1, <2>2
<1> QED  BY <1>9, <1>13, <1>14 DEF HaveAll, ps, T

\* One page with all rows.
LEMMA OnePage ==
  ASSUME NEW S, NEW list \in Seq(S), NEW title
  PROVE  HaveAll(<<[title |-> title, rows |-> list]>>, title, list, S)
<1> DEFINE ps == <<[title |-> title, rows |-> list]>>
           T == Seq(S)
<1>1. ps \in Seq([title : {title}, rows : T])
  OBVIOUS
<1>2. [i \in DOMAIN ps |-> ps[i].rows] = Append(<<>>, list)
  OBVIOUS
<1>3. <<>> \in Seq(Seq(S)) /\ <<>> \in Seq(S)
  BY EmptySeq
<1>4. FlattenSeq(Append(<<>>, list)) = FlattenSeq(<<>>) \o list
  BY <1>3, JoinedAppend
<1>5. FlattenSeq(<<>>) = <<>>
  <2>1. 0 \in Nat /\ <<>> \in [1 .. 0 -> S]
    OBVIOUS
  <2> QED  BY <2>1, FlattenJoins
<1>6. <<>> \o list = list
  BY ConcatEmptySeq
<1> HIDE DEF ps
<1> QED  BY <1>1, <1>2, <1>4, <1>5, <1>6 DEF HaveAll, ps

\* Each name with each element of a list.
NamedFiles(names, list) ==
  FlattenSeq([i \in DOMAIN list |-> [j \in DOMAIN names |-> <<names[j], list[i]>>]])

\* All of them are there.
LEMMA AllFiles ==
  ASSUME NEW N, NEW names \in Seq(N), NEW L, NEW list \in Seq(L)
  PROVE  /\ NamedFiles(names, list) \in Seq(N \X L)
         /\ \A a \in ToSet(names), b \in ToSet(list) : <<a, b>> \in ToSet(NamedFiles(names, list))
<1> DEFINE n == Len(list)
           F == N \X L
           each(x) == [j \in DOMAIN names |-> <<names[j], x>>]
           ss == [i \in DOMAIN list |-> each(list[i])]
<1>1. /\ n \in Nat /\ DOMAIN list = 1 .. n /\ ToSet(list) = {list[i] : i \in 1 .. n}
      /\ \A i \in 1 .. n : list[i] \in L
  BY ElementsOf, ElementOfSeq
<1>2. /\ Len(names) \in Nat /\ DOMAIN names = 1 .. Len(names)
      /\ ToSet(names) = {names[i] : i \in 1 .. Len(names)}
      /\ \A i \in 1 .. Len(names) : names[i] \in N
  BY ElementsOf, ElementOfSeq
<1>3. ASSUME NEW x \in L
      PROVE  each(x) \in Seq(F) /\ \A a \in ToSet(names) : <<a, x>> \in ToSet(each(x))
  <2>1. each(x) \in [1 .. Len(names) -> F]
    BY <1>2
  <2>2. each(x) \in Seq(F)
    <3> HIDE DEF each, F
    <3> QED  BY <1>2, <2>1, Listed
  <2> QED  BY <2>2 DEF ToSet
<1> HIDE DEF each, F, n
<1>4. ss \in [1 .. n -> Seq(F)] /\ \A i \in 1 .. n : ss[i] = each(list[i])
  BY <1>1, <1>3
<1> HIDE DEF ss
<1>5. \A i \in 1 .. n : Chain(ss[i], F \X F)
  BY <1>4, ListOf
<1>6. \A i \in 1 .. n : ToSet(ss[i]) \subseteq F
  BY <1>4, ElementsOf
<1>7. \A i, j \in 1 .. n : i < j => Before(ss[i], ss[j], F \X F)
  BY <1>6 DEF Before
<1>8. HasFirst(FlattenSeq(ss), F, ss, n, F \X F)
  BY <1>1, <1>4, <1>5, <1>7, Flattened
<1>9. ASSUME NEW a \in ToSet(names), NEW b \in ToSet(list) PROVE <<a, b>> \in ToSet(FlattenSeq(ss))
  <2>1. PICK i \in 1 .. n : b = list[i] /\ b \in L
    BY <1>1
  <2>2. <<a, b>> \in ToSet(ss[i])
    BY <1>3, <1>4, <2>1
  <2> QED  BY <1>8, <2>2 DEF HasFirst
<1>10. FlattenSeq(ss) \in Seq(F)
  BY <1>8 DEF HasFirst
<1>11. NamedFiles(names, list) = FlattenSeq(ss)
  BY DEF NamedFiles, ss, each
<1> QED  BY <1>9, <1>10, <1>11 DEF F

\* The files of generate_plots are those of all metrics and compilers or threads.
LEMMA PlotFiles ==
  ASSUME NEW f \in Configs
  PROVE  /\ ScatterFiles(f) \in Seq((DOMAIN ScatterMetric) \X Compilers)
         /\ \A a \in DOMAIN ScatterMetric, c \in ToSet(f.compilers) :
              <<a, c>> \in ToSet(ScatterFiles(f))
         /\ ComparisonFiles(f) \in Seq((DOMAIN ComparisonMetric) \X Nat)
         /\ \A a \in DOMAIN ComparisonMetric, t \in ToSet(f.threads) :
              <<a, t>> \in ToSet(ComparisonFiles(f))
<1> DEFINE p == <<"elapsed_time", "raw_energy", "net_energy", "throughput",
                  "downloads_per_process">>
           q == <<"elapsed", "net_energy", "throughput">>
           P == DOMAIN ScatterMetric
           Q == DOMAIN ComparisonMetric
<1>1. p \in Seq(P) /\ q \in Seq(Q)
  BY DEF ScatterMetric, ComparisonMetric
<1>2. P \subseteq ToSet(p) /\ Q \subseteq ToSet(q)
  <2>1. ToSet(p) = {p[i] : i \in 1 .. 5} /\ ToSet(q) = {q[i] : i \in 1 .. 3}
    BY DEF ToSet
  <2>2. /\ p[1] \in ToSet(p) /\ p[2] \in ToSet(p) /\ p[3] \in ToSet(p) /\ p[4] \in ToSet(p)
        /\ p[5] \in ToSet(p) /\ q[1] \in ToSet(q) /\ q[2] \in ToSet(q) /\ q[3] \in ToSet(q)
    BY <2>1
  <2> QED  BY <2>2 DEF ScatterMetric, ComparisonMetric
<1>3. f.compilers \in Seq(Compilers) /\ f.threads \in Seq(Nat)
  BY ConfigTypes
<1>4. /\ ScatterFiles(f) = NamedFiles(p, f.compilers)
      /\ ComparisonFiles(f) = NamedFiles(q, f.threads)
  BY Zenon DEF ScatterFiles, ComparisonFiles, NamedFiles
<1> HIDE DEF p, q, P, Q
<1>5. /\ NamedFiles(p, f.compilers) \in Seq(P \X Compilers)
      /\ \A a \in ToSet(p), b \in ToSet(f.compilers) : <<a, b>> \in ToSet(NamedFiles(p, f.compilers))
  BY <1>1, <1>3, AllFiles
<1>6. /\ NamedFiles(q, f.threads) \in Seq(Q \X Nat)
      /\ \A a \in ToSet(q), b \in ToSet(f.threads) : <<a, b>> \in ToSet(NamedFiles(q, f.threads))
  BY <1>1, <1>3, AllFiles
<1>7. /\ ScatterFiles(f) \in Seq(P \X Compilers)
      /\ \A a \in P, c \in ToSet(f.compilers) : <<a, c>> \in ToSet(ScatterFiles(f))
      /\ ComparisonFiles(f) \in Seq(Q \X Nat)
      /\ \A a \in Q, t \in ToSet(f.threads) : <<a, t>> \in ToSet(ComparisonFiles(f))
  BY <1>2, <1>4, <1>5, <1>6
<1> QED  BY <1>7 DEF P, Q

-----------------------------------------------------------------------------
(* The rows of the reports.                                                 *)

\* The items of a compiler, and what its overview shows of them.
ItemsBy(u, c) == Select(u, {x \in ToSet(u) : x.compiler = c})
Overview(u, c) == [i \in DOMAIN ItemsBy(u, c) |->
                    Row(ItemsBy(u, c)[i], {"elapsed_ms", "energy_j", "throughput_mib_s"})]

\* All rows that a table of the items of u may have.
RowsIn(u) == {Row(x, M) : x \in ToSet(u), M \in SUBSET Metrics}

\* A table of items has rows of items.
LEMMA RowsTyped ==
  ASSUME NEW U, NEW u \in Seq(U), NEW M \in SUBSET Metrics, NEW v \in Seq(ToSet(u))
  PROVE  [i \in DOMAIN v |-> Row(v[i], M)] \in Seq(RowsIn(u))
<1> DEFINE t == [i \in DOMAIN v |-> Row(v[i], M)]
           S == RowsIn(u)
<1>1. /\ Len(v) \in Nat /\ DOMAIN v = 1 .. Len(v)
      /\ \A i \in 1 .. Len(v) : v[i] \in ToSet(u)
  BY ElementsOf, ElementOfSeq
<1>2. t \in [1 .. Len(v) -> S]
  BY <1>1 DEF RowsIn
<1> HIDE DEF t, S
<1>3. t \in Seq(S)
  BY <1>1, <1>2, Listed
<1> QED  BY <1>3 DEF t, S

\* So have the tables and overviews of the main report.
LEMMA TablesTyped ==
  ASSUME NEW U, NEW u \in Seq(U)
  PROVE  /\ build_summary_table_rows(u) \in Seq(RowsIn(u))
         /\ build_reliability_table_rows(u) \in Seq(RowsIn(u))
         /\ \A c : Overview(u, c) \in Seq(RowsIn(u))
<1>1. /\ {"elapsed_ms", "energy_j", "throughput_mib_s", "downloads_per_process"} \in SUBSET Metrics
      /\ {"total_iterations", "success", "failed"} \in SUBSET Metrics
      /\ {"elapsed_ms", "energy_j", "throughput_mib_s"} \in SUBSET Metrics
  BY DEF Metrics
<1>2. u \in Seq(ToSet(u))
  BY ListOfElements
<1>3. ASSUME NEW c PROVE ItemsBy(u, c) \in Seq(ToSet(u))
  <2> DEFINE T == {x \in ToSet(u) : x.compiler = c}
  <2> HIDE DEF T
  <2>1. Select(u, T) \in Seq(ToSet(u))
    BY <1>2, SelectedSet
  <2> QED  BY <2>1 DEF T, ItemsBy
<1>4. ASSUME NEW c PROVE Overview(u, c) \in Seq(RowsIn(u))
  <2> DEFINE v == ItemsBy(u, c)
  <2>1. v \in Seq(ToSet(u))
    BY <1>3
  <2> HIDE DEF v
  <2>2. [i \in DOMAIN v |-> Row(v[i], {"elapsed_ms", "energy_j", "throughput_mib_s"})]
          \in Seq(RowsIn(u))
    BY <1>1, <2>1, RowsTyped
  <2> QED  BY <2>2 DEF v, Overview
<1> QED  BY <1>1, <1>2, <1>4, RowsTyped DEF build_summary_table_rows, build_reliability_table_rows

MainTitles == {"Summary table", "Reliability table", "overview", "scatter", "Raw execution results"}

\* Two lists of pages, one after the other.
LEMMA TwoParts ==
  ASSUME NEW T, NEW S, NEW p \in Seq(Page(T, S)), NEW q \in Seq(Page(T, S))
  PROVE  /\ p \o q \in Seq(Page(T, S))
         /\ \A title : /\ RowsUnder(p \o q, title) = RowsUnder(p, title) \o RowsUnder(q, title)
                       /\ RowsUnder(p, title) \in Seq(S)
<1>1. p \o q \in Seq(Page(T, S))
  BY ConcatProperties
<1>2. \A r, title : RowsUnder(r, title) = FlattenSeq(Under(r, title))
  BY DEF RowsUnder, Under
<1>3. \A title : FlattenSeq(Under(p \o q, title))
                   = FlattenSeq(Under(p, title)) \o FlattenSeq(Under(q, title))
  BY UnderConcat
<1>4. ASSUME NEW title PROVE FlattenSeq(Under(p, title)) \in Seq(S)
  <2> DEFINE u == Under(p, title)
             U == Seq(S)
  <2>1. u \in Seq(U)
    BY UnderTyped
  <2>2. Len(u) \in Nat /\ u \in [1 .. Len(u) -> U]
    <3> HIDE DEF u, U
    <3> QED  BY <2>1, LenProperties
  <2> HIDE DEF u
  <2>3. FlattenSeq(u) \in Seq(S)
    BY <2>2, FlattenTyped
  <2> QED  BY <2>3 DEF u
<1> QED  BY <1>1, <1>2, <1>3, <1>4

OnlyUnder(ps, a, list) ==
  /\ RowsUnder(ps, a) = list
  /\ \A title : title # a => RowsUnder(ps, title) = <<>>

\* The rows of pages that have one title.
LEMMA OnePart ==
  ASSUME NEW T, NEW S, NEW a \in T, NEW list \in Seq(S), NEW ps, HaveAll(ps, a, list, S)
  PROVE  ps \in Seq(Page(T, S)) /\ OnlyUnder(ps, a, list)
<1>1. \A r, title : RowsUnder(r, title) = FlattenSeq(Under(r, title))
  BY DEF RowsUnder, Under
<1> QED  BY <1>1, UnderSame DEF OnlyUnder

\* What generate_main_pdf_report shows for a compiler.
CompilerPages(f, u, there, c) ==
  add_text_page("overview", Overview(u, c))
    \o ImagePages("scatter", FilesOf(ScatterFiles(f), c), there)

Overlooks(p, S, rows) ==
  /\ p \in Seq(Page(MainTitles, S)) /\ RowsUnder(p, "overview") = rows
  /\ \A title : title \notin {"overview", "scatter"} => RowsUnder(p, title) = <<>>

\* They have the overview of the compiler and its plots, and nothing else.
LEMMA PagesOfCompiler ==
  ASSUME NEW f \in Configs, NEW U, NEW u \in Seq(U), NEW there, NEW c, NEW S,
         RowsIn(u) \subseteq S, ToSet(ScatterFiles(f)) \subseteq S
  PROVE  Overlooks(CompilerPages(f, u, there, c), S, Overview(u, c))
<1> DEFINE list == Overview(u, c)
           all == ScatterFiles(f)
           files == FilesOf(all, c)
           F == {x \in ToSet(all) : x[2] = c}
           shown == Select(files, there)
           a == add_text_page("overview", list)
           b == ImagePages("scatter", files, there)
           T == MainTitles
<1>1. list \in Seq(S)
  <2>1. list \in Seq(RowsIn(u))
    BY TablesTyped
  <2> HIDE DEF list
  <2> QED  BY <2>1, SeqMonotonic
<1>2. files \in Seq(S) /\ shown \in Seq(S)
  <2>1. all \in Seq((DOMAIN ScatterMetric) \X Compilers)
    BY PlotFiles
  <2>2. files = Select(all, F)
    BY DEF FilesOf
  <2> HIDE DEF all, files, F, shown
  <2>3. all \in Seq(S)
    BY <2>1, ListOfElements DEF all
  <2>4. files \in Seq(S)
    BY <2>2, <2>3, SelectedSet
  <2> QED  BY <2>4, SelectedSet DEF shown
<1>3. "overview" \in T /\ "scatter" \in T
  BY DEF MainTitles
<1>4. CompilerPages(f, u, there, c) = a \o b
  BY DEF CompilerPages
<1> HIDE DEF list, files, all, F, T
<1>5. HaveAll(a, "overview", list, S) /\ HaveAll(b, "scatter", shown, S)
  BY <1>1, <1>2, TextOnPages, ImagesOn
<1> HIDE DEF a, b, shown
<1>6. /\ a \in Seq(Page(T, S)) /\ b \in Seq(Page(T, S))
      /\ OnlyUnder(a, "overview", list) /\ OnlyUnder(b, "scatter", shown)
  BY <1>1, <1>2, <1>3, <1>5, OnePart
<1>7. /\ a \o b \in Seq(Page(T, S))
      /\ \A title : RowsUnder(a \o b, title) = RowsUnder(a, title) \o RowsUnder(b, title)
  BY <1>6, TwoParts
<1>8. list \o <<>> = list /\ <<>> \o <<>> = <<>>
  <2>1. <<>> \in Seq(S)
    BY EmptySeq
  <2> QED  BY <1>1, <2>1, ConcatEmptySeq
<1>9. RowsUnder(a \o b, "overview") = list
  BY <1>6, <1>7, <1>8 DEF OnlyUnder
<1>10. ASSUME NEW title, title \notin {"overview", "scatter"}
       PROVE  RowsUnder(a \o b, title) = <<>>
  BY <1>6, <1>7, <1>8, <1>10 DEF OnlyUnder
<1> QED  BY <1>4, <1>7, <1>9, <1>10 DEF list, T, Overlooks

\* What has been read of a raw row.
RawTyped(s, M) ==
  {[case |-> Case(x), repetition |-> x.repetition, value |-> Restrict(x.value, M)] : x \in ToSet(s)}

\* A raw table has raw rows.
LEMMA RawRowsTyped ==
  ASSUME NEW E, NEW s \in Seq(E), NEW M
  PROVE  RawRows(s, M) \in Seq(RawTyped(s, M))
<1> DEFINE t == RawRows(s, M)
           S == RawTyped(s, M)
<1>1. Len(s) \in Nat /\ DOMAIN s = 1 .. Len(s) /\ \A i \in 1 .. Len(s) : s[i] \in ToSet(s)
  BY ElementsOf
<1> DEFINE row(x) == [case |-> Case(x), repetition |-> x.repetition, value |-> Restrict(x.value, M)]
<1>2. t = [i \in 1 .. Len(s) |-> row(s[i])]
  BY <1>1 DEF RawRows
<1>3. \A x \in ToSet(s) : row(x) \in S
  BY DEF RawTyped
<1> HIDE DEF t, S, row
<1>4. t \in [1 .. Len(s) -> S]
  <2> SUFFICES ASSUME NEW i \in 1 .. Len(s) PROVE t[i] \in S
    BY <1>2
  <2> QED  BY <1>1, <1>2, <1>3
<1>5. t \in Seq(S)
  BY <1>1, <1>4, Listed
<1> QED  BY <1>5 DEF t, S

\* Of a title that one of two parts does not have, the other has all rows.
Beside(p, q, P) ==
  /\ p \o q \in Seq(P)
  /\ \A title : RowsUnder(p, title) = <<>> => RowsUnder(p \o q, title) = RowsUnder(q, title)
  /\ \A title : RowsUnder(q, title) = <<>> => RowsUnder(p \o q, title) = RowsUnder(p, title)

\* Two parts are beside each other.
LEMMA OneBeside ==
  ASSUME NEW T, NEW S, NEW p \in Seq(Page(T, S)), NEW q \in Seq(Page(T, S))
  PROVE  Beside(p, q, Page(T, S))
<1>1. /\ p \o q \in Seq(Page(T, S))
      /\ \A title : /\ RowsUnder(p \o q, title) = RowsUnder(p, title) \o RowsUnder(q, title)
                    /\ RowsUnder(p, title) \in Seq(S)
  BY TwoParts
<1>2. \A title : RowsUnder(q, title) \in Seq(S)
  BY TwoParts
<1>3. \A list \in Seq(S) : list \o <<>> = list /\ <<>> \o list = list
  BY ConcatEmptySeq
<1>4. ASSUME NEW title, RowsUnder(p, title) = <<>>
      PROVE  RowsUnder(p \o q, title) = RowsUnder(q, title)
  <2>1. RowsUnder(p \o q, title) = <<>> \o RowsUnder(q, title)
    BY <1>1, <1>4, Zenon
  <2> QED  BY <1>2, <1>3, <2>1, Zenon
<1>5. ASSUME NEW title, RowsUnder(q, title) = <<>>
      PROVE  RowsUnder(p \o q, title) = RowsUnder(p, title)
  <2>1. RowsUnder(p \o q, title) = RowsUnder(p, title) \o <<>>
    BY <1>1, <1>5, Zenon
  <2> QED  BY <1>1, <1>3, <2>1, Zenon
<1> QED  BY <1>1, <1>4, <1>5, Zenon DEF Beside

\* The rows of parts, one after the other, that are alike in their titles.
Alike(pp, n, T, S, title, rows, X) ==
  /\ pp \in [1 .. n -> Seq(Page(T, S))] /\ rows \in [1 .. n -> Seq(S)]
  /\ \A i \in 1 .. n : RowsUnder(pp[i], title) = rows[i]
  /\ \A i \in 1 .. n : \A other : other \notin X => RowsUnder(pp[i], other) = <<>>

\* Of a title that is in each part, the rows follow each other; another has none.
LEMMA PartsAlike ==
  ASSUME NEW n \in Nat, NEW pp, NEW T, NEW S, NEW title, NEW rows, NEW X,
         Alike(pp, n, T, S, title, rows, X)
  PROVE  /\ FlattenSeq(pp) \in Seq(Page(T, S))
         /\ RowsUnder(FlattenSeq(pp), title) = FlattenSeq(rows)
         /\ \A other : other \notin X => RowsUnder(FlattenSeq(pp), other) = <<>>
<1>1. \A r, t : RowsUnder(r, t) = FlattenSeq(Under(r, t))
  BY DEF RowsUnder, Under
<1>2. pp \in [1 .. n -> Seq(Page(T, S))] /\ rows \in [1 .. n -> Seq(S)]
  BY DEF Alike
<1>3. \A i \in 1 .. n : FlattenSeq(Under(pp[i], title)) = rows[i]
  BY <1>1 DEF Alike
<1>4. /\ FlattenSeq(pp) \in Seq(Page(T, S)) /\ RowsUnder(FlattenSeq(pp), title) = FlattenSeq(rows)
  <2>1. /\ FlattenSeq(pp) \in Seq(Page(T, S))
        /\ FlattenSeq(Under(FlattenSeq(pp), title)) = FlattenSeq(rows)
    <3>1. RowsOfEach(pp, n, T, S, title, rows)
      BY <1>2, <1>3 DEF RowsOfEach
    <3> QED  BY <3>1, UnderFlatten
  <2> QED  BY <1>1, <2>1, Zenon
<1>5. ASSUME NEW other, other \notin X PROVE RowsUnder(FlattenSeq(pp), other) = <<>>
  <2> DEFINE rr == [i \in 1 .. n |-> <<>>]
  <2>1. rr \in [1 .. n -> Seq(S)] /\ \A i \in 1 .. n : rr[i] = <<>>
    BY EmptySeq
  <2> HIDE DEF rr
  <2>2. \A i \in 1 .. n : FlattenSeq(Under(pp[i], other)) = rr[i]
    BY <1>1, <1>5, <2>1 DEF Alike
  <2>3. FlattenSeq(Under(FlattenSeq(pp), other)) = FlattenSeq(rr)
    <3>1. RowsOfEach(pp, n, T, S, other, rr)
      BY <1>2, <2>1, <2>2 DEF RowsOfEach
    <3> QED  BY <3>1, UnderFlatten
  <2>4. FlattenSeq(rr) = <<>>
    BY <2>1, FlattenEmpty
  <2> QED  BY <1>1, <2>3, <2>4, Zenon
<1> QED  BY <1>4, <1>5

\* The rows of a report that has parts of one title each, but one.
Assembled(T, S, a, ta, ra, b, tb, rb, c, tc, d, td, rd) ==
  /\ {ta, tb, td} \subseteq T
  /\ ta # tb /\ ta # tc /\ ta # td /\ tb # tc /\ tb # td /\ tc # td
  /\ ra \in Seq(S) /\ rb \in Seq(S) /\ rd \in Seq(S)
  /\ HaveAll(a, ta, ra, S) /\ HaveAll(b, tb, rb, S) /\ HaveAll(d, td, rd, S)
  /\ c \in Seq(Page(T, S)) /\ \A title \in {ta, tb, td} : RowsUnder(c, title) = <<>>

\* Of each title, all rows are those of its part.
LEMMA FourParts ==
  ASSUME NEW T, NEW S, NEW a, NEW ta, NEW ra, NEW b, NEW tb, NEW rb, NEW c, NEW tc,
         NEW d, NEW td, NEW rd, Assembled(T, S, a, ta, ra, b, tb, rb, c, tc, d, td, rd)
  PROVE  LET all == a \o b \o c \o d
         IN  /\ RowsUnder(all, ta) = ra /\ RowsUnder(all, tb) = rb /\ RowsUnder(all, td) = rd
             /\ RowsUnder(all, tc) = RowsUnder(c, tc)
<1> DEFINE all == a \o b \o c \o d
           P == Page(T, S)
           ab == a \o b
           abc == ab \o c
<1>1. \A x \in T, q \in Seq(S) : \A ps :
        HaveAll(ps, x, q, S) => ps \in Seq(P) /\ OnlyUnder(ps, x, q)
  BY OnePart
<1>2. \A p, q \in Seq(P) : Beside(p, q, P)
  BY OneBeside
<1>3. c \in Seq(P) /\ all = abc \o d
  BY DEF Assembled
<1> HIDE DEF P, all
<1>4. a \in Seq(P) /\ OnlyUnder(a, ta, ra)
  BY <1>1 DEF Assembled
<1>5. b \in Seq(P) /\ OnlyUnder(b, tb, rb)
  BY <1>1 DEF Assembled
<1>6. d \in Seq(P) /\ OnlyUnder(d, td, rd)
  BY <1>1 DEF Assembled
<1>7. Beside(a, b, P)
  BY <1>2, <1>4, <1>5
<1>8. ab \in Seq(P) /\ Beside(ab, c, P)
  BY <1>2, <1>3, <1>7 DEF Beside
<1> HIDE DEF ab
<1>9. abc \in Seq(P) /\ Beside(abc, d, P)
  BY <1>2, <1>6, <1>8 DEF Beside
<1> USE DEF ab
<1> HIDE DEF abc
<1> DEFINE R(p, title) == RowsUnder(p, title)
           none == <<>>
<1>10. /\ R(a, ta) = ra /\ R(a, tb) = none /\ R(a, tc) = none /\ R(a, td) = none
       /\ R(b, ta) = none /\ R(b, tb) = rb /\ R(b, tc) = none /\ R(b, td) = none
       /\ R(c, ta) = none /\ R(c, tb) = none /\ R(c, td) = none
       /\ R(d, ta) = none /\ R(d, tb) = none /\ R(d, tc) = none /\ R(d, td) = rd
  BY <1>4, <1>5, <1>6, Zenon DEF OnlyUnder, Assembled
<1>11. /\ \A title : R(a, title) = none => R(ab, title) = R(b, title)
       /\ \A title : R(b, title) = none => R(ab, title) = R(a, title)
       /\ \A title : R(ab, title) = none => R(abc, title) = R(c, title)
       /\ \A title : R(c, title) = none => R(abc, title) = R(ab, title)
       /\ \A title : R(abc, title) = none => R(all, title) = R(d, title)
       /\ \A title : R(d, title) = none => R(all, title) = R(abc, title)
  <2>1. Beside(a, b, P) /\ Beside(ab, c, P) /\ Beside(abc, d, P)
    BY <1>7, <1>8, <1>9
  <2> HIDE DEF ab
  <2> QED  BY <1>3, <2>1, Zenon DEF Beside, ab, abc, all
<1> HIDE DEF R, none, ab
<1>12. R(all, ta) = ra /\ R(all, tb) = rb /\ R(all, td) = rd /\ R(all, tc) = R(c, tc)
  BY <1>10, <1>11
<1> QED  BY <1>12 DEF all, R

\* All rows of the main report.
LEMMA MainReport ==
  ASSUME NEW f \in Configs, NEW U, NEW u \in Seq(U), NEW E, NEW s \in Seq(E), NEW there
  PROVE  LET p == generate_main_pdf_report(f, u, s, there, TRUE)
         IN  /\ RowsUnder(p, "Summary table") = build_summary_table_rows(u)
             /\ RowsUnder(p, "Reliability table") = build_reliability_table_rows(u)
             /\ RowsUnder(p, "Raw execution results") = build_raw_results_rows(s)
             /\ RowsUnder(p, "overview")
                  = FlattenSeq([i \in 1 .. Len(f.compilers) |-> Overview(u, f.compilers[i])])
<1> DEFINE M == Metrics \ {"downloads_per_process", "total_iterations"}
           S == RowsIn(u) \cup ToSet(ScatterFiles(f)) \cup RawTyped(s, M)
           P == Page(MainTitles, S)
           sums == build_summary_table_rows(u)
           rels == build_reliability_table_rows(u)
           raws == build_raw_results_rows(s)
           n == Len(f.compilers)
           pp == [i \in 1 .. n |-> CompilerPages(f, u, there, f.compilers[i])]
           a == TablePages("Summary table", sums, TABLE_ROWS)
           b == TablePages("Reliability table", rels, TABLE_ROWS)
           c == FlattenSeq(pp)
           d == TablePages("Raw execution results", raws, RAW_ROWS)
<1>1. n \in Nat /\ DOMAIN f.compilers = 1 .. n
  BY ConfigTypes, LenProperties
<1>2. generate_main_pdf_report(f, u, s, there, TRUE) = a \o b \o c \o d
  BY <1>1 DEF generate_main_pdf_report, CompilerPages, Overview, ItemsBy
<1>3. sums \in Seq(S) /\ rels \in Seq(S) /\ raws \in Seq(S)
  <2>1. sums \in Seq(RowsIn(u)) /\ rels \in Seq(RowsIn(u))
    BY TablesTyped
  <2>3. raws \in Seq(RawTyped(s, M))
    BY RawRowsTyped DEF build_raw_results_rows
  <2>4. RowsIn(u) \subseteq S /\ RawTyped(s, M) \subseteq S
    OBVIOUS
  <2> HIDE DEF S, sums, rels, raws
  <2> QED  BY <2>1, <2>3, <2>4, SeqMonotonic
<1>4. RowsIn(u) \subseteq S /\ ToSet(ScatterFiles(f)) \subseteq S
  OBVIOUS
<1> HIDE DEF S, M
<1>4a. \A g : Overlooks(CompilerPages(f, u, there, g), S, Overview(u, g))
  BY <1>4, PagesOfCompiler
<1>4b. \A i \in 1 .. n : Overlooks(pp[i], S, Overview(u, f.compilers[i]))
  BY <1>4a
<1>4c. pp = [i \in 1 .. n |-> pp[i]]
  OBVIOUS
<1> HIDE DEF pp, n
<1>5. ASSUME NEW i \in 1 .. n
      PROVE  /\ pp[i] \in Seq(P)
             /\ RowsUnder(pp[i], "overview") = Overview(u, f.compilers[i])
             /\ \A title : title \notin {"overview", "scatter"} => RowsUnder(pp[i], title) = <<>>
  BY <1>4b DEF Overlooks
<1> HIDE DEF a, b, d, sums, rels, raws, P
<1>6. pp \in [1 .. n -> Seq(P)]
  BY <1>4c, <1>5
<1> DEFINE rows == [i \in 1 .. n |-> Overview(u, f.compilers[i])]
<1>7. rows \in [1 .. n -> Seq(S)] /\ \A i \in 1 .. n : RowsUnder(pp[i], "overview") = rows[i]
  <2>1. \A g : Overview(u, g) \in Seq(S)
    BY <1>4, TablesTyped, SeqMonotonic
  <2> QED  BY <1>5, <2>1
<1>8. c \in Seq(P)
  <2>1. FlattenSeq(pp) \in Seq(P)
    BY <1>1, <1>6, FlattenTyped
  <2> QED  BY <2>1
<1> DEFINE over == "overview"
           X == {"overview", "scatter"}
<1>9. \A i \in 1 .. n : RowsUnder(pp[i], over) = rows[i]
  BY <1>7
<1>10. \A i \in 1 .. n : \A other : other \notin X => RowsUnder(pp[i], other) = <<>>
  BY <1>5
<1> HIDE DEF rows, over, X
<1>10a. /\ RowsUnder(FlattenSeq(pp), over) = FlattenSeq(rows)
        /\ \A other : other \notin X => RowsUnder(FlattenSeq(pp), other) = <<>>
  <2>1. Alike(pp, n, MainTitles, S, over, rows, X)
    BY <1>6, <1>7, <1>9, <1>10 DEF Alike, P
  <2> HIDE DEF c
  <2> QED  BY <1>1, <2>1, PartsAlike
<1>10b. /\ RowsUnder(c, over) = FlattenSeq(rows)
        /\ \A other : other \notin X => RowsUnder(c, other) = <<>>
  BY <1>10a
<1> HIDE DEF c
<1>11. /\ HaveAll(a, "Summary table", sums, S)
       /\ HaveAll(b, "Reliability table", rels, S)
       /\ HaveAll(d, "Raw execution results", raws, S)
  <2>1. TABLE_ROWS \in Nat \ {0} /\ RAW_ROWS \in Nat \ {0}
    BY EvaluationAssumption
  <2> QED  BY <1>3, <2>1, OnPages DEF a, b, d
<1>12. /\ "Summary table" \in MainTitles /\ "Reliability table" \in MainTitles
       /\ "Raw execution results" \in MainTitles
  BY DEF MainTitles
<1> DEFINE all == a \o b \o c \o d
           ta == "Summary table"
           tb == "Reliability table"
           td == "Raw execution results"
           T == MainTitles
<1>13. ta # tb /\ ta # over /\ ta # td /\ tb # over /\ tb # td /\ over # td
  BY DEF over
<1>14. {ta, tb, td} \subseteq T /\ c \in Seq(Page(T, S))
  BY <1>8, <1>12 DEF P
<1>15. HaveAll(a, ta, sums, S) /\ HaveAll(b, tb, rels, S) /\ HaveAll(d, td, raws, S)
  BY <1>11
<1>16. \A title \in {ta, tb, td} : RowsUnder(c, title) = <<>>
  <2>1. \A title \in {ta, tb, td} : title \notin X
    BY DEF X
  <2> QED  BY <1>10b, <2>1
<1> HIDE DEF ta, tb, td, T, all
<1>17. Assembled(T, S, a, ta, sums, b, tb, rels, c, over, d, td, raws)
  BY <1>3, <1>13, <1>14, <1>15, <1>16 DEF Assembled
<1>18. /\ RowsUnder(all, ta) = sums /\ RowsUnder(all, tb) = rels /\ RowsUnder(all, td) = raws
       /\ RowsUnder(all, over) = RowsUnder(c, over)
  BY <1>17, FourParts DEF all
<1> QED  BY <1>2, <1>10b, <1>18 DEF all, sums, rels, raws, n, ta, tb, td, over, rows

\* What generate_comparison_pdf_report shows for a number of threads.
ThreadsPages(f, u, there, t) ==
  <<[title |-> "GCC vs Clang comparison", rows |-> build_comparison_table_rows(f, u, t)]>>
    \o ImagePages("comparison", FilesOf(ComparisonFiles(f), t), there)

ComparisonTitles == {"GCC vs Clang comparison", "comparison", "Comparison raw results"}

\* None of it has another title than the two.
Compares(p, S) ==
  /\ p \in Seq(Page(ComparisonTitles, S))
  /\ \A title : title \notin {"GCC vs Clang comparison", "comparison"} =>
       RowsUnder(p, title) = <<>>

\* They have the two titles, and none besides.
LEMMA PagesOfThreads ==
  ASSUME NEW f \in Configs, NEW u, NEW there, NEW t, NEW S,
         ToSet(build_comparison_table_rows(f, u, t)) \subseteq S,
         ToSet(ComparisonFiles(f)) \subseteq S
  PROVE  Compares(ThreadsPages(f, u, there, t), S)
<1> DEFINE list == build_comparison_table_rows(f, u, t)
           all == ComparisonFiles(f)
           files == FilesOf(all, t)
           F == {x \in ToSet(all) : x[2] = t}
           shown == Select(files, there)
           a == <<[title |-> "GCC vs Clang comparison", rows |-> list]>>
           b == ImagePages("comparison", files, there)
           T == ComparisonTitles
<1>1. list \in Seq(S)
  <2>1. Len(f.cases) \in Nat /\ DOMAIN f.cases = 1 .. Len(f.cases)
    BY ConfigTypes, LenProperties
  <2> DEFINE n == Len(f.cases)
             R == {list[i] : i \in 1 .. n}
  <2>2. list = [i \in 1 .. n |-> list[i]]
    BY <2>1 DEF build_comparison_table_rows
  <2> HIDE DEF list, n
  <2>3. list \in [1 .. n -> R]
    BY <2>2
  <2> HIDE DEF R
  <2>4. list \in Seq(R)
    BY <2>1, <2>3, Listed DEF n
  <2> QED  BY <2>4, ListOfElements DEF list
<1>2. files \in Seq(S) /\ shown \in Seq(S)
  <2>1. all \in Seq((DOMAIN ComparisonMetric) \X Nat)
    BY PlotFiles
  <2>2. files = Select(all, F)
    BY DEF FilesOf
  <2> HIDE DEF all, files, F, shown
  <2>3. all \in Seq(S)
    BY <2>1, ListOfElements DEF all
  <2>4. files \in Seq(S)
    BY <2>2, <2>3, SelectedSet
  <2> QED  BY <2>4, SelectedSet DEF shown
<1> DEFINE ta == "GCC vs Clang comparison"
           tb == "comparison"
<1>3. ta \in T /\ tb \in T
  BY DEF ComparisonTitles
<1>4. ThreadsPages(f, u, there, t) = a \o b
  BY DEF ThreadsPages
<1>5. a = <<[title |-> ta, rows |-> list]>> /\ b = ImagePages(tb, files, there)
  OBVIOUS
<1> HIDE DEF list, files, all, F, T, a, b, shown, ta, tb
<1>6. HaveAll(a, ta, list, S) /\ HaveAll(b, tb, shown, S)
  BY <1>1, <1>2, <1>5, OnePage, ImagesOn DEF shown
<1>7. a \in Seq(Page(T, S)) /\ OnlyUnder(a, ta, list)
  BY <1>1, <1>3, <1>6, OnePart
<1>8. b \in Seq(Page(T, S)) /\ OnlyUnder(b, tb, shown)
  BY <1>2, <1>3, <1>6, OnePart
<1>9. Beside(a, b, Page(T, S))
  BY <1>7, <1>8, OneBeside
<1>10. a \o b \in Seq(Page(T, S))
  BY <1>9 DEF Beside
<1>11. ASSUME NEW title, title \notin {ta, tb} PROVE RowsUnder(a \o b, title) = <<>>
  <2>1. RowsUnder(a, title) = <<>> /\ RowsUnder(b, title) = <<>>
    BY <1>7, <1>8, <1>11 DEF OnlyUnder
  <2> QED  BY <1>9, <2>1 DEF Beside
<1> QED  BY <1>4, <1>10, <1>11 DEF Compares, T, ta, tb

\* The raw rows of the report of the comparison.
LEMMA ComparisonReport ==
  ASSUME NEW f \in Configs, NEW u, NEW E, NEW s \in Seq(E), NEW there
  PROVE  RowsUnder(generate_comparison_pdf_report(f, u, s, there, TRUE), "Comparison raw results")
           = comparison_raw_rows(s)
<1> DEFINE M == {"elapsed_ms", "energy_j", "throughput_mib_s"}
           S == (UNION {ToSet(build_comparison_table_rows(f, u, t)) : t \in ToSet(f.threads)})
                  \cup ToSet(ComparisonFiles(f)) \cup RawTyped(s, M)
           T == ComparisonTitles
           P == Page(T, S)
           title == "Comparison raw results"
           raws == comparison_raw_rows(s)
           n == Len(f.threads)
           pp == [i \in 1 .. n |-> ThreadsPages(f, u, there, f.threads[i])]
           c == FlattenSeq(pp)
           d == TablePages(title, raws, COMPARISON_RAW_ROWS)
           rows == [i \in 1 .. n |-> <<>>]
           X == {"GCC vs Clang comparison", "comparison"}
<1>1. n \in Nat /\ DOMAIN f.threads = 1 .. n
  BY ConfigTypes, LenProperties
<1>2. generate_comparison_pdf_report(f, u, s, there, TRUE) = c \o d
  BY <1>1 DEF generate_comparison_pdf_report, ThreadsPages
<1>3. raws \in Seq(S)
  <2>1. raws \in Seq(RawTyped(s, M))
    BY RawRowsTyped DEF comparison_raw_rows
  <2>2. RawTyped(s, M) \subseteq S
    OBVIOUS
  <2> HIDE DEF S, raws
  <2> QED  BY <2>1, <2>2, SeqMonotonic
<1>4. ASSUME NEW i \in 1 .. n PROVE Compares(pp[i], S)
  <2>1. f.threads[i] \in ToSet(f.threads)
    BY <1>1 DEF ToSet
  <2> DEFINE t == f.threads[i]
  <2>2. pp[i] = ThreadsPages(f, u, there, t)
    OBVIOUS
  <2> HIDE DEF t, pp
  <2>3. ToSet(build_comparison_table_rows(f, u, t)) \subseteq S
        /\ ToSet(ComparisonFiles(f)) \subseteq S
    BY <2>1 DEF t
  <2> HIDE DEF S
  <2> QED  BY <2>2, <2>3, PagesOfThreads
<1>5. pp = [i \in 1 .. n |-> pp[i]]
  OBVIOUS
<1>6. title \notin X /\ title \in T
  BY DEF ComparisonTitles
<1> HIDE DEF S, pp, n, d, raws, X, title, T
<1>7. rows \in [1 .. n -> Seq(S)] /\ \A i \in 1 .. n : rows[i] = <<>>
  BY EmptySeq
<1> HIDE DEF rows
<1>8. Alike(pp, n, T, S, title, rows, X)
  <2>1. \A i \in 1 .. n : pp[i] \in Seq(P)
    BY <1>4 DEF Compares, T
  <2>2. pp \in [1 .. n -> Seq(P)]
    BY <1>5, <2>1
  <2>3. \A i \in 1 .. n : \A other : other \notin X => RowsUnder(pp[i], other) = <<>>
    BY <1>4 DEF Compares, X
  <2> QED  BY <1>6, <1>7, <2>2, <2>3 DEF Alike
<1>9. c \in Seq(P) /\ \A other : other \notin X => RowsUnder(c, other) = <<>>
  BY <1>1, <1>8, PartsAlike
<1>10. RowsUnder(c, title) = <<>>
  BY <1>6, <1>9
<1>11. HaveAll(d, title, raws, S)
  <2>1. COMPARISON_RAW_ROWS \in Nat \ {0}
    BY EvaluationAssumption
  <2> QED  BY <1>3, <2>1, OnPages DEF d
<1>12. d \in Seq(P) /\ OnlyUnder(d, title, raws)
  BY <1>3, <1>6, <1>11, OnePart
<1> HIDE DEF c
<1>13. Beside(c, d, P)
  BY <1>9, <1>12, OneBeside
<1>14. RowsUnder(c \o d, title) = RowsUnder(d, title) /\ RowsUnder(d, title) = raws
  BY <1>10, <1>12, <1>13 DEF Beside, OnlyUnder
<1> QED  BY <1>2, <1>14 DEF c, d, raws, title

-----------------------------------------------------------------------------
(* Each case in a table, once.                                              *)

OtherCase(S) == {p \in S \X S : p[1].case # p[2].case}

ShowsEach(rows, f) ==
  LET all == {CaseNamed(k) : k \in CasesOf(f)}
  IN  {r.case : r \in ToSet(rows)} = all /\ Len(rows) = Cardinality(all)

\* A table without two rows of a case, and with a row of each.
LEMMA EachCaseOnce ==
  ASSUME NEW f, NEW R, NEW rows \in Seq(R), Chain(rows, OtherCase(R)),
         \A x \in ToSet(rows) : \E k \in CasesOf(f) : x.case = CaseNamed(k),
         \A k \in CasesOf(f) : \E x \in ToSet(rows) : x.case = CaseNamed(k)
  PROVE  ShowsEach(rows, f)
<1> DEFINE all == {CaseNamed(k) : k \in CasesOf(f)}
           n == Len(rows)
           list == [i \in 1 .. n |-> rows[i].case]
<1>1. n \in Nat /\ ToSet(rows) = {rows[i] : i \in 1 .. n}
  BY ElementsOf
<1>2. {r.case : r \in ToSet(rows)} = all
  OBVIOUS
<1>3. list \in [1 .. n -> all] /\ \A i \in 1 .. n : list[i] = rows[i].case
  BY <1>1
<1>4. \A i, j \in 1 .. n : i < j => rows[i].case # rows[j].case
  BY DEF Chain, OtherCase
<1>5. \A x \in all : \E i \in 1 .. n : x = rows[i].case
  BY <1>1
<1> HIDE DEF all, list, n
<1>6. list \in Seq(all) /\ Len(list) = n
  BY <1>1, <1>3, Listed
<1>7. Chain(list, Unlike(all))
  BY <1>3, <1>4, <1>6 DEF Chain, Unlike
<1>8. ToSet(list) = all
  <2>1. ToSet(list) = {list[i] : i \in 1 .. n}
    BY <1>6, ElementsOf
  <2> QED  BY <1>3, <1>5, <2>1
<1>9. Cardinality(all) = n
  BY <1>6, <1>7, <1>8, LengthIsCardinality
<1> QED  BY <1>2, <1>9 DEF ShowsEach, all, n

\* The rows of items of a summary whose cases differ.
RowsOver(v, M) == [i \in DOMAIN v |-> Row(v[i], M)]

\* A table of items of different cases has a row of each item.
LEMMA RowsOfItems ==
  ASSUME NEW f, NEW s, NEW u, Summarizes(u, f, s), NEW v \in Seq(ToSet(u)),
         \A i, j \in 1 .. Len(v) : i < j => Case(v[i]) # Case(v[j]), NEW M \in SUBSET Metrics
  PROVE  /\ RowsOver(v, M) \in Seq(RowsIn(u)) /\ Chain(RowsOver(v, M), OtherCase(RowsIn(u)))
         /\ ToSet(RowsOver(v, M)) = {Row(x, M) : x \in ToSet(v)}
<1> DEFINE rows == RowsOver(v, M)
           n == Len(v)
<1>1. n \in Nat /\ DOMAIN v = 1 .. n /\ ToSet(v) = {v[i] : i \in 1 .. n}
  BY ElementsOf
<1>2. rows \in Seq(RowsIn(u))
  BY RowsTyped DEF Summarizes, RowsOver
<1>3. rows = [i \in 1 .. n |-> Row(v[i], M)]
  BY <1>1 DEF RowsOver
<1>4. \A i \in 1 .. n : Row(v[i], M).case = Case(v[i])
  BY DEF Row
<1> HIDE DEF rows
<1>5. DOMAIN rows = 1 .. n /\ \A i \in 1 .. n : rows[i] = Row(v[i], M)
  BY <1>3
<1>6. DOMAIN rows = 1 .. Len(rows) /\ Len(rows) \in Nat
        /\ ToSet(rows) = {rows[i] : i \in 1 .. Len(rows)}
  BY <1>2, ElementsOf
<1>7. Len(rows) = n
  BY <1>1, <1>5, <1>6
<1>8. \A i \in 1 .. n : rows[i] \in RowsIn(u)
  BY <1>2, <1>7, ElementOfSeq
<1>9. Chain(rows, OtherCase(RowsIn(u)))
  BY <1>4, <1>5, <1>7, <1>8 DEF Chain, OtherCase
<1>10. ToSet(rows) = {Row(x, M) : x \in ToSet(v)}
  BY <1>1, <1>5, <1>6, <1>7
<1> QED  BY <1>2, <1>9, <1>10 DEF rows

\* A table of all items has each case.
LEMMA TableShows ==
  ASSUME NEW f, NEW s, NEW u, Summarizes(u, f, s), NEW M \in SUBSET Metrics
  PROVE  ShowsEach(RowsOver(u, M), f)
<1> DEFINE rows == RowsOver(u, M)
           R == RowsIn(u)
<1>1. u \in Seq(ToSet(u))
  BY ListOfElements DEF Summarizes
<1>2. \A i, j \in 1 .. Len(u) : i < j => Case(u[i]) # Case(u[j])
  BY DEF Summarizes
<1>3. rows \in Seq(R) /\ Chain(rows, OtherCase(R)) /\ ToSet(rows) = {Row(x, M) : x \in ToSet(u)}
  BY <1>1, <1>2, RowsOfItems
<1>4. \A k \in CasesOf(f) : Row(ItemOf(s, k), M).case = CaseNamed(k)
  BY CaseOfItem DEF Row
<1>5. ToSet(u) = {ItemOf(s, k) : k \in CasesOf(f)}
  BY DEF Summarizes, Items
<1> HIDE DEF rows, R
<1>6. \A x \in ToSet(rows) : \E k \in CasesOf(f) : x.case = CaseNamed(k)
  BY <1>3, <1>4, <1>5
<1>7. \A k \in CasesOf(f) : \E x \in ToSet(rows) : x.case = CaseNamed(k)
  BY <1>3, <1>4, <1>5
<1>8. ShowsEach(rows, f)
  BY <1>3, <1>6, <1>7, EachCaseOnce
<1> QED  BY <1>8 DEF rows

\* The overviews of all compilers have each case.
LEMMA OverviewShows ==
  ASSUME NEW f \in Configs, NEW s, NEW u, Summarizes(u, f, s)
  PROVE  ShowsEach(FlattenSeq([i \in 1 .. Len(f.compilers) |-> Overview(u, f.compilers[i])]), f)
<1> DEFINE list == f.compilers
           n == Len(list)
           M == {"elapsed_ms", "energy_j", "throughput_mib_s"}
           R == RowsIn(u)
           O == OtherCase(R)
           ss == [i \in 1 .. n |-> Overview(u, list[i])]
           rows == FlattenSeq(ss)
<1>1. /\ list \in Seq(Compilers) /\ n \in Nat /\ DOMAIN list = 1 .. n
      /\ ToSet(list) = {list[i] : i \in 1 .. n} /\ \A i, j \in 1 .. n : i < j => list[i] # list[j]
  <2>1. list \in Seq(Compilers) /\ IsInjective(list)
    BY ConfigTypes
  <2> HIDE DEF list
  <2> QED  BY <2>1, ElementsOf, Differs
<1>2. ToSet(u) = {ItemOf(s, k) : k \in CasesOf(f)}
  BY DEF Summarizes, Items
<1>3. \A k \in CasesOf(f) : /\ Row(ItemOf(s, k), M).case = CaseNamed(k)
                            /\ ItemOf(s, k).compiler = k[1] /\ k[1] \in ToSet(list)
  BY CaseOfItem DEF Row, CasesOf
<1>4. M \in SUBSET Metrics
  BY DEF Metrics
<1> HIDE DEF M, list, n
<1>5. ASSUME NEW c
      PROVE  /\ Overview(u, c) \in Seq(R) /\ Chain(Overview(u, c), O)
             /\ \A x : x \in ToSet(Overview(u, c))
                         <=> \E k \in CasesOf(f) : k[1] = c /\ x = Row(ItemOf(s, k), M)
  <2> DEFINE v == ItemsBy(u, c)
             F == {x \in ToSet(u) : x.compiler = c}
             C == {p \in ToSet(u) \X ToSet(u) : Case(p[1]) # Case(p[2])}
  <2>1. u \in Seq(ToSet(u)) /\ Chain(u, C)
    <3>1. u \in Seq(ToSet(u))
      BY ListOfElements DEF Summarizes
    <3>2. \A i \in 1 .. Len(u) : u[i] \in ToSet(u)
      BY <3>1, ElementOfSeq
    <3> QED  BY <3>1, <3>2 DEF Summarizes, Chain
  <2>2. v = Select(u, F)
    BY DEF ItemsBy
  <2> HIDE DEF v, F, C
  <2>3. v \in Seq(ToSet(u)) /\ Chain(v, C) /\ ToSet(v) = ToSet(u) \cap F
    BY <2>1, <2>2, Selected
  <2>4. \A i, j \in 1 .. Len(v) : i < j => Case(v[i]) # Case(v[j])
    BY <2>3 DEF Chain, C
  <2>5. RowsOver(v, M) = Overview(u, c)
    BY DEF RowsOver, Overview, v, M
  <2>6. /\ Overview(u, c) \in Seq(R) /\ Chain(Overview(u, c), O)
        /\ ToSet(Overview(u, c)) = {Row(x, M) : x \in ToSet(v)}
    BY <1>4, <2>3, <2>4, <2>5, RowsOfItems
  <2>7. \A x : x \in ToSet(v) <=> \E k \in CasesOf(f) : k[1] = c /\ x = ItemOf(s, k)
    BY <1>2, <1>3, <2>3 DEF F
  <2>8. \A x : x \in ToSet(Overview(u, c)) <=> \E y \in ToSet(v) : x = Row(y, M)
    BY <2>6
  <2>9. \A x : x \in ToSet(Overview(u, c))
                 <=> \E k \in CasesOf(f) : k[1] = c /\ x = Row(ItemOf(s, k), M)
    BY <2>7, <2>8, Zenon
  <2> QED  BY <2>6, <2>9
<1>6. /\ ss \in [1 .. n -> Seq(R)] /\ \A i \in 1 .. n : Chain(ss[i], O)
      /\ \A i \in 1 .. n : ss[i] = Overview(u, list[i])
  BY <1>5
<1> HIDE DEF ss, R, O
<1>7. ASSUME NEW i \in 1 .. n, NEW j \in 1 .. n, i < j PROVE Before(ss[i], ss[j], O)
  <2> SUFFICES ASSUME NEW x \in ToSet(ss[i]), NEW y \in ToSet(ss[j]) PROVE <<x, y>> \in O
    BY DEF Before
  <2>1. x \in R /\ y \in R
    BY <1>6, ElementsOf
  <2>2. PICK k \in CasesOf(f) : k[1] = list[i] /\ x = Row(ItemOf(s, k), M)
    BY <1>5, <1>6
  <2>3. PICK l \in CasesOf(f) : l[1] = list[j] /\ y = Row(ItemOf(s, l), M)
    BY <1>5, <1>6
  <2>4. k # l
    BY <1>1, <1>7, <2>2, <2>3
  <2>5. x.case = CaseNamed(k) /\ y.case = CaseNamed(l)
    BY <1>3, <2>2, <2>3
  <2>6. x.case # y.case
    BY <2>4, <2>5, CasesDiffer
  <2> QED  BY <2>1, <2>6 DEF O, OtherCase
<1>8. HasFirst(rows, R, ss, n, O)
  <2> HIDE DEF rows
  <2>1. HasFirst(FlattenSeq(ss), R, ss, n, O)
    BY <1>1, <1>6, <1>7, Flattened
  <2> QED  BY <2>1 DEF rows
<1> HIDE DEF rows
<1>9. rows \in Seq(R) /\ Chain(rows, O)
  BY <1>8 DEF HasFirst
<1>10. \A x \in ToSet(rows) : \E k \in CasesOf(f) : x.case = CaseNamed(k)
  <2> SUFFICES ASSUME NEW x \in ToSet(rows) PROVE \E k \in CasesOf(f) : x.case = CaseNamed(k)
    OBVIOUS
  <2>1. PICK i \in 1 .. n : x \in ToSet(ss[i])
    BY <1>8 DEF HasFirst
  <2>2. PICK k \in CasesOf(f) : x = Row(ItemOf(s, k), M)
    BY <1>5, <1>6, <2>1
  <2> QED  BY <1>3, <2>2
<1>11. \A k \in CasesOf(f) : \E x \in ToSet(rows) : x.case = CaseNamed(k)
  <2> SUFFICES ASSUME NEW k \in CasesOf(f) PROVE \E x \in ToSet(rows) : x.case = CaseNamed(k)
    OBVIOUS
  <2>1. PICK i \in 1 .. n : list[i] = k[1]
    BY <1>1, <1>3
  <2>2. Row(ItemOf(s, k), M) \in ToSet(ss[i])
    BY <1>5, <1>6, <2>1
  <2>3. Row(ItemOf(s, k), M) \in ToSet(rows)
    BY <1>8, <2>2 DEF HasFirst
  <2> QED  BY <1>3, <2>3
<1>12. ShowsEach(rows, f)
  BY <1>9, <1>10, <1>11, EachCaseOnce DEF O
<1> QED  BY <1>12 DEF rows, ss, list, n

\* The processes of a case, in all its repetitions, have succeeded or failed.
LEMMA CaseAddsUp ==
  ASSUME NEW f \in Configs, NEW s, Complete(f, s), NEW k \in CasesOf(f)
  PROVE  CaseMean(s, k, "success")[1] + CaseMean(s, k, "failed")[1] = f.repetitions * k[3]
<1> DEFINE n == f.repetitions
           q == ResultsOf(s, k)
           v == Values(q, "success")
           w == Values(q, "failed")
<1>1. n \in Nat
  BY ConfigTypes
<1>2. "success" \in Metrics /\ "failed" \in Metrics
  BY DEF Metrics
<1>3. /\ v \in [1 .. n -> Int] /\ \A i \in 1 .. n : v[i] = q[i].value["success"]
      /\ w \in [1 .. n -> Int] /\ \A i \in 1 .. n : w[i] = q[i].value["failed"]
  BY <1>2, ValuesOfCase DEF Repetitions
<1>4. CaseMean(s, k, "success")[1] = Sum(v) /\ CaseMean(s, k, "failed")[1] = Sum(w)
  BY DEF CaseMean, Mean, Sum
<1>5. \A i \in 1 .. n : q[i] \in ToSet(s) /\ Key(q[i]) = k
  BY ResultsOfCase, OnePerRepetition DEF Repetitions
<1> HIDE DEF n, q, v, w
<1>6. k[3] \in Int /\ k[3] \in ToSet(f.cases)
  <2>1. ToSet(f.cases) \subseteq Nat
    <3>1. f.cases \in Seq(Nat)
      BY ConfigTypes
    <3> QED  BY <3>1, ElementsOf
  <2> QED  BY <2>1 DEF CasesOf
<1>7. ASSUME NEW i \in 1 .. n PROVE v[i] + w[i] = k[3]
  <2>1. q[i].value \in Measured[q[i].clients]
    BY <1>5 DEF Complete
  <2>2. q[i].clients = k[3]
    BY <1>5 DEF Key
  <2>3. q[i].value["success"] + q[i].value["failed"] = k[3]
    BY <1>6, <2>1, <2>2, EvaluationAssumption
  <2> QED  BY <1>3, <2>3
<1>8. Sum(v) + Sum(w) = n * k[3]
  BY <1>1, <1>3, <1>6, <1>7, SumOfBoth
<1> QED  BY <1>4, <1>8 DEF n

\* So they do in every row of the reliability table.
LEMMA ReliabilityRows ==
  ASSUME NEW f \in Configs, NEW s, Complete(f, s), NEW u, Summarizes(u, f, s),
         NEW r \in ToSet(build_reliability_table_rows(u))
  PROVE  r.cells["success"].mean[1] + r.cells["failed"].mean[1] = r.case.clients * f.repetitions
<1> DEFINE M == {"total_iterations", "success", "failed"}
<1>1. M \in SUBSET Metrics
  BY DEF Metrics
<1>2. build_reliability_table_rows(u) = RowsOver(u, M)
  BY DEF build_reliability_table_rows, RowsOver
<1>3. /\ u \in Seq(ToSet(u)) /\ \A i, j \in 1 .. Len(u) : i < j => Case(u[i]) # Case(u[j])
      /\ ToSet(u) = {ItemOf(s, k) : k \in CasesOf(f)}
  BY ListOfElements DEF Summarizes, Items
<1>4. "success" \in M /\ "failed" \in M
  OBVIOUS
<1> HIDE DEF M
<1>5. ToSet(RowsOver(u, M)) = {Row(x, M) : x \in ToSet(u)}
  BY <1>1, <1>3, RowsOfItems
<1>6. PICK k \in CasesOf(f) : r = Row(ItemOf(s, k), M)
  BY <1>2, <1>3, <1>5
<1> DEFINE x == ItemOf(s, k)
<1>7. /\ r.cells["success"].mean = CaseMean(s, k, "success")
      /\ r.cells["failed"].mean = CaseMean(s, k, "failed")
  <2>1. \A m \in M : r.cells[m] = Cell(x.stats[m])
    BY <1>6 DEF Row
  <2>2. \A m \in Metrics : Cell(x.stats[m]).mean = CaseMean(s, k, m)
    BY MeanOfItem
  <2> QED  BY <1>1, <1>4, <2>1, <2>2
<1>8. r.case.clients = k[3]
  <2>1. r.case = Case(x)
    BY <1>6 DEF Row
  <2>2. Case(x).clients = k[3]
    BY CaseOfItem DEF Case
  <2> QED  BY <2>1, <2>2
<1>9. f.repetitions \in Int /\ k[3] \in Int
  <2>1. f.cases \in Seq(Nat) /\ f.repetitions \in Nat
    BY ConfigTypes
  <2>2. ToSet(f.cases) \subseteq Nat
    BY <2>1, ElementsOf
  <2> QED  BY <2>1, <2>2 DEF CasesOf
<1>10. CaseMean(s, k, "success")[1] + CaseMean(s, k, "failed")[1] = f.repetitions * k[3]
  BY CaseAddsUp
<1>11. f.repetitions * k[3] = k[3] * f.repetitions
  BY <1>9
<1> QED  BY <1>7, <1>8, <1>10, <1>11

-----------------------------------------------------------------------------
(* The way of the results into the reports.                                 *)

\* The results are those of the first runs, one each, and when the files are
\* made there is one of every run; each file is made from what was made before.
ReportInv ==
  /\ config \in Configs
  /\ pc # "failed" => Taken(config, all_results)
  /\ pc \in {"plots", "pdf", "done"} =>
       /\ Len(all_results) = Len(Runs(config))
       /\ all_summary = summarize_results(all_results)
  /\ pc \in {"pdf", "done"} /\ config.plots =>
       figures = generate_plots(config, all_results, all_summary)
  /\ pc = "done" =>
       /\ Main = generate_main_pdf_report(config, all_summary, all_results,
                                          DOMAIN figures.scatter, TRUE)
       /\ Comparison = generate_comparison_pdf_report(config, all_summary, all_results,
                                                      DOMAIN figures.comparison, TRUE)

\* Nothing has been run.
LEMMA ReportBegins == ReportInit => ReportInv
<1> SUFFICES ASSUME ReportInit PROVE ReportInv
  OBVIOUS
<1>1. config \in Configs /\ pc = "run" /\ all_results = <<>>
  BY DEF ReportInit
<1>2. <<>> \in Seq(Entry(config)) /\ Len(<<>>) = 0
  BY EmptySeq
<1>3. Len(Runs(config)) \in Nat
  BY <1>1, AllRuns, ElementsOf
<1>4. Taken(config, all_results)
  BY <1>1, <1>2, <1>3 DEF Taken
<1> QED  BY <1>1, <1>4 DEF ReportInv

\* The result of the next run.
LEMMA RunCaseKeeps == ASSUME ReportInv, RunCase PROVE ReportInv'
<1> DEFINE f == config
           s == all_results
           n == Len(s)
           next == Runs(f)[n + 1]
<1>1. f \in Configs /\ pc = "run" /\ Taken(f, s) /\ n < Len(Runs(f))
  BY RunsAreToRun DEF ReportInv, RunCase
<1>2. /\ Runs(f) \in Seq(Run) /\ Len(Runs(f)) \in Nat
      /\ ToSet(Runs(f)) = {Runs(f)[i] : i \in 1 .. Len(Runs(f))}
  BY <1>1, AllRuns, ElementsOf
<1>3. s \in Seq(Entry(f)) /\ n \in Nat
  BY <1>1, ElementsOf DEF Taken
<1>4. next \in Run /\ next.clients \in ToSet(f.cases)
  <2>1. n + 1 \in 1 .. Len(Runs(f))
    BY <1>1, <1>2, <1>3
  <2>2. next \in ToSet(Runs(f)) /\ next \in Run
    BY <1>2, <2>1, ElementOfSeq
  <2>3. PICK c \in ToSet(f.compilers), t \in ToSet(f.threads), k \in ToSet(f.cases),
             rep \in Repetitions(f) : next = RunOf(c, t, k, rep)
    BY <1>1, <2>2, AllRuns
  <2> HIDE DEF next
  <2> QED  BY <2>2, <2>3 DEF RunOf
<1> DEFINE entry(v) == [compiler |-> next.compiler, threads |-> next.threads,
                        clients |-> next.clients, repetition |-> next.repetition, value |-> v]
<1>5. PICK v \in Measured[next.clients] : all_results' = Append(s, entry(v))
  BY RunsAreToRun DEF RunCase
<1> DEFINE e == entry(v)
<1> HIDE DEF next, s, n
<1>6. e \in Entry(f) /\ e.value \in Measured[e.clients]
  BY <1>4, <1>5 DEF Entry, Run
<1>7. RunOf(e.compiler, e.threads, e.clients, e.repetition) = next
  BY <1>4 DEF RunOf, Run
<1> HIDE DEF e
<1>8. /\ Append(s, e) \in Seq(Entry(f)) /\ Len(Append(s, e)) = n + 1
      /\ \A i \in 1 .. n : Append(s, e)[i] = s[i]
      /\ Append(s, e)[n + 1] = e
  BY <1>3, <1>6, AppendProperties DEF n
<1>9. Taken(f, Append(s, e))
  <2>1. ASSUME NEW i \in 1 .. n + 1
        PROVE  LET x == Append(s, e)[i]
               IN  /\ RunOf(x.compiler, x.threads, x.clients, x.repetition) = Runs(f)[i]
                   /\ x.value \in Measured[x.clients]
    <3>1. CASE i = n + 1
      BY <1>6, <1>7, <1>8, <3>1 DEF next
    <3>2. CASE i # n + 1
      <4>1. i \in 1 .. n
        BY <1>3, <3>2
      <4> QED  BY <1>1, <1>8, <4>1 DEF Taken, n
    <3> QED  BY <3>1, <3>2
  <2> QED  BY <1>1, <1>2, <1>3, <1>8, <2>1 DEF Taken
<1>10. config' = f /\ pc' = "run" /\ all_results' = Append(s, e)
  BY <1>1, <1>5 DEF RunCase, e
<1> QED  BY <1>1, <1>9, <1>10 DEF ReportInv

\* The summary is made once all results are there.
LEMMA WriteKeeps == ASSUME ReportInv, Write PROVE ReportInv'
<1>1. /\ Len(all_results) = Len(Runs(config)) /\ Taken(config, all_results) /\ config \in Configs
      /\ all_summary' = summarize_results(all_results) /\ pc' = "plots"
      /\ config' = config /\ all_results' = all_results
  BY RunsAreToRun DEF ReportInv, Write
<1> QED  BY <1>1 DEF ReportInv

\* The plots are made of both.
LEMMA PlotKeeps == ASSUME ReportInv, Plot PROVE ReportInv'
<1>1. /\ Len(all_results) = Len(Runs(config)) /\ Taken(config, all_results) /\ config \in Configs
      /\ all_summary = summarize_results(all_results)
  BY DEF ReportInv, Plot
<1>2. /\ pc' = "pdf" /\ config' = config /\ all_results' = all_results /\ all_summary' = all_summary
      /\ config.plots => figures' = generate_plots(config, all_results, all_summary)
  BY DEF Plot
<1> QED  BY <1>1, <1>2 DEF ReportInv

\* The reports are made of all three.
LEMMA ReportKeeps == ASSUME ReportInv, Report PROVE ReportInv'
<1>1. /\ Len(all_results) = Len(Runs(config)) /\ Taken(config, all_results) /\ config \in Configs
      /\ all_summary = summarize_results(all_results)
      /\ config.plots => figures = generate_plots(config, all_results, all_summary)
  BY DEF ReportInv, Report
<1>2. /\ pc' = "done" /\ config' = config /\ all_results' = all_results
      /\ all_summary' = all_summary /\ figures' = figures
  BY DEF Report
<1>3. /\ Main' = generate_main_pdf_report(config, all_summary, all_results,
                                          DOMAIN figures.scatter, TRUE)
      /\ Comparison' = generate_comparison_pdf_report(config, all_summary, all_results,
                                                      DOMAIN figures.comparison, TRUE)
  BY DEF Report, Main, Comparison
<1> QED  BY <1>1, <1>2, <1>3 DEF ReportInv

\* Every action preserves it; after a failure nothing is claimed.
LEMMA ReportStep == ReportInv /\ [ReportNext]_reportVars => ReportInv'
<1> SUFFICES ASSUME ReportInv, [ReportNext]_reportVars PROVE ReportInv'
  OBVIOUS
<1>1. CASE RunCase
  BY <1>1, RunCaseKeeps
<1>2. CASE Raise
  BY <1>2 DEF Raise, ReportInv
<1>3. CASE Write
  BY <1>3, WriteKeeps
<1>4. CASE Plot
  BY <1>4, PlotKeeps
<1>5. CASE Report
  BY <1>5, ReportKeeps
<1>6. CASE UNCHANGED reportVars
  BY <1>6 DEF reportVars, ReportInv, Main, Comparison
<1> QED  BY <1>1, <1>2, <1>3, <1>4, <1>5, <1>6 DEF ReportNext

\* The steps of the whole are steps of the reports or leave them alone.
LEMMA ReportsOnly ==
  /\ AnyInit => ReportInit
  /\ [AnyNext]_<<part, macroVars, measureVars, reportVars>> => [ReportNext]_reportVars
BY DEF AnyInit, AnyNext

\* When the reports are done the results are complete and summarised.
LEMMA DoneWith ==
  ASSUME ReportInv, pc = "done"
  PROVE  /\ config \in Configs /\ Complete(config, all_results)
         /\ Summarizes(all_summary, config, all_results)
         /\ \E U : all_summary \in Seq(U)
         /\ \E E : all_results \in Seq(E)
<1>1. /\ config \in Configs /\ Taken(config, all_results)
      /\ Len(all_results) = Len(Runs(config)) /\ all_summary = summarize_results(all_results)
  BY DEF ReportInv
<1>2. Complete(config, all_results)
  BY <1>1, AllTaken
<1>3. Summarizes(all_summary, config, all_results)
  BY <1>1, <1>2, Summarized
<1>4. all_summary \in Seq(Items(config, all_results)) /\ all_results \in Seq(Entry(config))
  BY <1>2, <1>3 DEF Summarizes, Complete
<1> QED  BY <1>1, <1>2, <1>3, <1>4

\* What stands under the titles of the two reports.
LEMMA DoneRows ==
  ASSUME ReportInv, pc = "done"
  PROVE  /\ RowsUnder(Main, "Summary table") = build_summary_table_rows(all_summary)
         /\ RowsUnder(Main, "Reliability table") = build_reliability_table_rows(all_summary)
         /\ RowsUnder(Main, "Raw execution results") = build_raw_results_rows(all_results)
         /\ RowsUnder(Main, "overview")
              = FlattenSeq([i \in 1 .. Len(config.compilers) |->
                             Overview(all_summary, config.compilers[i])])
         /\ RowsUnder(Comparison, "Comparison raw results") = comparison_raw_rows(all_results)
<1>1. PICK U : all_summary \in Seq(U)
  BY DoneWith
<1>2. PICK E : all_results \in Seq(E)
  BY DoneWith
<1>3. config \in Configs
  BY DoneWith
<1> DEFINE p == DOMAIN figures.scatter
           q == DOMAIN figures.comparison
           main == generate_main_pdf_report(config, all_summary, all_results, p, TRUE)
           other == generate_comparison_pdf_report(config, all_summary, all_results, q, TRUE)
<1>4. Main = main /\ Comparison = other
  BY DEF ReportInv
<1> HIDE DEF p, q
<1>5. /\ RowsUnder(main, "Summary table") = build_summary_table_rows(all_summary)
      /\ RowsUnder(main, "Reliability table") = build_reliability_table_rows(all_summary)
      /\ RowsUnder(main, "Raw execution results") = build_raw_results_rows(all_results)
      /\ RowsUnder(main, "overview")
           = FlattenSeq([i \in 1 .. Len(config.compilers) |->
                          Overview(all_summary, config.compilers[i])])
  BY <1>1, <1>2, <1>3, MainReport
<1>6. RowsUnder(other, "Comparison raw results") = comparison_raw_rows(all_results)
  BY <1>2, <1>3, ComparisonReport
<1> HIDE DEF main, other
<1> QED  BY <1>4, <1>5, <1>6

\* The cases of a configuration.
LEMMA CasesOfConfig == CasesRun = CasesOf(config)
BY DEF CasesRun, CasesOf

\* All results are in the raw tables, and each case once in the others.
LEMMA AllAreShown == ReportInv => EverythingIsShown
<1> SUFFICES ASSUME ReportInv, pc = "done" PROVE EverythingIsShown
  BY DEF EverythingIsShown
<1> DEFINE a == RowsUnder(Main, "Summary table")
           b == RowsUnder(Main, "Reliability table")
           o == RowsUnder(Main, "overview")
           M1 == {"elapsed_ms", "energy_j", "throughput_mib_s", "downloads_per_process"}
           M2 == {"total_iterations", "success", "failed"}
<1>1. Summarizes(all_summary, config, all_results) /\ config \in Configs
  BY DoneWith
<1>2. M1 \in SUBSET Metrics /\ M2 \in SUBSET Metrics
  BY DEF Metrics
<1>3. a = RowsOver(all_summary, M1) /\ b = RowsOver(all_summary, M2)
  <2>1. build_summary_table_rows(all_summary) = RowsOver(all_summary, M1)
    BY DEF build_summary_table_rows, RowsOver
  <2>2. build_reliability_table_rows(all_summary) = RowsOver(all_summary, M2)
    BY DEF build_reliability_table_rows, RowsOver
  <2> QED  BY <2>1, <2>2, DoneRows
<1> HIDE DEF M1, M2
<1>4. ShowsEach(RowsOver(all_summary, M1), config) /\ ShowsEach(RowsOver(all_summary, M2), config)
  BY <1>1, <1>2, TableShows
<1> DEFINE each == FlattenSeq([i \in 1 .. Len(config.compilers) |->
                                Overview(all_summary, config.compilers[i])])
<1>5. ShowsEach(each, config) /\ o = each
  BY <1>1, OverviewShows, DoneRows
<1> HIDE DEF each, a, b, o
<1>6. ShowsEach(a, config) /\ ShowsEach(b, config) /\ ShowsEach(o, config)
  BY <1>3, <1>4, <1>5
<1>7. ASSUME NEW title \in {"Summary table", "Reliability table", "overview"}
      PROVE  ShowsEach(RowsUnder(Main, title), config)
  BY <1>6 DEF a, b, o
<1>8. /\ RowsUnder(Main, "Raw execution results") = build_raw_results_rows(all_results)
      /\ RowsUnder(Comparison, "Comparison raw results") = comparison_raw_rows(all_results)
  BY DoneRows
<1> QED  BY <1>7, <1>8, CasesOfConfig, Zenon DEF EverythingIsShown, ShowsEach

\* The reliability table adds up.
LEMMA AddsUp == ReportInv => ReliabilityAddsUp
<1> SUFFICES ASSUME ReportInv, pc = "done",
                    NEW r \in ToSet(RowsUnder(Main, "Reliability table"))
             PROVE  r.cells["success"].mean[1] + r.cells["failed"].mean[1]
                      = r.case.clients * config.repetitions
  BY DEF ReliabilityAddsUp
<1>1. /\ config \in Configs /\ Complete(config, all_results)
      /\ Summarizes(all_summary, config, all_results)
  BY DoneWith
<1>2. r \in ToSet(build_reliability_table_rows(all_summary))
  BY DoneRows
<1> QED  BY <1>1, <1>2, ReliabilityRows

\* The names of a metric, in the tables and in the two kinds of plots.
LEMMA MetricNames ==
  /\ DOMAIN TableMetric = {"elapsed", "net_energy", "throughput"}
  /\ \A x \in DOMAIN TableMetric :
       /\ x \in DOMAIN ComparisonMetric /\ RunPlot[x] \in DOMAIN ScatterMetric
       /\ ComparisonMetric[x] = TableMetric[x] /\ ScatterMetric[RunPlot[x]] = TableMetric[x]
       /\ TableMetric[x] \in {"elapsed_ms", "energy_j", "throughput_mib_s"}
BY DEF TableMetric, ComparisonMetric, RunPlot, ScatterMetric

\* The two plots that show a metric of a case.
LEMMA PlotsOfCase ==
  ASSUME NEW f \in Configs, NEW s, NEW u, NEW k \in CasesOf(f), NEW x \in DOMAIN TableMetric
  PROVE  LET made == generate_plots(f, s, u)
         IN  /\ made.scatter[<<RunPlot[x], k[1]>>]
                  = make_per_run_scatter_with_mean(f, s, k[1], TableMetric[x])
             /\ made.comparison[<<x, k[2]>>]
                  = make_compiler_comparison_plot(f, u, k[2], TableMetric[x])
<1> DEFINE a == <<RunPlot[x], k[1]>>
           b == <<x, k[2]>>
           made == generate_plots(f, s, u)
<1>1. k[1] \in ToSet(f.compilers) /\ k[2] \in ToSet(f.threads)
  BY DEF CasesOf
<1>2. a \in ToSet(ScatterFiles(f)) /\ b \in ToSet(ComparisonFiles(f))
  BY <1>1, MetricNames, PlotFiles
<1>3. a[1] = RunPlot[x] /\ a[2] = k[1] /\ b[1] = x /\ b[2] = k[2]
  OBVIOUS
<1> HIDE DEF a, b
<1>4. made.scatter[a] = make_per_run_scatter_with_mean(f, s, a[2], ScatterMetric[a[1]])
  BY <1>2 DEF generate_plots
<1>5. made.comparison[b] = make_compiler_comparison_plot(f, u, b[2], ComparisonMetric[b[1]])
  BY <1>2 DEF generate_plots
<1> HIDE DEF made
<1>6. made.scatter[a] = make_per_run_scatter_with_mean(f, s, k[1], TableMetric[x])
  BY <1>3, <1>4, MetricNames
<1>7. made.comparison[b] = make_compiler_comparison_plot(f, u, k[2], TableMetric[x])
  BY <1>3, <1>5, MetricNames
<1> QED  BY <1>6, <1>7 DEF made, a, b

\* All four places show the mean of the case's results.
LEMMA MeansAreAlike == ReportInv => MeansAgree
<1> SUFFICES ASSUME ReportInv, pc = "done", config.plots, NEW k \in CasesRun,
                    NEW x \in DOMAIN TableMetric
             PROVE
      LET metric == TableMetric[x]
          mean == RowsFor(RowsUnder(Main, "Summary table"), k)[1].cells[metric].mean
          table == build_comparison_table_rows(config, all_summary, k[2])
          row == Select(table, {r \in ToSet(table) : r.clients = k[3]})[1]
      IN  /\ PointsAt(figures.scatter[<<RunPlot[x], k[1]>>], "threads", k[2], k[3]) = {mean}
          /\ PointsAt(figures.comparison[<<x, k[2]>>], "compiler", k[1], k[3]) = {mean}
          /\ (IF k[1] = "gcc" THEN row.gcc ELSE row.clang)[metric].mean = mean
          /\ mean[2] = config.repetitions
  BY Zenon DEF MeansAgree
<1> DEFINE metric == TableMetric[x]
           mean == RowsFor(RowsUnder(Main, "Summary table"), k)[1].cells[metric].mean
           table == build_comparison_table_rows(config, all_summary, k[2])
           row == Select(table, {r \in ToSet(table) : r.clients = k[3]})[1]
           value == CaseMean(all_results, k, metric)
           one == figures.scatter[<<RunPlot[x], k[1]>>]
           other == figures.comparison[<<x, k[2]>>]
           M == {"elapsed_ms", "energy_j", "throughput_mib_s", "downloads_per_process"}
<1>1. /\ config \in Configs /\ Complete(config, all_results)
      /\ Summarizes(all_summary, config, all_results)
  BY DoneWith
<1>2. k \in CasesOf(config)
  BY CasesOfConfig
<1>3. metric \in {"elapsed_ms", "energy_j", "throughput_mib_s"}
  BY MetricNames
<1>4. M \in SUBSET Metrics /\ metric \in M /\ metric \in Metrics
  BY <1>3 DEF Metrics
<1>5. figures = generate_plots(config, all_results, all_summary)
  BY DEF ReportInv
<1>6. /\ one = make_per_run_scatter_with_mean(config, all_results, k[1], metric)
      /\ other = make_compiler_comparison_plot(config, all_summary, k[2], metric)
  BY <1>1, <1>2, <1>5, PlotsOfCase
<1> HIDE DEF metric, one, other
<1>7. PointsAt(one, "threads", k[2], k[3]) = {value}
  <2>1. PointsAt(make_per_run_scatter_with_mean(config, all_results, k[1], metric),
                 "threads", k[2], k[3]) = {value}
    BY <1>1, <1>2, <1>4, ScatteredPoint
  <2> QED  BY <1>6, <2>1
<1>8. PointsAt(other, "compiler", k[1], k[3]) = {value}
  <2>1. PointsAt(make_compiler_comparison_plot(config, all_summary, k[2], metric),
                 "compiler", k[1], k[3]) = {value}
    BY <1>1, <1>2, <1>4, ComparedPoint
  <2> QED  BY <1>6, <2>1
<1>9. (IF k[1] = "gcc" THEN row.gcc ELSE row.clang)[metric].mean = value
  BY <1>1, <1>2, <1>3, ComparedRow
<1>10. mean = value
  <2> DEFINE rows == [i \in DOMAIN all_summary |-> Row(all_summary[i], M)]
  <2>1. RowsUnder(Main, "Summary table") = rows
    BY DoneRows DEF build_summary_table_rows
  <2>2. RowsFor(rows, k)[1].cells[metric].mean = value
    BY <1>1, <1>2, <1>4, RowOfCase
  <2> HIDE DEF rows, value
  <2> QED  BY <2>1, <2>2
<1>11. value[2] = config.repetitions
  BY <1>1, <1>2, <1>4, MeanOfItem
<1> HIDE DEF value
<1> HIDE DEF mean, row
<1>12. /\ PointsAt(one, "threads", k[2], k[3]) = {mean}
       /\ PointsAt(other, "compiler", k[1], k[3]) = {mean}
       /\ (IF k[1] = "gcc" THEN row.gcc ELSE row.clang)[metric].mean = mean
       /\ mean[2] = config.repetitions
  BY <1>7, <1>8, <1>9, <1>10, <1>11
<1> QED  BY <1>12, Zenon DEF one, other, metric, mean, row

\* Whatever the compilers, threads, cases and sizes of pages: nothing that was
\* measured is missing in the reports of run_bench.py or there twice, and each
\* row of the reliability table adds up to the processes of its case.
THEOREM ReportsComplete == AnySpec => []ReportsShowAll
<1>1. AnyInit => ReportInv
  BY ReportsOnly, ReportBegins
<1>2. ReportInv /\ [AnyNext]_<<part, macroVars, measureVars, reportVars>> => ReportInv'
  BY ReportsOnly, ReportStep
<1>3. ReportInv => ReportsShowAll
  BY AllAreShown, AddsUp DEF ReportsShowAll
<1> QED  BY <1>1, <1>2, <1>3, PTL DEF AnySpec

\* The mean that the summary table, the compiler's own plot, the plot of the
\* comparison and its table show of a metric of a case is the same one, and is
\* over all its repetitions.
THEOREM MeansAreOne == AnySpec => []MeansAgree
<1>1. AnyInit => ReportInv
  BY ReportsOnly, ReportBegins
<1>2. ReportInv /\ [AnyNext]_<<part, macroVars, measureVars, reportVars>> => ReportInv'
  BY ReportsOnly, ReportStep
<1> QED  BY <1>1, <1>2, MeansAreAlike, PTL DEF AnySpec
============================================================================
