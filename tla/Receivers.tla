----------------------------- MODULE Receivers -----------------------------
(* The download programs of the six libraries, tcpclient and bench_tcp: how *)
(* each one turns what it sees of its connection into a verdict.  A program *)
(* reads until its connection ends; the ends it can see are "eof" (the      *)
(* server closed), "reset", "intr" (recv interrupted), "error", and for a   *)
(* tcpclient "disk" (its output file cannot be written).                    *)
EXTENDS Naturals, FiniteSets

CONSTANTS Procs,       \* the processes that download at the same time
          Programs,    \* the programs they may be running, all the same one
          Size,        \* chunks of the served file
          MaxFaults    \* bound on the failures of one behaviour

Benches == {"bsd_bench", "v_bench", "asio_bench", "corosio_bench",
            "berkeley_bench", "taps_bench"}
Clients == {"bsd_client", "v_client", "asio_client", "corosio_client",
            "berkeley_client", "taps_client"}

\* Programs that call recv themselves and so can see it interrupted.
CallRecv == {"bsd_bench", "v_bench", "bsd_client", "v_client"}

\* EXPECTED_FILE_SIZE_BYTES is the size of the file the campaigns serve.
EXPECTED_FILE_SIZE_BYTES == Size

ASSUME ReceiversAssumption == /\ IsFiniteSet(Procs) /\ Programs \subseteq Benches \cup Clients
                              /\ Size \in Nat /\ MaxFaults \in Nat

VARIABLES
  program,      \* what all processes run
  proc,         \* proc[p]: "off", "connecting", "reading", or how it ended:
                \*   "success", "failure", "killed"
  total_bytes,  \* total_bytes[p]: the chunks p has received
  server,       \* server[p]: the other side: "none", "sending", "closed", "reset"
  inFlight,     \* inFlight[p]: chunks sent to p that it has not received
  upset,        \* history: processes to which a failure happened
  faults        \* failures injected so far

receiverVars == <<program, proc, total_bytes, server, inFlight, upset, faults>>

ReceiverTypes == /\ program \in Programs
                 /\ proc \in [Procs -> {"off", "connecting", "reading",
                                        "success", "failure", "killed"}]
                 /\ total_bytes \in [Procs -> 0 .. Size]
                 /\ server \in [Procs -> {"none", "sending", "closed", "reset"}]
                 /\ inFlight \in [Procs -> 0 .. Size]
                 /\ upset \subseteq Procs /\ faults \in 0 .. MaxFaults

ReceiverInit == /\ program \in Programs
                /\ proc = [p \in Procs |-> "off"]
                /\ total_bytes = [p \in Procs |-> 0]
                /\ server = [p \in Procs |-> "none"]
                /\ inFlight = [p \in Procs |-> 0]
                /\ upset = {} /\ faults = 0

-----------------------------------------------------------------------------
(* The verdict of each program on the end it sees with total bytes in hand: *)
(* "again" where it goes on reading.                                        *)

Verdict(ok) == IF ok THEN "success" ELSE "failure"

bsd_client(end, total) == Verdict(end = "eof")

bsd_bench(end, total) ==
  IF end = "intr" THEN "again" ELSE Verdict(end = "eof" /\ total > 0)

v_client(end, total) == IF end = "intr" THEN "again" ELSE Verdict(end = "eof")

\* Seeded bug: an interrupted recv is an error.
v_bench_NoRetry(end, total) == Verdict(end = "eof" /\ total > 0)
v_bench(end, total) ==
  IF end = "intr" THEN "again" ELSE Verdict(end = "eof" /\ total > 0)

asio_client(end, total) == Verdict(end \in {"eof", "reset"} /\ total > 0)

asio_bench(end, total) == Verdict(end \in {"eof", "reset"} /\ total > 0)

corosio_client(end, total) == Verdict(end \in {"eof", "reset"} /\ total > 0)

\* The task's own result is thrown away; only the count is looked at.
corosio_bench(end, total) == Verdict(total > 0)

berkeley_client(end, total) == Verdict(end = "eof")

berkeley_bench(end, total) == Verdict(end = "eof" /\ total > 0)

taps_client(end, total) == Verdict(end # "disk" /\ total > 0)

taps_bench(end, total) == Verdict(total > 0 /\ total = EXPECTED_FILE_SIZE_BYTES)

Ends(end, total) ==
  CASE program = "bsd_client"      -> bsd_client(end, total)
    [] program = "bsd_bench"       -> bsd_bench(end, total)
    [] program = "v_client"        -> v_client(end, total)
    [] program = "v_bench"         -> v_bench(end, total)
    [] program = "asio_client"     -> asio_client(end, total)
    [] program = "asio_bench"      -> asio_bench(end, total)
    [] program = "corosio_client"  -> corosio_client(end, total)
    [] program = "corosio_bench"   -> corosio_bench(end, total)
    [] program = "berkeley_client" -> berkeley_client(end, total)
    [] program = "berkeley_bench"  -> berkeley_bench(end, total)
    [] program = "taps_client"     -> taps_client(end, total)
    [] program = "taps_bench"      -> taps_bench(end, total)

-----------------------------------------------------------------------------
(* The steps of one download.                                               *)

Fault(p) == faults < MaxFaults /\ faults' = faults + 1 /\ upset' = upset \cup {p}

NoFault == UNCHANGED <<faults, upset>>

\* connect_to_server: connected, or refused and the program has failed.
Connect(p) ==
  /\ proc[p] = "connecting"
  /\ \/ /\ proc' = [proc EXCEPT ![p] = "reading"]
        /\ server' = [server EXCEPT ![p] = "sending"] /\ NoFault
     \/ /\ proc' = [proc EXCEPT ![p] = "failure"]
        /\ UNCHANGED server /\ Fault(p)
  /\ UNCHANGED <<program, total_bytes, inFlight>>

\* The server sends the next chunk.
Send(p) ==
  /\ server[p] = "sending" /\ total_bytes[p] + inFlight[p] < Size
  /\ inFlight' = [inFlight EXCEPT ![p] = @ + 1]
  /\ UNCHANGED <<program, proc, total_bytes, server, upset, faults>>

\* It closes after the last chunk, or fails earlier, or resets the connection
\* (a queued one when it exits).
Close(p) ==
  /\ server[p] = "sending"
  /\ \/ /\ total_bytes[p] + inFlight[p] = Size /\ NoFault
        /\ server' = [server EXCEPT ![p] = "closed"]
     \/ /\ total_bytes[p] + inFlight[p] < Size /\ Fault(p)
        /\ \E s \in {"closed", "reset"} : server' = [server EXCEPT ![p] = s]
  /\ UNCHANGED <<program, proc, total_bytes, inFlight>>

\* A read returns some of what has arrived.
Receive(p) ==
  /\ proc[p] = "reading"
  /\ \E n \in 1 .. inFlight[p] :
       /\ total_bytes' = [total_bytes EXCEPT ![p] = @ + n]
       /\ inFlight' = [inFlight EXCEPT ![p] = @ - n]
  /\ UNCHANGED <<program, proc, server, upset, faults>>

\* A read returns without data: the program decides what that means.
ReceiveEnds(p) ==
  /\ proc[p] = "reading"
  /\ \E end \in {"eof", "reset", "intr", "error", "disk"} :
       /\ end = "eof" => server[p] = "closed" /\ inFlight[p] = 0 /\ NoFault
       /\ end = "reset" => server[p] = "reset" /\ inFlight[p] = 0 /\ NoFault
       /\ end = "intr" => program \in CallRecv /\ NoFault
       /\ end = "error" => Fault(p)
       /\ end = "disk" => program \in Clients /\ Fault(p)
       /\ proc' = IF Ends(end, total_bytes[p]) = "again" THEN proc
                  ELSE [proc EXCEPT ![p] = Ends(end, total_bytes[p])]
  /\ UNCHANGED <<program, total_bytes, server, inFlight>>

Download(p) == Connect(p) \/ Send(p) \/ Close(p) \/ Receive(p) \/ ReceiveEnds(p)

-----------------------------------------------------------------------------
\* A program fails only when something did: a connection that was served to
\* its end is a success for every program (all served files have content).
\* tcpclient of bsd-sockets alone does not retry an interrupted recv.
NoFalseFailure ==
  \A p \in Procs :
    proc[p] = "failure" => p \in upset \/ Size = 0 \/ program = "bsd_client"

\* "downloads the served file completely": what the README of asio says of the
\* benchmark, asked of every program.
SuccessIsComplete ==
  \A p \in Procs : proc[p] = "success" => total_bytes[p] = Size
=============================================================================
