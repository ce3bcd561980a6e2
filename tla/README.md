# A verification model of transport-performance-lab

The repository compares five ways to write a TCP file server (and the same for
its client): BSD sockets with epoll, Boost.Asio coroutines, capy/corosio
coroutines, a TAPS interface on Asio, and async-berkeley senders. Scripts build
the programs, start the servers, run benchmarks against them, measure time and
energy and write tables and reports.

This directory holds TLA+ models of the servers, the download programs and the
scripts, TLC configurations that check them on small instances, and proofs that hold for
every instance: of every safety property the runs check, but not of liveness. Every definition
is a reading of the source; `PROJECT.json` lists for each one the file and the lines.

    tlc -workers 2 -config MCEpollSafety.cfg MCEpoll     # one run
    tlapm EpollServer_proofs.tla                         # one module's proofs

Contents: [inventory](#inventory) - [modules](#modules) - [runs](#runs) -
[bounds](#bounds) - [fairness](#fairness) - [proofs](#proofs) -
[disagreements](#disagreements) - [limits](#limits) - [plan](#plan)

## Inventory

| component | state it keeps | operations | what is hard |
|---|---|---|---|
| BSD server (`bsd-sockets/tcpserver/server.cpp`; `bsd-sockets-v` has the same file) | the mapping and the listening socket; per worker an epoll instance, three parallel arrays of clients and a count, the events of the last `epoll_wait` | map, listen, spawn; accept until the queue is empty or the table full; a send step per event; `remove_client` by moving the last slot; close everything when `epoll_wait` fails; join, close, unmap | workers that share one listener and one descriptor space; events of a batch that outlive the descriptors they name; slots that move; teardown order |
| Asio, corosio, TAPS servers | one accept in flight; per connection a coroutine frame with its socket and offset | accept, spawn, write the rest, resume | everything else runs between a write's start and its resumption; accept errors; a listener that fails while the process stays |
| async-berkeley server | one sender chain for accept; per connection a `shared_ptr<WriteState>` that only the armed operation holds | accept and its continuation, `sendmsg` and its continuation, `upon_error` | every branch must start the next operation or let the state go |
| six `tcpclient`, six `bench_tcp` | bytes received | connect, read until the connection ends, verdict | which ends count as success |
| `run_bench.py`: macro case | the list of bench processes, their JSON files | launch, wait, interrupt, parse, account | stale files of earlier campaigns; Ctrl-C at any instruction |
| `run_bench.py`: campaign | `PORTS`, the current server process | clear the port, start, wait, run cases, stop | "ready" is decided by whether anyone answers on the port; servers that fail to bind or die |
| `run_bench.py`: stopping what was started | the processes of the case, signals sent, what `lsof` has printed | stop the benches one by one with TERM and KILL, stop the server, clear its port | Ctrl-C while a Ctrl-C is being handled; processes that ignore TERM or cannot be killed; missing tools |
| `run_bench.py`: results to reports | results, summary, CSV, plots, four PDF reports | group, summarise, draw, cut tables into pages, write file after file | the same number under several names; last pages; files of other campaigns and half written ones under the same names |
| `build.sh`, `build_release.sh` | build trees and installed libraries on disk | check libraries, wipe the tree, configure, build | a failure between any two commands (`set -e`) |
| `measure_idle_energy.py`, `energy_delta_j`, `compute_stats` | a counter that turns over, the baseline file | read, subtract, summarise | the turn; a baseline that is absent or unreadable |
| settling and cache trashing between cases | none | sleep, trash | that it falls into no measured window |
| `build_master_summary.py` | rows of all libraries, the best of each case, an overview, plots, pages | collect, flatten, choose, divide, average, draw | missing values; summaries of older scripts |
| `run.sh`, `no_taps.sh` | `global_results`, which outlives the runs | measure the baseline, warm up, run, copy, tables, merge | projects skipped, runs that break off, old and new files side by side |
| `merge.py` | `reports` and `reports/merged` | walk, merge each directory, merge all | unreadable files; its own output among its input |

How they interact: clients and servers share TCP connections; the workers of the
BSD server share the listening socket and descriptor numbers; `run_bench.py` and
the servers share ports and signals, `run_bench.py` and the benches JSON files,
`build_release.sh` and `run_bench.py` the executables; `run.sh`, `merge.py` and
`no_taps.sh` share the results directories, and nothing but these.

What makes each part correct: a client is sent the file in order and learns from
end-of-file that it has all of it (servers); a success is a complete download
and a complete download a success (clients); a case counts its own processes, a
campaign measures its own server and of one build, Ctrl-C leaves nothing running
that can be ended (scripts); energy is what the load used, a mean is the same
wherever it is shown, the best of a table is the best, nothing measured is lost
between results and pages, a report shows no other campaign's plots, and a row is
from the run that shows it (evaluation). `PROJECT.json` lists the hazards behind these at their lines,
with the properties that would catch each.

## Modules

```
Transfer                          what a server promises (abstract)
   ^  implemented by (T, in Sockets)
Sockets                           connections, send buffers, clients, failures
   |-- EpollServer -- EpollServerProps -- MCEpoll
   |        `-- EpollServer_proofs
   `-- AsyncIO                    one accept, one task per connection
          |-- AsioServer, CorosioServer, TapsServer, BerkeleyServer
          `-- AsyncServers        any of the four
                 |-- MCAsync
                 `-- AsyncServers_proofs
Sockets_proofs                    lemmas that both servers' proofs EXTEND
Receivers                         the twelve download programs
   `-- MacroCase                  one macro case of run_bench.py
Campaign                          runs, ports, server processes
   `-- Project (with B == INSTANCE Build)
          |-- MCCampaign
          `-- Project_proofs

Shutdown                          stopping what was started
   `-- RunBench (with Files == INSTANCE Outputs)
          |-- MCRunBench
          `-- RunBench_proofs
MacroCase, Measurements, Reports
   `-- Evaluation                 any of the three
          |     Energy, Statistics -- Measurements
          |     Statistics, Lists -- Paging -- Tables -- Reporting -- Reports
          |-- MCEvaluation
          `-- Evaluation_proofs
Suite                             run.sh and no_taps.sh
   `-- GlobalResults (with Tables == INSTANCE MasterSummary,
          |                Merging == INSTANCE Merge)
          |     Lists -- Paging -- Tables -- MasterSummary
          |     Lists -- Merge
          |-- MCSuite
          `-- Suite_proofs
Lists_proofs                      lemmas on lists and pages that Evaluation_proofs
                                  and Suite_proofs EXTEND
```

**Transfer** is the promise: a connection's stream grows by the next chunk only;
"complete" needs all chunks; "cut" needs a connection that the server side gave
up (`broken`). Everything a server does inside is invisible here.

**Sockets** is the kernel and the clients as all servers see them. A file is
`Chunks` numbered pieces; `stream[c]` is what the kernel accepted for a
connection (its elements are the *positions* sent, so sending from a wrong offset
shows), `got[c]` what the client has read, and at most `SndBuf` chunks are in
between. Clients connect, read, see the end, or leave; data for one that left
brings a `reset`, at any later moment. `dropped` records connections that the
server side gave up through a failure. The refinement mapping to `Transfer` is at
the end: `received` is the part of `stream` that was read.

**EpollServer** has one action for each piece of `accept_loop` between two points
where another thread can be noticed: `EpollWait` takes a batch, `HandleListen`
and `HandleClient` take an event each, `Accept` is one turn of the inner loop and
`AcceptEnds` its end. The tables are `client_fds`, `client_sent`,
`client_count`; `interest` is what is registered with the worker's epoll
instance, and `fdTable` maps the *process's* descriptor numbers to connections,
so that a closed number can come back for another client. An event carries the
number, as in C, and as history the connection the kernel meant. The listener's
event and the clients' events of a batch are handled in any order. `HandleClient` makes a
whole step of `serve_client_step` with what the loop does on its status,
`remove_client` included.

**AsyncIO** is what the four asynchronous servers share: an accept operation, a
task per connection, and a runtime that completes operations while tasks are
suspended. Completion (`AcceptCompletes`, `WriteProgress`, `WriteErrors`) and
resumption are separate steps. `AsioServer`, `CorosioServer`, `TapsServer` and
`BerkeleyServer` add the program text: how `accept_loop` goes on after an error,
what a write asks for, by how much the offset moves, what ends a task. A TAPS
message goes on until it is sent whole, the writes of the others end with the
first part. `AsyncServers` is any one of the four, so that all are asked the same
questions.

**Receivers** has a `Verdict` for each of the twelve programs on each end that a
read can see; **MacroCase** puts the benches under `run_macro_bench_case`: the
processes are started one by one, an `Interrupt` may fall between any two steps
(also between `Popen` and `append`: `spawned`), output files may be left from
before, and benches may die before they have written. In its case `"none"` there
is no `run_bench.py`: any of the twelve programs is started by hand.

**Campaign** is the loop of `main`: the script's steps, `stop_server` and
`kill_processes_on_port` wait by wait among them, the servers' own (binding, dying, staying
without a listener), and foreign processes that take ports. A server that was sent a signal ends
at some later step or never, with its listener or without; a bench may keep the script
waiting (`"hung"`); and Ctrl-C may come at every step, in the clean-up too, after which
only the `finally` clauses still run (`raising = "broken"`). `served` records who really served a run. **Build** is one project's build
script, and **Project** a number of builds, broken off anywhere, followed by a
campaign that finds whatever executables are there.

**Shutdown** is the same script as a parent of processes: `stop_bench_process`,
`stop_server` and `kill_processes_on_port` command by command, with the handlers
they are called from, and Ctrl-C at every point where one of them waits. A
process obeys, ignores TERM (`"hung"`) or cannot even be killed (`"stuck"`), and
`fuser` or `lsof` may not be installed. An interrupt is raised *within* the
clean-up of another one; `Handler` says which clean-up still runs then (the
`finally`), and which does not (the rest of the loop over the benches).

**Measurements** puts **Energy** (`energy_delta_j`, the counter that turns over) and
**Statistics** (`percentile`, `compute_stats`, over integers: power in microjoules
per `Scale` seconds, percentiles in hundredths) in the order of the scripts: idle
samples, the baseline, cases with settling between them, the summary. `median` is
the reference for the 50th percentile, which the code computes separately.

**Lists** is what the Python scripts do with lists: choose elements (`Select`), sort by an
order that may leave some elements alike (`SortedBy`, stable as `sorted` is), and collect the
keys of groups (`Keys`). **Paging** cuts tables into pages and puts images on them; **Tables** adds
the order of cases. **Reporting** is `run_bench.py` from results to pages as
functions: `summarize_results`, the curves of each kind of plot, the rows of each
table and each text page, the images each report has. A mean is kept as sum and
count, so that a number can be followed through all of them. **Reports** is `main`
collecting the results of all campaigns and computing everything in its order.
**Outputs** is the same `main` as a writer of files: which file is written after
which, what each break-off leaves (`"torn"`, or `"cut"` for a PDF that was closed
early), over several campaigns with other configurations and the same file names.

**MasterSummary** is `build_master_summary.py`: rows with missing values (`None`),
the best library of each case (`infinity` of the right sign for a value that is
missing), averages and quotients, JSON, CSV, plots and pages. It breaks off where there is no
summary and where `json.load` fails on one, the table of an earlier run included. **Merge** is
`merge.py`, run again and again, with the output directory among its input; of a file that
can be read in part it takes the pages before the failure.
**Suite** is `run.sh` phase by phase over several starts, with `build_master_tables`
as one step, and what `no_taps.sh` reads; a project's artifacts are copied one after
the other and each copy may break off.

**Evaluation**, **RunBench** and **GlobalResults** put parts together that work on
the same directories but whose steps do not depend on each other's data: a
behaviour of theirs is a behaviour of one of the parts (`part`, `script`), while the
others stay at the beginning. So one run asks the questions of all of them, and the
number of states is the sum of the parts', not the product.

Operators named `X_Y` with the comment "Seeded bug" (`Rest_Whole`, `Joined_One`)
are not used by any behaviour. Each is a plausible mistake in the definition
after it; `PROJECT.json` pairs it with the property that notices it.

## Runs

| run | question | distinct states |
|---|---|---|
| `epoll_safety` (MCEpoll, MCEpollSafety.cfg) | Two workers, three clients and two descriptor numbers that are handed out again: no client is ever served at another's offset, on a stale event or from a leaked slot, end-of-file means the whole payload, and every step is one of the abstract transfer. Checks `TypeOK`, `InOrder`, `OffsetsMatch`, `OneSlotPerFd`, `EventsFresh`, `EofMeansComplete`, `ReleasedInOrder`, `ImplementsTransfer`. | 155609 |
| `epoll_live` (MCEpoll, MCEpollLive.cfg) | Two workers with one slot each, under fairness: nobody waits for ever on a full worker, a full listening queue or a client that has gone. Checks `EveryDownloadEnds`, `EveryDownloadCompletes`, `SlotsComeBack`. | 24947 |
| `async_safety` (MCAsync, AsyncSafety.cfg) | Each of the four asynchronous servers with three clients on two descriptors, writes that are taken in parts and failures of every operation: a task's offset survives every suspension, no socket is left without its task, and every step is one of the abstract transfer. Checks `OffsetsMatch`, `OneTaskPerSocket`, `ImplementsTransfer`. | 1161745 |
| `async_live` (MCAsync, AsyncLive.cfg) | The same servers with one descriptor for two clients, under fairness: accepts that fail at the limit are retried until a descriptor is free (except at async-berkeley), accepted clients are served to the end, and gone clients give their descriptor back. Checks `DownloadsEnd`, `SocketsComeBack`. | 128280 |
| `berkeley_stops_accepting` (BerkeleyServer, BerkeleyStops.cfg) | One accept that finds no descriptor left ends the accept chain, and a client that is already in the queue is never served although descriptors become free again. Checks `EveryDownloadCompletes`. | violated |
| `downloads_truncated` (MacroCase, DownloadsTruncated.cfg) | A server that resets the connection half way is a success for the benchmark of asio, which looks only at whether anything was received. Checks `SuccessIsComplete`. | violated |
| `campaign` (MCCampaign, Campaign.cfg) | Builds that break off anywhere, then three runs of two compilers on neighbouring ports, foreign processes that take ports, servers that cannot bind, die, or outlive SIGKILL, benches that hang, and Ctrl-C at any step, those of the clean-up included: no run is served by the server of another one, a server that stop_server leaves behind has been sent SIGKILL, server and benches are of one build, and the campaign ends unless a bench hangs for ever. Checks `NeverMeasuresAnotherRun`, `ServersAreStopped`, `MeasuredTogether`, `CampaignEnds`. | 2226572 |
| `suite` (MCSuite, Suite.cfg) | run.sh started again and again over two projects that come, go and fail, with break-offs at every point and in every file: the rows of the master table are measured by the run that writes it, over one baseline, and the merged reports are of the same campaigns. build_master_summary.py on the summaries of up to three libraries, complete, lacking statistics or torn: it breaks off before it writes anything or has all tables, the best is the best and tables and plots agree. merge.py run twice over reports that come, change and are torn: what cannot be read of one costs only itself. Checks `OneBaseline`, `ArtifactsAgree`, `MasterIsMeasured`, `TablesAreWritten`, `BestIsBest`, `GlobalReportAgrees`, `ReportsAreMerged`. | 718904 |
| `suite_no_taps` (MCSuite, SuiteNoTaps.cfg) | After one complete run of run.sh, no_taps.sh merges the global report, which shows taps-asio's rows. Checks `NoTapsWithoutTaps`. | violated |
| `evaluation` (MCEvaluation, Evaluation.cfg) | What run_bench.py makes of its downloads. Two benchmark processes of one macro case with stale output files, failing downloads, processes that die, exceptions and an interrupt at every point, and each of the twelve download programs by itself: the case counts its own downloads, an interrupt stops what was started, and nobody reports a failure for a connection that was served to its end. An idle measurement, if any, and six repetitions of up to two seconds on a counter that turns over at every possible point: energy_j is what the load used, up to one unit per turn, and the statistics are in order. And results that differ, of one and two compilers with several threads, cases and repetitions, through summary, plots, tables and pages: the same mean is shown everywhere, and nothing measured is missing or shown twice. Checks `CountsOwnRuns`, `InterruptStopsBenches`, `NoFalseFailure`, `EnergyIsTheLoads`, `StatsInOrder`, `ReportsShowAll`, `MeansAgree`. | 2321956 |
| `run_bench` (MCRunBench, RunBench.cfg) | What run_bench.py leaves when it is broken off. A server and two benches that obey, ignore SIGTERM or are stuck, and up to three Ctrl-C at any point of the case and of the clean-up: one Ctrl-C leaves only what has been sent SIGKILL, so does the clearing of the port however many there are, and the script leaves. And three campaigns with other configurations, broken off in or between any two files: no report shows another campaign's image while plots are made, and no damage outlives the next undisturbed campaign with plots. Checks `OneInterruptStopsAll`, `NoListenerIsLeft`, `NobodyStays`, `NothingMixed`, `FinishedIsComplete`, `NoLastingDamage`. | 626612 |

Every property names in its comment what it is about. The ones that carry most:
`OffsetsMatch` (a slot's or task's offset is what its own connection was sent),
`OneSlotPerFd` / `OneTaskPerSocket` (nothing leaked, nobody forgotten),
`EventsFresh` (no event is handled for a successor of its descriptor),
`EofMeansComplete`, `ImplementsTransfer`, `NeverMeasuresAnotherRun`,
`CountsOwnRuns`, `MeasuredTogether`, `OneInterruptStopsAll`, `NothingMixed`,
`EnergyIsTheLoads`, `ReportsShowAll`, `MasterIsMeasured`, `ArtifactsAgree`.

`NoFalseFailure` leaves out `tcpclient` of `bsd-sockets`, which alone among the
programs that call `recv` themselves does not retry after `EINTR`.
`DownloadsEnd` leaves out async-berkeley's queued clients, for the reason in
[disagreements](#disagreements). `ServersAreStopped` says how far the promise
goes. `wait_for_server` raises outside the `try`, so the server that it gives up
on is left behind unsignalled; the wait after SIGKILL is limited and its exception swallowed, so
a server may outlive that too; and a Ctrl-C within the clean-up may leave one with SIGTERM only.
Whatever is there beside a later run's server has been sent SIGKILL, and `NeverMeasuresAnotherRun` holds
although such a server may still listen: its port is then not free, and the run takes
another. `CampaignEnds` excepts the one wait that has no limit, `proc.wait()` for a bench
(`run_bench.py:608`): a bench that is never served nor closed hangs the campaign until Ctrl-C. `OneInterruptStopsAll` is about one Ctrl-C; a
second one, while the first is being handled, does leave benches behind, and
`NoListenerIsLeft` says what holds even then, where `fuser` or `lsof` is installed: a server
that was ready and still listens has at least been sent SIGKILL. That the port is free
does not follow, since a stuck server may go on listening; the next campaign looks for itself
(`prepare_server_port`). `TablesAreWritten` is about a build that breaks off: it has written nothing then, and the
tables of the last good one stay. `NothingMixed` and `NoLastingDamage` are about campaigns with
`GENERATE_PLOTS`: without it the reports take whatever images are there, old ones
too, and a torn one stops them until it is deleted or drawn again.

The states of the composed runs: `suite` is 73845 of `Suite`, 26361 of `MasterSummary`
and 618698 of `Merge`; `run_bench` is 475164 of `Shutdown` and 151448 of `Outputs`;
`evaluation` is 557056 of `MacroCase` and 1764900 of `Measurements` and `Reports`.

## Bounds

All are constants of the configurations.

- Two workers are enough to race for one connection and one descriptor, and to
  have one fail while the other serves. Three clients on two descriptors and two
  or three slots make numbers and slots come back while older events are in a
  batch. The proofs below remove these bounds for all servers.
- `Chunks` 2 or 3 with `SndBuf` 1 or 2: a partial send, an exhausted buffer, a
  last piece, and (TAPS) a last message that is shorter.
- `MaxFaults` bounds the failures of one behaviour: one at each place in turn, or
  two in combination. A bounded number is also what "in the end" needs: without
  it the environment could fail for ever.
- `Backlog` 2 in `epoll_safety`, where all three clients can queue at once, and 0 or
  1 in the others, where queues fill: the kernel queues `Backlog + 1`.
- `Size` 2 or 3 for the clients: an empty, a partial and a complete download.
- Three runs of two compilers on three ports, the preferred ones adjacent as 8120
  and 8121 are: the same compiler again (another number of threads), the other
  compiler, and a port to switch to that is the other's. Two versions of the
  sources. Two failures of any kind (a foreign process, a crash, a bench that hangs, Ctrl-C);
  that a server outlives its signals, or that a command to kill it does nothing, is no failure
  and may happen any number of times.
- Three Ctrl-C: one that is handled, one that breaks the handling off, one in the
  `finally` of that. Every combination of obedient, hung and stuck for a server and two
  benches, and of `fuser` and `lsof`.
- Three campaigns on one results directory, with both compilers and one, with plots
  and without, with and without the comparison reports: one that breaks off, one
  that meets what it left, and one after it.
- Tables of 3, 4 and 5 rows on a page (14 to 18 in the code) with 2 to 8 rows: less than a
  page, exactly full, more; text pages of two lines after a heading.
- `MasterSummary`: two known libraries and one it does not know, with all cases, some or
  none, five sorts of statistics with different fields missing, a torn summary, and an earlier
  `master_summary.json`, whole or torn.
- `Merge`: two runs, reports in two directories that come, change and are torn between them.
- The counter turns over at 9, a case lasts one or two seconds, and every start
  value is tried, so the turn falls at each point; no window is longer than one
  turn (`MeasurementsAssumption`; it takes minutes in reality).
- Two starts of `run.sh`: what a first one leaves behind is there for the second.

Symmetry (workers, clients, descriptors) is used only in the runs without
liveness. `CHECK_DEADLOCK FALSE` is in every configuration because each system
comes to an end: clients end or leave, `main` returns, the case or the campaign
is over, the numbers of runs and failures are used up.

## Fairness

- Servers: the operating system runs every thread and every handler that is ready
  (`WF` of the workers' and tasks' steps), the kernel delivers what it holds and
  clients that stay keep reading (`WF` of `Delivery`). No fairness on connecting,
  leaving or failing: fair actions are conjoined with `NoFault`.
- epoll: `SF` of `Reports(w, c)`. When more descriptors are ready than the array
  of `epoll_wait` holds, the kernel moves the reported ones to the end of its
  ready list, so a descriptor that is ready again and again is reported.
- async-berkeley: nothing is assumed of `PoolEnds`, whether `wait` returns when
  nothing is armed.
- Campaign: the script's steps are `WF`, also those that end its limited waits (`WaitEnds`,
  `ReapEnds`), whether or not the server has ended. `WF` of `CasesEnd`: the lists of cases and
  repetitions are finite, so a script that does not hang gets to their end. Nothing is assumed of
  `HangEnds` or `ServerEnds`: a bench that hangs and a server that was signalled may stay for
  ever, and `CampaignEnds` names the first as its exception. `SF`
  of `WaitTimesOut` is the deadline of `wait_for_server`: the script polls again
  and again, the clock does not go back.
- Stopping (`AnyFairness` of RunBench): `WF` of the script, whose waits are limited but
  for `proc.wait()`; of `Dies`, the delivery of a signal that a process does not ignore; and of
  `BenchEnds`, a bench that is served, or whose server is gone, ends. None on Ctrl-C.
  `WF` of `Files!Script`: `main` goes on writing; that something breaks it off is never fair.

## Proofs

`Sockets_proofs` has what all servers need: that a piece taken from where a stream ends
keeps it in order (`TakenInOrder`); `Honest(O)`, which relates the clients to a server
that holds the connections `O`; `Fate(O, P)`, what a step of a server may do to
connections (they leave it complete, given up, or because their client left), and that
such a step keeps `Honest` (`FateIsHonest`), as the clients' own steps do
(`ClientIsHonest`). From `Honest` follow `EofMeansComplete` and the steps of `Transfer`: a
server's are `Break` or change nothing there (`ServerStepMaps`), the clients' have the
same names, and `ReadEnd` is `Complete` or `Cut` (`ClientStepMaps`). What is left to prove of each
server is its own invariant, and that its steps are such fates.

### The epoll server

For every value of the constants that satisfies `EpollAssumption` (at least one
slot per worker; `NoFd`, `ListenFd` and `NoConn` are no descriptors or
connections) and `SocketsAssumption` (sizes are natural numbers), in particular
for any number of workers, clients, descriptors, slots, chunks and failures:

| theorem | says |
|---|---|
| `TypeCorrect` | the counts stay within the arrays, offsets within the file |
| `SlotsAndDescriptors` | `OneSlotPerFd` |
| `OwnOffset` | `OffsetsMatch` |
| `SentInOrder` | `InOrder` |
| `NoStaleEvent` | `EventsFresh` |
| `OrderlyRelease` | `ReleasedInOrder` |
| `EofIsHonest` | `EofMeansComplete` |
| `EpollImplementsTransfer` | `Spec => T!Spec`, the refinement |

The argument for the server, in the three parts of `EpollServer_proofs`:

1. Types. Inductive as it stands; `RemoveTyped`,
   `SendTyped` and `HandleClientTyped` take the arrays apart.
2. The tables: the invariant `IInv`. `OffsetsMatch` alone is not
   inductive. A send in one slot leaves the other slots' offsets right only if no
   other slot, of any worker, holds the same descriptor (`SlotsDistinct`) and no
   other descriptor the same connection (`ConnsDistinct`); accepting keeps these
   because a number without a connection is in no table (`SlotsOpen`) and a
   queued connection is not open and has been sent nothing (`NotAccepted`,
   `NotQueued`). `EventsFresh` needs that a batch has one event per client
   (`EventsDistinct`), since the handled one may close the descriptor, and that a
   worker watches its own table only (`Watched`). `Phases` and `Quiet` say which
   states of `main` and of the workers occur together; with `NoneLeaked` they give
   `ReleasedInOrder`.
   `remove_client` is the heart: `RemoveMoves` says where each slot's content comes
   from (`From`), `RemoveKeeps` that nothing else is lost, and `RemoveTables` that
   the tables agree again. Then one lemma per kind of step, joined in `StepAgrees`.
3. The refinement: with `IInv`, every step of the server is a `Fate` of the
   connections it has descriptors for (`ServerFate`); a hang-up is of a client that
   left (`HupHasLeft`), though the event may be handled much later.

### The asynchronous servers

For every value of the constants that satisfies `AsyncAssumption` (`NoConn` is no
connection, there is a descriptor), `SocketsAssumption` and `MessagesAssumption` (a
message is not empty), and for each of the four programs, `AsyncServers_proofs` has:

| theorem | says |
|---|---|
| `AsyncTypes` | `TypeOK` |
| `AsyncOffsets` | `OffsetsMatch` |
| `TaskForEachSocket` | `OneTaskPerSocket` |
| `AsyncImplementsTransfer` | `Spec => T!Spec`, the refinement |

First each program is shown to take only steps of a few kinds (`AsioSteps`,
`CorosioSteps`, `TapsSteps`, `BerkeleySteps`): a task that runs goes on from
what was taken (`SendFrom`) or ends, whether it is a coroutine or a chain, spawned by
the accept loop or run at once. The rest is about these kinds. The invariant adds to the
two properties that a connection nobody serves yet has been sent nothing (`Unsent`), so
that a new task may begin at 0; that it is in one place (`Places`), so that
two accepts never give two tasks to one connection; that writes ask for no more than is
left and the kernel takes no more than was asked (`Writes`); and, for taps-asio, which moves its
offset by what it *asked*, that a message that was sent was taken whole (`WholeMessages`):
this is where its correctness hangs on the library's sending all. For the refinement, `Gone` says that a task
fails only if its client has left or its connection was given up.

### run.sh

For every value of the constants that satisfies `SuiteAssumption` (`PROJECT_DIRS` is a
sequence, `None` is no file, `WARMUP_PROJECTS` and `MaxRuns` are natural numbers), so for
any projects, warmups and number of starts of `run.sh`, `Suite_proofs` has, about `AnySpec` of
`GlobalResults`:

| theorem | says |
|---|---|
| `RowsAreMeasured` | `MasterIsMeasured` |
| `RowsAgreeWithReports` | `ArtifactsAgree` |
| `RowsShareBaseline` | `OneBaseline` |

The three speak of the moment after the tables are written, and of files only; that
they hold follows from how the script got there. `IInv` of `Suite_proofs` says it of
every moment: in the phases in which projects are run the queue has what is still to
come, and every project that is there is in the queue or has been measured and copied
(`Progress`); the one that is being copied has been measured, and half of it copied
(`Halfway`); nothing that was collected came from a warmup (`NeverWarm`), because a
warmup's artifacts are overwritten before they are copied; and the baseline is this run's as soon as
the phase that measures it is over (`Measured`). `OrdersComplete` is the lemma that
a shuffled list has all projects: an injection of a finite set into one of the same
size is a surjection. Each action that leaves the phases of the projects keeps `IInv`
by `QuietInv`, which is how break-offs at any point are dealt with.

### merge.py

The theorem `ReportsMerged` of `Suite_proofs` states `ReportsAreMerged` under
`GlobalResultsAssumption` (no directory, file name or preferred directory is listed twice;
the output directory is one of those walked; no directory is called as the combined file
is; the reports lie in the others), so for any reports in any directories and any number of runs.

`Lists_proofs` is about lists and pages, for this section, the next and the reports of
`run_bench.py`. `FlattenSeq` is defined by recursion, and what it returns is shown by taking the smallest
number of lists for which it would be wrong (`AllNaturals`, from the well-foundedness of `<`
on the natural numbers). `Chain` says that every element of a list is related to all that come
after it, for any relation: with "different" it is "each once", with an order it is "sorted".
`ChainOfConcat` joins chains whose elements are related across, and so gives both for
the lists that `merge.py` makes (`Selected`, `PathsInOrder`).

The invariant `MInv`: what lies outside of `reports/merged` is a report with its own pages, as
many as can be read (`ReportsOwn`); the groups are what the walk found (`GroupsFound`);
of each directory either the turn is still to come, or there was nothing to read, or its merged
file is complete (`GroupsMerged`), which a later write to another name keeps; and a first
run has no combined file before its end (`NoneYet`), so that the one there is
then is its own.

### build_master_summary.py

`Suite_proofs` also has, about the same `AnySpec`:

| theorem | says |
|---|---|
| `TablesWritten` | `TablesAreWritten` |
| `BestOfCases` | `BestIsBest` |
| `ReportsAgree` | `GlobalReportAgrees` |

They rest on `TablesAssumption`, which says of the summaries what the scripts before make sure of:
`run.sh:246` copies one file for each library (`Collected`); `summarize_results` of
`run_bench.py` makes one item for each case of its list of compilers; and the numbers in it are
natural numbers, with any of the statistics left out (`Known`; `energy_j` is clamped at 0). Libraries,
cases, values and page size are arbitrary, and so is what the order of libraries leaves alike.

The invariant `TInv` says that the tables are those of the summaries as soon as they are built, that the
plots and pages are those of the tables in the end, and that the script breaks off only before that,
for want of a summary or over one that cannot be read, with nothing written. What is left is
about functions:

1. *Rows* (`RowsBuilt`, `RowsAreTyped`): sorting and grouping lose and repeat nothing
   (`Sorting`, `KeysOnce`), so there is a row for each item of each file and no other, one for a library and a
   case, and all have the same fields (`FieldsTyped`). This is why `write_csv` cannot fail.
2. *Best of a case* (`BestOfAll`): `min` and `max` with a key go through the rows and keep the best so far.
   That none is better in the end needs that "not better" is transitive with `infinity` in the place
   of what is missing (`BetterOrders`).
3. *Overview* (`OverviewAgrees`): one table takes the best of each case, with the infinities, the other
   the best of each library, without them. `BestOfGroups` says that the best of the best of groups
   is the best of all rows, wherever these are divided; both tables are such groups.
4. *Plots* (`PlotsRight`): a plot takes the first row of a library at a label, and one by
   compiler labels a case without its compiler. Among the rows it selects the label is still the
   case's own (`OwnLabel`), so the first row is the right one; keys are there once, so it is at one tick
   only (`PlotShows`).
5. *Pages* (`ReportRight`): `range(0, n, size)` begins the pages at the first row and `size` apart, and
   leaves none for a further page (`Begins`, from `MultiplesApart`), so that the pages joined are the
   list (`OnPages`).

### Builds and campaigns

For every value of the constants that satisfies `CampaignAssumption` (there is a run, every run
is of one of the compilers, ports are natural numbers, the preferred ones among them) and
`ProjectAssumption` (what is built is what is measured), `Project_proofs` has:

| theorem | says |
|---|---|
| `RunsAreTheirOwn` | `NeverMeasuresAnotherRun` |
| `NoServerStays` | `ServersAreStopped` |
| `OneVersion` | `MeasuredTogether` |

for any number of runs, ports, foreign processes, failures and Ctrl-C, and whatever servers
outlive their signals. That a run is not served by another one's server cannot be seen from the run
itself, since the script takes whoever answers. A server of an earlier run may still be there, but it has been
sent SIGKILL (`OthersAreKilled`), so it binds nothing any more; and if it listens already,
then not on this run's port, which was free when it was chosen and which no other server of
the campaign has taken since (`PortIsOwn`). `KilledAfterStop` says of the current run's server what
`stop_server` has done once its first wait is over, unless Ctrl-C has broken it off, after which there is no
later run. `ReadyRuns` says that the failures that leave a server without a signal come
before anything has answered. For the executables, `BuildInv` says that those of a
tree that is not being built are of one version or not both there, and those of the
tree that is being built are of this version or not there yet; since the campaign
leaves them alone, `HadServer` (a run that got ready had a server to start) carries this
to what is measured.

### Stopping

For every value of the constants that satisfies `ShutdownAssumption` (a case has at least one
bench, none is listed twice, none is the server), so for any number of benches and of Ctrl-C and whatever
processes ignore signals, `RunBench_proofs` has, about `AnySpec` of `RunBench`:

| theorem | says |
|---|---|
| `OneIsEnough` | `OneInterruptStopsAll` |
| `PortIsCleared` | `NoListenerIsLeft` |
| `FilesAreOfOne` | `NothingMixed` |
| `FinishedHasAll` | `FinishedIsComplete` |

The first two speak of the moment when the script has left, when all it knew is gone; so `IInv`
says of each phase what it hands on to the next. `Stopping`: of the benches, those up to
`index` are `Finished` (gone, or sent SIGKILL), then all of them, then the server too; and
who is waited for without a further signal to come has been sent SIGKILL. `Clearing`
goes through the commands of `kill_processes_on_port`: after `fuser -KILL` a server that listens
has been sent SIGKILL, without `fuser` it is among the `pids` of `lsof`. That a server found not
to listen does not begin to do so between two commands needs `ReadyListens`: it
was ready, so it has been told to end. No step of the clean-up undoes this, since
nobody is started and a signal is never replaced by a weaker one (`Onward`, `OnwardKeeps`).

The other two are about the files of any number of campaigns, of any configurations
(`RunBenchAssumption`: what a configuration and the names of plots list are sequences). A later campaign
finds an earlier one's files under the names of its own. `FilesInv` says that what is still to
be written is the rest of the order from some place on (`InTheOrder`), and everything before that
place is of this campaign and whole (`WrittenTo`). `OrderFacts` says that in this
order the results come first and the images before the reports; so the images a report finds while
plots are made, all of them candidates (`WantedFacts`), are of this campaign (`ShownFacts`).

### A macro case

For every value of the constants that satisfies `ReceiversAssumption` (finitely many processes, sizes
that are natural numbers), so any number of benches, `Evaluation_proofs` has, about `AnySpec`
of `Evaluation`:

| theorem | says |
|---|---|
| `CaseIsCounted` | `CountsOwnRuns` |
| `InterruptLeavesOne` | `InterruptStopsBenches` |
| `FailuresAreFailures` | `NoFalseFailure` |

The list of processes, their files and what has been waited for are three records of the same
benches. `MacroInv` relates them: every process of the case is in the list once, or is the one just
spawned, or has not been (`Known`); the file of one that was started is its own, if it was
written, since `start_bench_instance` deletes the old one (`OwnFiles`); those waited for have ended
(`WaitedFor`), and waiting begins when all are in the list (`ListIsWhole` counts them). `CountsOwnRuns` is then about
sums over sets; that such a sum is there at all, and is positive when its parts
are, is shown by induction on the size of the set (`SumsExist`). `Served` says what
a process that fails has gone through: a program's failure is compared with `EndsFacts`,
the ends of each.

### Energy and statistics

For every value of the constants that satisfies `MeasurementsAssumption` and `EnergyAssumption`
(no window is longer than one turn of the counter), `Evaluation_proofs` has, about `AnySpec`
of `Evaluation`:

| theorem | says |
|---|---|
| `EnergyOfTheLoad` | `EnergyIsTheLoads` |
| `SummaryInOrder` | `StatsInOrder` |

`EnergyInv`: within a window the counter is the start plus the energy, less at most one turn
(`InWindow`); the baseline is chosen before the first case (`IdleFirst`), and is the
idle energy of its samples but for one microjoule for each turn (`Sampled`). `Delta` is the one fact about
`energy_delta_j`, whose result is one short when the counter has turned; `NetOfLoad`
follows the microjoules through the scaling and subtraction of the baseline.

`compute_stats` sorts, and `SortedIsInOrder` shows that there is an order to find
(`OrderExists`, by induction on the number of values). A percentile lies between the value below its
position and the one above (`Between`), and that a later percentile is not smaller (`Grows`) is
a matter of the same two values or of two later ones. `MedianIsP50` compares the two ways the middle is
computed; `SumBounds`, by induction over the fold, puts the mean between the extremes.

### From the results to the reports

For every value of the constants that satisfies `EvaluationAssumption`, `Evaluation_proofs` has:

| theorem | says |
|---|---|
| `ReportsComplete` | `ReportsShowAll` |
| `MeansAreOne` | `MeansAgree` |

The assumption says what the literals of `run_bench.py` do: compilers are gcc and clang, no
compiler, number of threads or case is listed twice, there is a repetition, pages have room for a
row; and that every bench of a case has succeeded or failed, which is what `CountsOwnRuns` is about.
Compilers, threads, cases, repetitions, the values measured, the order of the names and the sizes
of pages are arbitrary. That nothing is listed twice is needed: a case listed twice would be one item
of the summary and be run twice.

The invariant `ReportInv` says that the results so far are those of the first runs of
`main`'s loops (`Taken`), that there is one of each run when the files are made, and that each
file is made from what was made before. So in the end the question is about functions:

1. *Runs* (`AllRuns`): each repetition of each case is run once, and of a case an earlier one
   before a later one; shown loop by loop, from the inside (`InLoop`). Hence the results
   are `Complete` (`AllTaken`), and those of a case are the same list however they are
   chosen (`OneList`), which is what makes the two ways to a mean meet.
2. *Means*: the summary has one item for each case (`Summarized`), with the mean of the case's
   list (`MeanOfItem`). A compiler's own plot selects by compiler and threads, sorts, and selects by
   clients (`SameRuns`: this too is the case's list, although `sorted` may leave elements alike
   in their places); so its point (`ScatteredPoint`), the comparison's (`ComparedPoint`), the row of
   the summary table (`RowOfCase`) and that of the comparison's table, where `next` takes the first that
   fits (`ComparedRow`), show one mean. `PlotsOfCase` says under which file names these plots are.
3. *Pages*: whatever begins and ends a page, the rows under a title are the list that
   was put there: tables (`OnPages`), lines of text (`TextOnPages`), and parts that follow each other
   (`UnderFlatten`, `FourParts`); `MainReport` and `ComparisonReport` say so of the two reports.
4. *Each case once*: rows whose cases differ, and that have every case, are as many as
   the cases (`EachCaseOnce`); so are the rows of the tables (`TableShows`) and, compiler by compiler, of
   the overviews (`OverviewShows`). `ReliabilityRows` adds up (`SumOfBoth`, by induction over the fold).

### What TLC had to say, and what only TLC says

TLC checked the invariants on the instances of the runs before they were proved. The theorems
are about the very formulas the runs check: `Spec` of `EpollServer` and `AsyncServers`,
`ProjectSpec`, and `AnySpec` of `RunBench`, `Evaluation` and `GlobalResults`.

Only model-checked is liveness, since fairness and `ENABLED` are outside the proof system's
logic: `EveryDownloadEnds`, `EveryDownloadCompletes`, `SlotsComeBack`, `DownloadsEnd`,
`SocketsComeBack`, `CampaignEnds`, `NobodyStays` and `NoLastingDamage`.

## Disagreements

Three runs end with a violation of what the repository says:

- `berkeley_stops_accepting`: `accept_loop` of async-berkeley is called again in
  the `then` branch only. One failed accept (for want of a descriptor, say) and the
  server never accepts again. Its README says it "accepts multiple clients".
- `downloads_truncated`: `bench_tcp` of asio takes a reset like end-of-file and asks
  only for a byte or more, so a download cut half way is a successful iteration,
  for which `run_bench.py` then counts the whole file. Its README says that the
  benchmark "downloads the served file completely".
- `suite_no_taps`: the report "without TAPS" contains the global report with the
  TAPS rows, and leaves out the one made without them, whose name contains "taps".

Not runs, but worth knowing when reading code and docs together:

- `bsd-sockets/README.md` describes `poll()`; the server uses epoll.
  `async-berkeley/README.md:239` describes a manual worker model with wake-up pipes
  that is no longer there.
- The READMEs say that the script "waits until the server is actually ready".
  `wait_for_server` accepts whoever answers on the port. The model has foreign
  processes that come after the check, and they do serve runs there; what it shows is that an
  *earlier run's server* is never taken for the new one, not even one that SIGKILL did not end.
- `merge.py` walks a directory that contains its own output (`merge.py:29`): from the
  second run on the combined report has the earlier combined ones in it.
  `ReportsAreMerged` states the combined file of the first run only.
- `master_summary.json` lies among the summaries and matches `*_summary.json`. A whole one
  adds no row; a torn one (an interrupt while it was written) makes every later build fail
  (`build_master_summary.py:145`) until somebody deletes it. `Suite` and `MasterSummary` both have
  it; a build that fails so leaves the other tables as they were (`TablesAreWritten`).
- The second way of trashing caches, a program for `python3 -c`
  (`capy-corosio/scripts/run_bench.py:465`), has a compound statement after `;`, which is
  a syntax error; it fails silently.
- Another exception than `KeyboardInterrupt` in the waiting leaves the other benches of the
  case running; they end when their server is stopped (`NobodyStays`).
- An install of a library that broke off after its header and archive were copied
  passes `check_*_install` from then on (`library = "partial"` in `Build`); every build
  fails until the install is deleted, and nothing wrong is measured meanwhile.
- `bsd-sockets-v` is not in `PROJECT_DIRS` of `run.sh`.

## Limits

Not modelled, and why: wording, colours and layout of plots and pages (which value stands
in which row, curve and page is modelled); the summary on the console (switched
off in the code); `plot_metric_all_libraries` (never called); `settle_before`, `settle_after` and the
trashing of `run.sh` between projects, `system_info.txt`, the manifest and the log (they touch no
state here); argument parsing; CMake files and compilers (external); python packages; the
frameworks' insides (Asio, corosio, async-berkeley's triggers, google-benchmark,
matplotlib, pypdf), of which only what the programs rely on is there.

Abstractions: a file is chunks, not bytes; numbers of energy and throughput are
integers, so rounding of floating point is outside; each bench downloads once
because every benchmark is registered with `Iterations(1)`; the threads of an
asynchronous pool are not told apart, since a task has its socket and its offset
to itself; of `async-berkeley` the server's `WriteState` is the task. `Suite` has
two artifacts per project, a summary and a report, for all that are copied; its
`build_master_tables` and `merge_reports` are steps, whose insides are in `MasterSummary` and
`Merge`. An interrupt while one file is written leaves it torn, never whole with other content;
of a PDF that `merge.py` was writing the first pages may still be read. A report is one element of a list of
pages, which stands for those of its pages that can be read. In `Campaign` a command that kills by port
does what it should or nothing, which covers missing tools and rights; `Shutdown` has
`fuser` and `lsof` one by one. The averages of the overview are modelled but compared with nothing.
The copies of `run_bench.py` do the same steps; where one differs (downloaded
bytes in async-berkeley's), the model has both.

## Plan

Done: the modules above, in this order: `Sockets`, `Transfer` and `EpollServer`
first because all results rest on servers that serve correctly; then the
asynchronous servers against the same promise; the clients and the macro case;
campaigns and builds; measurements; `run.sh`; then the stopping of processes, reports and their files,
the master summary and the merging. Then the proofs, in about the same order.

Next:

1. Model: python environments in `Build`, two campaigns at the same time on one machine.
