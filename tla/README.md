# A TLA+ model of the WARPED2 kernel

WARPED2 is a Time Warp simulation kernel: logical processes (LPs) exchange
time-stamped events, worker threads execute them *speculatively*, and when an
event turns up that should have been executed earlier (a *straggler*), or an
anti-message that cancels one, the LP is rolled back.  A *global virtual time*
(GVT) algorithm finds a time no rollback can reach any more; what precedes it
is committed.

This directory holds TLA+ modules translated from `src/src/`, TLC
configurations that model-check them, and proofs for TLAPS.  `PROJECT.json`
gives, for every definition, the lines it stands for, and lists the runs, the
hazards, the findings and the theorems.

Contents: [1 the system](#1-the-system), [2 modules](#2-modules-and-their-correspondence-to-the-code),
[3 runs](#3-runs), [4 findings and assumptions](#4-findings-and-assumptions),
[5 fairness](#5-fairness), [6 proofs](#6-proofs), [7 not modelled](#7-what-is-not-modelled),
[8 plan](#8-plan).

To check: `tlc -config X.cfg M` for a run (`PROJECT.json` names `M`), and
`tlapm M.tla` for each `M` that ends in `Proofs`.


## 1 The system

A simulation runs on several **nodes** (MPI processes).  A node has a **master
thread** (`startSimulation`: GVT, termination, messages, checkpoints) and
**worker threads** (`processEvents`).  They share the event set, guarded by a
lock per LP and one per schedule queue; the managers of states, outputs and
files are touched by whichever worker has the LP's event in hand.

| Component (src/src/) | State | Operations | What makes it correct |
|---|---|---|---|
| Event order (`Event.hpp`) | – | comparisons, `compareEvents` | a strict total order; an anti-message sits directly before its event |
| Event set (`TimeWarpEventSet`) | per LP an input queue, a processed queue, the scheduled event; schedule queues | `insertEvent`, `getEvent`, `rollback`, `cancelEvent`, `startScheduling`, `replenishScheduler`, `fossilCollect`, `getEventsForCoastForward` | an LP's events are executed by one worker at a time, in order, none lost, none twice; an anti-message finds its event |
| Ladder queue (`LadderQueue`) | top, rungs of buckets, bottom | `begin`, `insert`, `erase` | the same as a sorted multiset |
| Ticket lock (`TicketLock`) | two counters | `lock`, `unlock` | exclusive, first come first served |
| LP (`LogicalProcess.hpp`) | the model's | `initializeLP`, `receiveEvent` | deterministic (required of the user) |
| Dispatcher (`TimeWarpEventDispatcher`) with state and output managers | LP states, saved states, sent events, generation counters | the worker loop, `rollback`, `coastForward`, `cancelEvents`, `sendEvents`, fossil collection | the result is that of the sequential simulation |
| Sequential dispatcher | one event list | `startSimulation` | the reference |
| Asynchronous GVT | colors, counts, minima, tokens; flag and reports of the threads | `progressGVT`, `reportThreadMin`, `reportThreadSendMin`, token and update handlers | the GVT never passes an event that is pending or on its way; computations end |
| Synchronous GVT | color, counts, minima, barriers | the same interface, collective reductions | the same; nobody stays at a barrier |
| Termination | thread and node states, sticky state, counts, token | `setThreadActive/Passive`, token and terminator handlers | terminates exactly when nothing is left |
| Communication (`TimeWarpMPICommunicationManager`) | send queue, aggregates, pending receives | `insertMessage`, `flushMessages`, send and receive requests | nothing lost, duplicated or passed by what was sent later |
| Checkpoints | countdown, request, barrier, archive | `onGVT`, `generateCheckpoint`, `blockIfNecessary` | the archive is a consistent state; nobody is left at the barrier |
| File streams | output requests | `operator<<`, `removeOutputRequestsAfter`, `commitOutputRequestsBefore` | the file is what the committed history wrote |
| Splay tree (`SplayTree`, unused) | a tree, its leftmost node | `begin`, `insert`, `erase` | the same as a sorted multiset |
| Partitioner (`RoundRobinPartitioner`) | – | `partition` | every LP in one part, in its order |
| Set-up and restart (`Simulation`, `Configuration::makeDispatcher`) | the LP map, partitions, settings, checkpoint file | `simulate`, `checkTimeWarpConfigs`, `initialize`, `generateCheckpoint`, `restart` | all processes agree before one runs; a restart finds the LPs as archived |

How they interact.  A worker reads the GVT flag, takes an event
(`getEvent`), reports its time to the GVT manager, becomes active for the
termination manager, rolls back if the event is a straggler (which restores a
state, removes outputs, sends anti-messages, coasts forward), cancels or
executes, saves the state, sends what the LP returned (locally by
`insertEvent`, otherwise through the GVT manager's `sendEventUpdate` and the
communication manager), collects fossils, and hands the LP back
(`replenishScheduler`).  The master handles messages, among them events for
its own LPs, advances the GVT and termination protocols and makes
checkpoints.  Before all that, every process partitions the LPs by itself and
rank 0 compares the settings of all; a job started with `restart` reads the
processes' checkpoint files instead of initialising the LPs.

What is hard: insertions interleave with everything a worker does to the same
LP; anti-messages may meet their event anywhere, and overtake it between
nodes; ties of time are broken by send time, sender and generation; two
reports of one GVT computation are taken at different moments; control
messages and event messages take different ways; barriers are shared by loops
that end when a message says so; processes that decide by themselves what all
must decide alike; a crash while the only checkpoint is being written.
`PROJECT.json` lists these hazards at their
lines with the properties that cover each.


## 2 Modules and their correspondence to the code

A definition called *Faulty X* directly before `X` is `X` as a plausible
mistake would have left it.  It is used by no action: substituting it for
`X` makes the property it was written for fail, which shows that the property
depends on that part of the code.

### The core: events, event set, dispatcher

* **`WarpedEvent`** – events are records `[ts, send, sender, gen, recv, type]`
  (LP names and ids are numbers, in the order of the names), with the comparison
  operators of `Event.hpp` and `First`, the event at `begin()` of a multiset.
* **`TimeWarpEventSet`** – variables and operations under the source's names.
  `insertEvent`, `rollback`, `cancelEvent`, `startScheduling` and
  `replenishScheduler` run under the LP's input queue lock: one step each.
  `getEvent` holds only the schedule queue's lock: a step of its own that does
  not touch the input queue.  Multisets are sets of pairwise distinct events.
  Migration moves the LP to the next queue in `replenishScheduler`.
* **`TimeWarpEventSetClient`** – the most general client: anybody inserts any
  message or anti-message at any time not before the GVT, each once and in any
  order (an anti-message may overtake its event), and a worker does
  what the NOTEs in `TimeWarpEventSet.cpp` ask.  Where the assertion of
  `cancelEvent` fails (line 298: nothing is behind the anti-message in the input
  queue) the process ends: `aborted`, after which no step is taken.  All event set properties and
  the inductive invariant are here.
* **`LogicalProcess`** – the simulation model as a parameter (`Sends`,
  `InitialSends`).  The state is the sequence of events received, the state
  that tells any two histories apart.
* **`SequentialEventDispatcher`** – the sequential loop as a recursive
  function; its final LP states are what the optimistic engine must reach.
* **`TimeWarpEventDispatcher`** – the worker loop of `processEvents` with the
  state manager (periodic) and the output manager (aggressive), the master's
  initialisation, reception and final commit, and a network with or without
  order.  Steps: `GetEvent`, `Rollback` (restore the state, remove outputs,
  move processed events back), `SendAntiMessage` (one iteration of
  `cancelEvents`), `CoastForward`, `CancelEvent`, `ReceiveEvent` (execute and
  save), `SendEvent` (one iteration of `sendEvents`), `FossilCollect`,
  `ReplenishScheduler`, and `Abort` for the assertion of `cancelEvent`.  GVT and
  termination appear as what their modules
  promise: a time nothing outstanding precedes, and quiescence.
* **`TimeWarpEventDispatcherRefinement`** – the dispatcher next to the client's
  own two variables, which are history variables here: `sent`, and `horizon`,
  the GVT until everything is committed.  `HistorySpec` is the dispatcher's
  specification with `Remember`, which only records.  `ImplementsClient` is the
  refinement; `EngineInv` and `StateInv` are the inductive invariants
  of section 6.
* **`TimeWarpEventDispatcherLog`** – another history variable next to these, `log`: for
  every LP the events it has received and not undone, each with what the LP sent on
  it.  `Rollback`, `ReceiveEvent` and `SendEvent` are the steps that change it.  It
  outlives fossil collection, so that one can say of a committed event what was
  computed from it.  `HistoryInv` relates the engine's queues, states and messages to it.

### GVT

* **`GVTService`** – what engine and GVT manager promise each other, in terms of
  the times of all outstanding work and the GVT of each node: the engine makes
  work only out of work (`Work`), the manager sets a GVT only if nothing
  outstanding precedes it (`Advance`).  Both managers' modules and the
  dispatcher's implement it (`ImplementsGVTService`), and section 6
  proves what follows.  It is where the modules, which are not run together, meet:
  the dispatcher is checked with any GVT that the service allows, the
  managers with any work that it allows.
* **`GVTClient`** – what both GVT managers see of the engine: pending receive
  times, schedule queues, an event in each worker's hands, event messages with
  a color, under the scheduling discipline proved of the event set.  Rollbacks
  are left out: everything they put back or send is not earlier than the
  straggler, which was pending.
* **`TimeWarpAsynchronousGVTManager`** – Mattern's token (`node`, `control`,
  `msg_count`, `global_min_clock`) and, within a node, the flag and the reports
  (`local_gvt_flag`, `calculated`, `send_min`, `local_min`).  A worker's loop is
  split where the code reads shared variables: `ReadFlag`, `GetEvent`,
  `reportThreadMin`, `SendLocal`/`SendRemote`, `reportThreadSendMin`,
  `ReplenishScheduler`.  The master's `resetLocalState` and the store of the flag
  are two steps.  `global_min_clock_`, which the code does not initialise, starts at
  either extreme.
* **`TimeWarpSynchronousGVTManager`** – the barriers (one step when all have
  arrived), the loop that waits for messages of the old color (`CountAgain`
  and the reduction), the reductions of the minima, and the two loops whose end
  the terminator triggers.

### The other managers

* **`TimeWarpTerminationManager`** – the token ring with sticky states and
  message counts; events are numbers.  Aggregates and links are included
  because control messages push the aggregate of their link out before them.
* **`TimeWarpMPICommunicationManager`** – send queue, aggregates with their
  limit, and MPI as an external party that matches in order and completes in
  any order.
* **`GVTSynchronizedCheckpointManager`** – request, archive (event set and LPs
  are two steps, as in `generateCheckpoint`), barrier, countdown, pause.
* **`TimeWarpFileStreamManager`** – one LP, one file; every event writes one
  request.
* **`LadderQueue`**, **`SplayTree`** – `begin`, `insert`, `erase` as functions of a
  record that has the fields of the class; failed assertions are recorded.  The
  splay tree's nodes have their links, so that a rotation is what the code does
  to pointers.  It compares `shared_ptr<Event>`, for which no comparison is
  defined: the order is that of the addresses, and an event is its address.
* **`ScheduleQueue`** – either of them next to a set, used as `TimeWarpEventSet`
  uses a schedule queue: it has at most one event of an LP, a worker takes the
  least (`GetEvent`), and `insertEvent` erases an LP's event wherever it is, or
  tries to when a worker has it, and inserts an earlier one if `erase` reports
  success (`Replace`).
* **`RoundRobinPartitioner`** – the two loops as the set of deals they make: which
  index goes to which partition, the reuse of `i` and `j` after the first loop
  included; a partition is the sequence of its deals.
* **`Simulation`** – a job of several processes: partition, LP map, barrier,
  comparison of settings (`MPI_Gather` returns at rank 0 when all have called,
  elsewhere at once), `initialize`, events, the checkpoint file (opened with
  truncation, written LP by LP while the workers go on, closed), a crash at any time which leaves any prefix of
  a file that is being written, and the restart with the checks the archive
  library makes.  Of an LP there is the number of events it has processed.
* **`TicketLock`** – the two counters modulo `Width`.  It is proved about, not run.

`MC*` modules hold the instances: partitions, simulation models, message sets.


## 3 Runs

| Run (configuration) | Module | Bounds | Shows |
|---|---|---|---|
| `TimeWarpEventSet` | `MCTimeWarpEventSet` | 2 LPs that start on one of two queues and migrate, 3 workers, 4 messages with equal receive and send times among them, all their anti-messages | `IInv` (the invariant of the proofs; type correctness and the safety properties of the event set are its parts), a cancellation finds its event if that has arrived, and the assertion of `cancelEvent` fails only if it has not; no rollback past the GVT; `EventuallyDrained`: unless the assertion ends it, every event is processed or cancelled |
| `TimeWarpEventDispatcher_nodes` | `MCTimeWarpEventDispatcherRefinement` | 2 nodes, a network without order, LPs that answer each other, a state saved after every second event | `HistoryInv`, with anti-messages that overtake their event; `ImplementsGVTService`; coasting forward reproduces the LP's state; no event outlives its cancelled cause; committed = sequential |
| `TimeWarpEventDispatcher_threads` | `MCTimeWarpEventDispatcherRefinement` | 1 node, 2 workers, 2 queues, migration, a model in which one LP is behind | `ImplementsClient` (refinement of `TimeWarpEventSetClient`), `HistoryInv` (the invariant of the proofs: queues, states and messages agree with every LP's history), nothing caused before the GVT is cancelled, and it terminates |
| `TimeWarpEventDispatcher_early` (counterexample) | `MCTimeWarpEventDispatcher` | those of `TimeWarpEventDispatcher_nodes` | `CancelAssertionHolds` fails: an anti-message overtakes its event and is handled with nothing behind it |
| `AsynchronousGVT` | `MCAsynchronousGVT` | either 3 nodes, 1 send by anyone at any time, or 1 node, 2 threads with a queue each, 2 sends; 2 computations | `ImplementsGVTService`; already the value announced is a lower bound; the flag counts the threads still to report; between computations colors and counts agree; every computation of the single node ends |
| `AsynchronousGVT_shared` (counterexample) | `MCGVT` | 1 node, 2 threads on one queue | the GVT passes an event that changes hands between two reports |
| `SynchronousGVT` | `MCSynchronousGVT` | 2 nodes with 2 threads on one queue, 1 send, 2 computations, a terminator at any time | `ImplementsGVTService`; no message of the old color is under way when minima are taken; between the barriers no worker runs |
| `Termination` | `MCTermination` | 3 nodes with 2 threads, 2 sends | one token, a node's state follows its threads; once all work is done every node terminates |
| `Termination_early` (counterexample) | `MCTermination` | 2 nodes with 1 thread, 1 send | `NoEarlyTermination` fails: the terminator is sent while a received event waits for its worker |
| `MPI` | `MCMPI` | 2 nodes, aggregates of 2, 3 + 1 messages | nothing lost, duplicated or passed by what was inserted later into the same aggregate; everything is handled |
| `ScheduleQueue` (counterexample) | `ScheduleQueue` | ladder queue: threshold 2, 3 rungs, 3 LPs, times up to 6; splay tree: 7 nodes | `EraseTellsPresence` fails for the ladder queue: `erase` of an event that a worker has taken reports success, and the LP gets a second event scheduled |
| `Simulation` | `MCSimulation` | 2 processes, 5 LPs (not divisible), block sizes 0 and 1, 2 settings per process, 1 checkpoint, 1 crash | who runs agrees with all on the settings and, given one block size, on who has which LP; a restarted LP has the state the last checkpoint wrote in its place; nobody waits for ever |

`CHECK_DEADLOCK FALSE` is set where a behaviour ends for a good reason: all
messages are sent, the simulation has terminated, or a bound on computations
has been used up.

Why the bounds are enough.  The event set treats LPs independently except for
the schedule queue they share; two LPs that meet on one queue and part by
migration, and three workers, give all interleavings of a pair; three messages
of one LP give a straggler between two events, ties included, and the fourth
lets a rollback take back more than one event.  Rollback needs something to
roll back *to*: three to five events per LP with a state saved after every
second one make coasting forward, states dropped by fossil collection and
secondary rollbacks happen.  GVT errors need two threads (or nodes) and an
event that passes from the one that has not reported to the one that has; two
computations show what is left over from the first.  Three nodes are needed
for a token that comes from a node other than the initiator.  Two processes and five LPs are the
least that have an LP left over; what the partitioner and the set-up do for
any number is proved.
`MaxSends`, `MaxRounds`, `MaxEvents`, `MaxGVTs`, `MaxMessages`, `GvtTimes`,
`Messages`, `MaxMovedLPs`, `MaxCheckpoints` and `MaxCrashes` are bounds of the models only.  `Infinity` (99) stands for
`(unsigned int)-1`.

Each property of a passing run has a mutant in `PROJECT.json`: a faulty form of a
definition with which the same run fails.

`TimeWarpEventDispatcher_nodes` also passes with `SPECIFICATION FairSpec` and a
property that it terminates or an assertion fails, `<>(pc[Master] = "terminated"
\/ aborted)`: with reordered messages every cascade of rollbacks ends.  It is
left out of the configuration because it takes four minutes.

The checkpoint manager and the file streams have no run.  What one would ask
of them first does not hold (section 4), and what does hold is proved for all
sizes (section 6).



## 4 Findings and assumptions

### Where the code does not do what it says

Four runs are counterexamples to what a comment or an assertion of the source
says.

| Run | The source says | What happens |
|---|---|---|
| `TimeWarpEventDispatcher_early` | "if we have a negative message, then we also have the positive message" (`TimeWarpEventDispatcher.cpp:294`), asserted in part at `TimeWarpEventSet.cpp:298` | Receives complete in any order.  An anti-message that is handled before its event comes finds the event that happens to follow it, which differs, and stays; or, being the last of its input queue, finds the end: the assertion fails, and where it is compiled out line 300 dereferences `end()`.  The models stop there (`aborted`). |
| `Termination_early` | "the token has circulated twice with no change state" (`TimeWarpTerminationManager.cpp:60`); a thread becomes active "so we don't terminate early" (`TimeWarpEventDispatcher.cpp:278`) | The receipt of an event takes it out of the message count (line 408), but the node becomes active only when a worker takes it; and a token may overtake an event for the same node.  The token comes round with count 0, and the simulation ends with work left. |
| `AsynchronousGVT_shared` | "We have major problems if we are rolling back past the GVT" (`TimeWarpEventDispatcher.cpp:500`) | With two threads on one schedule queue (worker threads above the number of schedulers are the default) an event changes hands between two reports and is in neither. |
| `ScheduleQueue` | a scheduled event is replaced "only if the event was successfully erased" (`TimeWarpEventSet.cpp:103`) | `LadderQueue::erase` reports success for whatever falls in the range of bottom (line 223), an event that a worker holds included; the LP has two events scheduled. |

### Timing assumptions of the GVT runs

The GVT protocols rely on timing the code does not enforce.  Each such reliance is
a named BOOLEAN (`Prompt`, `FifoNodes`, `Settled`): the passing runs show that the
protocol is right under it, and section 6 proves for which sizes it is right
without.  To see what can happen otherwise, change the run's
configuration as the second column says and check the property in the third
alone (a state predicate as an `INVARIANT`); TLC finds a counterexample within
two minutes.

| Relied upon | Change | Fails | What happens |
|---|---|---|---|
| `Prompt`: no worker is still between reading the flag of one computation and reporting when the next begins | `AsynchronousGVT` with `Prompt = FALSE` | `ImplementsGVTService` | a thread that found nothing reports in the next computation although an event has arrived since; the GVT passes it (`TimeWarpAsynchronousGVTManager.cpp:258`) |
| the same | `AsynchronousGVT_shared` with `NumSchedulers = 2`, `NumLPs = 2`, `QueuePerLP`, `LastHasEvent`, `MaxSends = 0`, `Prompt = FALSE`, `FairSpec` | `ComputationEnds` | a stale report between `resetLocalState` and the store of the flag takes the thread's report away; the flag stays at 1 and no GVT is ever computed again (lines 59, 60, 261) |
| `FifoNodes`: a GVT update arrives before the next token, which comes from another node | `AsynchronousGVT` with `FifoNodes = FALSE` | `ImplementsGVTService` | the node keeps its old color, its message counts for neither (line 191) |
| `Prompt`: no send between the store of the color and that of the flag | `SynchronousGVT` with `NumWorkers = 1`, `StaggeredEvents`, `SendTimes = {2, 4}`, `MaxSends = 2`, `Terminates = FALSE`, `Prompt = FALSE` | `GVTIsLowerBound` | a message is neither counted nor in a minimum (`TimeWarpSynchronousGVTManager.cpp:39`) |
| `Settled`: what is sent during a computation arrives before the next | the same, but `Prompt = TRUE` and `Settled = FALSE` | `GVTIsLowerBound` | the message is counted in neither computation (line 79) |
| no LP migration (synchronous GVT) | `SynchronousGVT` with `NumNodes = 1`, `NumSchedulers = 2`, `LpMigration = TRUE`, `OneNode`, `QueuePerLP`, `StaggeredEvents`, `SendTimes = {2, 3, 4}`, `MaxSends = 2`, `Terminates = FALSE` | `GVTIsLowerBound` | an event moves to the queue of a thread that has reported (line 108) |
| no terminator in the iteration in which a computation begins | `SynchronousGVT` with `NumNodes = 1`, `OneNode`, `FairSpec` | `ThreadsExit` | the workers leave, the master waits for them (line 43) |

No other module assumes anything of the threads' timing.  In particular the
termination token may arrive at any moment, a checkpoint request is cleared
without regard to who has seen it, and LPs go on while they are archived.

### What else does not hold

Each row names a definition that no run checks, because it fails.

| Change | Fails | What happens |
|---|---|---|
| `TimeWarpEventDispatcher_nodes` with `MaxSimTime = 2`, `GvtTimes = {2}`, `TieInitial`, `TieSends` | `CommittedIsSequential` | zero delay (`LogicalProcess.hpp:44` allows it): among events of one time the sequential loop takes the least of those it has, while the engine sorts in an answer that came later: LP 2 commits the same events in another order |
| `TimeWarpEventDispatcher_nodes` with one scheduler (`OneQueue`), `Remote = FALSE`, `Fifo = TRUE`, `MaxSimTime = 2`, `GvtTimes = {1, 2}`, `ZeroInitial`, `ZeroSends` | `StragglerIsNotUndone` | zero delay: the straggler is a consequence of an event it undoes, and the rollback cancels it |
| `Simulation`, `SetUpAgrees` without `BlockSizesAgree` | `SetUpAgrees` | no process compares `partitioning.blocksize`: the settings match, but an LP is run by two processes or by none (`Configuration.cpp:237`) |
| `Simulation` with `BlockSizes = {0}`, `RestartedIsArchived` without `OrderKept` | `RestartedIsArchived` | LPs are archived in the schedulers' order and read back in the vector's: with two schedulers two LPs swap their states, names are not compared (`TimeWarpEventDispatcher.cpp:595`, `LogicalProcess.hpp:85`) |
| `Simulation`, `SetUpEnds` without its last disjunct | `SetUpEnds` | LP migration is compared where it is off; if it is off at rank 0 only, rank 0 waits in a collective call nobody answers |
| `TimeWarpEventDispatcher_nodes`, nothing | `OnlyLaterIsCancelled` | the comment at `TimeWarpOutputManager.cpp:43` says "STRICTLY GREATER", line 50 removes equals as well – and has to: `NoOrphan` fails with the comment's comparison (`SentUntil`, a mutant) |
| `GVTSynchronizedCheckpointManager`, `FairSpec` (1) | `AllExit` | the request is cleared before the barrier: a worker that looks later misses it, the others wait for ever (`GVTSynchronizedCheckpointManager.cpp:79`) |
| the same, `Spec` | `ArchiveIsConsistent` | the archive is written while workers run: an LP's state without the event that led to it (`TimeWarpCheckpointManager.cpp:150`) |
| `TimeWarpFileStreamManager` (2) with `StatePeriod = 2`, `Cancels = FALSE` | `OutputIsHistory` | coasting forward writes the replayed output again (`TimeWarpEventDispatcher.cpp:552`) |
| the same with `StatePeriod = 1`, `Cancels = TRUE` | `OutputIsHistory` | a cancelled event's output stays: it is equal to the anti-message, not after it (`TimeWarpFileStream.cpp:31`) |
| the same with `StatePeriod = 2`, `Cancels = TRUE` | `OutputComplete` | nobody commits the output of the last events (`TimeWarpEventDispatcher.cpp:123`) |
| `ScheduleQueue` with `Kinds = {"ladder"}`, `MAX_RUNG_CNT = 2`, `MaxTime = 4` | `AssertionsHold` | the assertion of `LadderQueue.cpp:209`, or those that look for an event a worker has taken: `erase` is called with events that are not there |
| the same with `THRESHOLD = 3`, `MaxTime = 3` | `BeginIsLeast` | erasing from a rung sets its lower limit back (line 196); a later event is returned before an earlier one |
| `ScheduleQueue` with `Kinds = {"splay"}` | `AssertionsHold` | `SplayTree::erase` asserts that the tree is not empty; an event that a worker has taken may have been its last.  `HoldsContents`, `BeginIsLeast` and `EraseTellsPresence` hold of the tree (`NumEvents = 6`) |

(1) `NumWorkers = 2`, `interval = 1`, `CountTillTermination = 3`, `MaxEvents = 1`,
`MaxGVTs = 1`, `MaxTime = 9`.
(2) `EndTime = 5`, and `Messages` the positive events to LP 1 from LP 1 with `send = 0`,
`gen = 0` and times 1 to 4, defined in a module that extends this one.
With `StatePeriod = 1` and `Cancels = FALSE` the file streams satisfy
`OutputIsHistory`: without replay and cancellation the output is right.
The runs of the asynchronous GVT manager have no migration.


## 5 Fairness

* Worker and master threads loop until termination and the operating system
  schedules them: weak fairness of `WorkerStep(w)` for each worker and of the
  master's steps.  A worker with an empty queue has no step in the event set
  (`getEvent` returns null and it tries again).
* Messages: MPI delivers, and the master handles what has arrived between any
  two of its other steps.  `handleMessages` is called in every iteration, but
  a reception may be disabled while the master is elsewhere in its loop:
  strong fairness of receptions in the GVT and termination modules (for each
  node, not for each message), weak in the dispatcher and communication modules,
  where the reception stays enabled.
* The termination manager's master loop comes round to its token
  (`InitiateToken`) and to its sticky state (`SetSticky`): one of them is taken
  if they stay possible.
* The GVT period elapses (`SF` of `BeginGVT`), and the GVT managers flush
  aggregates (`WF` of `Flush`, `flushMessages`).
* In `Simulation` no process stops by itself, and a collective call that all
  have entered returns: weak fairness of the processes' set-up steps taken
  together.  A process that
  throws takes the job down, as `mpirun` does.  No fairness of events,
  checkpoints or crashes.
* No fairness of sends, insertions, the advance of the GVT or checkpoints:
  nothing obliges the model to produce work.

Counterexamples to liveness (section 4: `ComputationEnds`, `ThreadsExit`,
`AllExit`) are found under the same fairness, so the threads in them do run;
they cannot proceed.


## 6 Proofs

### The event set

`TimeWarpEventDispatcherProofs` begins with the event order, for all events: `Before` is
a strict order and total on events that differ in what it compares,
`compareEvents` is a strict order (`compareEventsIsStrictOrder`), no event
sorts between an anti-message and its event (`AntiMessageIsAdjacent`), the
initial event precedes all others, and every non-empty finite set of distinct events
has exactly one first element (`FirstIsFirst`, `FirstIsUnique`).  Then, about
`TimeWarpEventSetClient`:

| Theorem | States |
|---|---|
| `Invariance` | `ClientSpec => []IInv` |
| `TypeCorrect` | `ClientSpec => []TypeOK` |
| `SchedulingIsExclusive` | `ClientSpec => [](PointerNamesPending /\ ScheduledOnce)`: an LP's scheduled event is in one place, so no LP is executed by two workers |
| `LeastEventIsScheduled` | `ClientSpec => []LeastIsScheduled` |
| `HistoryIsOrdered` | `ClientSpec => []ProcessedInOrder` |
| `NothingIsLost` | `ClientSpec => []NoEventLost` |
| `CancellationSucceeds` | `ClientSpec => [](AntiMessageHasTarget /\ CancelFindsItsEvent)`: a cancellation finds its event if that was sent before it, and only an anti-message that came first makes the assertion of `cancelEvent` fail |
| `NoRollbackPastGVT` | `ClientSpec => NoRollbackPastHorizon` |

*Assumptions.*  `SizesAssumption` (at least one LP, scheduler and worker),
`PartitionAssumption` (an LP starts on a scheduler of the node),
`MigrationAssumption` (a BOOLEAN) and `MessageAssumption` (messages are positive
events for LPs of the node, earlier than `Infinity`).  Nothing bounds the
number of LPs, workers, schedulers or messages, and workers and schedulers need
not match in number.  That no two events sent are equal in the comparison,
and that nothing earlier than the GVT is inserted, are guards of the client's
`Insert`: the generation number and the GVT see to them, and the theorems about the
dispatcher below show that it keeps to them given a right GVT.

*The inductive invariant* `IInv` strengthens the properties with
`QueuesHoldSent` (queues hold what was sent to their LP), `PendingNotBeforeHorizon`
and `EarlyAntiMessageWaits` (an anti-message that overtook its event is still
pending).  They are needed together:
that a cancellation finds its event directly behind the anti-message
(`CancelFindsTarget`) uses that the target is in one of the queues
(`AntiMessageHasTarget`), that after the rollback nothing in the processed
queue is at or after the anti-message, that the queues are disjoint
(`NoEventLost`) and the order's adjacency lemma.  Where the event has not come
`cancelEvent` either finds another one behind the anti-message and leaves both, or
finds the end of the queue: `ClientAbort` sets `aborted`, after which there is
no step.  `CancelFindsItsEvent` is about what precedes that: `CancelFindsIfSent`
for those that return, `AbortsOnlyEarly` for the one that does not.  That `insertEvent` may put a new
scheduled event into the schedule queue only when it has erased the old one
uses `ScheduledOnce` and `LeastIsScheduled` at once: the erase fails exactly
when a worker holds the old event.  That fossil collection takes no target from
an anti-message uses `PendingNotBeforeHorizon`.

*The argument.*  One lemma per action (`InsertInv`, `GetEventInv`,
`RollbackInv`, `CancelEventInv`, `ReplenishInv`, `FossilCollectInv`,
`AdvanceHorizonInv`, `FinalCollectInv`), with the common part of cancel and
replenish in `RescheduleInv`, and lemmas on what the operators return: how far
`rollback` pops (`KeptByIsDefined`) and what fossil collection drops
(`CollectedByIsDefined`), both defined by a CHOOSE whose existence they show.

### The dispatcher

The same module then proves about `TimeWarpEventDispatcher`, with the
history of `TimeWarpEventDispatcherRefinement`:

| Theorem | States |
|---|---|
| `EngineInvariance` | `HistorySpec => []EngineInv` |
| `EngineRefinesClient` | `HistorySpec => ImplementsClient`: what is proved of the event set's client holds inside the engine |
| `EngineSchedulesOnce`, `EngineLosesNothing` | so one worker at a time handles an LP, and no event is lost, whatever is rolled back, cancelled and collected |
| `RollbackSucceeds` | `HistorySpec => []RollbackAssertions`: no rollback past the GVT; a saved state strictly before the straggler is left; nothing after it is replayed |
| `CommittedStaysSent` | `HistorySpec => CommittedIsNotCancelled` |
| `NothingIsOrphaned` | `HistorySpec => []NoOrphan` |
| `EngineKeepsPromise` | `HistorySpec => ImplementsGVTService`: the engine's half of the interface to the GVT managers |
| `StateIsReproduced` | `HistorySpec => []StateIsReproducible`: coasting forward lands where the LP would be had the undone events never arrived |

for any numbers of LPs, schedulers and workers, any partition, with and without
migration, one node or several, a network with or without order, any
`StatePeriod`, and any simulation model.  `HistorySpec` constrains nothing: `Remember` gives
`sent` and `horizon` their next values and reads the rest, so each behaviour of `FairSpec`
is one of `HistorySpec` (the proofs do not use its fairness).

*Assumptions.*  Those above and the modules' own (`StatePeriod` is positive; with
several nodes there is no migration; `MaxSimTime` is not above `Infinity`).  Two
hypotheses are not ASSUMEs, because TLC could not evaluate them: `ModelIsCausal`,
`LogicalProcess.hpp`'s rule that a model creates no event earlier than the present
simulation time, and none at `Infinity`; and `MessageIsAll`, that the client's
`Message` contains whatever an LP may send.  The second concerns no code; it is met by
taking for `Message` all positive events for LPs up to `MaxSimTime`.  Equal times are
allowed: the theorems hold with zero delay too, where the engine need not make progress
(section 4).

*The inductive invariant* `EngineInv` is `IInv`, the types and

* `MasterControl`, `WorkersInStep`: which thread can be where.  In particular, from
  `rollback` on a worker's event is no straggler any more, although others
  insert into the same input queue meanwhile: only its own LP's processed queue
  decides, and that only the holder of the scheduled event changes.
* `KnownIsIdentified`, `NetworkHoldsOnce`: an event is told from all others ever
  sent by sender and generation, and a message is received once.  These give the
  client's guard of `Insert`.
* `OutputIsSent`, `OutputIsCaused`, `ToCancelIsSent`: what an output queue records was
  sent and not cancelled, in the order of its causes, which are processed; what is
  taken from it to be cancelled is not in it any more.  So each anti-message
  is sent once, and only after its event.
* `ToSendIsCaused`, `OutstandingNotBeforeGVT`: nothing that is to be sent, to be
  cancelled or on its way is earlier than the GVT.  An event sent later than the
  GVT but *caused* before it is where output fossil collection might disagree with rollback.
* `FirstStateIsOld`: an LP's first saved state is the initial one or older than the GVT,
  hence older than whatever can still arrive: `restoreState` finds a state.
* `SentIsRecorded`: an event known is recorded, being cancelled, cancelled, or was
  sent before the GVT; from it `NoOrphan`.

`StateInv` adds of an LP's saved states that they are in order, that their events
have been processed or were passed by the GVT, that the newest one with the processed
events after it yields the LP's state, and that between `restoreState` and
`coastForward` the LP is in its newest saved state.  Fossil collection is the step
where it could break: event fossil collection uses the time of the oldest state *kept*,
not the GVT (`FossilCollectStates`; the mutant is `CollectToGVT`).

*The argument.*  A lemma per action and invariant, each with the client's step it is
(`SendEventStep`, `RollbackStep`, `ReceiveMessageStep`, ...) and, for `StateInv`, what it does to one LP's
states (`RollbackStates`, ...); before that, what `removeEventsSentAfter`, `FirstKept`, `SentAndPassed` and
`getEventsForCoastForward` return.

### What is committed is what the sequential simulation does

`TimeWarpEventDispatcherLogProofs` proves:

| Theorem | States |
|---|---|
| `HistoryIsKept` | `LogSpec => []HistoryInv`: queues, saved states, output queues, generation numbers and messages agree with every LP's history |
| `CommittedIsWhatSequentialDoes` | `LogSpec => []CommittedIsSequential`: what the GVT has passed is at every LP what the sequential simulation does, and after termination everything is |

for any numbers, partition, network and `StatePeriod`, as above.  `LogSpec` constrains
the engine no more than `HistorySpec` does: `log` has a next value for every step and
nothing reads it.

*Assumptions* of the first: those of the dispatcher.  Of the second, also: `ModelDelays`, a
model's events take effect later than they happen (section 4 shows that the result is
another without, which `LogicalProcess.hpp:44` allows); `GenerationIsHidden`, a model does
not look at the kernel's generation numbers; and that the sequential simulation ends
(`SequentialDone`, within `MaxEvents` events, any number): there is nothing to compare with
otherwise.  A model with a fixed delay and finite `MaxSimTime` satisfies all of them.

*The inductive invariant* `HistoryInv` is `EngineInv` and `LogInv`, which says of the log that

* it is in the order of the events and ends in the processed queue and the event in
  hand; what came before is older than the first saved state (`LogInOrder`,
  `LogEndsInQueue`);
* the LP's state is what the log yields, each saved state what the log up to its event
  yields (`StateIsLogged`, `SavedIsLogged`);
* every event has sent what the model says, only the last one maybe not all yet, under increasing
  generation numbers (`SentIsModelled`, `RestIsModelled`, `SentInOrder`,
  `OutputIsLogged`);
* what it has sent stands, and has been received by the time the GVT passes it
  (`SentStands`); whatever is known was sent so, or is being cancelled, or was
  (`KnownIsSent`); and nothing that was cancelled stays in a log for good (`LoggedStands`).

*The argument* of the second theorem needs no further induction over the engine's steps:
it compares the log of *one* state with the sequential loop.  The loop consumes the log's
entries, in the order of `operator<` across the LPs, as long as they are before the GVT:
`Follows` says how far, and that each LP's state and the event list are what the log
has so far (`LoopFollows`, by taking the least count of events at which it fails; the
loop is a recursive function of that count).  The least event in the loop's list is the
least entry not yet consumed: an entry's cause is logged and earlier (`ModelDelays`), hence
consumed, so that the entry is in the list, up to its generation number; and what
is in the list and earlier than the GVT has been received (`SentStands`).

### Ticket lock, GVT service, partitioner, set-up

`SimulationProofs` proves about `TicketLock`:

| Theorem | States |
|---|---|
| `LockIsExclusive` | `Spec => []MutualExclusion` |
| `LockIsFair` | `Spec => NoOvertaking`: who draws a ticket comes behind everybody who waits |

under `EnoughTickets`: a finite number of threads, not above the number of
tickets (2^32 in the code).  The invariant: the threads with a ticket have
different ones, which are the next to be called – fewer than
`Cardinality(Queueing)` ahead, counted across the wrap-around – and the next ticket
to be drawn follows the last of them.  Exclusion alone is not inductive: that
the ticket called after an `unlock` is nobody else's needs the distinctness, and
that `Draw` keeps the tickets distinct needs the count of those in the queue.

About `GVTService`, for any number of nodes:

| Theorem | States |
|---|---|
| `LowerBound` | `Spec => []GVTIsLowerBound`: no event earlier than a node's GVT is outstanding |
| `WorkNeverGoesBack` | `Spec => NothingComesBack`: a time that all work has passed is not come back to |

The invariant is `GVTIsLowerBound` with the types.  Each side's promise alone says
nothing about later steps; the induction is where they meet.  A new event is
not earlier than one that was there, which the GVT bounds; a new GVT bounds what
is there.  `EngineKeepsPromise` shows of the dispatcher, and
`SpecImplementsGVTService` of each manager, that it implements `Spec`: the bound
that lets `fossilCollect` free history for good holds in each of them.

About `partition` of `RoundRobinPartitioner`, for any number of LPs that
is not below that of the partitions, and any block size: the block size in use is
positive (`BlockSizeFits`), no access to the vector is out of bounds
(`DealsInRange`), every LP is dealt (`EveryLPDealt`), once (`DealtOnce`), to
one partition (`OnePartitionPerLP`), and the partitions are sequences
whose elements are the LPs dealt to them, each once (`InOrderElements`, `PartitionSplits`).
The argument is division with remainder: the blocks tile the indices up to
`num_blocks * block_size`, and the second loop, with the last `i` and the `j` the
first loop ended with, continues exactly there.

About `Simulation`:

| Theorem | States |
|---|---|
| `ProcessesAgree` | `Spec => []SetUpAgrees`: the processes that run have the settings rank 0 compares in common and, if they have one block size, agree on who has which LP |
| `RestartFindsArchived` | `Spec => []RestartedIsArchived`: an LP that was restored has the state the last checkpoint wrote at its place, its own where the archive has the LPs in the vector's order |

for any number of processes, LPs, schedulers, settings, checkpoints and crashes, with
events processed while the archive is written.
*Assumptions.*  `ConstantsAssumption`: at least one process, and as many LPs as
processes.  *The inductive invariant* `IInv`: what is never assigned (`Chosen`), the
variables' domains, and

* `Compares`: rank 0 has compared the first `gathered[0]` settings of all,
  nobody is behind it, and who is past the comparison has sent all of its own.
  The last two are needed because only rank 0 learns of a mismatch, and the others
  do not wait for it: that they do not *run* comes from the barriers
  (`UpTogether`), which rank 0 enters only without a mismatch.
* `Maps` and `States`: partition, LP map and the set of LPs with a state follow from
  the process's own settings, recomputed by a restart; together with
  `OneOwner`, from `PartitionSplits`, every LP has one node.
* `Orders` and `Files`: what was archived last is of the LPs in the order in which
  the schedulers have them (`InLocalOrder`), and the file holds nothing or the first
  part of it (`Kept`), all of it when the file is closed (`generateCheckpoint`).  A process
  restores only a file of full length, and then every LP has what was archived at the LP's
  place in the vector (`Restores`).  The two orders are the same or not;
  `OrderKept` is a premise within `RestartedIsArchived`, for what it says of an LP's
  *own* state, and no assumption (section 4 has the counterexample without it).

There is a lemma for each action (`PartitionKeeps`, ..., `CrashAndRestartKeeps`).

### Termination

`TimeWarpTerminationManagerProofs` proves about `TimeWarpTerminationManager`:

| Theorem | States |
|---|---|
| `SpecStateFollowsThreads` | `Spec => []StateFollowsThreads` |
| `SpecOneToken` | `Spec => []OneToken` |

for any number of nodes, threads and messages, and whenever the token arrives.
*Assumptions.*  `SizesAssumption`: at least one node and one worker;
`EventsAssumption`: so many events pending at each node at first.  *The
inductive invariants.*  `ThreadInv` adds to `StateFollowsThreads`, whose count is
the cardinality of the active threads, that who is about to call
`setThreadActive` is passive; otherwise the call would count it twice.
`TokenInv` says of the token that it is at one node and on no link (`WithMaster`),
or at none and at one place of one link (`OnItsWay`).  `OneToken` as a sum of
cardinalities follows from it, but is not what the steps are easily shown to keep:
a send moves the token from the one disjunct to the other, a receive
back (`TailOfOther` and its neighbours are about taking the head off a link), and
the aggregate that a control message pushes out in front of itself holds events only.

That a node terminates only when all work is done is *not* a theorem about the
code: run `Termination_early` is the counterexample.  `TerminationIfTokensInTime` says what
would be enough:

    Init /\ [][Next /\ TokensInTime]_vars => []NoEarlyTermination

In the behaviours of `Next /\ TokensInTime` a token reaches a node after all events sent
to it, when its workers have taken theirs.  Nothing in the code restricts it to these, and
`PROJECT.json` does not list the lemma; it locates the fault in the token's timing and not in the
ring or in the states.

`RoundsInv` is its invariant.  The part `RoundInv` is
about the token under way: it has visited the nodes from the initiator on
(`Visited`; `Ahead` are the others), and either a node it has yet to visit is
sticky ACTIVE and will abandon it, or all nodes visited are quiet and no event
sent by a visited node, or to one, is on a link behind it.  A visited node is made active again
only by an event from a node not visited, which has then been active since the
round began: that is the sticky state.  `EndInv` says the same of all nodes once
a terminator exists.  `MasterInv` closes the gap in `receiveTerminationToken`, which
reads the state and then resets the sticky state to what it has read: in these
behaviours no worker of the node has an event in between.
The message count that the token carries plays no part: where tokens come in time the
sticky states alone suffice, and where they do not, the count is not enough.

### Asynchronous GVT

`TimeWarpAsynchronousGVTManagerProofs` proves about `TimeWarpAsynchronousGVTManager`,
for any number of nodes, threads, LPs, initial events, messages and computations:

| Theorem | States |
|---|---|
| `SpecFlagCoversWorkers` | `Spec => []FlagCoversWorkers`: the flag is never below the number of workers that have not reported |
| `SpecMinimumIsComplete` | `Spec => MinimumIsComplete`: when the master takes the node's minimum every worker has reported since the minima were reset |
| `SpecFlagCountsWorkers` | for `NumWorkers = 1`, `Spec => []FlagCountsWorkers` |
| `SpecColorsAgree` | for `NumNodes <= 2`, `Spec => []ColorsAgree` |
| `SpecGVTIsLowerBound` | for `NumNodes <= 2` and one worker with its queue each, `Spec => []GVTIsLowerBound` |
| `SpecUpdateIsLowerBound` | for the same, `Spec => []UpdateIsLowerBound` |
| `SpecImplementsGVTService` | for the same, `Spec => ImplementsGVTService` |

*Assumptions.*  None of the listed theorems assumes anything of timing: `Prompt` and
`FifoNodes` may be FALSE in all of them.  The first two hold in general: a stale report cannot make the
computation end too soon.  It can hand in a minimum that is out of date, and it can keep
the computation from ending (section 4).  The others are for the sizes at which the code
needs no luck: a node's only worker cannot be late
for its own computation (`SoleInv`), and with two nodes the next token comes over the
same link as the update (`InOrder`).  From three nodes, or two workers, on
section 4 has counterexamples.

The theorems follow from lemmas for any numbers of nodes and threads, under
`Orderly`, which is `Punctual` (`Prompt`, or one worker), `InOrder` (`FifoNodes`, or up
to two nodes) and `QueuePerThread` (as many schedule queues as threads, no migration):
`FlagCountsPunctual`, `ColorsAgreeInOrder`, `GVTIsLowerBoundOrderly`, `UpdateIsLowerBoundOrderly`,
`ImplementsServiceOrderly`.  They say that nothing but the timing named in section 4 is
wrong with the larger configurations; the shapes `Ring` and `Threads` of run `AsynchronousGVT` are
instances of them.  `QueuePerThread` cannot be dropped: run
`AsynchronousGVT_shared` has two threads on one queue, as the default configuration has, and there the bound fails.
(The properties of run `AsynchronousGVT` are stated over both
shapes, so they are not the theorems' formulas, and `PROJECT.json` links none to
the other.)

*The inductive invariant* `GVTInv` has these parts:

* `FlagInv`: during a local computation the flag is the number of workers that
  have not reported; between two it is 0, and a worker that is about to act on a
  flag above 0 has reported already.  The last part is what a stale report
  would break.  `SoleInv`: a single worker that is about to act on a flag has not reported.
  (`SpecFlagCoversWorkers` has an invariant of its own, `CoverInv`, which stale
  reports keep: one before the flag is stored is overwritten with it, one after counts for
  the worker that makes it, and between computations who acts on an old flag has reported already.)
* `TokenInv`: the token is at one node (`Holds`), or alone on the link to the next one, or
  there is none (`Ring`); which nodes are red, that is, have changed color for the computation
  that runs (`IsRed`), and how `initial_color`, the color that a node had before and
  which an update sets, fits to it (`Colors`).  `InOrder` is needed here: if the next token
  overtook an update the node would not change color.
* `CountInv`: for each color, the sum of all nodes' counts less the messages of that color
  in transit (`Off`).  It is 0 for the new color, and for the old one, `White`,
  it is what the token has taken along, with the opposite sign.  The white counts of
  red nodes are not positive, since red nodes receive white messages but send none.
  So when the token is back with a count of 0 or less (all nodes are red then), no white message
  is in transit and all white counts are 0.
* `ClientInv`: a thread holds events of its own LPs only.
* `Noted`: whatever is in transit in the new color some red node has in its `min_send`.
* `CutInv`, the heart of the proof.  The token visits one node after the other, and
  a white message may reach a node that it has passed.  Then that node's white count is
  below 0 (`Spoiled`) until the token comes by again, and by `CountInv` the round
  does not end the computation.  Unless that has happened, everything
  pending at the nodes passed, and every red message in transit, is covered (`Behind`): a minimum of the token, or
  the `min_send` of a red node that is still ahead of the token, is not later
  (`Covered`).  At the node that has the token `Reported` says the same of its threads: a pending
  event of a thread that *has* reported is not earlier than what some thread has
  reported or will (`Known`: a minimum, a `send_min` not yet used, or a send on its
  way into `send_min`), or than what the token knows.  Where threads share a
  queue `Reported` fails: an event may go from a thread that has yet to report to
  one that has.
* `Capped` and `FloorInv`: every GVT given or under way (`IsFloor`) is below all that is
  outstanding and below every minimum, clock and token from which the next GVT
  will be computed (`Under`); so the next one is not earlier either.

*The argument.*  Every step makes new work only out of work (`FromWork`), which
keeps `Under`.  When the token is back at node 0 with a count of 0 or less, nobody is
spoiled and no white message is in transit (`CountInv`), and since no node is ahead of
the token any more everything pending and every red message is covered by one of its two
minima (`CutInv`): the smaller one is a bound of all that is outstanding.

### Synchronous GVT

`TimeWarpSynchronousGVTManagerProofs` proves about `TimeWarpSynchronousGVTManager`,
for any number of nodes, threads, schedule queues, LPs, messages and computations:

| Theorem | States |
|---|---|
| `SpecWorkersStopped` | `Spec => []WorkersStopped` |
| `SpecNoWhiteInTransit` | `Spec => []NoWhiteInTransit` |
| `SpecGVTIsLowerBound` | for `NumNodes = 1` and `EveryQueueServed`, `Spec => []GVTIsLowerBound` |
| `SpecImplementsGVTService` | for the same, `Spec => ImplementsGVTService` |

*Assumptions.*  The first two theorems need none but the modules' own
(`SizesAssumption`: at least one node, worker and scheduler; `EventsAssumption`: times
are numbers, an LP has a node and a queue).  The other two are about a single node, with any
number of threads, and assume nothing of timing: `Prompt` and `Settled` may be FALSE.
`EveryQueueServed` is about the configuration: no
migration, which is the default (`Configuration.cpp:79`; section 4 shows what migration does), and
no more queues than workers, so that every queue
has a worker: worker `i` takes from queue `i` modulo their number, and what lies in
a queue nobody serves is in no minimum.  Workers may share a queue, as they do by
default, unlike in the asynchronous manager: here they all stop.

For several nodes the lemmas `GVTIsLowerBoundInTime` and `ImplementsServiceInTime` say the
same under `InTime`: one node, or `Prompt` and `Settled`, without which it fails (section 4).

*The inductive invariant* `Safe` has seven parts, each needing those before it:

* `BarrierInv`: which workers can be where, given where their master is, and what
  that says of the flag and the color; in it, that no worker passes the second
  barrier before the master has the result (`SpecWorkersStopped`).
* `CountInv`: the sum of `white_msg_count` over *all* nodes is the number of white
  messages in transit, at every moment, and when one node takes minima all do.  A single
  node's count may be negative, and nodes count while others still receive; only
  the sum that `SumAllReduce` forms, with every master waiting in it, says something.
  It is a fold of the community modules, over the nodes in an order nobody knows.  What
  a change of one count does to it needs induction over a finite set, which is done by
  hand: of the sets that lack the property take one with the least cardinality
  (`SumExists`, `SumChanges`).
* `ClientInv`: types, one holder per LP (`OneHolder`), and that a worker holds
  an event of a queue it serves.
* `StepInv`: all nodes have taken part in the same number of reductions.
* `TransitInv`: a red message in transit during a computation is not earlier than
  what some computing worker has in its `send_min`, or will put there as its next step
  (`Sender`).
* `PendingInv`: as long as minima are open at a node, a pending event is either
  not earlier than something that will be in a minimum (`Known`: a worker's report, a
  `recv_min`, a send on its way into `send_min`), or in a queue of which a worker has
  still to take its event (`ToBeTaken`).
* `FloorInv`: nothing that can still enter a minimum is earlier than the present
  GVT of any node; so the next GVT is not earlier either.

*The argument* is in `ReductionIsBound`: when the minima are reduced all nodes
are there, no white message is in transit (`CountInv`), each red one was sent by a worker
whose `send_min` has it (`TransitInv`), and everything pending is known or, the workers all
standing at the barrier, was left in a queue by a worker that took
something not later (`PendingInv`).

### File streams

`TimeWarpFileStreamManagerProofs` proves about `TimeWarpFileStreamManager`, for any set
of messages, any order of their arrival, any `StatePeriod`, with and without anti-messages:

| Theorem | States |
|---|---|
| `SpecNoOutputMissing` | `Spec => []NoOutputMissing` |
| `SpecCommittedIsFinal` | `Spec => []CommittedIsFinal` |

*Assumptions.*  `Configured`, a hypothesis of both: the messages are positive events, and
the time at which all ends is a number.

*The inductive invariant* `FileInv`: types; `InOrder`, the processed queue is in the order of
`operator<` or equal, as `insertEvent` and the rollbacks keep it; `Divided`, what is in the
file was received before the GVT and what is pending at or after it; and
`NoOutputMissing` itself.  The step that needs all of them is the rollback: it removes
requests from the back as long as the straggler is before them, restores a state that may be
older than the straggler, and writes again what the LP coasts forward over.  What it
removes belongs to events at or after the straggler, which are undone, so the output of those
kept stays.  Output may be requested *twice* here and committed twice
(section 4); nothing is lost.  `removeOutputRequestsAfter`, `commitOutputRequestsBefore` and
`TimeWarpEventSet::rollback` are loops that stop somewhere; `StripStops`, `Stripped` and
`CommittedCountIs` say where.

### Checkpoints

`CheckpointAndCommunicationProofs` proves, in its first part, about `GVTSynchronizedCheckpointManager`:

| Theorem | States |
|---|---|
| `SpecBlockedByCheckpoint` | `Spec => BlockedByCheckpoint` |
| `SpecCheckpointsCounted` | for `CountTillTermination # 0`, `Spec => []CheckpointsCounted` |

for any number of worker threads, any `interval` that an `unsigned int` holds and
any `CountTillTermination` (negative: never pause); these ranges are `Configured`, a
hypothesis of both.  Zero is
excluded because the master looks at `time_to_live` only after a checkpoint: 0 pauses with the
first one, as 1 does.

*The inductive invariants.*  `Waiting`: who is at the barrier is in the call, and once
the master is, the archive has both parts.  The barrier opens when as many threads wait
as there are, so all of them do (`BarrierIsFull`), the master included.  `Counted`: the
request is set and cleared between two iterations of the master's loop, and with `Made`,
the checkpoints completed or waiting for the barrier, `gvts = interval * Made + (interval -
remaining)` (`Countdown`) and `time_to_live = CountTillTermination - Made`
(`TimeToLive`); the simulation is paused if and only if the latter is 0 when the master is back in its
loop.  That nobody is left at the barrier does not hold (`AllExit`, section 4).

### Communication

The second part of `CheckpointAndCommunicationProofs` proves about
`TimeWarpMPICommunicationManager`:

| Theorem | States |
|---|---|
| `SpecNothingLostOrPassed` | `CommSpec => []NothingLostOrPassed` |
| `SpecAggregateFits` | `CommSpec => []AggregateFits` |

for any number of nodes, any `max_aggregate` but zero, and any events and control messages in
any order.  `AggregateFits` says that what is packed never exceeds what `initialize`
sized the buffers for; it is not in a run.

*The inductive invariant* `CommInv`: types, a message is in a queue of the node that inserted it
(`AtItsSender`), it has the number of its insertion (`Numbered`), `AggregateFits`, and
`AllInOrder`.  The last one lays out what can hold messages between two nodes as one row of
boxes, from what is handled over receives, MPI messages under way and the aggregate to the
send queue (`Row`), and says `InOrder`: the boxes hold exactly what was inserted, each message
in one place, and all but the first box are sorted by number.  Every step is one of a few moves in
such a row, each with a lemma: a box joins the handled one (`BoxHandled`: this may be any
receive, which is why the first box is not sorted), a box in which
the two nodes have nothing is added, such as a receive from a third node (`BoxAdded`), the head of the last box goes to the box before it (`HeadMoved`,
`HeadLeft` if it is for another node), a new message joins the last (`MessageJoined`).  The
lemmas compare places before and after the move.

*The loop* over the send queue in `startSendRequests` is the function `after` in `Aggregated`.
`Loop` says that an invariant of its body holds when it ends; it needs induction over
the number of iterations, done by hand: `LeastNumber` gives the least iteration at which the
invariant fails, and `Iteration` contradicts it.

*Checked by TLC only.*  Liveness and fairness; the refinements other than those
above; `LadderQueue` and `SplayTree`, which use RECURSIVE operators.


## 7 What is not modelled

* **Restart from a checkpoint** beyond the LPs: the archives of the event set and
  of the managers, and the main loop of `restartImpl`, which is compiled out
  (`#if 0`), so that a restarted node does not process events.  Messages under
  way are in no archive, and nothing makes the nodes restore checkpoints of the
  same GVT; `ArchiveIsConsistent` (section 4) says what is wrong with one node's.
  A restarted job appends its id to the file name once more
  (`Configuration.cpp:362`), `simulate` discards the status of `restart`, and
  both call `finalize`.  A crash during a restart only repeats it.
* The second overload of `simulate`, with a partitioner of the user's.  It differs in
  the partition, and in a restart it hands all LPs to every process.
* `PARTIALLY_UNSORTED_EVENT_SET`, a build option: the sorted variant is
  modelled, in the event set and the ladder queue.  The unsorted one does not
  compile: `TimeWarpEventSet.cpp:153` defines `lowestTimestamp` without the name of
  its class.
* The lazy parts of configuration: only the aggressive output manager and the
  periodic state manager exist in the code.
* The sleep that simulates rejuvenation (a delay; every interleaving it could
  cause is allowed anyway), statistics (counters nothing depends on), parsing
  of the configuration, MPI start-up, serialisation, random numbers, reading from
  streams.
* `ProfileGuidedPartitioner`: it reads a graph and calls METIS.
* The GVT managers are not composed with the dispatcher: the dispatcher takes
  the GVT they promise (`AdvanceGVT`), the managers take the discipline of the
  event set (`GVTClient`).  `GVTService` is the interface: each side is shown to
  keep it.


## 8 Plan

Done: the modules and runs above; safety of the event set, the dispatcher (its
refinement of the event set's client and of the GVT service, its rollbacks and
its states, and that it commits what the sequential simulation does), the ticket lock,
the GVT service, the partitioner and the set-up, counts and token of the termination manager, both GVT
algorithms for the sizes that need no assumption on timing, output streams, checkpoints and the communication
manager proved.

Next, in order of importance:

1. *Prove more.*
   * `OutputIsHistory` of the file streams where a state is saved after every event.
2. *Extend the model.*  The partially unsorted event set; a node that runs the
   asynchronous GVT manager, the termination manager and the communication
   manager together, so that the aggregation and the flush of the one are the
   transit of the others; several LPs and files in the file stream module;
   termination by the pause.
3. *Deepen.*  An abstract specification of an ordered channel that the
   communication manager implements.
