# A verification project for the native automation service

This directory holds TLA+ models of the native service under `src/next/native`
(C++20): the program that drives an Android game instance from a declared flow,
keeps the account of every input it sends, and must always be able to stop and
give the device back.  TLC checks the models on small instances; TLAPS proves
every property of theirs that is not a liveness property for every value of their
constants.

`PROJECT.json` names the components, the runs, the mutants of each property,
the source lines every definition stands for, the hazards and the theorems.

## 1. The system

    Vue console --HTTP--> routes --> Application --------> ProfileStore, WorkflowRepository
                                        |  session watcher, preparation thread, stop epochs
                                        |  SubmissionStore (receipts of requests)
                                        v
                              NativeRunCoordinator ------> RunStore / EventJournal
                                        |  worker thread      ExecutionPublication, BundleLease
                                        v                     DeviceLease (OS semaphore)
                              NativeExecutionSession
                                        v
                              FlowExecutor  (interprets a FlowProgram)
                                        v
                              NativeFlowPorts -- recognition::Service (pixels)
                                        v
                              NativeInputGate --> DeviceSession --> scrcpy channel
                                                        \--> lifecycle_execution

| component | state it keeps | operations |
|---|---|---|
| Application (`app/application.cpp`) | `stop_epoch_`, `cancel_operation_`, `stopping_`, `operation_`, `task_session_active_`, `handoff_status_`, two threads | admit a request, prepare, start, watch and repeat a session, stop, shut down |
| Run coordinator (`runtime/native_run_coordinator.cpp`) | `active_`, `execution_finished_`, `terminal_recorded_`, `stop_`, `session_`, the lease, the snapshot | `start`, `collect_finished_worker`, `request_stop`, `drive`, `worker_failed` |
| Execution session (`runtime/native_execution_session.cpp`) | stop source, the executor, the result | `run`, `request_stop` |
| Flow executor (`runtime/flow_executor*.cpp`) | the frame stack with receipts and resumes, observation recovery, exception timer | `tick` |
| Ports and input gate (`runtime/native_flow_ports.cpp`, `devices/native_input_gate.cpp`) | `stopped_`, one-shot frame evidence, counters | `capture`, `submit`, `stop`, `cleanup` |
| Device session and scrcpy channel (`devices/`) | `connected_`, `generation_`, the client with its process, socket, held contacts, `unresolved_` and `partial_frame_` | `connect`, `prepare_input_channel`, `execute`, `settle_observed_input`, `release_owned_inputs`, `disconnect` |
| Lifecycle execution (`devices/lifecycle_execution.cpp`) | the plan's deadline and attempts | `execute_lifecycle_plan` |
| Submission store (`storage/submission_store.hpp`) | receipts on disk, a read-only latch | `scan`, `replay`, `save` |
| Run store and journal (`storage/run_store.cpp`) | records, events, recent frames | append, save, enumerate, recover |
| Execution publication (`games/wvd/tasks/execution_publication.cpp`) | an execution slot: empty, ready, retiring | `prepare`, `bind`, `rollback` |
| Publication maintenance (`app/publication_maintenance.cpp`) | a journal and the directories it exchanges | `execute`, `finish`, `rollback`, each a process of its own |
| Workflow repository, profile store (`storage/`) | documents and their revisions | compare-and-swap, builtin transactions |
| Recognition (`recognition/`) | `used_`, `active_`, the decoded assets, `cancelled_` | acquire and release a ticket, load an asset, match, cancel |
| Web console (`web/src/stores/useRunSession.ts`) | the last status, the intent of a start, the reads and commands under way | poll, start, stop |
| WVD state (`games/wvd/state.cpp`) | business counters, segments | confirm, checkpoint, handoff |
| Program validation and compilers (`workflow/`, `authoring/`) | none | translate and validate documents |

What makes them hard: three kinds of threads share the coordinator (HTTP
callers that start, HTTP callers that stop, one worker), the session object is
reachable from a stopper while its worker replaces it, a stop may arrive at any
of those points, above them the application prepares on one thread and repeats on
another under flags that a later request clears, an input may be delivered although the call failed, several
frames of one stack may owe a receipt while events and restarts unwind it, and
the service may crash between any two writes to disk.

### What correct means, per component

* Run coordinator: one accepted request is one run; the device lease lasts
  exactly as long as the run may touch the device; a stop is never lost; a
  verdict is earned; no input is repeated over an unknown one; no caller joins a
  live run.
* Execution session: a stopped session sends nothing more, releases its inputs
  before it reports, and says so when it could not.
* Flow executor: a receipt is closed only by evidence or by a declared
  exception; nothing is sent over an unknown delivery; handlers and replans
  point at frames that exist; restarts are bounded and never taken for results.
* Application: at most one preparation or session; a stop that was accepted stops
  what it was meant for; a request accepted before a crash is never run twice.
* Device channel: a frame is sent whole or the channel is given up; what is
  pressed is released; a rejected input was not delivered.
* Recovery: a command to the device rests on an observation younger than the
  command before it; what a recovery has started it does not kill; a session
  begins on a device that is ready.
* Stores: after a crash in any write the slot, receipt or exchange can be
  finished or rolled back; what a run executes stays as long as it is needed.
* Recognition: the budget counts what is held; nobody waits for room that only he
  can free; a stop ends every wait.
* Console: a wish runs at most once, however often its start is sent; a start is
  offered on a current state only, and is offered again once the service rests.

## 2. Modules

| module | models | notes |
|---|---|---|
| `RunCoordinator` | coordinator, session, ports and lease | one action per critical section, atomic read or device call of each thread |
| `RunContract` | what the coordinator promises the application | refined by `RunCoordinator` |
| `RunCoordinatorInv`, `RunCoordinatorProofs` | the inductive invariant and the theorems | |
| `FlowExecutor`, `FlowExecutorProofs` | `FlowExecutor::tick` over the frame stack; its theorems | one action per kind of tick |
| `InputLedger` | the account of inputs | refined by `FlowExecutor` |
| `TaskSession`, `TaskSessionProofs` | the application above the coordinator, with the receipts of requests on disk | the coordinator is an instance of `RunContract` |
| `InputChannel`, `InputChannelProofs` | gate evidence, device session, scrcpy client, and the guest that receives | one action per call of the worker, per message sent, per event of the environment |
| `DeviceRecovery`, `DeviceRecoveryProofs` | `recover_observation` and `execute_lifecycle_plan` over a device that changes on its own | one action per call, observation or deadline |
| `ExecutionSlot` | the directory packages are executed from, from preparation to the worker's end | one action per write or deletion |
| `DirectoryExchange` | the journalled conversion of a published directory | one action per journal entry or move |
| `DataRootLock`, `DataRoot`, `DataRootProofs` | the lock of a data root; service and tool over it; theorems about all three | composes the two before |
| `Matching`, `MatchingProofs` | the memory budget and the asset cache of recognition; its theorems | one action per critical section of a leaf's thread |
| `RunConsole`, `RunConsoleProofs` | the page that shows and commands the run, the service as it sees it, what lies between; its theorems | |
| `MC...` | instances for TLC | |

How they fit: `TaskSession` stands on `RunContract`, which `RunCoordinator` is
proved to implement; `RunCoordinator` abstracts a flow to one receipt and its end,
which `FlowExecutor` models in full and maps to `InputLedger`; what `FlowExecutor`
takes as the three answers of a submission is what `InputChannel` derives from
messages, sockets and stops; what it takes as the answer of a recovery, and
`RunCoordinator` as the outcome of a plan, is what `DeviceRecovery` derives from
the device.  `ExecutionSlot` follows the package of the run that `TaskSession`
prepares; `DataRoot` puts it beside the maintenance tool.  `RunConsole` sees the
service through its requests.

### RunCoordinator

Threads are program counters: `spc` for callers of `start` and
`collect_finished_worker` (which serialise on `start_mutex_`), `tpc` for callers
of `request_stop`, `wpc` for the worker.  The members of the coordinator keep
their meaning: `active` is `active_`, `execFinished` is `execution_finished_`,
`termRecorded` is `terminal_recorded_`, `session` is the identity of the object
behind `session_`.  A session object is the pair of its run and its generation, so
that a stopper which still holds an older object (`held`) is told from one which
holds the worker's (`sid`).

`drive()` is followed point by point: creation of the business state and the
initial lifecycle plan, the loop over units, the recovery loop with its sessions,
the decision table after a session (`MustNotRecover`), the plan loop with its
deferral, and the finalisation in its order: `execution_finished_`, the device's
own release, the verdict, its override by a handoff or an external block, saving,
and the last critical section.  `DriveThrows` stands for every call inside the
`try` block that may throw; `AbortRelease` and `AbortRecord` are `worker_failed`.

The session abstracts the executor to one receipt (`none`, `sent`, `unknown`) and
the end its flow reports.  The gate's admission and the device call are separate
steps, so that a stop falls between them.

### FlowExecutor

The program is the most general one: a selection may lead to any kind of step,
as long as an input is followed by its `AwaitResult`, which
`FlowProgram::validate` enforces.  Recognition, clocks and deliveries are
choices.  A frame is `[at, event, owner, pending, resume]`; the account of
receipts that the ledger needs (`sent`, `settled`) is kept beside it.

### TaskSession

`caller` is a thread inside `start_task`, `start_workflow`, `start_combat_debug` or
a device job (`command_mutex_` lets one in at a time), `stopper` one inside
`stop_run`, `main` the thread of `request_shutdown` and `stop`; `pc["job"]` is
`device_worker_` and `pc["session"]` is `handoff_worker_`.  Each critical section of
`mutex_` and each access to an atomic is a step, so a stop falls between the last
look at `cancel_operation_` and the publication by the coordinator.  A receipt of
`SubmissionStore` is absent, preparing, submitted, cancelled or failed; a save may
fail before or after its write, and `Crash` loses everything but the receipts, from
which `Scanned` decides whether the store accepts writes.

Left out: the rule that the coordinator answers a repeated start with a snapshot
(`replay` answers first, so it is not reached), the stop token of the `jthread`s
(nobody reads it), budgets of storage (they are refusals, which may happen anyway),
and the handlers of the same file that keep no state of a session.  A start whose
run was accepted and which throws afterwards is in: the receipt says failed, the run
lives, and the watcher must stop it.

### InputChannel

The worker of the run makes every call under `dispatch_mutex_`, so one program
counter suffices: `ready` between calls, `context` and `execute` inside `submit`,
`check` and `put` around each message, `opening` inside a handshake.  `stopped` and
`token` are set one after the other, without a lock, at any of those points.  A
frame is the channel and the connection it was taken under.  A command is a sequence
of messages; a send hands over a whole message, a part of one, or nothing.

`Closing` is `ScrcpyControlClient::close` with everything it may leave: releases not
sent, a process or forward that resists, a file on the device.  `Releasings` adds
what `release_owned_inputs` does with the answer, also when the instance has exited.
The other side is the environment: `wire` is what the socket has accepted and the
guest has not received, `pressed` what the guest holds; a connection may break
without being seen (`lost`) or visibly (`closed`), the guest may exit and restart.
A release that was handed to a connection nobody knew to be broken cannot be counted
against the code; the model keeps such contacts in `mislaid` and nothing else is
excused.

Left out: `vpn_ui_step`, which submits a click past the gate while the VPN dialog is
open during a recovery (the executor observes again afterwards); the capture helper,
but for a close that fails; pixels and coordinates.  `Disconnect` and `Connect` may
happen whenever the worker is between calls, more often than `recover_observation`
asks for them.

### DeviceRecovery

The device is the instance (`off`, `booting`, `on`), its ADB transport, the game and
the VPN; `Trouble` changes any of them for the worse at any time, a boot and a return
of the transport happen on their own.  `mode` says who has the device: a plan of the
coordinator, a session with its executor, or nobody any more.  `at` is the next call
of `recover_observation`, whose members `recovery_*_` are `flags` and outlive a
session; `forced` is the executor's demand for a restart.  A game that was gone at the
look counts as started once the VPN is there (`vpnGone` keeps what was seen).  A plan is its remaining
operations, its last observation, and the two deadlines as flags; `step` separates
the look at the device from the command and from the wait for its effect.  A command
may fail after it took effect.  `fresh`, `ours`, `restarted` and `report` are history,
for the properties only.  A target with a VPN puts one operation into a plan (`VpnStep`).
The plan a continuation of a run begins with, the VPN at most, is left out.

### ExecutionSlot, DirectoryExchange, DataRoot

On disk the slot is a root, the record `state.json` and the directory `current`; every
directory that is made has a new identity, so that a record that names another is
seen.  `at` is the next write or deletion of `prepare` and `bind`; each may fail, and
`SlotCrash` may take its place, with or without the write having happened.  A package
that somebody has open (`readers`) cannot be deleted.  `runs` is what a run's
directory says of its package and its result.

The exchange keeps an entry per transaction with the phase of the journal, and where
the original and the converted directories really are; the tool's next step is `tool`.
A command is a process: it ends with an error or dies, at any step, and the next
command reads the journal again.  A copy that was cut off leaves the stage partial, or
still empty, which the next `finish` copies into again.  `DataRoot` lets service and tool take the lock file
one after the other and has the service read the journal under it.

### Matching

A leaf is one template match on one of the threads of its service: it loads the image
through the cache (decoding needs a ticket of its own), waits for its ticket, may load
a mask under it, matches, and gives back.  A request beyond the target is admitted
alone.  `Cancel` sets the service's flag without the budget's mutex, as the code does;
its wait has a period, so a lost notification delays the look at the flag and no more.
A decoder gives its ticket back when it leaves its scope, also with an exception, before
the loader writes the error into the entry (`DecodeFails`, then `LoaderFails`).
A leaf waits in two ways, for room in the budget and for another leaf's decoder.
`SomebodyGoesOn` says that the two never close to a circle; it fails as soon as the
decoder of a mask asks for a ticket of its own.

### RunConsole

On the page, `submit` and `stop` are how far the two commands are (sent, waiting for
the read under way, reading), `flight` is the one read under way, `shown` the status it
last brought, `intent` the identity of a start that may be sent again.  Between page and
service, a start may be lost, answered late, or handled after the page gave it up; a
stop has a thread of its own in the service and is handled or lost before it is given
up.  The service is what these requests touch: `submission_`, the job that prepares,
the receipts on disk, the coordinator's snapshot beside `active_run_id_`, which follows
it one step later (an answer in between is incoherent).  A start that is admitted may
still fail before its job exists, with or without a receipt on disk, whole or
unfinished (`FailToQueue`).  The job looks at `cancel_operation_` a last time before the
coordinator publishes (`LastLook`); a stop in between does not reach it.  `Restart`
replaces the process behind the page; unfinished receipts close its store.  `latest` and
`wish` are history.

Left out: repeats and handoffs as the page shows them, the device panel, the editors,
a job whose last receipt cannot be written (`TaskSession` has it), and the events, which the page never takes (section 5).

## 3. Runs

| run | question | result |
|---|---|---|
| `Run` | a starter, a stopper, the worker, two runs of two sessions each, other processes, fair threads | all invariants, the action properties and the refinement of `RunContract` hold, and a stop leads to a recorded end |
| `Flow` | a repeatable menu, a protected skill, two inputs with business effects (one of them routed), an event and restarts, three frames, two receipts | receipts, attempts and restarts are handled; refines `InputLedger` |
| `TaskSession` | a repeated task and a workflow, two runs, a stop or a shutdown, a crash | admission, receipts, repeats and the reach of a stop into a session hold |
| `TaskLiveness` | one repeated task, a stop, fair threads | a stopped session gives its admission back |
| `InputChannel` | two sessions, two handshakes, a reconnection, a fault, a stop at any point | what is sent, held, released and answered agrees |
| `DataRoot` | two packages over three slots and three runs, two transactions of the tool, crashes anywhere | the slot stays usable, packages stay as long as needed, the journal is enough, the service never sees half an exchange |
| `Recovery` | two troubles, two sessions, the plans between them | commands follow observations, a session begins on a ready device, a started game is not killed, plans end |
| `Matching` | two threads of one service and one of another, below, at and beyond the target | the budget adds up, the leaves never all wait, tickets come back, a stop frees its service |
| `Console` | two wishes pressed twice, a stop, a restart of the service, every loss and delay | a wish runs once, offers are current, a service at rest is offered again |
| `WorkflowStop` | does an accepted stop reach a workflow's run? | no: see findings |
| `HandoffStop` | does a session that is over leave no handoff in progress? | no: see findings |
| `StaleRecovery` | is a reported restart one of this session? | no: see findings |

Every property of a passing run has a mutant in `PROJECT.json`: a plausible slip in
one definition, kept in the module beside it under a comment that begins with
"Slip", which makes TLC violate the property under the same configuration.  Some
properties are conjunctions of named parts; the parts are stated beside them.

Bounds.  In `Run`, `MaxRuns = 2` is the least with a later run a delayed stopper may
meet, and two sessions the least with one built from an earlier one; one starter and
one unit suffice there, because liveness is checked in the same run and the safety
properties are proved for every number of callers and units.  Three frames allow an
event over a call, an event over an event and a restart over either; two receipts
allow one of unknown delivery under or above another, and two attempts allow a retry.
`Submissions` gives the menu two submissions, the payment one, the routed payment no
limit of its own.

In `TaskSession`, `Target = 2` and two runs are the least with a repeat, or with a
task followed by a workflow; one stop suffices because each further stop only sets
the same flags again, except that the epoch then differs by more than one, and one
crash gives a second process that reads the receipts of the first.  A stop before the
crash and none after it (`MaxStops` counts both): the second process starts from the
initial state but for its receipts.  The liveness run has no crash, since a crash ends
every obligation.  In `InputChannel` the commands are a swipe (which contains the
click), a touch and a key that stay down, and a pressed key; two channels, so that
evidence, remains and contacts of one meet the other; three generations, a connection,
its end and the next; two sessions, so that a gate is sealed, cleaned up and followed;
one fault, a connection that breaks or a guest that exits.  A command begins with at
most one message of earlier ones still on the way.

In `DataRoot`, two revisions are the least with a change of package, three slots and
runs the least in which a slot is made, replaced, and reused after both; two
transactions the least in which one finds the other's original.  In `Recovery`, one
trouble fails a session and the second the plan that answers it; four generations let
both recoveries reconnect.  In `Matching` the sizes are one below the target, the
target, and one beyond it.  In `Console`, two presses repeat a start or make a second
wish, two instances are the least with a restart.

Deadlock.  The coordinator always has a possible step (another process may take
or return the semaphore), and the channel may always be cleaned up once more:
deadlock is checked there.  An executor whose flow ended stops; a service, a data root,
a device and a recognition without requests rest; a page that may not press again
waits: there it is not.

Fairness.  Nobody is obliged to start or stop, and a session may tick for ever unless
it is told to stop.

* `RunCoordinator`: the worker is one thread and each call it makes into the device is
  bounded or cancellable by the stop, so it is weakly fair; callers finish calls they
  began.
* `TaskSession`: every thread inside a call goes on.  The job and the session are
  strongly fair, because they wait for `command_mutex_`, whose owners keep it for a
  start only and never for a run.  A run ends once it was stopped, which is
  `StopEndsRun` of the coordinator, and its end is recorded; nothing says that a run
  ends by itself.
* `DeviceRecovery`: the clock raises a deadline in the end, an instance that boots comes
  up, the foreground settles, and the worker goes on with its plan.
* `Matching`: each thread of a leaf goes on when it can.
* `RunConsole`: the page's timer and its ten-second limits run, the thread of a stop is
  never busy for ever, and of the statuses asked for some come (strong fairness of the
  view and of its arrival); nothing says that a start is ever handled.

## 4. Proofs

`RunCoordinatorProofs` proves, for every number of callers, requests, units,
sessions and runs:

    InvHolds             Spec => []Inv
    TypesHold            Spec => []TypeOK
    LeaseTheorem         Spec => []LeaseHeldUntilQuiescent
    CompletedTheorem     Spec => []CompletedIsEarned
    StopTheorem          Spec => []StopDecidesOutcome
    PublicationTheorem   Spec => []WorkerOwnsPublication
    JoinTheorem          Spec => []JoinsOnlyRecordedRuns
    OwedTheorem          Spec => []OwedInputsAreReported
    VerdictTheorem       Spec => []VerdictIsTrue      (Completed and Stop together)
    AccountTheorem       Spec => []RunIsAccounted     (Publication, Join and Owed)
    RequestTheorem       Spec => RequestRunsOnce
    SettledTheorem       Spec => NextSessionOnlyFromSettled
    ContractTheorem      Spec => ImplementsContract

The only assumption is `ConstantsAssumption` of `RunCoordinator`.  None of the
properties is inductive.  That a published Completed is earned depends on the
verdict the worker holds several steps before it publishes (`VerdictInv`), which
depends on the failure and receipt it carried through the recovery loop
(`DriveInv`, `ReceiptInv`); that the lease and `active_` agree depends on what a
starter has established before it reaches each of its points (`StarterInv`), and
on what the worker's position says about the control flags (`ControlInv`).
`Inv` is their conjunction.  The proof has one lemma per action; the action
properties and the refinement follow from `Inv` and the same case split.

`RunConsoleProofs` proves, for every set of wishes, of requests on their way and of
restarts of the service:

    InvHolds             Spec => []Inv
    TypesHold            Spec => []TypeOK
    WishTheorem          Spec => []WishRunsOnce
    OfferTheorem         Spec => []OffersAreCurrent

The only assumption is `ConsoleAssumption` of `RunConsole`; the fairness of the run is
not needed, and `FairSpec` implies `Spec`.  `WishRunsOnce` rests on `WishInv`: a copy of
a start carries the identity of its wish wherever it is, a wish that ran is in the
receipts, which outlive the service, and a job that prepares has not run its own.
`OffersAreCurrent` rests on `OfferInv`: while what is shown may be older than the answer
to a command, that command is still under way, waiting for a read that was asked for
after it.

`FlowExecutorProofs` proves everything the `Flow` run checks, for every program, depth of
the stack, number of receipts and of submissions:

    InvHolds             Spec => []Inv
    TypesHold            Spec => []TypeOK
    ReceiptsTheorem      Spec => []ReceiptsAreKept
    RestartsTheorem      Spec => []RestartsAreHandled
    GivenUpTheorem       Spec => GivenUpIsRepeatable
    LedgerTheorem        Spec => ImplementsLedger

The only assumption is `ExecutorAssumption`, what `FlowProgram::validate` and the build
guarantee of a program.  `StackInv` adds to the properties what makes them inductive: levels above the stack
are blank, a handler has an owner, so the root is none and no restart cuts it off, and
the identities of receipts are issued once, owed at one level, and not settled.  A few
lemmas say what becomes of it when the top changes, something is put on top, or the stack
is cut; each action has one that cites them and says what it does to the account:
`Accounted` (nothing new; what is gone was settled or may be given up), `Issued` or
`Reissued`.  The refinement and `GivenUpIsRepeatable` need only these three.  `ModeInv`
shows that a restart that was done is neither forgotten nor demanded again, `TimerInv` that
one the exception timer forces waits for the device over known deliveries only, since the
program stands still until it is done.

`TaskSessionProofs` proves the safety that the `TaskSession` run checks, for every set of
tasks, workflows and repeated tasks, every target, and every number of runs, stops and
crashes:

    TaskHolds            Spec => []TaskInv
    TypeTheorem          Spec => []TypeOK
    SessionTheorem       Spec => []SessionOwnsItsRuns
    RequestTheorem       Spec => RequestsAreAccounted
    RepeatTheorem        Spec => RepeatsAreEarned

The only assumption is `SessionAssumption`.  `ThreadInv` says who is where: while the job
starts a task its session exists and awaits the signal, so a run has an owner before it
begins.  `OwnerInv` says whose the open run is, and that a watcher which leaves it owns it.
`StopInv` is why a stop cannot fall between the last look at the flags and the
publication: a stop since the admission is in the flags, or its stopper is about to set
them (`Heard`), and a session that has left its run without asking it to stop left it while
there was nothing to hear, so whoever stops it later still has to ask the coordinator.
`AdmissionInv` and `ReportInv` follow a request from its look-up to its last receipt,
`CycleInv` the count of the cycles.  The coordinator is the instance of `RunContract`,
which `ContractTheorem` justifies.

`InputChannelProofs` proves the five invariants of the `InputChannel` run, for every set of
commands and every number of channels, connections, sessions and faults:

    ChannelHolds         Spec => []ChannelInv
    TypeTheorem          Spec => []TypeOK
    SentTheorem          Spec => []SentAsReported
    ContactsTheorem      Spec => []ContactsAreKnown
    StopTheorem          Spec => []OneAfterStop
    OpenDeliveryTheorem  Spec => []OpenDeliveryBlocks

The assumption is `ChannelAssumption`: a command is a sequence of at least one message, and
presses a key with its first one only, because the codec makes a key down a command of its
own (`scrcpy_codec.cpp:95-100`), which the client records before it sends
(`scrcpy_control.cpp:218-219`); a later key down would be sent and not recorded.  The proof
attempt found that this had to be said.  `Outstanding`, what the guest holds or will hold
once the wire is read, is the sum that every step moves between client, wire and guest:
the lemmas say what a message sent, read, lost or released does to it.

`DeviceRecoveryProofs` proves the safety of the `Recovery` run, for every number of
troubles, sessions and connections, with a VPN or without:

    RecoveryHolds        Spec => []RecoveryInv
    TypeTheorem          Spec => []TypeOK
    CommandTheorem       Spec => []CommandsFollowObservations
    StartedTheorem       Spec => StartedGameIsNotStopped
    ReadyTheorem         Spec => ReadyMeansReady

`RecoveryAssumption` asks for one session and one connection at least: a run begins with a
session of generation 1.  `PlanInv` is the shape of a plan, which ends with its only start of
the game and, once it has started it, has no stop left; `ForcedInv` says that an attempt
past its stop has noted it.

`DataRootProofs` proves the invariants of the `DataRoot` run, the exchange's included,
for every set of packages and every number of slots, runs, transactions and crashes:

    DataRootHolds        Spec => []DataRootInv
    TypeTheorem          Spec => []TypeOK
    PackagesTheorem      Spec => []PackagesAreKept
    SlotTheorem          Spec => []SlotStaysUsable
    PublicationTheorem   Spec => []ServiceSeesWholePublication
    JournalTheorem       Spec => []JournalIsEnough

from `SlotAssumption` and `ExchangeAssumption`.  The exchange: an entry agrees with the
identities on disk (`EntryFits`) and with where its two directories are (`DirsFit`), every
transaction but the last was rolled back (`Latest`, `Past`), the running command stands on
what its point needs (`ToolFits`), and the service holds the lock over terminal entries only
(`LockFits`).  The slot: one thread at a time with its readers (`ThreadInv`, `RunInv`), the
record saved before the first deletion and after the last (`RecordInv`), changes only while
no run is open and packages that are accepted or marked (`PackageInv`), and, while the disk
obeys, nothing open but what the running step takes away (`CleanInv`).  The two are proved
apart, because each leaves the other's variables alone, and meet in the lock.

`MatchingProofs` proves the safety of the `Matching` run, for every finite set of leaves,
every assignment of them to services, every size of their matches and every target:

    MatchingHolds        Spec => []MatchingInv
    BudgetTheorem        Spec => []BudgetKept
    DeadlockTheorem      Spec => []SomebodyGoesOn

`MatchingAssumption` says that the leaves are finitely many, as threads are, that sizes are
positive, and that a decoder alone fits into the target.  The bytes of the tickets are a sum
over the leaves; to follow it without induction it is stated as the number of the units that
leaves have (`Units`), which one leaf's ticket enlarges or diminishes by a disjoint set.
`BudgetKept` is inductive with `TicketInv`: who asks for a ticket has none (`WithoutTickets`),
so a grant never overwrites one; a decoder's ticket ends with the decoder; the image comes
before the match's ticket.  A budget beyond its target has one holder, so that what is left
when it leaves is nothing (`BudgetGetsBack`).  `CacheInv` finds a loader for each entry that
is being loaded (`LoaderInv`), and a mask's loader under the ticket of its match
(`MaskFits`).  A ticket holder that waits therefore waits for a holder that does not, and
where there is no holder there is room for every ticket: `SomebodyGoesOn`.  That a leaf which
can go on does so is fairness, and `HeldTicketReturns` is left to TLC.

The proofs led to these changes of the models, none of which changed a reachable state
of the runs: guards of some `CASE`s overlapped, where TLC takes the first and the logic
takes any; two unions were written so that the two parsers read them differently; the sum in
`Matching` was a fold; and three assumptions on constants, given above, had to be stated.

Only model-checked:

* every liveness property (`StopEndsRun`, `StoppedSessionEnds`, `RecoveryEnds`,
  `HeldTicketReturns`, `StopFreesRecognition`, `RestIsOffered`), beyond the prover.  Every
  other property of the passing runs is a theorem.

## 5. Findings

* `WorkflowStop`: `start_prepared_run` looks at `cancel_operation_` before the
  coordinator publishes the run; a stop in between is answered as accepted and stops
  nothing.  A task is rescued by its watcher, which stops the run it finds
  (`StopReachesSessions` holds); a workflow or a combat debug has no watcher and runs on.
* `HandoffStop`: the watcher publishes the handoff as starting after its last look at
  the flags; a stop in between has already written cancelled, which is overwritten, and
  the session leaves with the status still starting.  Every device job is then refused
  until another stop or a restart.
* `StaleRecovery`: `recover_observation` clears its members only when it succeeds.  A
  session that fails in the middle of a recovery leaves them to the next one, which
  reports a restart that did not happen in it, may not launch an instance that exited,
  and may leave out a forced stop.

Met while modelling, and not checked by a run of their own:

* The console never takes a page of events.  `run_status` names the instance
  `server_instance_id` (`application.cpp:1528`), the page compares `instance_id` of the
  status, which is undefined, with that of the page of events
  (`useRunSession.ts:47-51`, `application.cpp:2617`); they never agree.
  `core-contracts.md:53` says events are read by cursor and bound to instance and run.
  `TakeEvents` therefore takes nothing.
* A start that fails after the coordinator published its snapshot leaves the snapshot's
  run beside an older `active_run_id_`: every status is incoherent from then on, though
  `execution-notes.md:6` calls such a snapshot passing.  The page skips it, shows an
  unknown state after five seconds and offers no start until the service restarts or
  somebody else starts a run.  `RestIsOffered` leaves this state out (`AtRest`).
* A stop pressed before its start is registered is refused (`SUBMISSION_ID_MISMATCH`)
  before the stop epoch is raised, and the start goes ahead (`core-contracts.md:54`).
* `START_UNCONFIRMED` advises to stop first (`useRunSession.ts:90`), but a stop does not
  settle the intent of a start that never arrived; a refusal of a start that was sent
  again settles it, although the earlier copy may still be handled.
* `NativeExecutionSession::request_stop` cancels the token and then seals the gate, the
  opposite of the order `runtime/README.md:12` states.  The ports consult both, so no
  input of the executor gets through in between.
* The second critical section of `request_stop` does not check which run it speaks of
  (`native_run_coordinator.cpp:1145`): a stopper delayed over the end of its run marks
  the next one StopRequested, which runs on.
* A receipt that was registered and could not be finished leaves the store writable
  until the next scan, so two requests may be unresolved on disk, against the comment of
  `submission_store.hpp:16`.
* `device_session.cpp:518` asserts that a reconnection is a newer connection
  (`RECONNECT_GENERATION_NOT_ADVANCED`); a transport that comes back by itself between
  two looks fails a recovery that has succeeded.
* With a deadline of its own, a restart of the instance returns after the launch and does
  not connect (`lifecycle_execution.cpp:48-54`), so the plan always waits out its step
  (`docs/reviews/runtime/heal-panel-close-20261013.md:29`).
* An asset whose decoding failed stays in the cache as an error as long as its service.
* `devices/README.md:5` allows only releases after a stop.  `OneAfterStop` shows how far
  the code keeps that: one message that had passed its check when `stop()` returned may
  still leave, and no second one.

## 6. Not modelled, and the plan

The plan, in its order:

1. The exception timer with clocks: while one runs, a deadline turns into waiting, except
   for an input of unknown delivery (`flow_executor.cpp:360`).  `FlowExecutor` has what
   the timer does to the application, but deadlines as choices, so which of the two
   outcomes a deadline may have is not told apart.
2. The page over repeats and handoffs (`application.cpp:handoff_worker_`), of which
   `TaskSession` has the service's side.
3. The event journal of the run store: sequence numbers, cursors, the ring that keeps
   critical events, and the terminal record that is written outside its mutex.

Left out for good: what recognisers see in pixels; the workflow compiler and the
validators of documents (pure translations without state; what validation guarantees of
an input is an assumption of `FlowExecutor`); the editors of workflows and profiles,
which change documents under compare-and-swap and no run; the other files of the run
store beyond the success and failure of their calls (records read by people); the bookkeeping
of business segments, which is sequential and of which `RunCoordinator` keeps the
checkpoint and the unconfirmed effect; processes, pipes and windows of the operating
system; the former Python implementation.
