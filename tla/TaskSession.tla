---------------------------- MODULE TaskSession ----------------------------
(***************************************************************************)
(* The application above the run coordinator: admission of requests, the   *)
(* thread that prepares and starts a run, the watcher of a task session    *)
(* with its repeats and its handoff, stops, shutdown, and the receipts a   *)
(* request leaves on disk.  The coordinator is its contract, RunContract.  *)
(*                                                                         *)
(* Threads: a caller (start_task, start_workflow, start_combat_debug,      *)
(* connect_device, disconnect_device), a stopper (stop_run), the main      *)
(* thread (request_shutdown, stop), the job (device_worker_) and the       *)
(* session (handoff_worker_).  Callers exclude one another by              *)
(* command_mutex_, so one program counter stands for all of them.          *)
(***************************************************************************)
EXTENDS Naturals

CONSTANTS
  Tasks,         \* requests of start_task
  Workflows,     \* requests of start_workflow and start_combat_debug
  Repeating,     \* tasks with repeat
  Target,        \* their repeat_count, 0 for none
  NoRequest,     \* a device job without a submission
  MaxRuns,       \* bound: runs begun
  MaxStops,      \* bound: accepted stops, one less after every crash
  MaxCrashes     \* bound: ends of the process without a shutdown

Requests == Tasks \union Workflows

ASSUME SessionAssumption ==
  /\ Tasks \intersect Workflows = {}
  /\ Repeating \subseteq Tasks
  /\ NoRequest \notin Requests
  /\ Target \in Nat /\ MaxRuns \in Nat /\ MaxStops \in Nat /\ MaxCrashes \in Nat

VARIABLES
  (* Members of the application. *)
  command,        \* owner of command_mutex_: "free", "caller", "job", "session"
  epoch,          \* stop_epoch_
  cancel,         \* cancel_operation_
  stopping,       \* stopping_
  operation,      \* operation_ is "running"
  active,         \* task_session_active_
  handoff,        \* handoff_status_: "watching", "starting" or "over"
  (* Receipts of requests. *)
  disk,           \* the state of each receipt on disk
  readOnly,       \* submission_store_ refuses writes
  (* The caller, the stopper and the main thread. *)
  caller,         \* [at, req, epoch]
  stopper, main,
  (* The job: its request, the epoch it was admitted in, its failure. *)
  pc,             \* program counters of "job" and "session"
  job,            \* [req, epoch, failure]
  signal,         \* start_signal
  (* The session. *)
  owns,           \* owns_batch
  cycles,         \* completed_cycles
  next,           \* the run it starts next: a cycle, or 0 for the handoff
  (* The coordinator: its contract, and what the application reads besides. *)
  run, phase, asked, verdict,
  executed,       \* execution_finished_
  launched,       \* the worker passed its latch
  request,        \* request_id_: [req, cycle]
  (* For the properties and the bounds. *)
  begun,          \* requests that have had a run
  crashes

appVars     == <<command, epoch, cancel, stopping, operation, active, handoff>>
storeVars   == <<disk, readOnly>>
frontVars   == <<caller, stopper, main>>
jobVars     == <<job, signal>>
sessionVars == <<owns, cycles, next>>
contractVars == <<run, phase, asked, verdict>>
runVars     == <<contractVars, executed, launched, request>>
vars == <<appVars, storeVars, frontVars, pc, jobVars, sessionVars, runVars, begun, crashes>>

Coordinator == INSTANCE RunContract

-----------------------------------------------------------------------------
Actors == {"job", "session"}
Asleep == {"none", "exited"}

NoRun == [req |-> NoRequest, cycle |-> 0]
Idle  == [at |-> "idle", req |-> NoRequest, epoch |-> 0]
NoJob == [req |-> NoRequest, epoch |-> 0, failure |-> "none"]

Init ==
  /\ command = "free" /\ epoch = 0 /\ cancel = FALSE /\ stopping = FALSE
  /\ operation = FALSE /\ active = FALSE /\ handoff = "over"
  /\ disk = [r \in Requests |-> "absent"] /\ readOnly = FALSE
  /\ caller = Idle /\ stopper = "idle" /\ main = "serving"
  /\ pc = [a \in Actors |-> "none"]
  /\ job = NoJob /\ signal = 0
  /\ owns = FALSE /\ cycles = 0 /\ next = 1
  /\ Coordinator!Init /\ executed = FALSE /\ launched = FALSE /\ request = NoRun
  /\ begun = {} /\ crashes = 0

Cancelled == cancel \/ stopping

\* run_active(): the coordinator is active_, quiescent or not.
RunActive == phase \in {"open", "held"}

\* coordinator_->wait_for_worker: terminal_recorded_.
Recorded == phase # "open"

\* coordinator_->request_stop(): without effect on a run that is over or not yet
\* published.
RequestStop ==
  /\ IF phase = "open" /\ ~executed THEN Coordinator!Ask ELSE UNCHANGED contractVars
  /\ UNCHANGED <<executed, launched, request, begun>>

\* submission_store_->save: written, or not, after which scan() and block() have
\* made the store read-only, unless it was the look at the old receipt that failed.
SaveSucceeds(r, state) ==
  /\ ~readOnly
  /\ disk' = [disk EXCEPT ![r] = state]
  /\ UNCHANGED readOnly

SaveFails ==
  /\ readOnly' \in {readOnly, TRUE}
  /\ UNCHANGED disk

-----------------------------------------------------------------------------
(* A caller, under command_mutex_ from its first step to its last.         *)

CallerMoves(at) == caller' = [caller EXCEPT !.at = at] /\ UNCHANGED command
CallerLeaves    == caller' = Idle /\ command' = "free"
CallerFrame     == UNCHANGED <<epoch, stopping, active, handoff, stopper, main, signal,
                               sessionVars, runVars, begun, crashes>>

\* The stop epoch is read first; connect and disconnect have no request.
Call(r) ==
  /\ caller.at = "idle"
  /\ command = "free"
  /\ command' = "caller"
  /\ caller' = [at |-> IF r = NoRequest THEN "spawn" ELSE "admit", req |-> r, epoch |-> epoch]
  /\ UNCHANGED <<cancel, operation, storeVars, pc, job>>

\* Slip: an old request is not looked up.
SeenNever(r) == FALSE

\* submission_store_->replay finds the request.
Seen(r) == disk[r] # "absent"

\* Slip: the status of the handoff is trusted for the end of the session.
OverByStatus == handoff = "over"

SessionOver == ~active

\* queue_run's checks, a read-only store and a lack of storage included.
Admissible ==
  /\ ~readOnly
  /\ ~stopping
  /\ epoch = caller.epoch
  /\ ~RunActive
  /\ ~operation
  /\ SessionOver

Admit ==
  /\ caller.at = "admit"
  /\ \/ ~Seen(caller.req) /\ Admissible /\ CallerMoves("register")
     \/ CallerLeaves
  /\ UNCHANGED <<cancel, operation, storeVars, pc, job>>

Register ==
  /\ caller.at = "register"
  /\ \/ SaveSucceeds(caller.req, "preparing") /\ CallerMoves("spawn")
     \/ SaveFails /\ CallerLeaves
  /\ UNCHANGED <<cancel, operation, pc, job>>

\* start_device_job's checks.
Startable ==
  /\ ~stopping
  /\ ~RunActive
  /\ SessionOver
  /\ handoff \notin {"watching", "starting"}
  /\ ~operation

\* The old job is joined and the flag of earlier stops is cleared.
Spawn ==
  /\ caller.at = "spawn"
  /\ Startable
  /\ pc["job"] \in Asleep
  /\ cancel' = FALSE
  /\ operation' = TRUE
  /\ pc' = [pc EXCEPT !["job"] = "begin"]
  /\ job' = [req |-> caller.req, epoch |-> caller.epoch, failure |-> "none"]
  /\ CallerLeaves
  /\ UNCHANGED storeVars

\* A check fails, or the thread cannot be created (933 has cleared the flag then):
\* a registered request is reported as failed.
Refuse ==
  /\ caller.at = "spawn"
  /\ \/ ~Startable /\ UNCHANGED cancel
     \/ Startable /\ pc["job"] \in Asleep /\ cancel' = FALSE
  /\ IF caller.req = NoRequest THEN UNCHANGED storeVars
                               ELSE SaveSucceeds(caller.req, "failed") \/ SaveFails
  /\ CallerLeaves
  /\ UNCHANGED <<operation, pc, job>>

CallerProceeds == (Admit \/ Register \/ Spawn \/ Refuse) /\ CallerFrame

Caller == CallerProceeds \/ ((\E r \in Requests \union {NoRequest} : Call(r)) /\ CallerFrame)

-----------------------------------------------------------------------------
(* stop_run, request_shutdown and stop.                                    *)

StopMoves(from, to) == stopper = from /\ stopper' = to
StopFrame == UNCHANGED <<command, stopping, operation, active, storeVars, caller, main, pc,
                         jobVars, sessionVars, crashes>>

StopEpoch ==
  /\ epoch + crashes < MaxStops
  /\ StopMoves("idle", "cancel")
  /\ epoch' = epoch + 1
  /\ UNCHANGED <<cancel, handoff, runVars, begun>>

StopCancel ==
  /\ StopMoves("cancel", "status")
  /\ cancel' = TRUE
  /\ UNCHANGED <<epoch, handoff, runVars, begun>>

\* handoff_status_: watching and starting become cancelled.
StopStatus ==
  /\ StopMoves("status", "request")
  /\ handoff' = "over"
  /\ UNCHANGED <<epoch, cancel, runVars, begun>>

StopRequest ==
  /\ StopMoves("request", "idle")
  /\ RequestStop
  /\ UNCHANGED <<epoch, cancel, handoff>>

StopperProceeds == (StopCancel \/ StopStatus \/ StopRequest) /\ StopFrame

Stopper == StopperProceeds \/ (StopEpoch /\ StopFrame)

MainMoves(from, to) == main = from /\ main' = to
MainFrame == UNCHANGED <<command, operation, active, handoff, storeVars, caller, stopper, pc,
                         jobVars, sessionVars, crashes>>

\* Every reader tests stopping_ beside one of the other two flags, so that they
\* count as set together.
Shutdown ==
  /\ epoch + crashes < MaxStops
  /\ MainMoves("serving", "request")
  /\ epoch' = epoch + 1 /\ stopping' = TRUE /\ cancel' = TRUE
  /\ UNCHANGED <<runVars, begun>>

ShutdownRequest ==
  /\ MainMoves("request", "joinJob")
  /\ RequestStop
  /\ UNCHANGED <<epoch, cancel, stopping>>

\* stop() joins the job, the session and the run in this order.
ShutdownJoin ==
  /\ \/ MainMoves("joinJob", "joinSession") /\ pc["job"] \in Asleep
     \/ MainMoves("joinSession", "joinRun") /\ pc["session"] \in Asleep
     \/ MainMoves("joinRun", "down") /\ Recorded
  /\ UNCHANGED <<epoch, cancel, stopping, runVars, begun>>

MainProceeds == (ShutdownRequest \/ ShutdownJoin) /\ MainFrame

Main == MainProceeds \/ (Shutdown /\ MainFrame)

-----------------------------------------------------------------------------
(* Starting a run: prepare_task and prepare_workflow, for the job and for  *)
(* the session.                                                            *)

Goto(a, from, to) == pc[a] = from /\ pc' = [pc EXCEPT ![a] = to]

\* Where an actor goes when its run started, and when it did not.
Started(a) == CASE a = "job"     -> IF job.req \in Tasks THEN "signalStarted" ELSE "note"
                [] a = "session" -> IF next = 0 THEN "leave" ELSE "wait"
Unstarted(a) == CASE a = "job"     -> IF job.req \in Tasks THEN "signalFailed" ELSE "receipt"
                  [] a = "session" -> "leave"

\* The failure of a preparation; the session keeps none.  Its handler reports
\* "blocked", which ends a handoff.
Fails(a, failure) ==
  IF a = "job" THEN job' = [job EXCEPT !.failure = failure] /\ UNCHANGED handoff
               ELSE handoff' = "over" /\ UNCHANGED job

\* Compilation and publication, with checks of the stop flags throughout.
Assemble(a) ==
  /\ \/ Goto(a, "assemble", "commit") /\ UNCHANGED <<job, handoff>>
     \/ Cancelled /\ Goto(a, "assemble", Unstarted(a)) /\ Fails(a, "cancelled")
     \/ Goto(a, "assemble", Unstarted(a)) /\ Fails(a, "failed")
  /\ UNCHANGED <<command, runVars, begun>>

\* start_prepared_run takes command_mutex_ and looks at the flags a last time.
Commit(a) ==
  /\ command = "free"
  /\ IF Cancelled
       THEN Goto(a, "commit", Unstarted(a)) /\ Fails(a, "cancelled") /\ UNCHANGED command
       ELSE Goto(a, "commit", "start") /\ command' = a /\ UNCHANGED <<job, handoff>>
  /\ UNCHANGED <<runVars, begun>>

Wanted(a) == [req |-> job.req, cycle |-> IF a = "job" THEN 1 ELSE next]

\* coordinator_->start publishes the run: its worker is still behind the latch.
Begin(a) ==
  /\ run < MaxRuns
  /\ ~RunActive
  /\ Goto(a, "start", "launch")
  /\ Coordinator!Begin
  /\ executed' = FALSE /\ launched' = FALSE
  /\ request' = Wanted(a)
  /\ begun' = begun \union {job.req}
  /\ UNCHANGED <<command, job, handoff>>

\* The device is busy, or the run cannot be stored.
StartFails(a) ==
  /\ Goto(a, "start", Unstarted(a))
  /\ Fails(a, "failed")
  /\ command' = "free"
  /\ UNCHANGED <<runVars, begun>>

\* The latch opens; what start and its callers do afterwards may still throw.
Launch(a) ==
  /\ launched' = TRUE
  /\ command' = "free"
  /\ \/ /\ Goto(a, "launch", Started(a))
        /\ UNCHANGED job
        /\ IF a = "session" /\ next = 0 THEN handoff' = "over" ELSE UNCHANGED handoff
     \/ Goto(a, "launch", Unstarted(a)) /\ Fails(a, "failed")
  /\ UNCHANGED <<contractVars, executed, request, begun>>

\* The publication could not be bound, or the worker's thread not be created.
Rollback(a) ==
  /\ Goto(a, "launch", Unstarted(a))
  /\ Fails(a, "failed")
  /\ command' = "free"
  /\ Coordinator!Close /\ verdict' = "Failed"
  /\ UNCHANGED <<executed, launched, request, begun>>

Starting(a) ==
  /\ Assemble(a) \/ Commit(a) \/ Begin(a) \/ StartFails(a) \/ Launch(a) \/ Rollback(a)
  /\ UNCHANGED <<epoch, cancel, stopping, operation, active, storeVars, frontVars, signal,
                 sessionVars, crashes>>

-----------------------------------------------------------------------------
(* The job.                                                                *)

JobFails(from, to, failure) == Goto("job", from, to) /\ job' = [job EXCEPT !.failure = failure]

JobFrame == UNCHANGED <<command, epoch, stopping, frontVars, begun, crashes>>

\* A connection is made or closed; its failure is the job's.
JobBegin ==
  /\ IF Cancelled
       THEN JobFails("begin", "receipt", "cancelled")
       ELSE /\ \/ job.req = NoRequest /\ Goto("job", "begin", "receipt")
               \/ job.req \in Requests /\ Goto("job", "begin", "epoch")
            /\ UNCHANGED job
  /\ UNCHANGED <<cancel, operation, active, handoff, storeVars, signal, sessionVars, runVars>>

\* Slip: the epoch of the admission is forgotten.
EpochForgotten == TRUE

EpochKept == epoch = job.epoch

\* The job's own check; then the graph is compiled and the device is connected.
JobPrepare ==
  /\ \/ EpochKept /\ Goto("job", "epoch", IF job.req \in Tasks THEN "watch" ELSE "assemble")
                  /\ UNCHANGED job
     \/ ~EpochKept /\ JobFails("epoch", "receipt", "cancelled")
     \/ EpochKept /\ Cancelled /\ JobFails("epoch", "receipt", "cancelled")
     \/ EpochKept /\ JobFails("epoch", "receipt", "failed")
  /\ UNCHANGED <<cancel, operation, active, handoff, storeVars, signal, sessionVars, runVars>>

\* watch_task_session: the watcher exists before the run it will own.
JobWatch ==
  /\ pc["session"] \in Asleep
  /\ \/ /\ ~Cancelled
        /\ pc' = [job |-> "assemble", session |-> "await"]
        /\ active' = TRUE /\ handoff' = "watching"
        /\ signal' = 0 /\ owns' = FALSE /\ cycles' = 0 /\ next' = 1
        /\ UNCHANGED job
     \/ /\ IF Cancelled THEN JobFails("watch", "receipt", "cancelled") /\ UNCHANGED handoff
                        ELSE JobFails("watch", "receipt", "failed") /\ handoff' = "over"
        /\ UNCHANGED <<active, signal, sessionVars>>
  /\ pc["job"] = "watch"
  /\ UNCHANGED <<cancel, operation, storeVars, runVars>>

JobSignal ==
  /\ \/ Goto("job", "signalStarted", "note") /\ signal' = 1
     \/ Goto("job", "signalFailed", "receipt") /\ signal' = 2
  /\ UNCHANGED <<cancel, operation, active, handoff, storeVars, job, sessionVars, runVars>>

\* The receipt takes the identity of the run.
JobNote ==
  /\ \/ Goto("job", "note", "receipt") /\ SaveSucceeds(job.req, "preparing") /\ UNCHANGED job
     \/ JobFails("note", "receipt", "failed") /\ SaveFails
  /\ UNCHANGED <<cancel, operation, active, handoff, signal, sessionVars, runVars>>

\* Slip: any other failure counts as submitted.
OutcomeIgnored == IF job.failure = "cancelled" THEN "cancelled" ELSE "submitted"

Outcome == CASE job.failure = "none"      -> "submitted"
             [] job.failure = "cancelled" -> "cancelled"
             [] OTHER                     -> "failed"

\* The final receipt is written while the operation still counts as running.
JobReceipt ==
  /\ \/ Goto("job", "receipt", "done") /\ job.req = NoRequest /\ UNCHANGED storeVars
     \/ Goto("job", "receipt", "done") /\ job.req # NoRequest /\ SaveSucceeds(job.req, Outcome)
     \/ Goto("job", "receipt", "broken") /\ job.req # NoRequest /\ SaveFails
  /\ UNCHANGED <<cancel, operation, active, handoff, jobVars, sessionVars, runVars>>

JobDone ==
  /\ Goto("job", "done", "exited")
  /\ operation' = FALSE
  /\ UNCHANGED <<cancel, active, handoff, storeVars, jobVars, sessionVars, runVars>>

\* A receipt that cannot be written ends everything; the operation stays running,
\* so that nothing is admitted before a restart.
JobBroken ==
  /\ Goto("job", "broken", "brokenStop")
  /\ cancel' = TRUE
  /\ UNCHANGED <<operation, active, handoff, storeVars, jobVars, sessionVars, runVars>>

JobBrokenStop ==
  /\ Goto("job", "brokenStop", "exited")
  /\ RequestStop
  /\ UNCHANGED <<cancel, operation, active, handoff, storeVars, jobVars, sessionVars>>

Job ==
  \/ Starting("job")
  \/ /\ \/ JobBegin \/ JobPrepare \/ JobWatch \/ JobSignal \/ JobNote \/ JobReceipt
        \/ JobDone \/ JobBroken \/ JobBrokenStop
     /\ JobFrame

-----------------------------------------------------------------------------
(* The session.                                                            *)

SessionFrame == UNCHANGED <<command, epoch, stopping, operation, storeVars, frontVars, jobVars,
                            begun, crashes>>

\* The job resolves whose the run is, also when its start failed.
SessionAwait ==
  /\ signal # 0
  /\ Goto("session", "await", IF signal = 1 THEN "wait" ELSE "leave")
  /\ owns' = (signal = 1 \/ request = [req |-> job.req, cycle |-> 1])
  /\ UNCHANGED <<cancel, active, handoff, cycles, next, runVars>>

\* Slip: the wait for the run does not look at the flags.
WaitsForTheRun ==
  /\ \/ ~RunActive /\ Goto("session", "wait", "collect") /\ UNCHANGED handoff
     \/ phase = "held" /\ Goto("session", "wait", "leave") /\ handoff' = "over"
  /\ UNCHANGED <<cancel, active, sessionVars, runVars>>

\* Until the run is over, its cleanup is stuck, or a stop is seen.
SessionWait ==
  /\ \/ Cancelled /\ Goto("session", "wait", "leave") /\ UNCHANGED handoff
     \/ ~Cancelled /\ ~RunActive /\ Goto("session", "wait", "collect") /\ UNCHANGED handoff
     \/ phase = "held" /\ Goto("session", "wait", "leave") /\ handoff' = "over"
  /\ UNCHANGED <<cancel, active, sessionVars, runVars>>

\* The number of cycles asked for was reached.
BatchComplete == Target > 0 /\ cycles' >= Target

\* Slip: any run that ended closes its cycle.
CycleDoneAnyhow == TRUE

CycleDone == verdict = "Completed"

\* The run is joined and its result and the storage are examined.  A cycle counts
\* when the run completed with clean accounts; anything else ends the repeats.
SessionCollect ==
  /\ \/ /\ job.req \in Repeating /\ CycleDone
        /\ cycles' = cycles + 1
        /\ Goto("session", "collect", IF BatchComplete THEN "leave" ELSE "pause")
        /\ UNCHANGED handoff
     \/ verdict = "Interrupted" /\ Goto("session", "collect", "handoff") /\ UNCHANGED <<handoff, cycles>>
     \/ Goto("session", "collect", "leave") /\ handoff' = "over" /\ UNCHANGED cycles
  /\ UNCHANGED <<cancel, active, owns, next, runVars>>

\* Ten seconds in which a stop is noticed, and a last look at the storage.
SessionPause ==
  /\ \/ Cancelled /\ Goto("session", "pause", "leave") /\ UNCHANGED <<handoff, next>>
     \/ ~Cancelled /\ Goto("session", "pause", "assemble") /\ next' = cycles + 1 /\ UNCHANGED handoff
     \/ ~Cancelled /\ Goto("session", "pause", "leave") /\ handoff' = "over" /\ UNCHANGED next
  /\ UNCHANGED <<cancel, active, owns, cycles, runVars>>

\* update("starting") comes first and then the look at the flags.
SessionHandoff ==
  /\ Goto("session", "handoff", "handoffCheck")
  /\ handoff' = "starting"
  /\ UNCHANGED <<cancel, active, sessionVars, runVars>>

SessionHandoffCheck ==
  /\ IF Cancelled THEN Goto("session", "handoffCheck", "leave") /\ UNCHANGED next
                  ELSE Goto("session", "handoffCheck", "assemble") /\ next' = 0
  /\ UNCHANGED <<cancel, active, handoff, owns, cycles, runVars>>

\* Slip: only a start that failed makes the watcher stop its run.
StopsOnFailure == owns /\ signal = 2

\* Slip: a start that failed is left to its caller.
StopsOnCancel == owns /\ Cancelled

\* Cancellation ends scheduling, not ownership.
StopsItsRun == owns /\ (signal = 2 \/ Cancelled)

SessionLeave ==
  /\ \/ StopsItsRun /\ Goto("session", "leave", "stop")
     \/ ~StopsItsRun /\ Goto("session", "leave", "release")
     \/ Goto("session", "leave", "broken")
  /\ UNCHANGED <<cancel, active, handoff, sessionVars, runVars>>

SessionStop ==
  /\ Goto("session", "stop", "join")
  /\ RequestStop
  /\ UNCHANGED <<cancel, active, handoff, sessionVars>>

\* wait_for_worker and collect_finished_worker.
SessionJoin ==
  /\ Recorded
  /\ Goto("session", "join", "release")
  /\ UNCHANGED <<cancel, active, handoff, sessionVars, runVars>>

SessionRelease ==
  /\ Goto("session", "release", "exited")
  /\ active' = FALSE
  /\ handoff' = IF handoff = "watching" THEN "over" ELSE handoff
  /\ UNCHANGED <<cancel, sessionVars, runVars>>

\* An exception outside the watcher's own handler: cancel, stop, and keep the
\* admission until the worker is joined.
SessionBroken ==
  /\ Goto("session", "broken", "brokenStop")
  /\ cancel' = TRUE
  /\ UNCHANGED <<active, handoff, sessionVars, runVars>>

SessionBrokenStop ==
  /\ Goto("session", "brokenStop", "brokenJoin")
  /\ RequestStop
  /\ UNCHANGED <<cancel, active, handoff, sessionVars>>

SessionBrokenJoin ==
  /\ Recorded
  /\ Goto("session", "brokenJoin", "exited")
  /\ active' = FALSE
  /\ UNCHANGED <<cancel, handoff, sessionVars, runVars>>

Session ==
  \/ Starting("session")
  \/ /\ \/ SessionAwait \/ SessionWait \/ SessionCollect \/ SessionPause \/ SessionHandoff
        \/ SessionHandoffCheck \/ SessionLeave \/ SessionStop \/ SessionJoin \/ SessionRelease
        \/ SessionBroken \/ SessionBrokenStop \/ SessionBrokenJoin
     /\ SessionFrame

-----------------------------------------------------------------------------
(* The coordinator's worker, and the end of the process.                   *)

RunFrame == UNCHANGED <<appVars, storeVars, frontVars, pc, jobVars, sessionVars, launched, request,
                        begun, crashes>>

RunExecutes ==
  /\ phase = "open" /\ launched /\ ~executed
  /\ executed' = TRUE
  /\ UNCHANGED contractVars
  /\ RunFrame

\* The terminal record, or the abort of worker_failed, which stops the run itself.
RunRecords ==
  /\ \/ executed /\ (Coordinator!Close \/ Coordinator!Hold) /\ UNCHANGED executed
     \/ launched /\ Coordinator!Ask /\ executed' = TRUE
  /\ RunFrame

\* What a new process finds: the receipts, and a store that scan() made read-only
\* when one of them is unfinished or a temporary file was left.
Scanned == {b \in BOOLEAN : (\E r \in Requests : disk[r] = "preparing") => b}

Crash ==
  /\ crashes < MaxCrashes
  /\ crashes' = crashes + 1
  /\ command' = "free" /\ epoch' = 0 /\ cancel' = FALSE /\ stopping' = FALSE
  /\ operation' = FALSE /\ active' = FALSE /\ handoff' = "over"
  /\ readOnly' \in Scanned
  /\ caller' = Idle /\ stopper' = "idle" /\ main' = "serving"
  /\ pc' = [a \in Actors |-> "none"] /\ job' = NoJob /\ signal' = 0
  /\ owns' = FALSE /\ cycles' = 0 /\ next' = 1
  /\ phase' = "idle" /\ asked' = FALSE /\ verdict' = "none"
  /\ executed' = FALSE /\ launched' = FALSE /\ request' = NoRun
  /\ UNCHANGED <<disk, run, begun>>

Next == Caller \/ Stopper \/ Main \/ Job \/ Session \/ RunExecutes \/ RunRecords \/ Crash

Spec == Init /\ [][Next]_vars

(***************************************************************************)
(* Fairness.  Every thread inside a call goes on; a caller waits fairly    *)
(* for command_mutex_, because its owners keep it for a start only.  The   *)
(* run ends when it was stopped (StopEndsRun of RunCoordinator), and is    *)
(* recorded when it ended; nothing says that it ends by itself.            *)
(***************************************************************************)
FairSpec ==
  /\ Spec
  /\ WF_vars(CallerProceeds) /\ WF_vars(StopperProceeds) /\ WF_vars(MainProceeds)
  /\ SF_vars(Job) /\ SF_vars(Session)
  /\ WF_vars(asked /\ RunExecutes) /\ WF_vars(executed /\ RunRecords)

-----------------------------------------------------------------------------
(* Properties.                                                             *)

JobPcs == Asleep \union {"begin", "epoch", "watch", "assemble", "commit", "start", "launch",
           "signalStarted", "signalFailed", "note", "receipt", "done", "broken", "brokenStop"}
SessionPcs == Asleep \union {"await", "wait", "collect", "pause", "handoff", "handoffCheck",
           "assemble", "commit", "start", "launch", "leave", "stop", "join", "release",
           "broken", "brokenStop", "brokenJoin"}

TypeOK ==
  /\ command \in {"free", "caller"} \union Actors
  /\ epoch \in 0 .. MaxStops /\ cancel \in BOOLEAN /\ stopping \in BOOLEAN
  /\ operation \in BOOLEAN /\ active \in BOOLEAN
  /\ handoff \in {"watching", "starting", "over"}
  /\ disk \in [Requests -> {"absent", "preparing", "submitted", "cancelled", "failed"}]
  /\ readOnly \in BOOLEAN
  /\ caller \in [at : {"idle", "admit", "register", "spawn"},
                 req : Requests \union {NoRequest}, epoch : 0 .. MaxStops]
  /\ stopper \in {"idle", "cancel", "status", "request"}
  /\ main \in {"serving", "request", "joinJob", "joinSession", "joinRun", "down"}
  /\ DOMAIN pc = Actors /\ pc["job"] \in JobPcs /\ pc["session"] \in SessionPcs
  /\ job \in [req : Requests \union {NoRequest}, epoch : 0 .. MaxStops,
              failure : {"none", "cancelled", "failed"}]
  /\ signal \in 0 .. 2 /\ owns \in BOOLEAN
  /\ cycles \in 0 .. MaxRuns /\ next \in 0 .. MaxRuns + 1
  /\ run \in 0 .. MaxRuns /\ phase \in {"idle", "open", "closed", "held"}
  /\ asked \in BOOLEAN /\ executed \in BOOLEAN /\ launched \in BOOLEAN
  /\ verdict \in {"none", "Completed", "UserStopped", "Failed", "Interrupted"}
  /\ request \in [req : Requests \union {NoRequest}, cycle : 0 .. MaxRuns + 1]
  /\ begun \subseteq Requests /\ crashes \in 0 .. MaxCrashes

\* Nobody is inside a stop, a preparation or a session any more.
Quiet == /\ stopper = "idle" /\ main # "request"
         /\ \A a \in Actors : pc[a] \in Asleep

\* A stop was accepted after the request of the open run, and nobody is left who
\* would pass it on.
Forgotten == Quiet /\ phase = "open" /\ ~executed /\ epoch # job.epoch /\ ~asked

\* A stop accepted at any moment after a task was admitted reaches each run of its
\* session, the first one, a repeat and a handoff: the watcher is the last owner
\* ("Cancellation cannot strand a run between start and watcher creation", 1221).
StopReachesSessions == ~(Forgotten /\ request.req \in Tasks)

\* The same for a run that no session watches, as long as the service goes on.
StopReachesWorkflows == ~(Forgotten /\ ~stopping /\ request.req \in Workflows)

\* One preparation at a time, and nobody else's run beside it.
PreparationIsAlone ==
  /\ ~(pc["job"] \in {"assemble", "commit", "start", "launch"} /\
       pc["session"] \in {"assemble", "commit", "start", "launch"})
  /\ pc["job"] \in {"begin", "epoch", "watch", "assemble", "commit", "start"} =>
       ~RunActive \/ request.req = job.req

\* What a receipt on disk says is true: a submitted request had its run and a
\* cancelled one had none.
ReceiptsAreTrue ==
  \A r \in Requests :
    /\ disk[r] = "submitted" => r \in begun
    /\ disk[r] = "cancelled" => r \notin begun

\* A task whose start failed after its run was published leaves no run behind: the
\* watcher stops it and waits for its end before it goes.
FailedStartLeavesNoRun ==
  pc["session"] = "exited" /\ signal = 2 /\ job.req \in Tasks /\ request.req = job.req
    => phase # "open"

\* A session owns its runs: it is alone in preparing one, each hears its stop, and
\* none outlives a start that failed.
SessionOwnsItsRuns == StopReachesSessions /\ PreparationIsAlone /\ FailedStartLeavesNoRun

\* A session that gives its admission back leaves no handoff in progress behind,
\* which would refuse every device job ("every normal or exceptional exit releases
\* the session's admission", 1897).  A stop that has not reached the status yet, and
\* the end of the service, are left out.
SessionEndsItsHandoff ==
  [][pc["session"] = "release" /\ ~active' /\ ~stopping /\ stopper \notin {"cancel", "status"}
       => handoff' = "over"]_vars

\* No request has its first run twice, neither through a repeated call nor after a
\* restart of the service.
FirstRunIsNew == run' # run /\ request'.cycle = 1 => request'.req \notin begun

\* What happened to a request is what its receipt says, and it happened once.
RequestsAreAccounted == [][FirstRunIsNew /\ ReceiptsAreTrue']_vars

\* A repeat begins only after a completed run of the cycle before it, and never
\* beyond the count that was asked for.
RepeatsAreEarned ==
  [][run' # run /\ request'.cycle > 1 =>
       /\ verdict = "Completed" /\ phase = "closed"
       /\ request = [req |-> request'.req, cycle |-> request'.cycle - 1]
       /\ Target > 0 => request'.cycle <= Target]_vars

\* A stopped session comes to its end and gives its admission back.
StoppedSessionEnds == cancel ~> ~active
=============================================================================
