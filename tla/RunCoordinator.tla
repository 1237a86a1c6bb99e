--------------------------- MODULE RunCoordinator ---------------------------
(***************************************************************************)
(* The control plane of one run: NativeRunCoordinator, the worker thread   *)
(* that drives its sessions, the session object the stop path shares with  *)
(* the worker, and the device lease.                                       *)
(*                                                                         *)
(* Threads: starters call start() and collect_finished_worker() under      *)
(* start_mutex_; stoppers call request_stop(); the single worker runs      *)
(* drive().  An action is what one thread does between two points at which *)
(* another thread can see or change the shared state: a critical section   *)
(* of mutex_, an atomic read of stop_, or one call into the device.        *)
(***************************************************************************)
EXTENDS Naturals

CONSTANTS
  Requests,         \* identities of start requests
  Starters,         \* threads that call start or collect_finished_worker
  Stoppers,         \* threads that call request_stop
  Units,            \* business units of a run
  MaxGenerations,   \* sessions a run may create before its total deadline
  MaxRuns,          \* bound: runs the coordinator accepts
  NoRequest,        \* no request has been accepted yet
  Free              \* start_mutex_ is not held

ASSUME ConstantsAssumption ==
  /\ Units \in Nat \ {0}
  /\ MaxGenerations \in Nat \ {0}
  /\ MaxRuns \in Nat
  /\ NoRequest \notin Requests
  /\ Free \notin Starters

VARIABLES
  (* Members of the coordinator, all under mutex_ except the atomic stop_. *)
  active,           \* active_
  execFinished,     \* execution_finished_
  termRecorded,     \* terminal_recorded_
  stop,             \* stop_
  session,          \* session_: the id of the published session, or NoSession
  lease,            \* owner of the device semaphore: "free", "start", "run", "other"
  runId,            \* snapshot_.run_id
  requestId,        \* request_id_
  publication,      \* the run's execution package: who may withdraw it
  (* The published snapshot. *)
  shown,            \* snapshot_.state
  quiescent,        \* snapshot_.quiescent
  saved,            \* snapshot_.result_saved
  details,          \* snapshot_.details_complete
  done,             \* snapshot_.completed_business_units
  unresolved,       \* snapshot_.unresolved_inputs is not empty
  (* Start and stop threads. *)
  startMutex, spc, sreq,
  tpc, held,
  (* Worker thread: drive() and its locals. *)
  wpc, unit, generation, workQuiet, failure, last, covered, terminal,
  (* The worker's current session object. *)
  sid,              \* its identity
  flow,             \* result.flow.state of its run
  stopSource,       \* stop_source_.stop_requested()
  gateStopped,      \* gate_.stopped()
  receipt,          \* pending input of the executor: "none", "sent", "unknown"
  released,         \* result.inputs_released
  complete          \* result.details_complete

controlVars == <<active, execFinished, termRecorded>>
runVars     == <<runId, requestId>>
snapVars    == <<shown, quiescent, saved, details, done, unresolved>>
shared      == <<controlVars, runVars, stop, session, lease, publication, snapVars>>
startVars   == <<startMutex, spc, sreq>>
stopVars    == <<tpc, held>>
driveVars   == <<unit, generation, workQuiet, failure, last, covered, terminal>>
sessionVars == <<sid, flow, stopSource, gateStopped, receipt, released, complete>>
vars == <<shared, startVars, stopVars, wpc, driveVars, sessionVars>>

-----------------------------------------------------------------------------
(* Values. *)

NoSession == <<0, 0>>
SessionIds == (0 .. MaxRuns) \X (0 .. MaxGenerations)

LiveStates     == {"Preparing", "Running", "StopRequested"}
TerminalStates == {"Completed", "UserStopped", "Failed", "Interrupted"}
RunStates      == {"Idle"} \union LiveStates \union TerminalStates

FlowEnds == {"none", "Completed", "BusinessFailed", "Failed", "ExternalBlocked", "Cancelled"}
Failures == {"none", "flow", "cleanup", "unconfirmed", "business", "exception"}

StartPcs == {"idle", "check", "join", "lease", "publish", "bind", "spawn",
             "accept", "rollback", "collect"}
StopPcs  == {"idle", "signal", "seal", "mark"}

\* Inside session->run().
SessionPcs == {"run", "tick", "execute", "end", "cleanup"}
\* Inside the try block of drive() but outside session->run().
TryPcs == {"create", "startup", "unit", "attempt", "publish", "forward", "adopt",
           "judge", "observe", "decide", "recover", "defer", "lifecycle", "ready"}
\* After the try block: finalisation, and the fallback worker_failed.
FinalPcs == {"finish", "release", "classify", "override", "save", "record"}
AbortPcs == {"abort", "abortRecord"}
WorkerPcs == {"none", "gate", "exited"} \union SessionPcs \union TryPcs
               \union FinalPcs \union AbortPcs

-----------------------------------------------------------------------------
Init ==
  /\ active = FALSE /\ execFinished = FALSE /\ termRecorded = TRUE
  /\ stop = FALSE /\ session = NoSession /\ lease = "free"
  /\ runId = 0 /\ requestId = NoRequest /\ publication = "none"
  /\ shown = "Idle" /\ quiescent = TRUE /\ saved = FALSE /\ details = TRUE
  /\ done = 0 /\ unresolved = FALSE
  /\ startMutex = Free
  /\ spc = [t \in Starters |-> "idle"]
  /\ sreq = [t \in Starters |-> NoRequest]
  /\ tpc = [s \in Stoppers |-> "idle"]
  /\ held = [s \in Stoppers |-> NoSession]
  /\ wpc = "none" /\ unit = 0 /\ generation = 0 /\ workQuiet = TRUE
  /\ failure = "none" /\ last = "none" /\ covered = FALSE /\ terminal = "Failed"
  /\ sid = NoSession /\ flow = "none" /\ stopSource = FALSE /\ gateStopped = FALSE
  /\ receipt = "none"
  /\ released = TRUE /\ complete = TRUE

-----------------------------------------------------------------------------
(* start(): one caller at a time, from start_mutex_ to its release.        *)

StartMove(t, from, to) ==
  /\ spc[t] = from
  /\ spc' = [spc EXCEPT ![t] = to]
  /\ UNCHANGED <<startMutex, sreq>>

StartReturns(t, from) ==
  /\ spc[t] = from
  /\ startMutex' = Free
  /\ spc' = [spc EXCEPT ![t] = "idle"]
  /\ sreq' = [sreq EXCEPT ![t] = NoRequest]

StartEnter(t, r) ==
  /\ spc[t] = "idle"
  /\ startMutex = Free
  /\ startMutex' = t
  /\ sreq' = [sreq EXCEPT ![t] = r]
  /\ spc' = [spc EXCEPT ![t] = "check"]
  /\ UNCHANGED <<shared, wpc>>

\* Slip: a request is remembered only while its run is active.
SameLiveRequest(t) == requestId = sreq[t] /\ active

SameRequest(t) == requestId = sreq[t] /\ runId > 0

\* Slip: start waits for the current run instead of refusing.
OnlySameRequest(t) == SameRequest(t)

\* The accepted request returns its snapshot; a live run refuses every other.
Answered(t) == SameRequest(t) \/ active

StartCheck(t) ==
  /\ IF Answered(t)
       THEN StartReturns(t, "check")
       ELSE StartMove(t, "check", "join")
  /\ UNCHANGED <<shared, wpc>>

StartJoin(t) ==
  /\ wpc \in {"none", "exited"}
  /\ StartMove(t, "join", "lease")
  /\ wpc' = "none"
  /\ UNCHANGED shared

\* DeviceLease: the semaphore is free, or the start fails with DEVICE_BUSY.
StartLease(t) ==
  /\ IF lease = "free"
       THEN StartMove(t, "lease", "publish") /\ lease' = "start"
       ELSE StartReturns(t, "lease") /\ UNCHANGED lease
  /\ UNCHANGED <<controlVars, runVars, stop, session, publication, snapVars, wpc>>

\* RunStore or EventJournal cannot be created: the local lease goes with them.
StartStoreFails(t) ==
  /\ StartReturns(t, "publish")
  /\ lease' = "free"
  /\ UNCHANGED <<controlVars, runVars, stop, session, publication, snapVars, wpc>>

StartPublish(t) ==
  /\ runId < MaxRuns
  /\ ~active
  /\ StartMove(t, "publish", "bind")
  /\ runId' = runId + 1
  /\ requestId' = sreq[t]
  /\ stop' = FALSE
  /\ active' = TRUE /\ execFinished' = FALSE /\ termRecorded' = FALSE
  /\ lease' = "run"
  /\ publication' = "none"
  /\ shown' = "Preparing" /\ quiescent' = FALSE /\ saved' = FALSE
  /\ details' = TRUE /\ done' = 0 /\ unresolved' = FALSE
  /\ UNCHANGED <<session, wpc>>

StartBind(t) ==
  /\ \/ StartMove(t, "bind", "spawn") /\ publication' = "bound"
     \/ StartMove(t, "bind", "rollback") /\ UNCHANGED publication
  /\ UNCHANGED <<controlVars, runVars, stop, session, lease, snapVars, wpc>>

\* Slip: the worker is not held behind the latch.
StartSpawnUnlatched(t) ==
  /\ \/ StartMove(t, "spawn", "accept") /\ wpc' = "create"
     \/ StartMove(t, "spawn", "rollback") /\ UNCHANGED wpc
  /\ UNCHANGED shared

\* The thread is created behind the latch, or its creation throws.
StartSpawn(t) ==
  /\ \/ StartMove(t, "spawn", "accept") /\ wpc' = "gate"
     \/ StartMove(t, "spawn", "rollback") /\ UNCHANGED wpc
  /\ UNCHANGED shared

\* Ownership of the package passes to the run before the latch opens.
StartAccept(t) ==
  /\ wpc = "gate"
  /\ StartReturns(t, "accept")
  /\ publication' = "accepted"
  /\ wpc' = "create"
  /\ UNCHANGED <<controlVars, runVars, stop, session, lease, snapVars>>

StartRollback(t) ==
  /\ StartReturns(t, "rollback")
  /\ publication' = "withdrawn"
  /\ active' = FALSE
  /\ termRecorded' = TRUE
  /\ lease' = "free"
  /\ shown' = "Failed" /\ quiescent' = TRUE
  /\ UNCHANGED <<execFinished, runVars, stop, session, saved, details, done, unresolved, wpc>>

\* collect_finished_worker and record_batch_release: a recorded run is joined.
CollectEnter(t) ==
  /\ spc[t] = "idle"
  /\ startMutex = Free
  /\ termRecorded
  /\ startMutex' = t
  /\ spc' = [spc EXCEPT ![t] = "collect"]
  /\ UNCHANGED <<sreq, shared, wpc>>

CollectJoin(t) ==
  /\ wpc \in {"none", "exited"}
  /\ StartReturns(t, "collect")
  /\ wpc' = "none"
  /\ UNCHANGED shared

StarterFrame == UNCHANGED <<stopVars, driveVars, sessionVars>>

StarterReturns(t) ==
  /\ \/ StartCheck(t) \/ StartJoin(t) \/ StartLease(t) \/ StartStoreFails(t)
     \/ StartPublish(t) \/ StartBind(t) \/ StartSpawn(t) \/ StartAccept(t)
     \/ StartRollback(t) \/ CollectJoin(t)
  /\ StarterFrame

Starter(t) ==
  \/ StarterReturns(t)
  \/ ((\E r \in Requests : StartEnter(t, r)) \/ CollectEnter(t)) /\ StarterFrame

\* Another process of this machine takes or returns the device semaphore.
OtherProcess ==
  /\ \/ lease = "free" /\ lease' = "other"
     \/ lease = "other" /\ lease' = "free"
  /\ UNCHANGED <<controlVars, runVars, stop, session, publication, snapVars, startVars,
                 stopVars, wpc, driveVars, sessionVars>>

-----------------------------------------------------------------------------
(* request_stop(): the flag and the session under mutex_, the session's own *)
(* stop outside it, the displayed state under mutex_ again.                 *)

StopMove(s, from, to) == tpc[s] = from /\ tpc' = [tpc EXCEPT ![s] = to]

\* Slip: a stop is taken until the run is inactive.
StoppableWhileActive == active

\* Checked under mutex_ by the first and the last critical section.
Stoppable == active /\ ~execFinished

StopBegin(s) ==
  /\ Stoppable
  /\ StopMove(s, "idle", IF session = NoSession THEN "mark" ELSE "signal")
  /\ stop' = TRUE
  /\ held' = [held EXCEPT ![s] = session]
  /\ UNCHANGED <<controlVars, runVars, session, lease, publication, snapVars, sessionVars>>

\* stop_source_.request_stop() of the session the stopper holds; an older
\* session object is no longer the worker's.
StopSignal(s) ==
  /\ StopMove(s, "signal", "seal")
  /\ stopSource' = (stopSource \/ held[s] = sid)
  /\ UNCHANGED <<shared, held, sid, flow, gateStopped, receipt, released, complete>>

\* ports_.stop(): the input gate closes.
StopSeal(s) ==
  /\ StopMove(s, "seal", "mark")
  /\ gateStopped' = (gateStopped \/ held[s] = sid)
  /\ UNCHANGED <<shared, held, sid, flow, stopSource, receipt, released, complete>>

StopMark(s) ==
  /\ StopMove(s, "mark", "idle")
  /\ held' = [held EXCEPT ![s] = NoSession]
  /\ shown' = IF Stoppable THEN "StopRequested" ELSE shown
  /\ UNCHANGED <<controlVars, runVars, stop, session, lease, publication, quiescent, saved,
                 details, done, unresolved, sessionVars>>

StopperFrame == UNCHANGED <<startVars, wpc, driveVars>>

StopperReturns(s) == (StopSignal(s) \/ StopSeal(s) \/ StopMark(s)) /\ StopperFrame

Stopper(s) == StopperReturns(s) \/ (StopBegin(s) /\ StopperFrame)

-----------------------------------------------------------------------------
(* drive(): from the open latch to the first session.                      *)

Goto(from, to) == wpc = from /\ wpc' = to

\* create_state, then publish_state(Running): an unconditional overwrite.
DriveCreate ==
  /\ Goto("create", "startup")
  /\ shown' = "Running"
  /\ UNCHANGED <<controlVars, stop, session, lease, quiescent, saved, details, done,
                 unresolved, driveVars, sessionVars>>

\* The initial lifecycle plan, when the definition has one, is ready for boot
\* or was cancelled by a stop; every other outcome throws (DriveThrows).
DriveStartup == Goto("startup", "unit") /\ UNCHANGED driveVars

\* Slip: off by one.
UnitsNotExceeded == unit <= Units

UnitsLeft == unit < Units

DriveUnit ==
  /\ Goto("unit", IF UnitsLeft /\ ~stop THEN "attempt" ELSE "finish")
  /\ UNCHANGED driveVars

\* Head of the recovery loop; without budget left the deadline check throws.
DriveAttempt ==
  /\ \/ stop /\ Goto("attempt", "unit") /\ unit' = unit + 1 /\ UNCHANGED generation
     \/ /\ ~stop
        /\ generation < MaxGenerations
        /\ Goto("attempt", "publish")
        /\ generation' = generation + 1
        /\ UNCHANGED unit
  /\ UNCHANGED <<workQuiet, failure, last, covered, terminal>>

\* A new session object is built and becomes reachable for request_stop.
DrivePublish ==
  /\ Goto("publish", "forward")
  /\ sid' = <<runId, generation>>
  /\ session' = sid'
  /\ flow' = "none" /\ receipt' = "none"
  /\ stopSource' = FALSE /\ gateStopped' = FALSE
  /\ released' = FALSE /\ complete' = TRUE
  /\ covered' = FALSE
  /\ unresolved' = FALSE
  /\ UNCHANGED <<controlVars, stop, lease, shown, quiescent, saved, details, done,
                 unit, generation, workQuiet, failure, last, terminal>>

\* Slip: a stop that came before the session existed is not passed on.
DriveForwardNothing ==
  /\ Goto("forward", "run")
  /\ UNCHANGED <<stopSource, gateStopped, unresolved, flow, receipt, released, complete>>

\* A stop accepted before the session was published reaches it here.
DriveForward ==
  /\ Goto("forward", "run")
  /\ stopSource' = (stopSource \/ stop)
  /\ gateStopped' = (gateStopped \/ stop)
  /\ UNCHANGED <<unresolved, flow, receipt, released, complete>>

-----------------------------------------------------------------------------
(* session->run(): ticks until the flow ends, then closes and releases.    *)

Cancelled == stopSource \/ gateStopped

SessionTick ==
  /\ ~Cancelled
  /\ Goto("run", "tick")
  /\ UNCHANGED <<unresolved, flow, stopSource, gateStopped, receipt, released, complete>>

\* The tick submits: the gate's last look at stopped_ before the device call.
SessionAdmit ==
  /\ ~gateStopped
  /\ receipt = "none"
  /\ Goto("tick", "execute")
  /\ UNCHANGED <<unresolved, flow, stopSource, gateStopped, receipt, released, complete>>

\* backend_.execute: sent, not sent, or an exception that leaves it unknown.
\* Progress is published after the tick, unless an exception ends the run first.
SessionExecute ==
  /\ receipt' \in {"none", "sent", "unknown"}
  /\ \/ /\ Goto("execute", "run")
        /\ unresolved' = (receipt' # "none")
        /\ UNCHANGED flow
     \/ /\ Goto("execute", "end")
        /\ flow' = "Failed"
        /\ UNCHANGED unresolved
  /\ UNCHANGED <<stopSource, gateStopped, released, complete>>

\* A tick that observes, waits or is refused, and may confirm the receipt.
SessionObserve ==
  /\ Goto("tick", "run")
  /\ receipt' \in {receipt, "none"}
  /\ unresolved' = (receipt' # "none")
  /\ UNCHANGED <<flow, stopSource, gateStopped, released, complete>>

\* The executor ends the flow; success and business failure need settled receipts.
SessionFlowEnds ==
  /\ Goto("tick", "end")
  /\ flow' \in {"Completed", "BusinessFailed", "Failed", "ExternalBlocked"}
  /\ flow' \in {"Completed", "BusinessFailed"} => receipt = "none"
  /\ UNCHANGED <<unresolved, stopSource, gateStopped, receipt, released, complete>>

SessionCancelled ==
  /\ Cancelled
  /\ Goto("run", "end")
  /\ flow' = "Cancelled"
  /\ UNCHANGED <<unresolved, stopSource, gateStopped, receipt, released, complete>>

SessionEnd ==
  /\ Goto("end", "cleanup")
  /\ gateStopped' = TRUE
  /\ UNCHANGED <<unresolved, flow, stopSource, receipt, released, complete>>

\* Inputs are released before the details are assembled; a requested stop
\* overrides whatever the flow reported.
SessionCleanup ==
  /\ Goto("cleanup", "adopt")
  /\ released' \in BOOLEAN
  /\ complete' \in BOOLEAN
  /\ flow' = CASE stopSource -> "Cancelled"
              [] ~stopSource /\ (complete' \/ flow = "Cancelled") -> flow
              [] OTHER -> "Failed"
  /\ UNCHANGED <<unresolved, stopSource, gateStopped, receipt>>

SessionFrame == UNCHANGED <<controlVars, stop, session, lease, shown, quiescent, saved,
                            details, done, driveVars, sid>>

-----------------------------------------------------------------------------
(* drive(): the session's result, the decision to recover, the recovery.   *)

\* A receipt list that could not be assembled leaves the published one alone.
DriveAdopt ==
  /\ Goto("adopt", "judge")
  /\ workQuiet' = (workQuiet /\ released)
  /\ details' = (details /\ complete)
  /\ unresolved' \in IF complete THEN {receipt # "none"}
                                 ELSE {unresolved, unresolved \/ receipt # "none"}
  /\ session' = NoSession
  /\ UNCHANGED <<controlVars, stop, lease, shown, quiescent, saved, done,
                 unit, generation, failure, last, covered, terminal, sessionVars>>

UnitSucceeded(checkpoint) ==
  flow = "Completed" /\ checkpoint /\ receipt = "none" /\ released /\ complete

\* checkpoint: the root's business checkpoint was reported during the session.
DriveJudge ==
  /\ wpc = "judge"
  /\ last' = flow
  /\ \E checkpoint \in BOOLEAN :
       IF UnitSucceeded(checkpoint)
         THEN /\ wpc' = "unit"
              /\ done' = done + 1
              /\ unit' = unit + 1
              /\ UNCHANGED failure
         ELSE /\ wpc' = "observe"
              /\ failure' = IF complete /\ checkpoint /\ flow = "Completed"
                               THEN "cleanup" ELSE "flow"
              /\ UNCHANGED <<done, unit>>
  /\ UNCHANGED <<controlVars, stop, session, lease, shown, quiescent, saved, details,
                 unresolved, generation, workQuiet, covered, terminal, sessionVars>>

\* The lifecycle port is read, and an exit of the instance that is proved to be
\* later than every pending receipt covers them.
DriveObserve ==
  /\ Goto("observe", "decide")
  /\ covered' \in {FALSE, receipt # "none"}
  /\ UNCHANGED <<unit, generation, workQuiet, failure, last, terminal>>

\* Slip: a pending receipt does not forbid a new session.
MayRecoverUnconfirmed ==
  stop \/ ~workQuiet \/ ~complete \/ flow \in {"BusinessFailed", "ExternalBlocked"}

MustNotRecover ==
  \/ stop
  \/ ~workQuiet
  \/ receipt # "none" /\ ~covered
  \/ ~complete
  \/ flow \in {"BusinessFailed", "ExternalBlocked"}

\* Without a recovery plan the run ends as well.
DriveDecide ==
  /\ \/ Goto("decide", "finish")
     \/ ~MustNotRecover /\ Goto("decide", "recover")
  /\ UNCHANGED driveVars

\* One turn of the plan loop: a plan may be deferred; a stop, the recovery
\* deadline or a missing plan leave the loop without a recovery.
DriveRecover ==
  /\ wpc = "recover"
  /\ \/ ~stop /\ wpc' \in {"defer", "lifecycle"} /\ UNCHANGED failure
     \/ wpc' = "finish" /\ failure' = "unconfirmed"
  /\ UNCHANGED <<unit, generation, workQuiet, last, covered, terminal>>

\* complete_.wait_until: the delay is over, or a stop wakes the wait.
DriveDefer ==
  /\ wpc = "defer"
  /\ IF stop THEN wpc' = "finish" /\ failure' = "unconfirmed"
             ELSE wpc' = "lifecycle" /\ UNCHANGED failure
  /\ UNCHANGED <<unit, generation, workQuiet, last, covered, terminal>>

\* execute_lifecycle_plan: ready for boot, a changed device that needs another
\* plan, or neither.
DriveLifecycle ==
  /\ wpc = "lifecycle"
  /\ \/ wpc' = "ready" /\ UNCHANGED failure
     \/ ~stop /\ wpc' = "recover" /\ UNCHANGED failure
     \/ wpc' = "finish" /\ failure' = "unconfirmed"
  /\ UNCHANGED <<unit, generation, workQuiet, last, covered, terminal>>

DriveReady ==
  /\ Goto("ready", "attempt")
  /\ failure' = "none"
  /\ UNCHANGED <<unit, generation, workQuiet, last, covered, terminal>>

\* Slip: the scope guard of a published session forgets the details.
DetailsKept == details

\* release_session: a session still published takes its details with it.
DetailsAfterScope == details /\ session = NoSession

\* Any exception inside the try block, one out of run() included; a session
\* still published is released and its cleanup guard has closed the gate.
DriveThrows ==
  /\ wpc \in (TryPcs \ {"unit"}) \union {"end"}
  /\ wpc' = "finish"
  /\ failure' = IF wpc = "create" THEN "business" ELSE "exception"
  /\ session' = NoSession
  /\ details' = DetailsAfterScope
  /\ gateStopped' = (gateStopped \/ wpc = "end")
  /\ UNCHANGED <<controlVars, stop, lease, shown, quiescent, saved, done, unresolved,
                 unit, generation, workQuiet, last, covered, terminal,
                 sid, flow, stopSource, receipt, released, complete>>

-----------------------------------------------------------------------------
(* drive(): finalisation.                                                  *)

DriveFinish ==
  /\ Goto("finish", "release")
  /\ execFinished' = TRUE
  /\ UNCHANGED <<active, termRecorded, stop, session, lease, snapVars, driveVars, sessionVars>>

\* The device's final word on owned inputs replaces every earlier one.
DriveRelease ==
  /\ Goto("release", "classify")
  /\ workQuiet' \in BOOLEAN
  /\ UNCHANGED <<unit, generation, failure, last, covered, terminal>>

\* Slip: a run whose units are all done is completed before a stop is looked at.
DriveClassifyCountsFirst ==
  /\ Goto("classify", "override")
  /\ failure' = IF workQuiet /\ failure = "cleanup" THEN "flow" ELSE failure
  /\ terminal' = CASE ~workQuiet -> "Interrupted"
                  [] workQuiet /\ done = Units -> "Completed"
                  [] workQuiet /\ done # Units /\ stop -> "UserStopped"
                  [] OTHER -> "Failed"
  /\ UNCHANGED <<unit, generation, workQuiet, last, covered>>

DriveClassify ==
  /\ Goto("classify", "override")
  /\ failure' = IF workQuiet /\ failure = "cleanup" THEN "flow" ELSE failure
  /\ terminal' = CASE ~workQuiet -> "Interrupted"
                  [] workQuiet /\ stop -> "UserStopped"
                  [] workQuiet /\ ~stop /\ failure # "none" -> "Failed"
                  [] OTHER -> IF done = Units THEN "Completed" ELSE "Failed"
  /\ UNCHANGED <<unit, generation, workQuiet, last, covered>>

\* handoff_ready, where the definition has one and business state exists, and an
\* external block replace the verdict of a run nobody stopped.
DriveOverride ==
  /\ Goto("override", "save")
  /\ \E handoff \in BOOLEAN :
       /\ handoff => ~stop /\ workQuiet /\ details /\ failure # "business"
       /\ terminal' = IF handoff \/ (~stop /\ last = "ExternalBlocked")
                        THEN "Interrupted" ELSE terminal
  /\ UNCHANGED <<unit, generation, workQuiet, failure, last, covered>>

\* The terminal result is stored, or not; an exception on the way there leaves
\* drive() altogether.
DriveSave ==
  /\ Goto("save", "record") \/ Goto("save", "abort")
  /\ UNCHANGED driveVars

\* Slip: the run ends and the lease goes whatever the device said.
ReleasedAnyway == TRUE

\* The lease goes and the run ends only with the inputs confirmed released.
ConfirmedReleased == workQuiet

\* drive() returns: its locals and the last session object are gone.
DriveReturns ==
  /\ unit' = 0 /\ generation' = 0 /\ workQuiet' = TRUE
  /\ failure' = "none" /\ last' = "none" /\ covered' = FALSE /\ terminal' = "Failed"
  /\ sid' = NoSession /\ flow' = "none" /\ stopSource' = FALSE /\ gateStopped' = FALSE
  /\ receipt' = "none" /\ released' = TRUE /\ complete' = TRUE

DriveRecord ==
  /\ Goto("record", "exited")
  /\ DriveReturns
  /\ shown' = terminal
  /\ quiescent' = workQuiet
  /\ saved' \in BOOLEAN
  /\ lease' = IF ConfirmedReleased THEN "free" ELSE lease
  /\ active' = ~ConfirmedReleased
  /\ termRecorded' = TRUE
  /\ UNCHANGED <<execFinished, stop, session, details, done, unresolved>>

\* worker_failed: stop, release what the device still holds, publish a failure.
AbortRelease ==
  /\ Goto("abort", "abortRecord")
  /\ stop' = TRUE
  /\ workQuiet' \in BOOLEAN
  /\ UNCHANGED <<controlVars, session, lease, snapVars,
                 unit, generation, failure, last, covered, terminal, sessionVars>>

AbortRecord ==
  /\ Goto("abortRecord", "exited")
  /\ DriveReturns
  /\ shown' = "Failed"
  /\ quiescent' = workQuiet
  /\ saved' = FALSE
  /\ details' = FALSE
  /\ execFinished' = TRUE
  /\ termRecorded' = TRUE
  /\ active' = ~ConfirmedReleased
  /\ lease' = IF ConfirmedReleased THEN "free" ELSE lease
  /\ session' = NoSession
  /\ UNCHANGED <<stop, done, unresolved>>

-----------------------------------------------------------------------------
\* One step of session->run().
SessionStep ==
  /\ \/ DriveForward
     \/ SessionTick \/ SessionAdmit \/ SessionExecute \/ SessionObserve \/ SessionFlowEnds
     \/ SessionCancelled \/ SessionEnd \/ SessionCleanup
  /\ SessionFrame

\* A step of drive() that touches nothing but the worker's own locals.
DriveFrame == UNCHANGED <<controlVars, stop, session, lease, snapVars, sessionVars>>

DriveStep ==
  /\ \/ DriveStartup \/ DriveUnit \/ DriveAttempt \/ DriveObserve \/ DriveDecide
     \/ DriveRecover \/ DriveDefer \/ DriveLifecycle \/ DriveReady
     \/ DriveRelease \/ DriveClassify \/ DriveOverride \/ DriveSave
  /\ DriveFrame

WorkerFrame == UNCHANGED <<runVars, publication, startVars, stopVars>>

Worker ==
  /\ \/ SessionStep \/ DriveStep
     \/ DriveCreate \/ DrivePublish \/ DriveAdopt \/ DriveJudge \/ DriveThrows
     \/ DriveFinish \/ DriveRecord \/ AbortRelease \/ AbortRecord
  /\ WorkerFrame

Next ==
  \/ \E t \in Starters : Starter(t)
  \/ \E s \in Stoppers : Stopper(s)
  \/ Worker
  \/ OtherProcess

Spec == Init /\ [][Next]_vars

(***************************************************************************)
(* Fairness.  The worker is a thread the operating system schedules and    *)
(* each of its device calls is bounded or cancellable, so it keeps taking  *)
(* steps; a session may still tick for ever.  A starter or stopper that is *)
(* inside a call finishes it, but nobody is obliged to make the call.      *)
(***************************************************************************)
FairSpec ==
  /\ Spec
  /\ WF_vars(Worker)
  /\ \A t \in Starters : WF_vars(StarterReturns(t))
  /\ \A s \in Stoppers : WF_vars(StopperReturns(s))

-----------------------------------------------------------------------------
(* Properties.                                                             *)

TypeOK ==
  /\ active \in BOOLEAN /\ execFinished \in BOOLEAN /\ termRecorded \in BOOLEAN
  /\ stop \in BOOLEAN /\ session \in SessionIds
  /\ lease \in {"free", "start", "run", "other"}
  /\ runId \in 0 .. MaxRuns /\ requestId \in Requests \union {NoRequest}
  /\ publication \in {"none", "bound", "accepted", "withdrawn"}
  /\ shown \in RunStates /\ quiescent \in BOOLEAN /\ saved \in BOOLEAN
  /\ details \in BOOLEAN /\ done \in 0 .. Units /\ unresolved \in BOOLEAN
  /\ startMutex \in Starters \union {Free}
  /\ spc \in [Starters -> StartPcs]
  /\ sreq \in [Starters -> Requests \union {NoRequest}]
  /\ tpc \in [Stoppers -> StopPcs]
  /\ held \in [Stoppers -> SessionIds]
  /\ wpc \in WorkerPcs /\ unit \in 0 .. Units /\ generation \in 0 .. MaxGenerations
  /\ workQuiet \in BOOLEAN /\ failure \in Failures /\ last \in FlowEnds
  /\ covered \in BOOLEAN /\ terminal \in TerminalStates
  /\ sid \in SessionIds /\ flow \in FlowEnds
  /\ stopSource \in BOOLEAN /\ gateStopped \in BOOLEAN
  /\ receipt \in {"none", "sent", "unknown"}
  /\ released \in BOOLEAN /\ complete \in BOOLEAN

\* The device lease and the refusal of other runs last exactly as long as the
\* run is active, and a run that is not quiescent is active: a cleanup nobody
\* confirmed keeps the device (drive 994-1003, worker_failed, start's rollback).
LeaseHeldUntilQuiescent ==
  /\ (lease = "run") = active
  /\ ~quiescent => active

\* A published Completed means every unit ended with its checkpoint, nothing is
\* owed, the device is released and nobody had asked for a stop before the end.
CompletedIsEarned ==
  shown = "Completed" =>
    termRecorded /\ done = Units /\ quiescent /\ details /\ ~unresolved /\ ~stop

\* A stop that request_stop accepted for a run decides how the run is reported:
\* once the run is over and quiescent it shows UserStopped (or the abort that
\* overtook it), and UserStopped is never shown to a run nobody stopped.
StopDecidesOutcome ==
  /\ wpc = "exited" /\ quiescent /\ stop => shown \in {"UserStopped", "Failed"}
  /\ shown = "UserStopped" => stop

\* What a run reports about its end is true: a success was earned, and a stop is
\* neither swallowed nor invented.
VerdictIsTrue == CompletedIsEarned /\ StopDecidesOutcome

\* The worker acts only for a run whose execution package start() has accepted,
\* and start() withdraws a package only when no worker ever passed the latch.
WorkerOwnsPublication ==
  wpc \notin {"none", "gate", "exited"} => publication = "accepted" /\ active

\* start() and collect_finished_worker() join only a worker whose run is already
\* recorded, so neither makes its caller wait for a run (join_worker's comment).
JoinsOnlyRecordedRuns ==
  \A t \in Starters : spc[t] \in {"join", "collect"} => termRecorded

\* A terminal that claims complete details lists every receipt the last session
\* still owed: an exception that cut the session's progress short shows up as
\* incomplete details, never as a run that owes nothing.
OwedInputsAreReported ==
  wpc \in FinalPcs /\ details => unresolved = (receipt # "none")

\* Publication, join and details keep account of the run: no worker without its
\* package, no caller who waits for a run, no receipt that is lost from the record.
RunIsAccounted == WorkerOwnsPublication /\ JoinsOnlyRecordedRuns /\ OwedInputsAreReported

\* What the control plane promises its callers, one run after another.
ContractPhase ==
  CASE active /\ ~termRecorded -> "open"
    [] active /\ termRecorded  -> "held"
    [] OTHER -> IF runId = 0 THEN "idle" ELSE "closed"

Contract == INSTANCE RunContract WITH
  run     <- runId,
  phase   <- ContractPhase,
  asked   <- stop,
  verdict <- IF ContractPhase \in {"closed", "held"} THEN shown ELSE "none"

\* The coordinator implements the contract: a run is closed or held once, with a
\* verdict that no later step of a worker or a stopper touches.
ImplementsContract == Contract!Spec

\* A further session of the same run starts only when the one before it released
\* its inputs and left no receipt, or only receipts an observed exit of the
\* instance covers: input is never continued over an unknown result.
NextSessionOnlyFromSettled ==
  [][sid' # sid /\ sid'[1] = sid[1] =>
       released /\ complete /\ (receipt # "none" => covered)]_vars

\* One accepted request is one run, however many threads submit it.
RequestRunsOnce == [][runId' # runId => requestId' # requestId]_vars

\* A stop that was accepted ends the run: the flag reaches the session it was
\* set in front of, and the worker records a terminal state.
StopEndsRun == stop ~> termRecorded
=============================================================================
