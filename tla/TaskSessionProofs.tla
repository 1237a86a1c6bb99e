------------------------- MODULE TaskSessionProofs -------------------------
(***************************************************************************)
(* Theorems about the application above the coordinator: an inductive      *)
(* invariant of its threads, its receipts and the run they share, and the  *)
(* properties that follow from it.                                         *)
(***************************************************************************)
EXTENDS TaskSession, TLAPS

-----------------------------------------------------------------------------
(* The invariant.                                                          *)

\* Where a run is prepared, and where the job tells how its start went.
Early      == {"begin", "epoch", "watch"}
Preparing  == {"assemble", "commit", "start"}
Signalling == {"signalStarted", "signalFailed"}

\* Where a session has a run of its own behind it.
Working == {"wait", "collect", "pause", "handoff", "handoffCheck", "launch"} \union Preparing

\* Where a session makes no call any more.
Leaving == Asleep \union {"release"}

\* What a call, a job and a run are recorded as, and what a receipt says.
Callers  == [at : {"idle", "admit", "register", "spawn"},
             req : Requests \union {NoRequest}, epoch : 0 .. MaxStops]
Jobs     == [req : Requests \union {NoRequest}, epoch : 0 .. MaxStops,
             failure : {"none", "cancelled", "failed"}]
Runs     == [req : Requests \union {NoRequest}, cycle : 0 .. MaxRuns + 1]
Receipts == {"absent", "preparing", "submitted", "cancelled", "failed"}

\* The types, in parts.
FlagTypes ==
  /\ cancel \in BOOLEAN /\ stopping \in BOOLEAN /\ operation \in BOOLEAN /\ active \in BOOLEAN

FrontTypes ==
  /\ command \in {"free", "caller"} \union Actors
  /\ epoch \in 0 .. MaxStops
  /\ handoff \in {"watching", "starting", "over"}
  /\ caller \in Callers
  /\ stopper \in {"idle", "cancel", "status", "request"}
  /\ main \in {"serving", "request", "joinJob", "joinSession", "joinRun", "down"}
  /\ crashes \in 0 .. MaxCrashes

StoreTypes == disk \in [Requests -> Receipts] /\ readOnly \in BOOLEAN

JobTypes ==
  /\ DOMAIN pc = Actors /\ pc["job"] \in JobPcs /\ pc["session"] \in SessionPcs
  /\ job \in Jobs
  /\ signal \in 0 .. 2 /\ owns \in BOOLEAN

RunTypes ==
  /\ cycles \in 0 .. MaxRuns /\ next \in 0 .. MaxRuns + 1
  /\ run \in 0 .. MaxRuns /\ phase \in {"idle", "open", "closed", "held"}
  /\ asked \in BOOLEAN /\ executed \in BOOLEAN /\ launched \in BOOLEAN
  /\ verdict \in {"none", "Completed", "UserStopped", "Failed", "Interrupted"}
  /\ request \in Runs
  /\ begun \subseteq Requests

\* Who is where: a session is active as long as its thread, a job has its operation,
\* and while the job starts a task its session awaits the signal.
ThreadInv ==
  /\ active <=> pc["session"] \notin Asleep
  /\ pc["job"] \notin Asleep => operation
  /\ pc["job"] \in Early => pc["session"] \in Asleep
  /\ pc["job"] \in Preparing \union {"launch"} \union Signalling =>
       IF job.req \in Tasks THEN pc["session"] = "await" /\ signal = 0
                            ELSE pc["session"] \in Asleep
  /\ pc["job"] \in {"epoch", "watch", "launch", "note"} \union Preparing \union Signalling =>
       job.req \in Requests
  /\ pc["job"] \in {"watch"} \union Signalling => job.req \in Tasks

\* The first run is the job's.
First == request = [req |-> job.req, cycle |-> 1] /\ job.req \in begun /\ run > 0

\* The run of the present cycle is the last one begun.
Current == next = cycles + 1 /\ cycles < run /\ request = [req |-> job.req, cycle |-> next]

\* The cycles counted are complete, and the count that was asked for is not reached.
Earned ==
  /\ verdict = "Completed" /\ phase = "closed"
  /\ request = [req |-> job.req, cycle |-> cycles] /\ cycles > 0
  /\ Target > 0 => cycles < Target

CycleInv ==
  /\ verdict = "Completed" => phase = "closed"
  /\ cycles <= run
  /\ pc["session"] = "await" => cycles = 0 /\ next = 1
  /\ pc["session"] \in Working => owns /\ signal = 1 /\ job.req \in begun
  /\ pc["session"] \in {"wait", "collect"} => Current
  /\ pc["session"] = "pause" => Earned
  /\ pc["session"] \in Preparing => next = 0 \/ (next = cycles + 1 /\ Earned)
  /\ pc["session"] = "launch" => next = 0 \/ Current

\* Whose the run is: nobody's while the job prepares, the job's request as long as it
\* is open, and the session's when that leaves it.
OwnerInv ==
  /\ pc["job"] \in Early \union Preparing => ~RunActive
  /\ phase = "open" => request.req = job.req
  /\ pc["session"] = "await" /\ phase = "open" => request = [req |-> job.req, cycle |-> 1]
  /\ pc["job"] \in {"launch", "signalStarted"} => First
  /\ pc["session"] = "await" /\ signal = 1 => First
  /\ pc["session"] = "leave" /\ phase = "open" => owns

\* A run that has not ended and was not told to.
Unasked == phase = "open" /\ ~executed /\ ~asked

\* A stop since the admission is in the flags, or about to be.
Heard == epoch = job.epoch \/ Cancelled \/ stopper = "cancel"

\* A run of a task that was not told to stop has nothing to hear, unless a stop is
\* still under way; a session whose start failed leaves no run of a task behind.
StopInv ==
  /\ phase = "open" \/ pc["job"] \in {"watch"} \union Preparing \/ pc["session"] \notin Asleep
       => Heard
  /\ Unasked => pc["session"] \notin {"join", "brokenJoin"}
  /\ Unasked /\ request.req \in Tasks /\ pc["session"] \in Leaving
       => epoch = job.epoch \/ stopper # "idle" \/ main = "request"
  /\ pc["session"] \in Leaving /\ signal = 2 /\ phase = "open" => request.req \notin Tasks

\* A request on its way to a job is new, and the receipt of a request is as old as its
\* job.
AdmissionInv ==
  /\ caller.at \in {"admit", "register"} => caller.req \in Requests
  /\ caller.at = "register" => disk[caller.req] = "absent"
  /\ caller.at = "spawn" /\ caller.req # NoRequest =>
       disk[caller.req] = "preparing" /\ caller.req \notin begun /\ caller.req # job.req
  /\ job.req # NoRequest => disk[job.req] # "absent"
  /\ \A r \in begun : disk[r] # "absent"

\* What the job knows of its request is what happened to it.
ReportInv ==
  /\ pc["job"] \notin Asleep \union {"done", "broken", "brokenStop"} /\ job.req # NoRequest
       => disk[job.req] = "preparing"
  /\ pc["job"] \in Early \union Preparing => job.req \notin begun /\ job.failure = "none"
  /\ pc["job"] = "note" => job.req \in begun
  /\ pc["job"] \in {"launch", "signalStarted", "note"} => job.failure = "none"
  /\ pc["job"] \in {"signalFailed", "receipt"} /\ job.req # NoRequest =>
       /\ job.failure = "none" => job.req \in begun
       /\ job.failure = "cancelled" => job.req \notin begun

TaskInv ==
  /\ FlagTypes /\ FrontTypes /\ StoreTypes /\ JobTypes /\ RunTypes
  /\ ThreadInv
  /\ CycleInv
  /\ OwnerInv
  /\ StopInv
  /\ AdmissionInv
  /\ ReportInv
  /\ ReceiptsAreTrue

-----------------------------------------------------------------------------
(* Program counters.                                                       *)

\* The two actors of a preparation, each with its own counter.
LEMMA JobGoes ==
  ASSUME JobTypes, NEW from, NEW to, Goto("job", from, to)
  PROVE  /\ pc["job"] = from /\ pc'["job"] = to /\ pc'["session"] = pc["session"]
         /\ DOMAIN pc' = Actors
  BY DEF Goto, JobTypes, Actors

\* The same of the session.
LEMMA SessionGoes ==
  ASSUME JobTypes, NEW from, NEW to, Goto("session", from, to)
  PROVE  /\ pc["session"] = from /\ pc'["session"] = to /\ pc'["job"] = pc["job"]
         /\ DOMAIN pc' = Actors
  BY DEF Goto, JobTypes, Actors

\* What the constants say of requests.
LEMMA RequestsApart ==
  /\ NoRequest \notin Requests /\ Tasks \subseteq Requests /\ Workflows \subseteq Requests
  /\ \A r \in Requests : r # NoRequest
  /\ \A r \in Workflows : r \notin Tasks
  BY SessionAssumption DEF Requests

\* The counters begin below their bounds.
LEMMA Beginnings ==
  /\ 0 \in 0 .. MaxStops /\ 0 \in 0 .. MaxCrashes /\ 0 \in 0 .. MaxRuns
  /\ 0 \in 0 .. MaxRuns + 1 /\ 1 \in 0 .. MaxRuns + 1
  BY SessionAssumption

\* What is recorded of nobody.
LEMMA Nobody ==
  /\ Idle \in Callers /\ Idle.at = "idle"
  /\ NoJob \in Jobs /\ NoJob.req = NoRequest /\ NoJob.epoch = 0 /\ NoJob.failure = "none"
  /\ NoRun \in Runs
  BY Beginnings DEF Idle, NoJob, NoRun, Callers, Jobs, Runs

\* A caller that goes on keeps its request.
LEMMA CallerGoes ==
  ASSUME FrontTypes, NEW at \in {"register", "spawn"}, CallerMoves(at)
  PROVE  /\ caller' \in Callers /\ caller'.at = at
         /\ caller'.req = caller.req /\ caller'.epoch = caller.epoch /\ command' = command
  BY DEF FrontTypes, Callers, CallerMoves

\* A caller that leaves is nobody's.
LEMMA CallerGone ==
  ASSUME CallerLeaves
  PROVE  caller' \in Callers /\ caller'.at = "idle" /\ command' = "free"
  BY Nobody DEF CallerLeaves

\* A receipt that was written.
LEMMA Saves ==
  ASSUME StoreTypes, NEW r \in Requests, NEW state \in Receipts, SaveSucceeds(r, state)
  PROVE  /\ StoreTypes' /\ disk'[r] = state
         /\ \A q \in Requests : q # r => disk'[q] = disk[q]
  BY DEF StoreTypes, SaveSucceeds

\* A receipt that was not.
LEMMA SavesNot ==
  ASSUME StoreTypes, SaveFails
  PROVE  StoreTypes' /\ disk' = disk
  BY DEF StoreTypes, SaveFails

\* The job takes the failure of its preparation.
LEMMA JobTakes ==
  ASSUME JobTypes, NEW failure \in {"none", "cancelled", "failed"},
         job' = [job EXCEPT !.failure = failure]
  PROVE  /\ job' \in Jobs /\ job'.failure = failure
         /\ job'.req = job.req /\ job'.epoch = job.epoch
  BY DEF JobTypes, Jobs

\* The same where it leaves a step.
LEMMA JobFailsSo ==
  ASSUME JobTypes, NEW from, NEW to, NEW failure \in {"none", "cancelled", "failed"},
         JobFails(from, to, failure)
  PROVE  /\ pc["job"] = from /\ pc'["job"] = to /\ pc'["session"] = pc["session"]
         /\ DOMAIN pc' = Actors
         /\ job' \in Jobs /\ job'.failure = failure
         /\ job'.req = job.req /\ job'.epoch = job.epoch
  BY JobGoes, JobTakes DEF JobFails

\* A failed start of the job.
LEMMA JobStartFails ==
  ASSUME JobTypes, NEW failure \in {"none", "cancelled", "failed"}, Fails("job", failure)
  PROVE  /\ job' \in Jobs /\ job'.failure = failure
         /\ job'.req = job.req /\ job'.epoch = job.epoch /\ handoff' = handoff
  BY JobTakes DEF Fails

\* A failed start of the session, which keeps no failure.
LEMMA SessionStartFails ==
  ASSUME NEW failure, Fails("session", failure)
  PROVE  handoff' = "over" /\ job' = job
  BY DEF Fails

-----------------------------------------------------------------------------
(* Each part of the invariant, while nothing it speaks of changes.         *)

\* The flags.
LEMMA FlagsKept ==
  ASSUME FlagTypes, UNCHANGED <<cancel, stopping, operation, active>>
  PROVE  FlagTypes'
  BY DEF FlagTypes

\* The types of the callers.
LEMMA FrontKept ==
  ASSUME FrontTypes, UNCHANGED <<command, epoch, handoff, caller, stopper, main, crashes>>
  PROVE  FrontTypes'
  BY DEF FrontTypes

\* The types of the store.
LEMMA StoreKept ==
  ASSUME StoreTypes, UNCHANGED <<disk, readOnly>>
  PROVE  StoreTypes'
  BY DEF StoreTypes

\* The types of the job and the session.
LEMMA JobsKept ==
  ASSUME JobTypes, UNCHANGED <<pc, job, signal, owns>>
  PROVE  JobTypes'
  BY DEF JobTypes

\* The types of the run.
LEMMA RunsKept ==
  ASSUME RunTypes,
         UNCHANGED <<cycles, next, run, phase, asked, executed, launched, verdict,
                     request, begun>>
  PROVE  RunTypes'
  BY DEF RunTypes

\* Who is where.
LEMMA ThreadsKept ==
  ASSUME ThreadInv, UNCHANGED <<active, operation, pc, job, signal>>
  PROVE  ThreadInv'
  BY DEF ThreadInv

\* The count of the cycles.
LEMMA CyclesKept ==
  ASSUME CycleInv,
         UNCHANGED <<cycles, next, run, phase, verdict, request, begun, pc, job, signal,
                     owns>>
  PROVE  CycleInv'
  BY DEF CycleInv, Current, Earned

\* Whose the run is.
LEMMA OwnerKept ==
  ASSUME OwnerInv, UNCHANGED <<run, phase, request, begun, pc, job, signal, owns>>
  PROVE  OwnerInv'
  BY DEF OwnerInv, RunActive, First

\* The reach of a stop.
LEMMA StopsKept ==
  ASSUME StopInv,
         UNCHANGED <<phase, asked, executed, request, pc, job, signal, epoch, cancel,
                     stopping, stopper, main>>
  PROVE  StopInv'
  BY DEF StopInv, Unasked, Heard, Cancelled

\* The requests on their way.
LEMMA AdmissionKept ==
  ASSUME AdmissionInv, UNCHANGED <<caller, disk, begun, job>>
  PROVE  AdmissionInv'
  BY DEF AdmissionInv

\* What the job knows of its request.
LEMMA ReportKept ==
  ASSUME ReportInv, UNCHANGED <<pc, job, disk, begun>>
  PROVE  ReportInv'
  BY DEF ReportInv

\* What the receipts say.
LEMMA ReceiptsKept ==
  ASSUME ReceiptsAreTrue, UNCHANGED <<disk, begun>>
  PROVE  ReceiptsAreTrue'
  BY DEF ReceiptsAreTrue

-----------------------------------------------------------------------------
(* What the actions leave alone.                                           *)

\* A start, by either actor.
StartingFrame ==
  UNCHANGED <<epoch, cancel, stopping, operation, active, storeVars, frontVars, signal,
              sessionVars, crashes>>

-----------------------------------------------------------------------------
(* A caller.                                                               *)

\* A call is begun.
LEMMA CallSafe ==
  ASSUME TaskInv, (\E r \in Requests \union {NoRequest} : Call(r)) /\ CallerFrame
  PROVE  TaskInv'
  <1>1. FrontTypes'
    <2>1. PICK r \in Requests \union {NoRequest} : Call(r)
      OBVIOUS
    <2>2. caller' \in Callers
      BY <2>1 DEF TaskInv, FrontTypes, Call, Callers
    <2>3. QED
      BY <2>1, <2>2 DEF TaskInv, FrontTypes, Call, CallerFrame
  <1>2. AdmissionInv'
    BY DEF TaskInv, AdmissionInv, Call, CallerFrame, storeVars
  <1>3. /\ FlagTypes' /\ StoreTypes' /\ JobTypes' /\ RunTypes' /\ ThreadInv' /\ CycleInv'
        /\ OwnerInv' /\ StopInv' /\ ReportInv' /\ ReceiptsAreTrue'
    BY FlagsKept, StoreKept, JobsKept, RunsKept, ThreadsKept, CyclesKept, OwnerKept, StopsKept,
       ReportKept, ReceiptsKept
       DEF TaskInv, Call, CallerFrame, sessionVars, runVars, contractVars, storeVars, jobVars
  <1>4. QED
    BY <1>1, <1>2, <1>3 DEF TaskInv

\* A request is admitted, or refused.
LEMMA AdmitSafe ==
  ASSUME TaskInv, Admit /\ CallerFrame
  PROVE  TaskInv'
  <1>1. FrontTypes'
    BY CallerGoes, CallerGone DEF TaskInv, FrontTypes, Admit, CallerFrame
  <1>2. AdmissionInv'
    BY CallerGoes, CallerGone DEF TaskInv, AdmissionInv, Admit, Seen, CallerFrame, storeVars
  <1>3. /\ FlagTypes' /\ StoreTypes' /\ JobTypes' /\ RunTypes' /\ ThreadInv' /\ CycleInv'
        /\ OwnerInv' /\ StopInv' /\ ReportInv' /\ ReceiptsAreTrue'
    BY FlagsKept, StoreKept, JobsKept, RunsKept, ThreadsKept, CyclesKept, OwnerKept, StopsKept,
       ReportKept, ReceiptsKept
       DEF TaskInv, Admit, CallerMoves, CallerLeaves, CallerFrame, sessionVars, runVars,
           contractVars, storeVars, jobVars
  <1>4. QED
    BY <1>1, <1>2, <1>3 DEF TaskInv

\* Its receipt is written.
LEMMA RegisterSafe ==
  ASSUME TaskInv, Register /\ CallerFrame
  PROVE  TaskInv'
  <1>1. FrontTypes'
    BY Saves, SavesNot, CallerGoes, CallerGone DEF TaskInv, FrontTypes, Register, CallerFrame
  <1>2. StoreTypes'
    BY Saves, SavesNot, CallerGoes, CallerGone
       DEF TaskInv, StoreTypes, AdmissionInv, Receipts, Register
  <1>3. AdmissionInv'
    BY Saves, SavesNot, CallerGoes, CallerGone
       DEF TaskInv, AdmissionInv, JobTypes, RunTypes, Jobs, Receipts, Register, CallerFrame
  <1>4. ReportInv'
    BY Saves, SavesNot, CallerGoes, CallerGone
       DEF TaskInv, ReportInv, AdmissionInv, JobTypes, Jobs, Receipts, Register, CallerFrame
  <1>5. ReceiptsAreTrue'
    BY Saves, SavesNot, CallerGoes, CallerGone
       DEF TaskInv, ReceiptsAreTrue, AdmissionInv, Receipts, Register, CallerFrame
  <1>6. FlagTypes' /\ JobTypes' /\ RunTypes' /\ ThreadInv' /\ CycleInv' /\ OwnerInv' /\ StopInv'
    BY FlagsKept, JobsKept, RunsKept, ThreadsKept, CyclesKept, OwnerKept, StopsKept
       DEF TaskInv, Register, SaveSucceeds, SaveFails, CallerMoves, CallerLeaves, CallerFrame,
           sessionVars, runVars, contractVars, jobVars
  <1>7. QED
    BY <1>1, <1>2, <1>3, <1>4, <1>5, <1>6 DEF TaskInv

\* The job is started.
LEMMA SpawnSafe ==
  ASSUME TaskInv, Spawn /\ CallerFrame
  PROVE  TaskInv'
  <1>1. FlagTypes'
    BY DEF TaskInv, FlagTypes, Spawn, CallerFrame, sessionVars, runVars, contractVars, storeVars
  <1>2. FrontTypes'
    BY CallerGone DEF TaskInv, FrontTypes, Spawn, CallerFrame
  <1>3. JobTypes'
    <2>1. job' \in Jobs
      BY DEF TaskInv, FrontTypes, Spawn, Callers, Jobs
    <2>2. QED
      BY <2>1 DEF TaskInv, JobTypes, Spawn, CallerFrame, sessionVars, Actors, Asleep, JobPcs
  <1>4. ThreadInv'
    BY CallerGone DEF TaskInv, ThreadInv, Asleep, Preparing, Signalling, Spawn, Startable,
        SessionOver, CallerFrame
  <1>5. CycleInv'
    BY CallerGone DEF TaskInv, CycleInv, ThreadInv, Asleep, Working, Preparing, Spawn,
        Startable, SessionOver, CallerFrame, sessionVars, runVars, contractVars
  <1>6. OwnerInv'
    BY CallerGone DEF TaskInv, OwnerInv, ThreadInv, RunActive, Asleep, Spawn, Startable,
        SessionOver, CallerFrame, runVars, contractVars
  <1>7. StopInv'
    BY CallerGone DEF TaskInv, StopInv, ThreadInv, Unasked, Preparing, Asleep, RunActive, Spawn,
        Startable, SessionOver, CallerFrame, runVars, contractVars
  <1>8. AdmissionInv'
    BY CallerGone DEF TaskInv, AdmissionInv, Spawn, CallerFrame, storeVars
  <1>9. ReportInv'
    BY RequestsApart, CallerGone DEF TaskInv, ReportInv, AdmissionInv, RunTypes, Asleep, Spawn,
        CallerFrame, storeVars
  <1>10. StoreTypes' /\ RunTypes' /\ ReceiptsAreTrue'
    BY StoreKept, RunsKept, ReceiptsKept
       DEF TaskInv, Spawn, CallerLeaves, CallerFrame, sessionVars, runVars, contractVars,
           storeVars
  <1>11. QED
    BY <1>1, <1>2, <1>3, <1>4, <1>5, <1>6, <1>7, <1>8, <1>9, <1>10 DEF TaskInv

\* The job is refused.
LEMMA RefuseSafe ==
  ASSUME TaskInv, Refuse /\ CallerFrame
  PROVE  TaskInv'
  <1>1. FlagTypes'
    BY DEF TaskInv, FlagTypes, Refuse, CallerFrame, sessionVars, runVars, contractVars,
        storeVars, jobVars
  <1>2. FrontTypes'
    BY Saves, SavesNot, CallerGone DEF TaskInv, FrontTypes, Refuse, CallerFrame
  <1>3. StoreTypes'
    <2>1. CASE caller.req = NoRequest
      BY <2>1 DEF TaskInv, StoreTypes, Refuse, storeVars
    <2>2. CASE caller.req # NoRequest
      <3>1. caller.req \in Requests /\ "failed" \in Receipts
        BY <2>2 DEF TaskInv, FrontTypes, Callers, Receipts
      <3>2. SaveSucceeds(caller.req, "failed") \/ SaveFails
        BY <2>2 DEF Refuse
      <3>3. QED
        BY <3>1, <3>2, Saves, SavesNot DEF TaskInv
    <2>3. QED
      BY <2>1, <2>2
  <1>4. StopInv'
    BY Saves, SavesNot, CallerGone DEF TaskInv, StopInv, ThreadInv, Unasked, Heard, Cancelled,
        Preparing, Asleep, RunActive, Refuse, Startable, SessionOver, CallerFrame, runVars,
        contractVars
  <1>5. AdmissionInv'
    BY Saves, SavesNot, CallerGone DEF TaskInv, AdmissionInv, FrontTypes, JobTypes, RunTypes,
        Jobs, Callers, Receipts, Refuse, CallerFrame, storeVars
  <1>6. ReportInv'
    BY Saves, SavesNot, CallerGone DEF TaskInv, ReportInv, AdmissionInv, JobTypes, FrontTypes,
        Jobs, Callers, Receipts, Refuse, CallerFrame, storeVars
  <1>7. ReceiptsAreTrue'
    BY Saves, SavesNot, CallerGone DEF TaskInv, ReceiptsAreTrue, FrontTypes, Callers, Receipts,
        Refuse, CallerFrame, storeVars
  <1>8. JobTypes' /\ RunTypes' /\ ThreadInv' /\ CycleInv' /\ OwnerInv'
    BY JobsKept, RunsKept, ThreadsKept, CyclesKept, OwnerKept
       DEF TaskInv, Refuse, SaveSucceeds, SaveFails, CallerLeaves, CallerFrame, sessionVars,
           runVars, contractVars, storeVars, jobVars
  <1>9. QED
    BY <1>1, <1>2, <1>3, <1>4, <1>5, <1>6, <1>7, <1>8 DEF TaskInv

-----------------------------------------------------------------------------
(* Stops and the end of the service.                                       *)

\* A stop is accepted.
LEMMA StopEpochSafe ==
  ASSUME TaskInv, StopEpoch /\ StopFrame
  PROVE  TaskInv'
  <1>1. FrontTypes'
    BY SessionAssumption DEF TaskInv, FrontTypes, StopEpoch, StopMoves, StopFrame
  <1>2. StopInv'
    BY DEF TaskInv, StopInv, Unasked, Heard, StopEpoch, StopMoves, StopFrame, jobVars, runVars,
        contractVars
  <1>3. /\ FlagTypes' /\ StoreTypes' /\ JobTypes' /\ RunTypes' /\ ThreadInv' /\ CycleInv'
        /\ OwnerInv' /\ AdmissionInv' /\ ReportInv' /\ ReceiptsAreTrue'
    BY FlagsKept, StoreKept, JobsKept, RunsKept, ThreadsKept, CyclesKept, OwnerKept,
       AdmissionKept, ReportKept, ReceiptsKept
       DEF TaskInv, StopEpoch, StopMoves, StopFrame, storeVars, jobVars, sessionVars, runVars,
           contractVars
  <1>4. QED
    BY <1>1, <1>2, <1>3 DEF TaskInv

\* It sets the flag.
LEMMA StopCancelSafe ==
  ASSUME TaskInv, StopCancel /\ StopFrame
  PROVE  TaskInv'
  <1>1. FlagTypes'
    BY DEF TaskInv, FlagTypes, StopCancel, StopFrame
  <1>2. FrontTypes'
    BY DEF TaskInv, FrontTypes, StopCancel, StopMoves, StopFrame
  <1>3. StopInv'
    BY DEF TaskInv, StopInv, Unasked, Heard, Cancelled, StopCancel, StopMoves, StopFrame,
        jobVars, runVars, contractVars
  <1>4. /\ StoreTypes' /\ JobTypes' /\ RunTypes' /\ ThreadInv' /\ CycleInv' /\ OwnerInv'
        /\ AdmissionInv' /\ ReportInv' /\ ReceiptsAreTrue'
    BY StoreKept, JobsKept, RunsKept, ThreadsKept, CyclesKept, OwnerKept, AdmissionKept,
       ReportKept, ReceiptsKept
       DEF TaskInv, StopCancel, StopMoves, StopFrame, storeVars, jobVars, sessionVars, runVars,
           contractVars
  <1>5. QED
    BY <1>1, <1>2, <1>3, <1>4 DEF TaskInv

\* It ends the handoff.
LEMMA StopStatusSafe ==
  ASSUME TaskInv, StopStatus /\ StopFrame
  PROVE  TaskInv'
  <1>1. FrontTypes'
    BY DEF TaskInv, FrontTypes, StopStatus, StopMoves, StopFrame
  <1>2. StopInv'
    BY DEF TaskInv, StopInv, Unasked, Heard, Cancelled, StopStatus, StopMoves, StopFrame,
        jobVars, runVars, contractVars
  <1>3. /\ FlagTypes' /\ StoreTypes' /\ JobTypes' /\ RunTypes' /\ ThreadInv' /\ CycleInv'
        /\ OwnerInv' /\ AdmissionInv' /\ ReportInv' /\ ReceiptsAreTrue'
    BY FlagsKept, StoreKept, JobsKept, RunsKept, ThreadsKept, CyclesKept, OwnerKept,
       AdmissionKept, ReportKept, ReceiptsKept
       DEF TaskInv, StopStatus, StopMoves, StopFrame, storeVars, jobVars, sessionVars, runVars,
           contractVars
  <1>4. QED
    BY <1>1, <1>2, <1>3 DEF TaskInv

\* It reaches the run.
LEMMA StopRequestSafe ==
  ASSUME TaskInv, StopRequest /\ StopFrame
  PROVE  TaskInv'
  <1>1. FrontTypes'
    BY DEF TaskInv, FrontTypes, StopRequest, StopMoves, StopFrame
  <1>2. RunTypes'
    BY RequestsApart, SessionAssumption, Beginnings
       DEF TaskInv, RunTypes, JobTypes, CycleInv, Working, Current, Preparing, Actors,
           StopRequest, StopMoves, StopFrame, storeVars, jobVars, sessionVars, RequestStop,
           Coordinator!Ask, runVars, contractVars
  <1>3. StopInv'
    BY DEF TaskInv, StopInv, Unasked, Heard, Cancelled, StopRequest, StopMoves, StopFrame,
        jobVars, RequestStop, Coordinator!Ask, contractVars
  <1>4. /\ FlagTypes' /\ StoreTypes' /\ JobTypes' /\ ThreadInv' /\ CycleInv' /\ OwnerInv'
        /\ AdmissionInv' /\ ReportInv' /\ ReceiptsAreTrue'
    BY FlagsKept, StoreKept, JobsKept, ThreadsKept, CyclesKept, OwnerKept, AdmissionKept,
       ReportKept, ReceiptsKept
       DEF TaskInv, StopRequest, StopMoves, StopFrame, storeVars, jobVars, sessionVars,
           RequestStop, Coordinator!Ask, runVars, contractVars
  <1>5. QED
    BY <1>1, <1>2, <1>3, <1>4 DEF TaskInv

\* The service is told to end.
LEMMA ShutdownSafe ==
  ASSUME TaskInv, Shutdown /\ MainFrame
  PROVE  TaskInv'
  <1>1. FlagTypes'
    BY DEF TaskInv, FlagTypes, Shutdown, MainFrame
  <1>2. FrontTypes'
    BY SessionAssumption DEF TaskInv, FrontTypes, Shutdown, MainMoves, MainFrame
  <1>3. StopInv'
    BY DEF TaskInv, StopInv, Unasked, Heard, Cancelled, Shutdown, MainMoves, MainFrame, jobVars,
        runVars, contractVars
  <1>4. /\ StoreTypes' /\ JobTypes' /\ RunTypes' /\ ThreadInv' /\ CycleInv' /\ OwnerInv'
        /\ AdmissionInv' /\ ReportInv' /\ ReceiptsAreTrue'
    BY StoreKept, JobsKept, RunsKept, ThreadsKept, CyclesKept, OwnerKept, AdmissionKept,
       ReportKept, ReceiptsKept
       DEF TaskInv, Shutdown, MainMoves, MainFrame, storeVars, jobVars, sessionVars, runVars,
           contractVars
  <1>5. QED
    BY <1>1, <1>2, <1>3, <1>4 DEF TaskInv

\* It stops its run.
LEMMA ShutdownRequestSafe ==
  ASSUME TaskInv, ShutdownRequest /\ MainFrame
  PROVE  TaskInv'
  <1>1. FrontTypes'
    BY DEF TaskInv, FrontTypes, ShutdownRequest, MainMoves, MainFrame
  <1>2. RunTypes'
    BY RequestsApart, SessionAssumption, Beginnings
       DEF TaskInv, RunTypes, JobTypes, CycleInv, Working, Current, Preparing, Actors,
           ShutdownRequest, MainMoves, MainFrame, storeVars, jobVars, sessionVars, runVars,
           contractVars, RequestStop, Coordinator!Ask
  <1>3. StopInv'
    BY DEF TaskInv, StopInv, Unasked, Heard, Cancelled, ShutdownRequest, MainFrame, jobVars,
        contractVars, RequestStop, Coordinator!Ask
  <1>4. /\ FlagTypes' /\ StoreTypes' /\ JobTypes' /\ ThreadInv' /\ CycleInv' /\ OwnerInv'
        /\ AdmissionInv' /\ ReportInv' /\ ReceiptsAreTrue'
    BY FlagsKept, StoreKept, JobsKept, ThreadsKept, CyclesKept, OwnerKept, AdmissionKept,
       ReportKept, ReceiptsKept
       DEF TaskInv, ShutdownRequest, MainMoves, MainFrame, storeVars, jobVars, sessionVars,
           runVars, contractVars, RequestStop, Coordinator!Ask
  <1>5. QED
    BY <1>1, <1>2, <1>3, <1>4 DEF TaskInv

\* It waits for its threads.
LEMMA ShutdownJoinSafe ==
  ASSUME TaskInv, ShutdownJoin /\ MainFrame
  PROVE  TaskInv'
  <1>1. FrontTypes'
    BY DEF TaskInv, FrontTypes, ShutdownJoin, MainMoves, MainFrame
  <1>2. StopInv'
    BY DEF TaskInv, StopInv, Unasked, Heard, Cancelled, ShutdownJoin, MainMoves, MainFrame,
        jobVars, runVars, contractVars
  <1>3. /\ FlagTypes' /\ StoreTypes' /\ JobTypes' /\ RunTypes' /\ ThreadInv' /\ CycleInv'
        /\ OwnerInv' /\ AdmissionInv' /\ ReportInv' /\ ReceiptsAreTrue'
    BY FlagsKept, StoreKept, JobsKept, RunsKept, ThreadsKept, CyclesKept, OwnerKept,
       AdmissionKept, ReportKept, ReceiptsKept
       DEF TaskInv, ShutdownJoin, MainMoves, MainFrame, storeVars, jobVars, sessionVars,
           runVars, contractVars
  <1>4. QED
    BY <1>1, <1>2, <1>3 DEF TaskInv

-----------------------------------------------------------------------------
(* Starting a run.                                                         *)

\* The job's run is compiled and published.
LEMMA AssembleJobSafe ==
  ASSUME TaskInv, Assemble("job") /\ StartingFrame
  PROVE  TaskInv'
  <1>1. JobTypes'
    BY JobGoes, JobStartFails DEF TaskInv, JobTypes, JobPcs, Assemble, StartingFrame,
        sessionVars, Unstarted
  <1>2. ThreadInv'
    BY JobGoes, JobStartFails DEF TaskInv, ThreadInv, Asleep, Early, Preparing, Signalling,
        Assemble, StartingFrame, Unstarted
  <1>3. CycleInv'
    BY JobGoes, JobStartFails DEF TaskInv, CycleInv, Current, Earned, Assemble, StartingFrame,
        sessionVars, runVars, contractVars
  <1>4. OwnerInv'
    BY JobGoes, JobStartFails DEF TaskInv, OwnerInv, Preparing, First, RunActive, Assemble,
        StartingFrame, runVars, contractVars, Unstarted
  <1>5. StopInv'
    BY JobGoes, JobStartFails DEF TaskInv, StopInv, Unasked, Heard, Cancelled, Preparing,
        Assemble, StartingFrame, frontVars, runVars, contractVars
  <1>6. AdmissionInv'
    BY JobGoes, JobStartFails DEF TaskInv, AdmissionInv, Assemble, StartingFrame, storeVars,
        frontVars
  <1>7. ReportInv'
    BY JobGoes, JobStartFails DEF TaskInv, ReportInv, Asleep, Early, Preparing, Assemble,
        StartingFrame, storeVars, Unstarted
  <1>8. FlagTypes' /\ FrontTypes' /\ StoreTypes' /\ RunTypes' /\ ReceiptsAreTrue'
    BY FlagsKept, FrontKept, StoreKept, RunsKept, ReceiptsKept
       DEF TaskInv, Assemble, StartingFrame, storeVars, frontVars, sessionVars, runVars,
           contractVars, Fails
  <1>9. QED
    BY <1>1, <1>2, <1>3, <1>4, <1>5, <1>6, <1>7, <1>8 DEF TaskInv

\* The job looks at the flags.
LEMMA CommitJobSafe ==
  ASSUME TaskInv, Commit("job") /\ StartingFrame
  PROVE  TaskInv'
  <1>1. FrontTypes'
    BY JobGoes, JobStartFails DEF TaskInv, FrontTypes, Actors, Commit, StartingFrame, frontVars
  <1>2. JobTypes'
    BY JobGoes, JobStartFails DEF TaskInv, JobTypes, JobPcs, Commit, StartingFrame, sessionVars,
        Unstarted
  <1>3. ThreadInv'
    BY JobGoes, JobStartFails DEF TaskInv, ThreadInv, Asleep, Early, Preparing, Signalling,
        Commit, StartingFrame, Unstarted
  <1>4. CycleInv'
    BY JobGoes, JobStartFails DEF TaskInv, CycleInv, Current, Earned, Commit, StartingFrame,
        sessionVars, runVars, contractVars
  <1>5. OwnerInv'
    BY JobGoes, JobStartFails DEF TaskInv, OwnerInv, Preparing, First, RunActive, Commit,
        StartingFrame, runVars, contractVars, Unstarted
  <1>6. StopInv'
    BY JobGoes, JobStartFails DEF TaskInv, StopInv, Unasked, Heard, Cancelled, Preparing,
        Commit, StartingFrame, frontVars, runVars, contractVars
  <1>7. AdmissionInv'
    BY JobGoes, JobStartFails DEF TaskInv, AdmissionInv, Commit, StartingFrame, storeVars,
        frontVars
  <1>8. ReportInv'
    BY JobGoes, JobStartFails DEF TaskInv, ReportInv, Asleep, Early, Preparing, Commit,
        StartingFrame, storeVars, Unstarted
  <1>9. FlagTypes' /\ StoreTypes' /\ RunTypes' /\ ReceiptsAreTrue'
    BY FlagsKept, StoreKept, RunsKept, ReceiptsKept
       DEF TaskInv, Commit, StartingFrame, storeVars, frontVars, sessionVars, runVars,
           contractVars, Fails
  <1>10. QED
    BY <1>1, <1>2, <1>3, <1>4, <1>5, <1>6, <1>7, <1>8, <1>9 DEF TaskInv

\* The job's run is begun.
LEMMA BeginJobSafe ==
  ASSUME TaskInv, Begin("job") /\ StartingFrame
  PROVE  TaskInv'
  <1>1. JobTypes'
    BY JobGoes DEF TaskInv, JobTypes, JobPcs, Begin, StartingFrame, sessionVars
  <1>2. RunTypes'
    <2>1. request' \in Runs
      BY Beginnings DEF TaskInv, RunTypes, JobTypes, Jobs, Runs, Begin, Wanted
    <2>2. job.req \in Requests
      BY JobGoes, RequestsApart
         DEF TaskInv, ThreadInv, CycleInv, RunTypes, Preparing, Working, Begin
    <2>3. run' \in 0 .. MaxRuns
      BY SessionAssumption DEF TaskInv, RunTypes, Begin, Coordinator!Begin
    <2>4. QED
      BY <2>1, <2>2, <2>3
         DEF TaskInv, RunTypes, Begin, Coordinator!Begin, StartingFrame, sessionVars
  <1>3. ThreadInv'
    BY JobGoes DEF TaskInv, ThreadInv, Asleep, Early, Preparing, Signalling, Begin,
        StartingFrame
  <1>4. CycleInv'
    BY JobGoes DEF TaskInv, CycleInv, ThreadInv, RunTypes, Asleep, Preparing, Begin,
        StartingFrame, sessionVars, Coordinator!Begin
  <1>5. OwnerInv'
    BY JobGoes DEF TaskInv, OwnerInv, ThreadInv, RunTypes, Early, Preparing, First, Asleep,
        Begin, Coordinator!Begin, Wanted
  <1>6. StopInv'
    BY JobGoes DEF TaskInv, StopInv, ThreadInv, Heard, Cancelled, Leaving, Preparing, Asleep,
        Begin, StartingFrame, frontVars, Wanted
  <1>7. AdmissionInv'
    <2>1. pc["job"] = "start" /\ begun' = begun \union {job.req}
      BY JobGoes DEF TaskInv, Begin
    <2>2. job.req \in Requests
      BY <2>1, RequestsApart
         DEF TaskInv, ThreadInv, CycleInv, RunTypes, Preparing, Working
    <2>3. caller' = caller /\ disk' = disk /\ job' = job
      BY DEF Begin, StartingFrame, storeVars, frontVars
    <2>4. disk[job.req] # "absent"
      BY <2>2, RequestsApart DEF TaskInv, AdmissionInv
    <2>5. QED
      BY <2>1, <2>2, <2>3, <2>4 DEF TaskInv, AdmissionInv
  <1>8. ReportInv'
    BY JobGoes DEF TaskInv, ReportInv, Asleep, Early, Preparing, Begin, StartingFrame, storeVars
  <1>9. ReceiptsAreTrue'
    BY JobGoes, RequestsApart DEF TaskInv, ReceiptsAreTrue, ReportInv, Asleep, Begin,
        StartingFrame, storeVars
  <1>10. FlagTypes' /\ FrontTypes' /\ StoreTypes'
    BY FlagsKept, FrontKept, StoreKept
       DEF TaskInv, Begin, StartingFrame, storeVars, frontVars, sessionVars, Coordinator!Begin,
           contractVars
  <1>11. QED
    BY <1>1, <1>2, <1>3, <1>4, <1>5, <1>6, <1>7, <1>8, <1>9, <1>10 DEF TaskInv

\* The job's run is not begun.
LEMMA StartFailsJobSafe ==
  ASSUME TaskInv, StartFails("job") /\ StartingFrame
  PROVE  TaskInv'
  <1>1. FrontTypes'
    BY JobGoes, JobStartFails DEF TaskInv, FrontTypes, StartFails, StartingFrame, frontVars
  <1>2. JobTypes'
    BY JobGoes, JobStartFails DEF TaskInv, JobTypes, JobPcs, StartFails, StartingFrame,
        sessionVars, Unstarted
  <1>3. ThreadInv'
    BY JobGoes, JobStartFails DEF TaskInv, ThreadInv, Asleep, Early, Preparing, Signalling,
        StartFails, StartingFrame, Unstarted
  <1>4. CycleInv'
    BY JobGoes, JobStartFails DEF TaskInv, CycleInv, Current, Earned, StartFails, StartingFrame,
        sessionVars, runVars, contractVars
  <1>5. OwnerInv'
    BY JobGoes, JobStartFails DEF TaskInv, OwnerInv, Preparing, First, RunActive, StartFails,
        StartingFrame, runVars, contractVars, Unstarted
  <1>6. StopInv'
    BY JobGoes, JobStartFails DEF TaskInv, StopInv, Unasked, Heard, Cancelled, Preparing,
        StartFails, StartingFrame, frontVars, runVars, contractVars
  <1>7. AdmissionInv'
    BY JobGoes, JobStartFails DEF TaskInv, AdmissionInv, StartFails, StartingFrame, storeVars,
        frontVars
  <1>8. ReportInv'
    BY JobGoes, JobStartFails DEF TaskInv, ReportInv, Asleep, Early, Preparing, StartFails,
        StartingFrame, storeVars, Unstarted
  <1>9. FlagTypes' /\ StoreTypes' /\ RunTypes' /\ ReceiptsAreTrue'
    BY FlagsKept, StoreKept, RunsKept, ReceiptsKept
       DEF TaskInv, StartFails, StartingFrame, storeVars, frontVars, sessionVars, runVars,
           contractVars, Fails
  <1>10. QED
    BY <1>1, <1>2, <1>3, <1>4, <1>5, <1>6, <1>7, <1>8, <1>9 DEF TaskInv

\* The job's run is launched.
LEMMA LaunchJobSafe ==
  ASSUME TaskInv, Launch("job") /\ StartingFrame
  PROVE  TaskInv'
  <1>1. FrontTypes'
    BY JobGoes, JobStartFails DEF TaskInv, FrontTypes, Launch, StartingFrame, frontVars
  <1>2. JobTypes'
    BY JobGoes, JobStartFails DEF TaskInv, JobTypes, JobPcs, Launch, StartingFrame, sessionVars,
        Started, Unstarted
  <1>3. RunTypes'
    BY JobGoes, JobStartFails DEF TaskInv, RunTypes, Launch, StartingFrame, sessionVars,
        contractVars
  <1>4. ThreadInv'
    BY JobGoes, JobStartFails DEF TaskInv, ThreadInv, Asleep, Early, Signalling, Launch,
        StartingFrame, Started, Unstarted
  <1>5. CycleInv'
    BY JobGoes, JobStartFails DEF TaskInv, CycleInv, Current, Earned, Launch, StartingFrame,
        sessionVars, contractVars
  <1>6. OwnerInv'
    BY JobGoes, JobStartFails DEF TaskInv, OwnerInv, Early, Preparing, First, Launch,
        StartingFrame, sessionVars, Started, contractVars, Unstarted
  <1>7. StopInv'
    BY JobGoes, JobStartFails DEF TaskInv, StopInv, Unasked, Heard, Cancelled, Preparing,
        Launch, StartingFrame, frontVars, Started, contractVars, Unstarted
  <1>8. AdmissionInv'
    BY JobGoes, JobStartFails DEF TaskInv, AdmissionInv, Launch, StartingFrame, storeVars,
        frontVars
  <1>9. ReportInv'
    BY JobGoes, JobStartFails DEF TaskInv, ReportInv, OwnerInv, First, Asleep, Early, Preparing,
        Launch, StartingFrame, storeVars, Started, Unstarted
  <1>10. FlagTypes' /\ StoreTypes' /\ ReceiptsAreTrue'
    BY FlagsKept, StoreKept, ReceiptsKept
       DEF TaskInv, Launch, StartingFrame, storeVars, frontVars, sessionVars, contractVars,
           Fails
  <1>11. QED
    BY <1>1, <1>2, <1>3, <1>4, <1>5, <1>6, <1>7, <1>8, <1>9, <1>10 DEF TaskInv

\* The job's run is rolled back.
LEMMA RollbackJobSafe ==
  ASSUME TaskInv, Rollback("job") /\ StartingFrame
  PROVE  TaskInv'
  <1>1. FrontTypes'
    BY JobGoes, JobStartFails DEF TaskInv, FrontTypes, Rollback, StartingFrame, frontVars
  <1>2. JobTypes'
    BY JobGoes, JobStartFails DEF TaskInv, JobTypes, JobPcs, Rollback, StartingFrame,
        sessionVars, Unstarted
  <1>3. RunTypes'
    BY JobGoes, JobStartFails DEF TaskInv, RunTypes, Rollback, StartingFrame, sessionVars,
        Coordinator!Close
  <1>4. ThreadInv'
    BY JobGoes, JobStartFails DEF TaskInv, ThreadInv, Asleep, Early, Signalling, Rollback,
        StartingFrame, Unstarted
  <1>5. CycleInv'
    BY JobGoes, JobStartFails DEF TaskInv, CycleInv, Current, Earned, Rollback, StartingFrame,
        sessionVars, Coordinator!Close
  <1>6. OwnerInv'
    BY JobGoes, JobStartFails DEF TaskInv, OwnerInv, First, RunActive, Rollback,
        Coordinator!Close
  <1>7. StopInv'
    BY JobGoes, JobStartFails DEF TaskInv, StopInv, Unasked, Heard, Cancelled, Rollback,
        StartingFrame, frontVars, Coordinator!Close
  <1>8. AdmissionInv'
    BY JobGoes, JobStartFails DEF TaskInv, AdmissionInv, Rollback, StartingFrame, storeVars,
        frontVars
  <1>9. ReportInv'
    BY JobGoes, JobStartFails DEF TaskInv, ReportInv, Asleep, Early, Preparing, Rollback,
        StartingFrame, storeVars, Unstarted
  <1>10. FlagTypes' /\ StoreTypes' /\ ReceiptsAreTrue'
    BY FlagsKept, StoreKept, ReceiptsKept
       DEF TaskInv, Rollback, StartingFrame, storeVars, frontVars, sessionVars,
           Coordinator!Close, Fails
  <1>11. QED
    BY <1>1, <1>2, <1>3, <1>4, <1>5, <1>6, <1>7, <1>8, <1>9, <1>10 DEF TaskInv

\* The session's run is compiled and published.
LEMMA AssembleSessionSafe ==
  ASSUME TaskInv, Assemble("session") /\ StartingFrame
  PROVE  TaskInv'
  <1>1. FrontTypes'
    BY SessionGoes, SessionStartFails DEF TaskInv, FrontTypes, Assemble, StartingFrame,
        frontVars
  <1>2. JobTypes'
    BY SessionGoes, SessionStartFails DEF TaskInv, JobTypes, SessionPcs, Assemble,
        StartingFrame, sessionVars, Unstarted
  <1>3. ThreadInv'
    BY SessionGoes, SessionStartFails DEF TaskInv, ThreadInv, Asleep, Assemble, StartingFrame,
        Unstarted
  <1>4. CycleInv'
    BY SessionGoes, SessionStartFails DEF TaskInv, CycleInv, Working, Preparing, Earned,
        Assemble, StartingFrame, sessionVars, runVars, contractVars, Unstarted
  <1>5. OwnerInv'
    BY SessionGoes, SessionStartFails DEF TaskInv, OwnerInv, CycleInv, Preparing, First,
        RunActive, Working, Assemble, StartingFrame, sessionVars, runVars, contractVars,
        Unstarted
  <1>6. StopInv'
    BY SessionGoes, SessionStartFails DEF TaskInv, StopInv, Heard, Cancelled, Leaving, Asleep,
        Assemble, StartingFrame, frontVars, Unstarted
  <1>7. ReportInv'
    BY SessionGoes, SessionStartFails DEF TaskInv, ReportInv, Assemble, StartingFrame, storeVars
  <1>8. FlagTypes' /\ StoreTypes' /\ RunTypes' /\ AdmissionInv' /\ ReceiptsAreTrue'
    BY FlagsKept, StoreKept, RunsKept, AdmissionKept, ReceiptsKept
       DEF TaskInv, Assemble, StartingFrame, storeVars, frontVars, sessionVars, runVars,
           contractVars, Fails
  <1>9. QED
    BY <1>1, <1>2, <1>3, <1>4, <1>5, <1>6, <1>7, <1>8 DEF TaskInv

\* The session looks at the flags.
LEMMA CommitSessionSafe ==
  ASSUME TaskInv, Commit("session") /\ StartingFrame
  PROVE  TaskInv'
  <1>1. FrontTypes'
    BY SessionGoes, SessionStartFails DEF TaskInv, FrontTypes, Actors, Commit, StartingFrame,
        frontVars
  <1>2. JobTypes'
    BY SessionGoes, SessionStartFails DEF TaskInv, JobTypes, SessionPcs, Commit, StartingFrame,
        sessionVars, Unstarted
  <1>3. ThreadInv'
    BY SessionGoes, SessionStartFails DEF TaskInv, ThreadInv, Asleep, Commit, StartingFrame,
        Unstarted
  <1>4. CycleInv'
    BY SessionGoes, SessionStartFails DEF TaskInv, CycleInv, Working, Preparing, Earned, Commit,
        StartingFrame, sessionVars, runVars, contractVars, Unstarted
  <1>5. OwnerInv'
    BY SessionGoes, SessionStartFails DEF TaskInv, OwnerInv, CycleInv, Preparing, First,
        RunActive, Working, Commit, StartingFrame, sessionVars, runVars, contractVars, Unstarted
  <1>6. StopInv'
    BY SessionGoes, SessionStartFails DEF TaskInv, StopInv, Heard, Cancelled, Leaving, Asleep,
        Commit, StartingFrame, frontVars, Unstarted
  <1>7. ReportInv'
    BY SessionGoes, SessionStartFails DEF TaskInv, ReportInv, Commit, StartingFrame, storeVars
  <1>8. FlagTypes' /\ StoreTypes' /\ RunTypes' /\ AdmissionInv' /\ ReceiptsAreTrue'
    BY FlagsKept, StoreKept, RunsKept, AdmissionKept, ReceiptsKept
       DEF TaskInv, Commit, StartingFrame, storeVars, frontVars, sessionVars, runVars,
           contractVars, Fails
  <1>9. QED
    BY <1>1, <1>2, <1>3, <1>4, <1>5, <1>6, <1>7, <1>8 DEF TaskInv

\* The session's run is begun.
LEMMA BeginSessionSafe ==
  ASSUME TaskInv, Begin("session") /\ StartingFrame
  PROVE  TaskInv'
  <1>1. JobTypes'
    BY SessionGoes DEF TaskInv, JobTypes, SessionPcs, Begin, StartingFrame, sessionVars
  <1>2. RunTypes'
    <2>1. request' \in Runs
      BY Beginnings DEF TaskInv, RunTypes, JobTypes, Jobs, Runs, Begin, Wanted
    <2>2. job.req \in Requests
      BY SessionGoes, RequestsApart
         DEF TaskInv, ThreadInv, CycleInv, RunTypes, Preparing, Working, Begin
    <2>3. run' \in 0 .. MaxRuns
      BY SessionAssumption DEF TaskInv, RunTypes, Begin, Coordinator!Begin
    <2>4. QED
      BY <2>1, <2>2, <2>3
         DEF TaskInv, RunTypes, Begin, Coordinator!Begin, StartingFrame, sessionVars
  <1>3. ThreadInv'
    BY SessionGoes DEF TaskInv, ThreadInv, Asleep, Begin, StartingFrame
  <1>4. CycleInv'
    BY SessionGoes DEF TaskInv, CycleInv, RunTypes, Working, Preparing, Current, Begin,
        StartingFrame, sessionVars, Coordinator!Begin, Wanted
  <1>5. OwnerInv'
    BY SessionGoes DEF TaskInv, OwnerInv, ThreadInv, Signalling, Asleep, Begin, Wanted
  <1>6. StopInv'
    BY SessionGoes DEF TaskInv, StopInv, Heard, Cancelled, Leaving, Asleep, Begin,
        StartingFrame, frontVars
  <1>7. AdmissionInv'
    <2>1. pc["session"] = "start" /\ begun' = begun \union {job.req}
      BY SessionGoes DEF TaskInv, Begin
    <2>2. job.req \in Requests
      BY <2>1, RequestsApart
         DEF TaskInv, ThreadInv, CycleInv, RunTypes, Preparing, Working
    <2>3. caller' = caller /\ disk' = disk /\ job' = job
      BY DEF Begin, StartingFrame, storeVars, frontVars
    <2>4. disk[job.req] # "absent"
      BY <2>2, RequestsApart DEF TaskInv, AdmissionInv
    <2>5. QED
      BY <2>1, <2>2, <2>3, <2>4 DEF TaskInv, AdmissionInv
  <1>8. ReportInv'
    BY SessionGoes DEF TaskInv, ReportInv, CycleInv, Preparing, Working, Begin, StartingFrame,
        storeVars
  <1>9. ReceiptsAreTrue'
    BY SessionGoes DEF TaskInv, ReceiptsAreTrue, CycleInv, Preparing, Working, Begin,
        StartingFrame, storeVars
  <1>10. FlagTypes' /\ FrontTypes' /\ StoreTypes'
    BY FlagsKept, FrontKept, StoreKept
       DEF TaskInv, Begin, StartingFrame, storeVars, frontVars, sessionVars, Coordinator!Begin,
           contractVars
  <1>11. QED
    BY <1>1, <1>2, <1>3, <1>4, <1>5, <1>6, <1>7, <1>8, <1>9, <1>10 DEF TaskInv

\* The session's run is not begun.
LEMMA StartFailsSessionSafe ==
  ASSUME TaskInv, StartFails("session") /\ StartingFrame
  PROVE  TaskInv'
  <1>1. FrontTypes'
    BY SessionGoes, SessionStartFails DEF TaskInv, FrontTypes, StartFails, StartingFrame,
        frontVars
  <1>2. JobTypes'
    BY SessionGoes, SessionStartFails DEF TaskInv, JobTypes, SessionPcs, StartFails,
        StartingFrame, sessionVars, Unstarted
  <1>3. ThreadInv'
    BY SessionGoes, SessionStartFails DEF TaskInv, ThreadInv, Asleep, StartFails, StartingFrame,
        Unstarted
  <1>4. CycleInv'
    BY SessionGoes, SessionStartFails DEF TaskInv, CycleInv, Working, Preparing, StartFails,
        StartingFrame, sessionVars, runVars, contractVars, Unstarted
  <1>5. OwnerInv'
    BY SessionGoes, SessionStartFails DEF TaskInv, OwnerInv, CycleInv, Preparing, First,
        RunActive, Working, StartFails, StartingFrame, sessionVars, runVars, contractVars,
        Unstarted
  <1>6. StopInv'
    BY SessionGoes, SessionStartFails DEF TaskInv, StopInv, Heard, Cancelled, Leaving, Asleep,
        StartFails, StartingFrame, frontVars, Unstarted
  <1>7. ReportInv'
    BY SessionGoes, SessionStartFails DEF TaskInv, ReportInv, StartFails, StartingFrame,
        storeVars
  <1>8. FlagTypes' /\ StoreTypes' /\ RunTypes' /\ AdmissionInv' /\ ReceiptsAreTrue'
    BY FlagsKept, StoreKept, RunsKept, AdmissionKept, ReceiptsKept
       DEF TaskInv, StartFails, StartingFrame, storeVars, frontVars, sessionVars, runVars,
           contractVars, Fails
  <1>9. QED
    BY <1>1, <1>2, <1>3, <1>4, <1>5, <1>6, <1>7, <1>8 DEF TaskInv

\* The session's run is launched.
LEMMA LaunchSessionSafe ==
  ASSUME TaskInv, Launch("session") /\ StartingFrame
  PROVE  TaskInv'
  <1>1. FrontTypes'
    BY SessionGoes, SessionStartFails DEF TaskInv, FrontTypes, Launch, StartingFrame, frontVars
  <1>2. JobTypes'
    BY SessionGoes, SessionStartFails DEF TaskInv, JobTypes, SessionPcs, Launch, StartingFrame,
        sessionVars, Started, Unstarted
  <1>3. RunTypes'
    BY SessionGoes, SessionStartFails DEF TaskInv, RunTypes, Launch, StartingFrame, sessionVars,
        contractVars
  <1>4. ThreadInv'
    BY SessionGoes, SessionStartFails DEF TaskInv, ThreadInv, Asleep, Launch, StartingFrame,
        Started, Unstarted
  <1>5. CycleInv'
    BY SessionGoes, SessionStartFails DEF TaskInv, CycleInv, Working, Preparing, Current,
        Launch, StartingFrame, sessionVars, Started, contractVars, Unstarted
  <1>6. OwnerInv'
    BY SessionGoes, SessionStartFails DEF TaskInv, OwnerInv, CycleInv, First, RunActive,
        Working, Launch, StartingFrame, sessionVars, Started, contractVars, Unstarted
  <1>7. StopInv'
    BY SessionGoes, SessionStartFails DEF TaskInv, StopInv, Heard, Cancelled, Leaving, Asleep,
        Launch, StartingFrame, frontVars, Started, Unstarted
  <1>8. ReportInv'
    BY SessionGoes, SessionStartFails DEF TaskInv, ReportInv, Launch, StartingFrame, storeVars
  <1>9. FlagTypes' /\ StoreTypes' /\ AdmissionInv' /\ ReceiptsAreTrue'
    BY FlagsKept, StoreKept, AdmissionKept, ReceiptsKept
       DEF TaskInv, Launch, StartingFrame, storeVars, frontVars, sessionVars, contractVars,
           Fails
  <1>10. QED
    BY <1>1, <1>2, <1>3, <1>4, <1>5, <1>6, <1>7, <1>8, <1>9 DEF TaskInv

\* The session's run is rolled back.
LEMMA RollbackSessionSafe ==
  ASSUME TaskInv, Rollback("session") /\ StartingFrame
  PROVE  TaskInv'
  <1>1. FrontTypes'
    BY SessionGoes, SessionStartFails DEF TaskInv, FrontTypes, Rollback, StartingFrame,
        frontVars
  <1>2. JobTypes'
    BY SessionGoes, SessionStartFails DEF TaskInv, JobTypes, SessionPcs, Rollback,
        StartingFrame, sessionVars, Unstarted
  <1>3. RunTypes'
    BY SessionGoes, SessionStartFails DEF TaskInv, RunTypes, Rollback, StartingFrame,
        sessionVars, Coordinator!Close
  <1>4. ThreadInv'
    BY SessionGoes, SessionStartFails DEF TaskInv, ThreadInv, Asleep, Rollback, StartingFrame,
        Unstarted
  <1>5. CycleInv'
    BY SessionGoes, SessionStartFails DEF TaskInv, CycleInv, Working, Preparing, Rollback,
        StartingFrame, sessionVars, Coordinator!Close, Unstarted
  <1>6. OwnerInv'
    BY SessionGoes, SessionStartFails DEF TaskInv, OwnerInv, First, RunActive, Rollback,
        Coordinator!Close, Unstarted
  <1>7. StopInv'
    BY SessionGoes, SessionStartFails DEF TaskInv, StopInv, Heard, Cancelled, Leaving, Asleep,
        Rollback, StartingFrame, frontVars, Unstarted
  <1>8. ReportInv'
    BY SessionGoes, SessionStartFails DEF TaskInv, ReportInv, Rollback, StartingFrame, storeVars
  <1>9. FlagTypes' /\ StoreTypes' /\ AdmissionInv' /\ ReceiptsAreTrue'
    BY FlagsKept, StoreKept, AdmissionKept, ReceiptsKept
       DEF TaskInv, Rollback, StartingFrame, storeVars, frontVars, sessionVars,
           Coordinator!Close, Fails
  <1>10. QED
    BY <1>1, <1>2, <1>3, <1>4, <1>5, <1>6, <1>7, <1>8, <1>9 DEF TaskInv

-----------------------------------------------------------------------------
(* The job.                                                                *)

\* A job begins, or is cancelled.
LEMMA JobBeginSafe ==
  ASSUME TaskInv, JobBegin /\ JobFrame
  PROVE  TaskInv'
  <1>1. JobTypes'
    BY JobGoes, JobFailsSo DEF TaskInv, JobTypes, JobPcs, JobBegin, sessionVars
  <1>2. ThreadInv'
    BY JobGoes, JobFailsSo DEF TaskInv, ThreadInv, Asleep, Early, Preparing, Signalling,
        JobBegin
  <1>3. CycleInv'
    BY JobGoes, JobFailsSo DEF TaskInv, CycleInv, Current, Earned, JobBegin, JobFrame,
        sessionVars, runVars, contractVars
  <1>4. OwnerInv'
    BY JobGoes, JobFailsSo DEF TaskInv, OwnerInv, Early, First, RunActive, JobBegin, JobFrame,
        runVars, contractVars
  <1>5. StopInv'
    BY JobGoes, JobFailsSo DEF TaskInv, StopInv, Unasked, Heard, Cancelled, Preparing, JobBegin,
        JobFrame, frontVars, runVars, contractVars
  <1>6. AdmissionInv'
    BY JobGoes, JobFailsSo DEF TaskInv, AdmissionInv, JobBegin, JobFrame, frontVars, storeVars
  <1>7. ReportInv'
    BY JobGoes, JobFailsSo DEF TaskInv, ReportInv, Asleep, Early, Preparing, JobBegin, JobFrame,
        storeVars
  <1>8. FlagTypes' /\ FrontTypes' /\ StoreTypes' /\ RunTypes' /\ ReceiptsAreTrue'
    BY FlagsKept, FrontKept, StoreKept, RunsKept, ReceiptsKept
       DEF TaskInv, JobBegin, JobFrame, frontVars, JobFails, storeVars, sessionVars, runVars,
           contractVars
  <1>9. QED
    BY <1>1, <1>2, <1>3, <1>4, <1>5, <1>6, <1>7, <1>8 DEF TaskInv

\* A request is prepared.
LEMMA JobPrepareSafe ==
  ASSUME TaskInv, JobPrepare /\ JobFrame
  PROVE  TaskInv'
  <1>1. JobTypes'
    BY JobGoes, JobFailsSo DEF TaskInv, JobTypes, JobPcs, JobPrepare, sessionVars
  <1>2. ThreadInv'
    BY JobGoes, JobFailsSo DEF TaskInv, ThreadInv, Asleep, Early, Preparing, Signalling,
        JobPrepare
  <1>3. CycleInv'
    BY JobGoes, JobFailsSo DEF TaskInv, CycleInv, Current, Earned, JobPrepare, JobFrame,
        sessionVars, runVars, contractVars
  <1>4. OwnerInv'
    BY JobGoes, JobFailsSo DEF TaskInv, OwnerInv, Early, First, RunActive, JobPrepare, JobFrame,
        runVars, contractVars
  <1>5. StopInv'
    BY JobGoes, JobFailsSo DEF TaskInv, StopInv, Unasked, Heard, Cancelled, Preparing,
        JobPrepare, JobFrame, frontVars, EpochKept, runVars, contractVars
  <1>6. AdmissionInv'
    BY JobGoes, JobFailsSo DEF TaskInv, AdmissionInv, JobPrepare, JobFrame, frontVars, storeVars
  <1>7. ReportInv'
    BY JobGoes, JobFailsSo DEF TaskInv, ReportInv, Asleep, Early, Preparing, JobPrepare,
        JobFrame, storeVars
  <1>8. FlagTypes' /\ FrontTypes' /\ StoreTypes' /\ RunTypes' /\ ReceiptsAreTrue'
    BY FlagsKept, FrontKept, StoreKept, RunsKept, ReceiptsKept
       DEF TaskInv, JobPrepare, JobFrame, frontVars, JobFails, storeVars, sessionVars, runVars,
           contractVars
  <1>9. QED
    BY <1>1, <1>2, <1>3, <1>4, <1>5, <1>6, <1>7, <1>8 DEF TaskInv

\* The session of a task is created.
LEMMA JobWatchSafe ==
  ASSUME TaskInv, JobWatch /\ JobFrame
  PROVE  TaskInv'
  <1>1. FlagTypes'
    BY DEF TaskInv, FlagTypes, JobWatch, JobFrame, frontVars, storeVars, sessionVars, runVars,
        contractVars
  <1>2. FrontTypes'
    BY JobGoes, JobFailsSo DEF TaskInv, FrontTypes, JobWatch, JobFrame, frontVars
  <1>3. JobTypes'
    <2>1. CASE pc' = [job |-> "assemble", session |-> "await"]
      <3>1. DOMAIN pc' = Actors /\ pc'["job"] = "assemble" /\ pc'["session"] = "await"
        BY <2>1 DEF Actors
      <3>2. job' = job \/ job' \in Jobs
        BY JobFailsSo DEF TaskInv, JobWatch
      <3>3. (signal' = 0 /\ owns' = FALSE) \/ (signal' = signal /\ owns' = owns)
        BY DEF JobWatch, sessionVars
      <3>4. signal' \in 0 .. 2
        BY <3>3 DEF TaskInv, JobTypes
      <3>5. QED
        BY <3>1, <3>2, <3>3, <3>4 DEF TaskInv, JobTypes, JobPcs, SessionPcs
    <2>2. CASE pc' # [job |-> "assemble", session |-> "await"]
      BY <2>2, JobFailsSo DEF TaskInv, JobTypes, JobWatch, sessionVars, JobPcs
    <2>3. QED
      BY <2>1, <2>2
  <1>4. RunTypes'
    BY JobGoes, JobFailsSo, Beginnings
       DEF TaskInv, RunTypes, JobWatch, JobFrame, sessionVars, runVars, contractVars
  <1>5. ThreadInv'
    BY JobGoes, JobFailsSo DEF TaskInv, ThreadInv, Asleep, Early, Preparing, Signalling,
        JobWatch
  <1>6. CycleInv'
    BY JobGoes, JobFailsSo DEF TaskInv, CycleInv, RunTypes, Working, Preparing, Current, Earned,
        JobWatch, JobFrame, sessionVars, runVars, contractVars
  <1>7. OwnerInv'
    BY JobGoes, JobFailsSo DEF TaskInv, OwnerInv, Early, RunActive, Asleep, JobWatch, runVars,
        contractVars
  <1>8. StopInv'
    BY JobGoes, JobFailsSo DEF TaskInv, StopInv, Unasked, Heard, Cancelled, JobWatch, JobFrame,
        frontVars, runVars, contractVars
  <1>9. AdmissionInv'
    BY JobGoes, JobFailsSo DEF TaskInv, AdmissionInv, JobWatch, JobFrame, frontVars, storeVars
  <1>10. ReportInv'
    BY JobGoes, JobFailsSo DEF TaskInv, ReportInv, Asleep, Early, Preparing, JobWatch, JobFrame,
        storeVars
  <1>11. StoreTypes' /\ ReceiptsAreTrue'
    BY StoreKept, ReceiptsKept DEF TaskInv, JobWatch, JobFrame, frontVars, JobFails, storeVars,
        sessionVars, runVars, contractVars
  <1>12. QED
    BY <1>1, <1>2, <1>3, <1>4, <1>5, <1>6, <1>7, <1>8, <1>9, <1>10, <1>11 DEF TaskInv

\* The session is told how the start went.
LEMMA JobSignalSafe ==
  ASSUME TaskInv, JobSignal /\ JobFrame
  PROVE  TaskInv'
  <1>1. JobTypes'
    BY JobGoes DEF TaskInv, JobTypes, JobPcs, JobSignal, sessionVars
  <1>2. ThreadInv'
    BY JobGoes DEF TaskInv, ThreadInv, Asleep, Early, Preparing, Signalling, JobSignal
  <1>3. CycleInv'
    BY JobGoes DEF TaskInv, CycleInv, ThreadInv, Signalling, Earned, JobSignal, sessionVars,
        runVars, contractVars
  <1>4. OwnerInv'
    BY JobGoes DEF TaskInv, OwnerInv, Early, Preparing, First, JobSignal, JobFrame, sessionVars,
        runVars, contractVars
  <1>5. StopInv'
    BY JobGoes DEF TaskInv, StopInv, ThreadInv, Heard, Cancelled, Leaving, Signalling, Asleep,
        JobSignal, JobFrame, frontVars
  <1>6. ReportInv'
    BY JobGoes DEF TaskInv, ReportInv, OwnerInv, First, Asleep, Early, Preparing, JobSignal,
        JobFrame, storeVars
  <1>7. /\ FlagTypes' /\ FrontTypes' /\ StoreTypes' /\ RunTypes' /\ AdmissionInv'
        /\ ReceiptsAreTrue'
    BY FlagsKept, FrontKept, StoreKept, RunsKept, AdmissionKept, ReceiptsKept
       DEF TaskInv, JobSignal, JobFrame, frontVars, storeVars, sessionVars, runVars,
           contractVars
  <1>8. QED
    BY <1>1, <1>2, <1>3, <1>4, <1>5, <1>6, <1>7 DEF TaskInv

\* The receipt takes the run.
LEMMA JobNoteSafe ==
  ASSUME TaskInv, JobNote /\ JobFrame
  PROVE  TaskInv'
  <1>1. StoreTypes'
    <2>1. job.req \in Requests /\ "preparing" \in Receipts
      BY JobGoes, JobFailsSo DEF TaskInv, ThreadInv, JobNote, Receipts
    <2>2. QED
      BY <2>1, Saves, SavesNot DEF TaskInv, JobNote
  <1>2. JobTypes'
    BY JobGoes, JobFailsSo, Saves, SavesNot DEF TaskInv, JobTypes, JobPcs, JobNote, sessionVars
  <1>3. ThreadInv'
    BY JobGoes, JobFailsSo, Saves, SavesNot
       DEF TaskInv, ThreadInv, Asleep, Early, Preparing, Signalling, JobNote
  <1>4. CycleInv'
    BY JobGoes, JobFailsSo, Saves, SavesNot
       DEF TaskInv, CycleInv, Current, Earned, JobNote, JobFrame, sessionVars, runVars,
           contractVars
  <1>5. OwnerInv'
    BY JobGoes, JobFailsSo, Saves, SavesNot
       DEF TaskInv, OwnerInv, Early, Preparing, First, JobNote, JobFrame, sessionVars, runVars,
           contractVars
  <1>6. StopInv'
    BY JobGoes, JobFailsSo, Saves, SavesNot
       DEF TaskInv, StopInv, Unasked, Heard, Cancelled, Preparing, JobNote, JobFrame, frontVars,
           runVars, contractVars
  <1>7. AdmissionInv'
    BY JobGoes, JobFailsSo, Saves, SavesNot
       DEF TaskInv, AdmissionInv, ReportInv, FrontTypes, RunTypes, Callers, Receipts, JobNote,
           JobFrame, frontVars
  <1>8. ReportInv'
    BY JobGoes, JobFailsSo, Saves, SavesNot
       DEF TaskInv, ReportInv, RunTypes, Asleep, Early, Preparing, Receipts, JobNote, JobFrame
  <1>9. ReceiptsAreTrue'
    BY JobGoes, JobFailsSo, Saves, SavesNot
       DEF TaskInv, ReceiptsAreTrue, ReportInv, RunTypes, Receipts, JobNote, JobFrame
  <1>10. FlagTypes' /\ FrontTypes' /\ RunTypes'
    BY FlagsKept, FrontKept, RunsKept DEF TaskInv, JobNote, JobFrame, frontVars, JobFails,
        SaveSucceeds, SaveFails, sessionVars, runVars, contractVars
  <1>11. QED
    BY <1>1, <1>2, <1>3, <1>4, <1>5, <1>6, <1>7, <1>8, <1>9, <1>10 DEF TaskInv

\* The last receipt is written.
LEMMA JobReceiptSafe ==
  ASSUME TaskInv, JobReceipt /\ JobFrame
  PROVE  TaskInv'
  <1>1. StoreTypes'
    BY JobGoes, Saves, SavesNot DEF TaskInv, StoreTypes, Receipts, JobTypes, Jobs, JobReceipt,
        Outcome, storeVars
  <1>2. JobTypes'
    BY JobGoes, Saves, SavesNot DEF TaskInv, JobTypes, JobPcs, JobReceipt, jobVars, sessionVars
  <1>3. ThreadInv'
    BY JobGoes, Saves, SavesNot DEF TaskInv, ThreadInv, Asleep, Early, Preparing, Signalling,
        JobReceipt
  <1>4. CycleInv'
    BY JobGoes, Saves, SavesNot DEF TaskInv, CycleInv, Current, Earned, JobReceipt, JobFrame,
        jobVars, sessionVars, runVars, contractVars
  <1>5. OwnerInv'
    BY JobGoes, Saves, SavesNot DEF TaskInv, OwnerInv, Early, Preparing, First, JobReceipt,
        JobFrame, jobVars, sessionVars, runVars, contractVars
  <1>6. StopInv'
    BY JobGoes, Saves, SavesNot DEF TaskInv, StopInv, Unasked, Heard, Cancelled, Preparing,
        JobReceipt, JobFrame, frontVars, jobVars, runVars, contractVars
  <1>7. AdmissionInv'
    BY JobGoes, Saves, SavesNot DEF TaskInv, AdmissionInv, FrontTypes, JobTypes, RunTypes, Jobs,
        Callers, Receipts, JobReceipt, JobFrame, frontVars, Outcome, storeVars, jobVars
  <1>8. ReportInv'
    BY JobGoes, Saves, SavesNot DEF TaskInv, ReportInv, Early, Preparing, JobReceipt
  <1>9. ReceiptsAreTrue'
    BY JobGoes, Saves, SavesNot DEF TaskInv, ReceiptsAreTrue, ReportInv, JobTypes, Jobs,
        Receipts, JobReceipt, JobFrame, Outcome, storeVars
  <1>10. FlagTypes' /\ FrontTypes' /\ RunTypes'
    BY FlagsKept, FrontKept, RunsKept DEF TaskInv, JobReceipt, JobFrame, frontVars,
        SaveSucceeds, SaveFails, storeVars, jobVars, sessionVars, runVars, contractVars
  <1>11. QED
    BY <1>1, <1>2, <1>3, <1>4, <1>5, <1>6, <1>7, <1>8, <1>9, <1>10 DEF TaskInv

\* The job is over.
LEMMA JobDoneSafe ==
  ASSUME TaskInv, JobDone /\ JobFrame
  PROVE  TaskInv'
  <1>1. FlagTypes'
    BY DEF TaskInv, FlagTypes, JobDone, JobFrame, frontVars, storeVars, jobVars, sessionVars,
        runVars, contractVars
  <1>2. JobTypes'
    BY JobGoes DEF TaskInv, JobTypes, JobPcs, Asleep, JobDone, jobVars, sessionVars
  <1>3. ThreadInv'
    BY JobGoes DEF TaskInv, ThreadInv, Asleep, Early, Preparing, Signalling, JobDone
  <1>4. CycleInv'
    BY JobGoes DEF TaskInv, CycleInv, Current, Earned, JobDone, JobFrame, jobVars, sessionVars,
        runVars, contractVars
  <1>5. OwnerInv'
    BY JobGoes DEF TaskInv, OwnerInv, Early, Preparing, First, JobDone, JobFrame, jobVars,
        sessionVars, runVars, contractVars
  <1>6. StopInv'
    BY JobGoes DEF TaskInv, StopInv, Unasked, Heard, Cancelled, Preparing, JobDone, JobFrame,
        frontVars, jobVars, runVars, contractVars
  <1>7. ReportInv'
    BY JobGoes DEF TaskInv, ReportInv, Asleep, Early, Preparing, JobDone
  <1>8. FrontTypes' /\ StoreTypes' /\ RunTypes' /\ AdmissionInv' /\ ReceiptsAreTrue'
    BY FrontKept, StoreKept, RunsKept, AdmissionKept, ReceiptsKept
       DEF TaskInv, JobDone, JobFrame, frontVars, storeVars, jobVars, sessionVars, runVars,
           contractVars
  <1>9. QED
    BY <1>1, <1>2, <1>3, <1>4, <1>5, <1>6, <1>7, <1>8 DEF TaskInv

\* A receipt could not be written.
LEMMA JobBrokenSafe ==
  ASSUME TaskInv, JobBroken /\ JobFrame
  PROVE  TaskInv'
  <1>1. FlagTypes'
    BY DEF TaskInv, FlagTypes, JobBroken, JobFrame
  <1>2. JobTypes'
    BY JobGoes DEF TaskInv, JobTypes, JobPcs, JobBroken, jobVars, sessionVars
  <1>3. ThreadInv'
    BY JobGoes DEF TaskInv, ThreadInv, Asleep, Early, Preparing, Signalling, JobBroken
  <1>4. CycleInv'
    BY JobGoes DEF TaskInv, CycleInv, Current, Earned, JobBroken, JobFrame, jobVars,
        sessionVars, runVars, contractVars
  <1>5. OwnerInv'
    BY JobGoes DEF TaskInv, OwnerInv, Early, Preparing, First, JobBroken, JobFrame, jobVars,
        sessionVars, runVars, contractVars
  <1>6. StopInv'
    BY JobGoes DEF TaskInv, StopInv, Unasked, Heard, Cancelled, JobBroken, JobFrame, frontVars,
        jobVars, runVars, contractVars
  <1>7. ReportInv'
    BY JobGoes DEF TaskInv, ReportInv, Early, Preparing, JobBroken
  <1>8. FrontTypes' /\ StoreTypes' /\ RunTypes' /\ AdmissionInv' /\ ReceiptsAreTrue'
    BY FrontKept, StoreKept, RunsKept, AdmissionKept, ReceiptsKept
       DEF TaskInv, JobBroken, JobFrame, frontVars, storeVars, jobVars, sessionVars, runVars,
           contractVars
  <1>9. QED
    BY <1>1, <1>2, <1>3, <1>4, <1>5, <1>6, <1>7, <1>8 DEF TaskInv

\* The run is stopped for it.
LEMMA JobBrokenStopSafe ==
  ASSUME TaskInv, JobBrokenStop /\ JobFrame
  PROVE  TaskInv'
  <1>1. JobTypes'
    BY JobGoes DEF TaskInv, JobTypes, JobPcs, Asleep, JobBrokenStop, jobVars, sessionVars
  <1>2. RunTypes'
    BY JobGoes, RequestsApart, SessionAssumption, Beginnings
       DEF TaskInv, RunTypes, JobTypes, CycleInv, Working, Current, Preparing, Actors,
           JobBrokenStop, JobFrame, frontVars, storeVars, jobVars, sessionVars, RequestStop,
           Coordinator!Ask, runVars, contractVars
  <1>3. ThreadInv'
    BY JobGoes DEF TaskInv, ThreadInv, Asleep, Early, Preparing, Signalling, JobBrokenStop
  <1>4. CycleInv'
    BY JobGoes DEF TaskInv, CycleInv, Current, Earned, JobBrokenStop, jobVars, sessionVars,
        RequestStop, Coordinator!Ask, contractVars
  <1>5. OwnerInv'
    BY JobGoes DEF TaskInv, OwnerInv, Early, Preparing, First, JobBrokenStop, jobVars,
        sessionVars, RequestStop, Coordinator!Ask, contractVars
  <1>6. StopInv'
    BY JobGoes DEF TaskInv, StopInv, Unasked, Heard, Cancelled, Preparing, JobBrokenStop,
        JobFrame, frontVars, jobVars, RequestStop, Coordinator!Ask, contractVars
  <1>7. ReportInv'
    BY JobGoes DEF TaskInv, ReportInv, Asleep, Early, Preparing, JobBrokenStop
  <1>8. FlagTypes' /\ FrontTypes' /\ StoreTypes' /\ AdmissionInv' /\ ReceiptsAreTrue'
    BY FlagsKept, FrontKept, StoreKept, AdmissionKept, ReceiptsKept
       DEF TaskInv, JobBrokenStop, JobFrame, frontVars, storeVars, jobVars, sessionVars,
           RequestStop, Coordinator!Ask, runVars, contractVars
  <1>9. QED
    BY <1>1, <1>2, <1>3, <1>4, <1>5, <1>6, <1>7, <1>8 DEF TaskInv

-----------------------------------------------------------------------------
(* The session.                                                            *)

\* The session learns whose the run is.
LEMMA SessionAwaitSafe ==
  ASSUME TaskInv, SessionAwait /\ SessionFrame
  PROVE  TaskInv'
  <1>1. JobTypes'
    BY SessionGoes DEF TaskInv, JobTypes, SessionPcs, SessionAwait, SessionFrame, jobVars
  <1>2. ThreadInv'
    BY SessionGoes DEF TaskInv, ThreadInv, Asleep, SessionAwait, SessionFrame, jobVars
  <1>3. CycleInv'
    <2>1. /\ pc["session"] = "await" /\ cycles = 0 /\ next = 1
          /\ UNCHANGED <<cycles, next, run, phase, asked, verdict, request, begun, job, signal>>
      BY SessionGoes
         DEF TaskInv, CycleInv, SessionAwait, SessionFrame, jobVars, runVars, contractVars
    <2>2. CASE signal = 1
      <3>1. First /\ pc'["session"] = "wait" /\ owns'
        BY <2>1, <2>2, SessionGoes DEF TaskInv, OwnerInv, SessionAwait
      <3>2. Current'
        BY <2>1, <3>1 DEF TaskInv, RunTypes, Current, First
      <3>3. QED
        BY <2>1, <2>2, <3>1, <3>2 DEF TaskInv, CycleInv, First, Working, Preparing
    <2>3. CASE signal # 1
      <3>1. pc'["session"] = "leave"
        BY <2>3, SessionGoes DEF TaskInv, SessionAwait
      <3>2. QED
        BY <2>1, <3>1 DEF TaskInv, CycleInv, Working, Preparing
    <2>4. QED
      BY <2>2, <2>3
  <1>4. OwnerInv'
    BY SessionGoes, RequestsApart DEF TaskInv, OwnerInv, ThreadInv, CycleInv, JobTypes,
        RunTypes, Early, Preparing, Signalling, First, RunActive, Asleep, Working, Actors,
        SessionAwait, SessionFrame, storeVars, frontVars, jobVars, sessionVars, runVars,
        contractVars
  <1>5. StopInv'
    BY SessionGoes DEF TaskInv, StopInv, Heard, Cancelled, Leaving, Asleep, SessionAwait,
        SessionFrame, frontVars, jobVars
  <1>6. ReportInv'
    BY SessionGoes DEF TaskInv, ReportInv, SessionAwait, SessionFrame, storeVars, jobVars
  <1>7. /\ FlagTypes' /\ FrontTypes' /\ StoreTypes' /\ RunTypes' /\ AdmissionInv'
        /\ ReceiptsAreTrue'
    BY FlagsKept, FrontKept, StoreKept, RunsKept, AdmissionKept, ReceiptsKept
       DEF TaskInv, SessionAwait, SessionFrame, storeVars, frontVars, jobVars, sessionVars,
           runVars, contractVars
  <1>8. QED
    BY <1>1, <1>2, <1>3, <1>4, <1>5, <1>6, <1>7 DEF TaskInv

\* It waits for the end of the run.
LEMMA SessionWaitSafe ==
  ASSUME TaskInv, SessionWait /\ SessionFrame
  PROVE  TaskInv'
  <1>1. FrontTypes'
    BY SessionGoes DEF TaskInv, FrontTypes, SessionWait, SessionFrame, frontVars
  <1>2. JobTypes'
    BY SessionGoes DEF TaskInv, JobTypes, SessionPcs, SessionWait, SessionFrame, jobVars,
        sessionVars
  <1>3. ThreadInv'
    BY SessionGoes DEF TaskInv, ThreadInv, Asleep, SessionWait, SessionFrame, jobVars
  <1>4. CycleInv'
    BY SessionGoes DEF TaskInv, CycleInv, Working, Preparing, Current, SessionWait,
        SessionFrame, jobVars, sessionVars, runVars, contractVars
  <1>5. OwnerInv'
    BY SessionGoes DEF TaskInv, OwnerInv, CycleInv, First, RunActive, Working, SessionWait,
        SessionFrame, jobVars, sessionVars, runVars, contractVars
  <1>6. StopInv'
    BY SessionGoes DEF TaskInv, StopInv, Heard, Cancelled, Leaving, Asleep, SessionWait,
        SessionFrame, frontVars, jobVars
  <1>7. ReportInv'
    BY SessionGoes DEF TaskInv, ReportInv, SessionWait, SessionFrame, storeVars, jobVars
  <1>8. FlagTypes' /\ StoreTypes' /\ RunTypes' /\ AdmissionInv' /\ ReceiptsAreTrue'
    BY FlagsKept, StoreKept, RunsKept, AdmissionKept, ReceiptsKept
       DEF TaskInv, SessionWait, SessionFrame, storeVars, frontVars, jobVars, sessionVars,
           runVars, contractVars
  <1>9. QED
    BY <1>1, <1>2, <1>3, <1>4, <1>5, <1>6, <1>7, <1>8 DEF TaskInv

\* It examines the run.
LEMMA SessionCollectSafe ==
  ASSUME TaskInv, SessionCollect /\ SessionFrame
  PROVE  TaskInv'
  <1>1. FrontTypes'
    BY SessionGoes DEF TaskInv, FrontTypes, SessionCollect, SessionFrame, frontVars
  <1>2. JobTypes'
    BY SessionGoes DEF TaskInv, JobTypes, SessionPcs, SessionCollect, SessionFrame, jobVars
  <1>3. RunTypes'
    BY SessionGoes, SessionAssumption DEF TaskInv, RunTypes, CycleInv, Current, SessionCollect,
        SessionFrame, runVars, contractVars
  <1>4. ThreadInv'
    BY SessionGoes DEF TaskInv, ThreadInv, Asleep, SessionCollect, SessionFrame, jobVars
  <1>5. CycleInv'
    <2>1. /\ pc["session"] = "collect" /\ Current /\ owns /\ signal = 1 /\ job.req \in begun
          /\ UNCHANGED <<next, owns, run, phase, verdict, request, begun, job, signal>>
      BY SessionGoes DEF TaskInv, CycleInv, Working, SessionCollect, SessionFrame,
          jobVars, runVars, contractVars
    <2>2. CASE cycles' = cycles
      <3>1. pc'["session"] \in {"handoff", "leave"}
        BY <2>1, <2>2, SessionGoes DEF TaskInv, RunTypes, SessionCollect
      <3>2. QED
        BY <2>1, <2>2, <3>1 DEF TaskInv, CycleInv, Working, Preparing
    <2>3. CASE cycles' # cycles
      <3>1. /\ cycles' = cycles + 1 /\ verdict = "Completed"
            /\ pc'["session"] = IF BatchComplete THEN "leave" ELSE "pause"
        BY <2>3, SessionGoes DEF TaskInv, SessionCollect, CycleDone
      <3>2. cycles' <= run /\ cycles' > 0 /\ cycles' = next /\ cycles' \in Nat
        BY <2>1, <3>1 DEF TaskInv, RunTypes, Current
      <3>3. ~BatchComplete => (Target > 0 => cycles' < Target)
        BY <3>2, SessionAssumption DEF BatchComplete
      <3>4. ~BatchComplete => Earned'
        BY <2>1, <3>1, <3>2, <3>3 DEF TaskInv, CycleInv, Current, Earned
      <3>5. QED
        BY <2>1, <3>1, <3>2, <3>4 DEF TaskInv, CycleInv, Working, Preparing
    <2>4. QED
      BY <2>2, <2>3
  <1>6. OwnerInv'
    BY SessionGoes DEF TaskInv, OwnerInv, CycleInv, First, RunActive, Working, SessionCollect,
        SessionFrame, jobVars, runVars, contractVars
  <1>7. StopInv'
    BY SessionGoes DEF TaskInv, StopInv, Heard, Cancelled, Leaving, Asleep, SessionCollect,
        SessionFrame, frontVars, jobVars
  <1>8. ReportInv'
    BY SessionGoes DEF TaskInv, ReportInv, SessionCollect, SessionFrame, storeVars, jobVars
  <1>9. FlagTypes' /\ StoreTypes' /\ AdmissionInv' /\ ReceiptsAreTrue'
    BY FlagsKept, StoreKept, AdmissionKept, ReceiptsKept
       DEF TaskInv, SessionCollect, SessionFrame, storeVars, frontVars, jobVars, runVars,
           contractVars
  <1>10. QED
    BY <1>1, <1>2, <1>3, <1>4, <1>5, <1>6, <1>7, <1>8, <1>9 DEF TaskInv

\* It pauses.
LEMMA SessionPauseSafe ==
  ASSUME TaskInv, SessionPause /\ SessionFrame
  PROVE  TaskInv'
  <1>1. FrontTypes'
    BY SessionGoes DEF TaskInv, FrontTypes, SessionPause, SessionFrame, frontVars
  <1>2. JobTypes'
    BY SessionGoes DEF TaskInv, JobTypes, SessionPcs, SessionPause, SessionFrame, jobVars
  <1>3. RunTypes'
    BY SessionGoes, SessionAssumption DEF TaskInv, RunTypes, SessionPause, SessionFrame,
        runVars, contractVars
  <1>4. ThreadInv'
    BY SessionGoes DEF TaskInv, ThreadInv, Asleep, SessionPause, SessionFrame, jobVars
  <1>5. CycleInv'
    BY SessionGoes DEF TaskInv, CycleInv, Working, Preparing, Earned, SessionPause,
        SessionFrame, jobVars, runVars, contractVars
  <1>6. OwnerInv'
    BY SessionGoes DEF TaskInv, OwnerInv, CycleInv, First, RunActive, Working, SessionPause,
        SessionFrame, jobVars, runVars, contractVars
  <1>7. StopInv'
    BY SessionGoes DEF TaskInv, StopInv, Heard, Cancelled, Leaving, Asleep, SessionPause,
        SessionFrame, frontVars, jobVars
  <1>8. ReportInv'
    BY SessionGoes DEF TaskInv, ReportInv, SessionPause, SessionFrame, storeVars, jobVars
  <1>9. FlagTypes' /\ StoreTypes' /\ AdmissionInv' /\ ReceiptsAreTrue'
    BY FlagsKept, StoreKept, AdmissionKept, ReceiptsKept
       DEF TaskInv, SessionPause, SessionFrame, storeVars, frontVars, jobVars, runVars,
           contractVars
  <1>10. QED
    BY <1>1, <1>2, <1>3, <1>4, <1>5, <1>6, <1>7, <1>8, <1>9 DEF TaskInv

\* It hands the device on.
LEMMA SessionHandoffSafe ==
  ASSUME TaskInv, SessionHandoff /\ SessionFrame
  PROVE  TaskInv'
  <1>1. FrontTypes'
    BY SessionGoes DEF TaskInv, FrontTypes, SessionHandoff, SessionFrame, frontVars
  <1>2. JobTypes'
    BY SessionGoes DEF TaskInv, JobTypes, SessionPcs, SessionHandoff, SessionFrame, jobVars,
        sessionVars
  <1>3. ThreadInv'
    BY SessionGoes DEF TaskInv, ThreadInv, Asleep, SessionHandoff, SessionFrame, jobVars
  <1>4. CycleInv'
    BY SessionGoes DEF TaskInv, CycleInv, Working, Preparing, SessionHandoff, SessionFrame,
        jobVars, sessionVars, runVars, contractVars
  <1>5. OwnerInv'
    BY SessionGoes DEF TaskInv, OwnerInv, First, RunActive, SessionHandoff, SessionFrame,
        jobVars, runVars, contractVars
  <1>6. StopInv'
    BY SessionGoes DEF TaskInv, StopInv, Heard, Cancelled, Leaving, Asleep, SessionHandoff,
        SessionFrame, frontVars, jobVars
  <1>7. ReportInv'
    BY SessionGoes DEF TaskInv, ReportInv, SessionHandoff, SessionFrame, storeVars, jobVars
  <1>8. FlagTypes' /\ StoreTypes' /\ RunTypes' /\ AdmissionInv' /\ ReceiptsAreTrue'
    BY FlagsKept, StoreKept, RunsKept, AdmissionKept, ReceiptsKept
       DEF TaskInv, SessionHandoff, SessionFrame, storeVars, frontVars, jobVars, sessionVars,
           runVars, contractVars
  <1>9. QED
    BY <1>1, <1>2, <1>3, <1>4, <1>5, <1>6, <1>7, <1>8 DEF TaskInv

\* It looks at the flags again.
LEMMA SessionHandoffCheckSafe ==
  ASSUME TaskInv, SessionHandoffCheck /\ SessionFrame
  PROVE  TaskInv'
  <1>1. JobTypes'
    BY SessionGoes DEF TaskInv, JobTypes, SessionPcs, SessionHandoffCheck, SessionFrame, jobVars
  <1>2. RunTypes'
    BY SessionGoes, Beginnings DEF TaskInv, RunTypes, SessionHandoffCheck, SessionFrame,
        runVars, contractVars
  <1>3. ThreadInv'
    BY SessionGoes DEF TaskInv, ThreadInv, Asleep, SessionHandoffCheck, SessionFrame, jobVars
  <1>4. CycleInv'
    BY SessionGoes DEF TaskInv, CycleInv, Working, Preparing, SessionHandoffCheck, SessionFrame,
        jobVars, runVars, contractVars
  <1>5. OwnerInv'
    BY SessionGoes DEF TaskInv, OwnerInv, CycleInv, First, RunActive, Working,
        SessionHandoffCheck, SessionFrame, jobVars, runVars, contractVars
  <1>6. StopInv'
    BY SessionGoes DEF TaskInv, StopInv, Heard, Cancelled, Leaving, Asleep, SessionHandoffCheck,
        SessionFrame, frontVars, jobVars
  <1>7. ReportInv'
    BY SessionGoes DEF TaskInv, ReportInv, SessionHandoffCheck, SessionFrame, storeVars, jobVars
  <1>8. FlagTypes' /\ FrontTypes' /\ StoreTypes' /\ AdmissionInv' /\ ReceiptsAreTrue'
    BY FlagsKept, FrontKept, StoreKept, AdmissionKept, ReceiptsKept
       DEF TaskInv, SessionHandoffCheck, SessionFrame, storeVars, frontVars, jobVars, runVars,
           contractVars
  <1>9. QED
    BY <1>1, <1>2, <1>3, <1>4, <1>5, <1>6, <1>7, <1>8 DEF TaskInv

\* It schedules nothing more.
LEMMA SessionLeaveSafe ==
  ASSUME TaskInv, SessionLeave /\ SessionFrame
  PROVE  TaskInv'
  <1>1. JobTypes'
    BY SessionGoes DEF TaskInv, JobTypes, SessionPcs, SessionLeave, SessionFrame, jobVars,
        sessionVars
  <1>2. ThreadInv'
    BY SessionGoes DEF TaskInv, ThreadInv, Asleep, SessionLeave, SessionFrame, jobVars
  <1>3. CycleInv'
    BY SessionGoes DEF TaskInv, CycleInv, Working, Preparing, SessionLeave, sessionVars,
        runVars, contractVars
  <1>4. OwnerInv'
    BY SessionGoes DEF TaskInv, OwnerInv, First, RunActive, SessionLeave, SessionFrame, jobVars,
        runVars, contractVars
  <1>5. StopInv'
    BY SessionGoes DEF TaskInv, StopInv, OwnerInv, Unasked, Heard, Cancelled, Leaving, Asleep,
        SessionLeave, SessionFrame, frontVars, jobVars, StopsItsRun, runVars, contractVars
  <1>6. ReportInv'
    BY SessionGoes DEF TaskInv, ReportInv, SessionLeave, SessionFrame, storeVars, jobVars
  <1>7. /\ FlagTypes' /\ FrontTypes' /\ StoreTypes' /\ RunTypes' /\ AdmissionInv'
        /\ ReceiptsAreTrue'
    BY FlagsKept, FrontKept, StoreKept, RunsKept, AdmissionKept, ReceiptsKept
       DEF TaskInv, SessionLeave, SessionFrame, storeVars, frontVars, jobVars, sessionVars,
           runVars, contractVars
  <1>8. QED
    BY <1>1, <1>2, <1>3, <1>4, <1>5, <1>6, <1>7 DEF TaskInv

\* It stops its run.
LEMMA SessionStopSafe ==
  ASSUME TaskInv, SessionStop /\ SessionFrame
  PROVE  TaskInv'
  <1>1. JobTypes'
    BY SessionGoes DEF TaskInv, JobTypes, SessionPcs, SessionStop, SessionFrame, jobVars,
        sessionVars
  <1>2. RunTypes'
    BY SessionGoes, RequestsApart, SessionAssumption, Beginnings
       DEF TaskInv, RunTypes, JobTypes, CycleInv, Working, Current, Preparing, Actors,
           SessionStop, SessionFrame, storeVars, frontVars, jobVars, sessionVars, RequestStop,
           Coordinator!Ask, runVars, contractVars
  <1>3. ThreadInv'
    BY SessionGoes DEF TaskInv, ThreadInv, Asleep, SessionStop, SessionFrame, jobVars
  <1>4. CycleInv'
    BY SessionGoes DEF TaskInv, CycleInv, Working, Preparing, SessionStop, sessionVars,
        RequestStop, Coordinator!Ask, contractVars
  <1>5. OwnerInv'
    BY SessionGoes DEF TaskInv, OwnerInv, First, RunActive, SessionStop, SessionFrame, jobVars,
        RequestStop, Coordinator!Ask, contractVars
  <1>6. StopInv'
    BY SessionGoes DEF TaskInv, StopInv, Unasked, Heard, Cancelled, Leaving, Asleep,
        SessionStop, SessionFrame, frontVars, jobVars, RequestStop, Coordinator!Ask,
        contractVars
  <1>7. ReportInv'
    BY SessionGoes DEF TaskInv, ReportInv, SessionStop, SessionFrame, storeVars, jobVars
  <1>8. FlagTypes' /\ FrontTypes' /\ StoreTypes' /\ AdmissionInv' /\ ReceiptsAreTrue'
    BY FlagsKept, FrontKept, StoreKept, AdmissionKept, ReceiptsKept
       DEF TaskInv, SessionStop, SessionFrame, storeVars, frontVars, jobVars, sessionVars,
           RequestStop, Coordinator!Ask, runVars, contractVars
  <1>9. QED
    BY <1>1, <1>2, <1>3, <1>4, <1>5, <1>6, <1>7, <1>8 DEF TaskInv

\* It waits for its end.
LEMMA SessionJoinSafe ==
  ASSUME TaskInv, SessionJoin /\ SessionFrame
  PROVE  TaskInv'
  <1>1. JobTypes'
    BY SessionGoes DEF TaskInv, JobTypes, SessionPcs, SessionJoin, SessionFrame, jobVars,
        sessionVars
  <1>2. ThreadInv'
    BY SessionGoes DEF TaskInv, ThreadInv, Asleep, SessionJoin, SessionFrame, jobVars
  <1>3. CycleInv'
    BY SessionGoes DEF TaskInv, CycleInv, Working, Preparing, SessionJoin, sessionVars, runVars,
        contractVars
  <1>4. OwnerInv'
    BY SessionGoes DEF TaskInv, OwnerInv, First, RunActive, SessionJoin, SessionFrame, jobVars,
        runVars, contractVars
  <1>5. StopInv'
    BY SessionGoes DEF TaskInv, StopInv, Unasked, Heard, Cancelled, Asleep, Recorded,
        SessionJoin, SessionFrame, frontVars, jobVars, runVars, contractVars
  <1>6. ReportInv'
    BY SessionGoes DEF TaskInv, ReportInv, SessionJoin, SessionFrame, storeVars, jobVars
  <1>7. /\ FlagTypes' /\ FrontTypes' /\ StoreTypes' /\ RunTypes' /\ AdmissionInv'
        /\ ReceiptsAreTrue'
    BY FlagsKept, FrontKept, StoreKept, RunsKept, AdmissionKept, ReceiptsKept
       DEF TaskInv, SessionJoin, SessionFrame, storeVars, frontVars, jobVars, sessionVars,
           runVars, contractVars
  <1>8. QED
    BY <1>1, <1>2, <1>3, <1>4, <1>5, <1>6, <1>7 DEF TaskInv

\* It gives its admission back.
LEMMA SessionReleaseSafe ==
  ASSUME TaskInv, SessionRelease /\ SessionFrame
  PROVE  TaskInv'
  <1>1. FlagTypes'
    BY DEF TaskInv, FlagTypes, SessionRelease, SessionFrame, storeVars, frontVars, jobVars,
        sessionVars, runVars, contractVars
  <1>2. FrontTypes'
    BY SessionGoes DEF TaskInv, FrontTypes, SessionRelease, SessionFrame, frontVars
  <1>3. JobTypes'
    BY SessionGoes DEF TaskInv, JobTypes, SessionPcs, Asleep, SessionRelease, SessionFrame,
        jobVars, sessionVars
  <1>4. ThreadInv'
    BY SessionGoes DEF TaskInv, ThreadInv, Asleep, SessionRelease, SessionFrame, jobVars
  <1>5. CycleInv'
    BY SessionGoes DEF TaskInv, CycleInv, Working, Preparing, SessionRelease, sessionVars,
        runVars, contractVars
  <1>6. OwnerInv'
    BY SessionGoes DEF TaskInv, OwnerInv, First, RunActive, SessionRelease, SessionFrame,
        jobVars, runVars, contractVars
  <1>7. StopInv'
    BY SessionGoes DEF TaskInv, StopInv, Unasked, Heard, Cancelled, Leaving, Asleep,
        SessionRelease, SessionFrame, frontVars, jobVars, runVars, contractVars
  <1>8. ReportInv'
    BY SessionGoes DEF TaskInv, ReportInv, SessionRelease, SessionFrame, storeVars, jobVars
  <1>9. StoreTypes' /\ RunTypes' /\ AdmissionInv' /\ ReceiptsAreTrue'
    BY StoreKept, RunsKept, AdmissionKept, ReceiptsKept
       DEF TaskInv, SessionRelease, SessionFrame, storeVars, frontVars, jobVars, sessionVars,
           runVars, contractVars
  <1>10. QED
    BY <1>1, <1>2, <1>3, <1>4, <1>5, <1>6, <1>7, <1>8, <1>9 DEF TaskInv

\* It breaks.
LEMMA SessionBrokenSafe ==
  ASSUME TaskInv, SessionBroken /\ SessionFrame
  PROVE  TaskInv'
  <1>1. FlagTypes'
    BY DEF TaskInv, FlagTypes, SessionBroken, SessionFrame
  <1>2. JobTypes'
    BY SessionGoes DEF TaskInv, JobTypes, SessionPcs, SessionBroken, SessionFrame, jobVars,
        sessionVars
  <1>3. ThreadInv'
    BY SessionGoes DEF TaskInv, ThreadInv, Asleep, SessionBroken, SessionFrame, jobVars
  <1>4. CycleInv'
    BY SessionGoes DEF TaskInv, CycleInv, Working, Preparing, SessionBroken, sessionVars,
        runVars, contractVars
  <1>5. OwnerInv'
    BY SessionGoes DEF TaskInv, OwnerInv, First, RunActive, SessionBroken, SessionFrame,
        jobVars, runVars, contractVars
  <1>6. StopInv'
    BY SessionGoes DEF TaskInv, StopInv, Heard, Cancelled, Leaving, Asleep, SessionBroken
  <1>7. ReportInv'
    BY SessionGoes DEF TaskInv, ReportInv, SessionBroken, SessionFrame, storeVars, jobVars
  <1>8. FrontTypes' /\ StoreTypes' /\ RunTypes' /\ AdmissionInv' /\ ReceiptsAreTrue'
    BY FrontKept, StoreKept, RunsKept, AdmissionKept, ReceiptsKept
       DEF TaskInv, SessionBroken, SessionFrame, storeVars, frontVars, jobVars, sessionVars,
           runVars, contractVars
  <1>9. QED
    BY <1>1, <1>2, <1>3, <1>4, <1>5, <1>6, <1>7, <1>8 DEF TaskInv

\* It stops its run.
LEMMA SessionBrokenStopSafe ==
  ASSUME TaskInv, SessionBrokenStop /\ SessionFrame
  PROVE  TaskInv'
  <1>1. JobTypes'
    BY SessionGoes DEF TaskInv, JobTypes, SessionPcs, SessionBrokenStop, SessionFrame, jobVars,
        sessionVars
  <1>2. RunTypes'
    BY SessionGoes, RequestsApart, SessionAssumption, Beginnings
       DEF TaskInv, RunTypes, JobTypes, CycleInv, Working, Current, Preparing, Actors,
           SessionBrokenStop, SessionFrame, storeVars, frontVars, jobVars, sessionVars,
           RequestStop, Coordinator!Ask, runVars, contractVars
  <1>3. ThreadInv'
    BY SessionGoes DEF TaskInv, ThreadInv, Asleep, SessionBrokenStop, SessionFrame, jobVars
  <1>4. CycleInv'
    BY SessionGoes DEF TaskInv, CycleInv, Working, Preparing, SessionBrokenStop, sessionVars,
        RequestStop, Coordinator!Ask, contractVars
  <1>5. OwnerInv'
    BY SessionGoes DEF TaskInv, OwnerInv, First, RunActive, SessionBrokenStop, SessionFrame,
        jobVars, RequestStop, Coordinator!Ask, contractVars
  <1>6. StopInv'
    BY SessionGoes DEF TaskInv, StopInv, Unasked, Heard, Cancelled, Leaving, Asleep,
        SessionBrokenStop, SessionFrame, frontVars, jobVars, RequestStop, Coordinator!Ask,
        contractVars
  <1>7. ReportInv'
    BY SessionGoes DEF TaskInv, ReportInv, SessionBrokenStop, SessionFrame, storeVars, jobVars
  <1>8. FlagTypes' /\ FrontTypes' /\ StoreTypes' /\ AdmissionInv' /\ ReceiptsAreTrue'
    BY FlagsKept, FrontKept, StoreKept, AdmissionKept, ReceiptsKept
       DEF TaskInv, SessionBrokenStop, SessionFrame, storeVars, frontVars, jobVars, sessionVars,
           RequestStop, Coordinator!Ask, runVars, contractVars
  <1>9. QED
    BY <1>1, <1>2, <1>3, <1>4, <1>5, <1>6, <1>7, <1>8 DEF TaskInv

\* It waits for its end.
LEMMA SessionBrokenJoinSafe ==
  ASSUME TaskInv, SessionBrokenJoin /\ SessionFrame
  PROVE  TaskInv'
  <1>1. FlagTypes'
    BY DEF TaskInv, FlagTypes, SessionBrokenJoin, SessionFrame, storeVars, frontVars, jobVars,
        sessionVars, runVars, contractVars
  <1>2. JobTypes'
    BY SessionGoes DEF TaskInv, JobTypes, SessionPcs, Asleep, SessionBrokenJoin, SessionFrame,
        jobVars, sessionVars
  <1>3. ThreadInv'
    BY SessionGoes DEF TaskInv, ThreadInv, Asleep, SessionBrokenJoin, SessionFrame, jobVars
  <1>4. CycleInv'
    BY SessionGoes DEF TaskInv, CycleInv, Working, Preparing, SessionBrokenJoin, sessionVars,
        runVars, contractVars
  <1>5. OwnerInv'
    BY SessionGoes DEF TaskInv, OwnerInv, First, RunActive, SessionBrokenJoin, SessionFrame,
        jobVars, runVars, contractVars
  <1>6. StopInv'
    BY SessionGoes DEF TaskInv, StopInv, Unasked, Heard, Cancelled, Asleep, Recorded,
        SessionBrokenJoin, SessionFrame, frontVars, jobVars, runVars, contractVars
  <1>7. ReportInv'
    BY SessionGoes DEF TaskInv, ReportInv, SessionBrokenJoin, SessionFrame, storeVars, jobVars
  <1>8. FrontTypes' /\ StoreTypes' /\ RunTypes' /\ AdmissionInv' /\ ReceiptsAreTrue'
    BY FrontKept, StoreKept, RunsKept, AdmissionKept, ReceiptsKept
       DEF TaskInv, SessionBrokenJoin, SessionFrame, storeVars, frontVars, jobVars, sessionVars,
           runVars, contractVars
  <1>9. QED
    BY <1>1, <1>2, <1>3, <1>4, <1>5, <1>6, <1>7, <1>8 DEF TaskInv

-----------------------------------------------------------------------------
(* The run, and the end of the process.                                    *)

\* The run is over.
LEMMA RunExecutesSafe ==
  ASSUME TaskInv, RunExecutes
  PROVE  TaskInv'
  <1>1. RunTypes'
    BY DEF TaskInv, RunTypes, RunExecutes, RunFrame, sessionVars, contractVars
  <1>2. StopInv'
    BY DEF TaskInv, StopInv, Unasked, Heard, Cancelled, RunExecutes, RunFrame, appVars,
        frontVars, jobVars
  <1>3. /\ FlagTypes' /\ FrontTypes' /\ StoreTypes' /\ JobTypes' /\ ThreadInv' /\ CycleInv'
        /\ OwnerInv' /\ AdmissionInv' /\ ReportInv' /\ ReceiptsAreTrue'
    BY FlagsKept, FrontKept, StoreKept, JobsKept, ThreadsKept, CyclesKept, OwnerKept,
       AdmissionKept, ReportKept, ReceiptsKept
       DEF TaskInv, RunExecutes, RunFrame, appVars, storeVars, frontVars, jobVars, sessionVars,
           contractVars
  <1>4. QED
    BY <1>1, <1>2, <1>3 DEF TaskInv

\* Its end is recorded.
LEMMA RunRecordsSafe ==
  ASSUME TaskInv, RunRecords
  PROVE  TaskInv'
  <1>1. RunTypes'
    BY RequestsApart, SessionAssumption, Beginnings
       DEF TaskInv, RunTypes, JobTypes, CycleInv, Working, Current, Preparing, Actors,
           RunRecords, RunFrame, appVars, storeVars, frontVars, jobVars, sessionVars,
           Coordinator!Close, Coordinator!Hold, Coordinator!Ask
  <1>2. CycleInv'
    BY DEF TaskInv, CycleInv, Current, Earned, RunRecords, RunFrame, jobVars, sessionVars,
        Coordinator!Close, Coordinator!Hold, Coordinator!Ask
  <1>3. OwnerInv'
    BY DEF TaskInv, OwnerInv, First, RunActive, RunRecords, RunFrame, jobVars, sessionVars,
        Coordinator!Close, Coordinator!Hold, Coordinator!Ask
  <1>4. StopInv'
    BY DEF TaskInv, StopInv, Unasked, Heard, Cancelled, RunRecords, RunFrame, appVars,
        frontVars, jobVars, Coordinator!Close, Coordinator!Hold, Coordinator!Ask
  <1>5. /\ FlagTypes' /\ FrontTypes' /\ StoreTypes' /\ JobTypes' /\ ThreadInv' /\ AdmissionInv'
        /\ ReportInv' /\ ReceiptsAreTrue'
    BY FlagsKept, FrontKept, StoreKept, JobsKept, ThreadsKept, AdmissionKept, ReportKept,
       ReceiptsKept
       DEF TaskInv, RunRecords, RunFrame, appVars, storeVars, frontVars, jobVars, sessionVars,
           Coordinator!Close, Coordinator!Hold, Coordinator!Ask
  <1>6. QED
    BY <1>1, <1>2, <1>3, <1>4, <1>5 DEF TaskInv

\* The process ends.
LEMMA CrashSafe ==
  ASSUME TaskInv, Crash
  PROVE  TaskInv'
  <1>1. FlagTypes'
    BY DEF TaskInv, FlagTypes, Crash
  <1>2. FrontTypes'
    BY Nobody, SessionAssumption DEF TaskInv, FrontTypes, Crash
  <1>3. StoreTypes'
    BY DEF TaskInv, StoreTypes, Crash, Scanned
  <1>4. JobTypes'
    <2>1. DOMAIN pc' = Actors /\ pc'["job"] = "none" /\ pc'["session"] = "none"
      BY DEF Crash, Actors
    <2>2. job' \in Jobs /\ signal' = 0 /\ owns' = FALSE
      BY Nobody DEF Crash
    <2>3. signal' \in 0 .. 2
      BY <2>2
    <2>4. QED
      BY <2>1, <2>2, <2>3 DEF JobTypes, JobPcs, SessionPcs, Asleep
  <1>5. RunTypes'
    BY RequestsApart, Nobody, SessionAssumption, Beginnings
       DEF TaskInv, RunTypes, JobTypes, CycleInv, Working, Current, Preparing, Actors, Crash,
           Scanned
  <1>6. ThreadInv'
    BY DEF TaskInv, ThreadInv, Asleep, Preparing, Signalling, Actors, Crash
  <1>7. CycleInv'
    BY DEF TaskInv, CycleInv, RunTypes, Working, Preparing, Actors, Crash
  <1>8. OwnerInv'
    BY DEF TaskInv, OwnerInv, RunActive, Actors, Crash
  <1>9. StopInv'
    BY DEF TaskInv, StopInv, Unasked, Preparing, Asleep, Actors, Crash
  <1>10. AdmissionInv'
    BY Nobody DEF TaskInv, AdmissionInv, Crash
  <1>11. ReportInv'
    BY DEF TaskInv, ReportInv, Asleep, Early, Preparing, Actors, Crash
  <1>12. ReceiptsAreTrue'
    BY ReceiptsKept DEF TaskInv, Crash
  <1>13. QED
    BY <1>1, <1>2, <1>3, <1>4, <1>5, <1>6, <1>7, <1>8, <1>9, <1>10, <1>11, <1>12 DEF TaskInv

-----------------------------------------------------------------------------
(* The invariant holds.                                                    *)

\* A service begins with empty hands.
LEMMA InitSafe ==
  ASSUME Init
  PROVE  TaskInv
  <1>1. pc["job"] = "none" /\ pc["session"] = "none" /\ DOMAIN pc = Actors
    BY DEF Init, Actors
  <1>2. /\ caller \in Callers /\ caller.at = "idle" /\ job \in Jobs /\ job.req = NoRequest
        /\ request \in Runs
    BY Nobody DEF Init
  <1>3. FlagTypes
    BY DEF Init, FlagTypes
  <1>4. FrontTypes
    BY <1>2, Beginnings DEF Init, FrontTypes
  <1>5. StoreTypes
    BY DEF Init, StoreTypes, Receipts
  <1>6. JobTypes
    <2>1. signal \in 0 .. 2 /\ owns = FALSE
      BY DEF Init
    <2>2. QED
      BY <1>1, <1>2, <2>1 DEF JobTypes, JobPcs, SessionPcs, Asleep
  <1>7. RunTypes
    <2>1. /\ phase = "idle" /\ verdict = "none" /\ asked = FALSE /\ executed = FALSE
          /\ launched = FALSE /\ begun = {}
      BY DEF Init, Coordinator!Init
    <2>2. cycles \in 0 .. MaxRuns /\ next \in 0 .. MaxRuns + 1 /\ run \in 0 .. MaxRuns
      BY Beginnings DEF Init, Coordinator!Init
    <2>3. QED
      BY <1>2, <2>1, <2>2 DEF RunTypes
  <1>8. phase = "idle" /\ verdict = "none" /\ cycles = 0 /\ run = 0 /\ begun = {} /\ ~active
    BY DEF Init, Coordinator!Init
  <1>9. ThreadInv
    BY <1>1, <1>8 DEF ThreadInv, Asleep, Early, Preparing, Signalling
  <1>10. CycleInv
    BY <1>1, <1>8 DEF CycleInv, Working, Preparing
  <1>11. OwnerInv
    BY <1>1, <1>8 DEF OwnerInv, Early, Preparing, RunActive
  <1>12. StopInv
    BY <1>1, <1>8 DEF StopInv, Unasked, Preparing, Asleep
  <1>13. AdmissionInv
    BY <1>2, <1>8 DEF AdmissionInv
  <1>14. ReportInv
    BY <1>1, <1>2 DEF ReportInv, Asleep, Early, Preparing
  <1>15. ReceiptsAreTrue
    BY DEF Init, ReceiptsAreTrue
  <1>16. QED
    BY <1>3, <1>4, <1>5, <1>6, <1>7, <1>9, <1>10, <1>11, <1>12, <1>13, <1>14, <1>15
       DEF TaskInv

\* Every step keeps it.
LEMMA StepSafe ==
  ASSUME TaskInv, Next
  PROVE  TaskInv'
  <1>1. CASE Caller
    BY <1>1, CallSafe, AdmitSafe, RegisterSafe, SpawnSafe, RefuseSafe
       DEF Caller, CallerProceeds
  <1>2. CASE Stopper
    BY <1>2, StopEpochSafe, StopCancelSafe, StopStatusSafe, StopRequestSafe
       DEF Stopper, StopperProceeds
  <1>3. CASE Main
    BY <1>3, ShutdownSafe, ShutdownRequestSafe, ShutdownJoinSafe DEF Main, MainProceeds
  <1>4. CASE Job
    <2>1. CASE Starting("job")
      BY <2>1, AssembleJobSafe, CommitJobSafe, BeginJobSafe, StartFailsJobSafe,
         LaunchJobSafe, RollbackJobSafe
         DEF Starting, StartingFrame
    <2>2. CASE ~Starting("job")
      BY <1>4, <2>2, JobBeginSafe, JobPrepareSafe, JobWatchSafe, JobSignalSafe, JobNoteSafe,
         JobReceiptSafe, JobDoneSafe, JobBrokenSafe, JobBrokenStopSafe
         DEF Job
    <2>3. QED
      BY <2>1, <2>2
  <1>5. CASE Session
    <2>1. CASE Starting("session")
      BY <2>1, AssembleSessionSafe, CommitSessionSafe, BeginSessionSafe, StartFailsSessionSafe,
         LaunchSessionSafe, RollbackSessionSafe
         DEF Starting, StartingFrame
    <2>2. CASE ~Starting("session")
      BY <1>5, <2>2, SessionAwaitSafe, SessionWaitSafe, SessionCollectSafe, SessionPauseSafe,
         SessionHandoffSafe, SessionHandoffCheckSafe, SessionLeaveSafe, SessionStopSafe,
         SessionJoinSafe, SessionReleaseSafe, SessionBrokenSafe, SessionBrokenStopSafe,
         SessionBrokenJoinSafe
         DEF Session
    <2>3. QED
      BY <2>1, <2>2
  <1>6. QED
    BY <1>1, <1>2, <1>3, <1>4, <1>5, RunExecutesSafe, RunRecordsSafe, CrashSafe DEF Next

\* A step that changes nothing keeps it as well.
LEMMA StutterSafe ==
  ASSUME TaskInv, UNCHANGED vars
  PROVE  TaskInv'
  <1> USE DEF vars, appVars, storeVars, frontVars, jobVars, sessionVars, runVars, contractVars
  <1>1. FlagTypes' /\ FrontTypes' /\ StoreTypes'
    BY DEF TaskInv, FlagTypes, FrontTypes, StoreTypes
  <1>2. JobTypes' /\ RunTypes'
    BY DEF TaskInv, JobTypes, RunTypes
  <1>3. ThreadInv' /\ CycleInv'
    BY DEF TaskInv, ThreadInv, CycleInv, Current, Earned
  <1>4. OwnerInv'
    BY DEF TaskInv, OwnerInv, RunActive, First
  <1>5. StopInv'
    BY DEF TaskInv, StopInv, Unasked, Heard, Cancelled
  <1>6. AdmissionInv' /\ ReportInv'
    BY DEF TaskInv, AdmissionInv, ReportInv
  <1>7. ReceiptsAreTrue'
    BY DEF TaskInv, ReceiptsAreTrue
  <1>8. QED
    BY <1>1, <1>2, <1>3, <1>4, <1>5, <1>6, <1>7 DEF TaskInv

\* The threads of the application, its receipts and the run they share keep their
\* invariant, for every set of requests and every number of runs, stops and crashes.
THEOREM TaskHolds == Spec => []TaskInv
  <1>1. Init => TaskInv
    BY InitSafe
  <1>2. TaskInv /\ [Next]_vars => TaskInv'
    BY StepSafe, StutterSafe
  <1>3. QED
    BY <1>1, <1>2, PTL DEF Spec

-----------------------------------------------------------------------------
(* The theorems.                                                           *)

\* Every variable keeps its type; what a session counts stays below the runs begun.
THEOREM TypeTheorem == Spec => []TypeOK
  <1>1. TaskInv => TypeOK
    BY DEF TaskInv, FlagTypes, FrontTypes, StoreTypes, JobTypes, RunTypes, TypeOK, Callers,
        Jobs, Runs, Receipts
  <1>2. QED
    BY <1>1, TaskHolds, PTL

\* A session is alone in preparing a run; a stop accepted after the admission of a task
\* reaches each of its runs, also across the watcher's last look at the flags; and a
\* start that failed leaves no run behind.
THEOREM SessionTheorem == Spec => []SessionOwnsItsRuns
  <1>1. TaskInv => PreparationIsAlone
    BY DEF TaskInv, ThreadInv, OwnerInv, PreparationIsAlone, Early, Preparing, Asleep, RunActive
  <1>2. TaskInv => StopReachesSessions
    BY DEF TaskInv, StopInv, StopReachesSessions, Forgotten, Quiet, Unasked, Leaving, Actors
  <1>3. TaskInv => FailedStartLeavesNoRun
    BY DEF TaskInv, StopInv, FailedStartLeavesNoRun, Leaving, Asleep
  <1>4. QED
    BY <1>1, <1>2, <1>3, TaskHolds, PTL DEF SessionOwnsItsRuns

\* Runs begin where an actor starts them, and nowhere else.
LEMMA RunsBegin ==
  ASSUME [Next]_vars, run' # run
  PROVE  \E a \in Actors : Begin(a)
  <1> USE DEF runVars, contractVars
  <1>1. Next
    BY DEF vars
  <1>2. ~Caller /\ ~Stopper /\ ~Main
    BY DEF Caller, CallerProceeds, CallerFrame, Stopper, StopperProceeds, StopEpoch, StopCancel,
        StopStatus, StopRequest, RequestStop, Coordinator!Ask, Main, MainProceeds, Shutdown,
        ShutdownRequest, ShutdownJoin
  <1>3. ~RunExecutes /\ ~RunRecords /\ ~Crash
    BY DEF RunExecutes, RunRecords, Coordinator!Close, Coordinator!Hold, Coordinator!Ask, Crash
  <1>4. ASSUME NEW a \in Actors, Starting(a)
        PROVE  Begin(a)
    BY <1>4 DEF Starting, Assemble, Commit, StartFails, Launch, Rollback, Coordinator!Close
  <1>5. CASE Job
    <2>1. CASE Starting("job")
      BY <1>4, <2>1 DEF Actors
    <2>2. CASE ~Starting("job")
      BY <1>5, <2>2 DEF Job, JobBegin, JobPrepare, JobWatch, JobSignal, JobNote, JobReceipt,
          JobDone, JobBroken, JobBrokenStop, RequestStop, Coordinator!Ask
    <2>3. QED
      BY <2>1, <2>2
  <1>6. CASE Session
    <2>1. CASE Starting("session")
      BY <1>4, <2>1 DEF Actors
    <2>2. CASE ~Starting("session")
      BY <1>6, <2>2 DEF Session, SessionAwait, SessionWait, SessionCollect, SessionPause,
          SessionHandoff, SessionHandoffCheck, SessionLeave, SessionStop, SessionJoin,
          SessionRelease, SessionBroken, SessionBrokenStop, SessionBrokenJoin, RequestStop,
          Coordinator!Ask
    <2>3. QED
      BY <2>1, <2>2
  <1>7. QED
    BY <1>1, <1>2, <1>3, <1>5, <1>6 DEF Next

\* What an actor begins is the job's request: its first run, a repeat after a completed
\* cycle, or the handoff.
LEMMA BegunRuns ==
  ASSUME TaskInv, NEW a \in Actors, Begin(a)
  PROVE  /\ request'.req = job.req
         /\ request'.cycle = 1 => job.req \notin begun
         /\ request'.cycle > 1 => Earned /\ request'.cycle = cycles + 1
  <1>1. cycles \in Nat /\ next \in Nat
    BY SessionAssumption DEF TaskInv, RunTypes
  <1>2. request' = Wanted(a) /\ pc[a] = "start"
    BY DEF Begin, Goto
  <1>3. CASE a = "job"
    <2>1. job.req \notin begun
      BY <1>2, <1>3 DEF TaskInv, ReportInv, Preparing
    <2>2. QED
      BY <1>2, <1>3, <2>1 DEF Wanted
  <1>4. CASE a = "session"
    <2>1. next = 0 \/ (next = cycles + 1 /\ Earned)
      BY <1>2, <1>4 DEF TaskInv, CycleInv, Preparing
    <2>2. request'.req = job.req /\ request'.cycle = next
      BY <1>2, <1>4 DEF Wanted
    <2>3. Earned => cycles > 0
      BY DEF Earned
    <2>4. next # 1
      BY <1>1, <2>1, <2>3
    <2>5. next > 1 => Earned /\ next = cycles + 1
      BY <1>1, <2>1
    <2>6. QED
      BY <2>2, <2>4, <2>5
  <1>5. QED
    BY <1>3, <1>4 DEF Actors

\* A request has its first run once, over repeated calls and restarts, and its receipt
\* says what happened to it.
THEOREM RequestTheorem == Spec => RequestsAreAccounted
  <1>1. TaskInv /\ TaskInv' /\ [Next]_vars => [FirstRunIsNew /\ ReceiptsAreTrue']_vars
    <2> SUFFICES ASSUME TaskInv, TaskInv', [Next]_vars
                 PROVE  FirstRunIsNew /\ ReceiptsAreTrue'
      OBVIOUS
    <2>1. FirstRunIsNew
      BY RunsBegin, BegunRuns DEF FirstRunIsNew
    <2>2. QED
      BY <2>1 DEF TaskInv
  <1>2. QED
    BY <1>1, TaskHolds, PTL DEF Spec, RequestsAreAccounted

\* A repeat follows a completed cycle, and never exceeds the count that was asked for.
THEOREM RepeatTheorem == Spec => RepeatsAreEarned
  <1> DEFINE EarnedRepeat ==
        run' # run /\ request'.cycle > 1 =>
          /\ verdict = "Completed" /\ phase = "closed"
          /\ request = [req |-> request'.req, cycle |-> request'.cycle - 1]
          /\ Target > 0 => request'.cycle <= Target
  <1>1. TaskInv /\ [Next]_vars => [EarnedRepeat]_vars
    <2> SUFFICES ASSUME TaskInv, [Next]_vars, run' # run, request'.cycle > 1
                 PROVE  /\ verdict = "Completed" /\ phase = "closed"
                        /\ request = [req |-> request'.req, cycle |-> request'.cycle - 1]
                        /\ Target > 0 => request'.cycle <= Target
      OBVIOUS
    <2>1. Earned /\ request'.req = job.req /\ request'.cycle = cycles + 1 /\ cycles \in Nat
      BY RunsBegin, BegunRuns, SessionAssumption DEF TaskInv, RunTypes
    <2>2. request'.cycle - 1 = cycles
      BY <2>1
    <2>3. Target > 0 => request'.cycle <= Target
      BY <2>1, SessionAssumption DEF Earned
    <2>4. QED
      BY <2>1, <2>2, <2>3 DEF Earned
  <1>2. QED
    BY <1>1, TaskHolds, PTL DEF Spec, RepeatsAreEarned, EarnedRepeat

=============================================================================
