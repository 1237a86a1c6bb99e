------------------------ MODULE RunCoordinatorProofs ------------------------
(***************************************************************************)
(* Proofs about RunCoordinator.  One lemma per action shows that it keeps  *)
(* Inv; the theorems follow from the invariant and, for the action         *)
(* properties and the refinement, from a look at the few actions that      *)
(* start a session, a run or a report.                                     *)
(***************************************************************************)
EXTENDS RunCoordinatorInv, TLAPS

\* Tuples of variables and sets of program counters are opened everywhere.
USE DEF shared, controlVars, runVars, snapVars, startVars, stopVars, driveVars,
     sessionVars,
        NoDrive, Between, InSession, Recovering, Judging, Launching,
        TryPcs, SessionPcs, FinalPcs, AbortPcs

\* The absent session is a session identity.
LEMMA NoSessionType == NoSession \in SessionIds
  BY ConstantsAssumption DEF NoSession, SessionIds

-----------------------------------------------------------------------------
(* Steps of start() and of the callers that join a recorded run.           *)

\* A caller takes start_mutex_.
LEMMA StartEnterStep ==
  ASSUME Inv, NEW t \in Starters, NEW r \in Requests, StartEnter(t, r), StarterFrame
  PROVE  Inv'
<1> USE ConstantsAssumption DEF Inv, StarterFrame, StartEnter
<1>1. TypeOK'
  BY DEF TypeOK, StartPcs
<1>2. (StarterInv /\ ControlInv)'
  BY DEF TypeOK, StarterInv, ControlInv, LiveStates, TerminalStates
<1>3. (DriveInv /\ ReceiptInv)'
  BY DEF TypeOK, StarterInv, ControlInv, DriveInv, NoSession, ReceiptInv
<1>4. (VerdictInv /\ OutcomeInv)'
  BY DEF TypeOK, ControlInv, ReceiptInv, VerdictInv, OutcomeInv,
         CompletedIsEarned, StopDecidesOutcome, LiveStates, TerminalStates
<1> QED BY <1>1, <1>2, <1>3, <1>4

\* The caller is answered at once, or goes on with an inactive coordinator.
LEMMA StartCheckStep ==
  ASSUME Inv, NEW t \in Starters, StartCheck(t), StarterFrame
  PROVE  Inv'
<1> USE ConstantsAssumption DEF Inv, StarterFrame, StartCheck, StartMove, StartReturns,
     Answered, SameRequest
<1>1. TypeOK'
  BY DEF TypeOK, StartPcs
<1>2. (StarterInv /\ ControlInv)'
  BY DEF TypeOK, StarterInv, ControlInv, LiveStates, TerminalStates
<1>3. (DriveInv /\ ReceiptInv)'
  BY DEF TypeOK, StarterInv, ControlInv, DriveInv, NoSession, ReceiptInv
<1>4. (VerdictInv /\ OutcomeInv)'
  BY DEF TypeOK, ControlInv, ReceiptInv, VerdictInv, OutcomeInv,
         CompletedIsEarned, StopDecidesOutcome, LiveStates, TerminalStates
<1> QED BY <1>1, <1>2, <1>3, <1>4

\* The thread of a recorded run is joined.
LEMMA StartJoinStep ==
  ASSUME Inv, NEW t \in Starters, StartJoin(t), StarterFrame
  PROVE  Inv'
<1> USE ConstantsAssumption DEF Inv, StarterFrame, StartJoin, StartMove
<1>1. TypeOK'
  BY DEF TypeOK, StartPcs, WorkerPcs
<1>2. (StarterInv /\ ControlInv)'
  BY DEF TypeOK, StarterInv, ControlInv, LiveStates, TerminalStates
<1>3. (DriveInv /\ ReceiptInv)'
  BY DEF TypeOK, StarterInv, ControlInv, DriveInv, NoSession, ReceiptInv
<1>4. (VerdictInv /\ OutcomeInv)'
  BY DEF TypeOK, ControlInv, ReceiptInv, VerdictInv, OutcomeInv,
         CompletedIsEarned, StopDecidesOutcome, LiveStates, TerminalStates
<1> QED BY <1>1, <1>2, <1>3, <1>4

\* The device semaphore is taken, or refuses.
LEMMA StartLeaseStep ==
  ASSUME Inv, NEW t \in Starters, StartLease(t), StarterFrame
  PROVE  Inv'
<1> USE ConstantsAssumption DEF Inv, StarterFrame, StartLease, StartMove, StartReturns
<1>1. TypeOK'
  BY DEF TypeOK, StartPcs
<1>2. (StarterInv /\ ControlInv)'
  BY DEF TypeOK, StarterInv, ControlInv, LiveStates, TerminalStates
<1>3. (DriveInv /\ ReceiptInv)'
  BY DEF TypeOK, StarterInv, ControlInv, DriveInv, NoSession, ReceiptInv
<1>4. (VerdictInv /\ OutcomeInv)'
  BY DEF TypeOK, ControlInv, ReceiptInv, VerdictInv, OutcomeInv,
         CompletedIsEarned, StopDecidesOutcome, LiveStates, TerminalStates
<1> QED BY <1>1, <1>2, <1>3, <1>4

\* A store that cannot be created gives the semaphore back.
LEMMA StartStoreFailsStep ==
  ASSUME Inv, NEW t \in Starters, StartStoreFails(t), StarterFrame
  PROVE  Inv'
<1> USE ConstantsAssumption DEF Inv, StarterFrame, StartStoreFails, StartReturns
<1>1. TypeOK'
  BY DEF TypeOK, StartPcs
<1>2. (StarterInv /\ ControlInv)'
  BY DEF TypeOK, StarterInv, ControlInv, LiveStates, TerminalStates
<1>3. (DriveInv /\ ReceiptInv)'
  BY DEF TypeOK, StarterInv, ControlInv, DriveInv, NoSession, ReceiptInv
<1>4. (VerdictInv /\ OutcomeInv)'
  BY DEF TypeOK, ControlInv, ReceiptInv, VerdictInv, OutcomeInv,
         CompletedIsEarned, StopDecidesOutcome, LiveStates, TerminalStates
<1> QED BY <1>1, <1>2, <1>3, <1>4

\* The run becomes the coordinator's, in one critical section.
LEMMA StartPublishStep ==
  ASSUME Inv, NEW t \in Starters, StartPublish(t), StarterFrame
  PROVE  Inv'
<1> USE ConstantsAssumption DEF Inv, StarterFrame, StartPublish, StartMove
<1>1. TypeOK'
  <2>1. spc' \in [Starters -> StartPcs]
    BY DEF TypeOK, StartPcs
  <2>2. shown' \in RunStates
    BY DEF TypeOK, RunStates, LiveStates, TerminalStates
  <2>3. runId' \in 0 .. MaxRuns /\ done' \in 0 .. Units /\ requestId' \in Requests \union {NoRequest}
    BY DEF TypeOK
  <2> QED BY <2>1, <2>2, <2>3 DEF TypeOK
<1>2. StarterInv'
  BY DEF TypeOK, StarterInv, ControlInv
<1>3. ControlInv'
  <2>1. wpc' = "none" /\ runId' \in Nat \ {0}
    BY DEF TypeOK, StarterInv
  <2> QED BY <2>1 DEF ControlInv, LiveStates
<1>4. (DriveInv /\ ReceiptInv)'
  BY DEF TypeOK, StarterInv, ControlInv, DriveInv, NoSession, ReceiptInv
<1>5. (VerdictInv /\ OutcomeInv)'
  BY DEF TypeOK, ControlInv, ReceiptInv, VerdictInv, OutcomeInv,
         CompletedIsEarned, StopDecidesOutcome, LiveStates, TerminalStates
<1> QED BY <1>1, <1>2, <1>3, <1>4, <1>5

\* The execution package is bound to the run, or is not.
LEMMA StartBindStep ==
  ASSUME Inv, NEW t \in Starters, StartBind(t), StarterFrame
  PROVE  Inv'
<1> USE ConstantsAssumption DEF Inv, StarterFrame, StartBind, StartMove
<1>1. TypeOK'
  BY DEF TypeOK, StartPcs
<1>2. (StarterInv /\ ControlInv)'
  BY DEF TypeOK, StarterInv, ControlInv, LiveStates, TerminalStates
<1>3. (DriveInv /\ ReceiptInv)'
  BY DEF TypeOK, StarterInv, ControlInv, DriveInv, NoSession, ReceiptInv
<1>4. (VerdictInv /\ OutcomeInv)'
  BY DEF TypeOK, ControlInv, ReceiptInv, VerdictInv, OutcomeInv,
         CompletedIsEarned, StopDecidesOutcome, LiveStates, TerminalStates
<1> QED BY <1>1, <1>2, <1>3, <1>4

\* The worker is created behind the latch, or is not.
LEMMA StartSpawnStep ==
  ASSUME Inv, NEW t \in Starters, StartSpawn(t), StarterFrame
  PROVE  Inv'
<1> USE ConstantsAssumption DEF Inv, StarterFrame, StartSpawn, StartMove
<1>1. TypeOK'
  BY DEF TypeOK, StartPcs, WorkerPcs
<1>2. (StarterInv /\ ControlInv)'
  BY DEF TypeOK, StarterInv, ControlInv, LiveStates, TerminalStates
<1>3. DriveInv'
  BY DEF TypeOK, StarterInv, ControlInv, DriveInv, NoSession
<1>4. ReceiptInv'
  <2>1. wpc = "none" /\ wpc' \in {"none", "gate"}
    BY DEF StarterInv
  <2> QED BY <2>1 DEF ReceiptInv
<1>5. (VerdictInv /\ OutcomeInv)'
  BY DEF TypeOK, ControlInv, ReceiptInv, VerdictInv, OutcomeInv,
         CompletedIsEarned, StopDecidesOutcome, LiveStates, TerminalStates
<1> QED BY <1>1, <1>2, <1>3, <1>4, <1>5

\* The package is the run's before the worker may act.
LEMMA StartAcceptStep ==
  ASSUME Inv, NEW t \in Starters, StartAccept(t), StarterFrame
  PROVE  Inv'
<1> USE ConstantsAssumption DEF Inv, StarterFrame, StartAccept, StartReturns
<1>1. TypeOK'
  BY DEF TypeOK, StartPcs, WorkerPcs
<1>2. (StarterInv /\ ControlInv)'
  BY DEF TypeOK, StarterInv, ControlInv, LiveStates, TerminalStates
<1>3. (DriveInv /\ ReceiptInv)'
  BY DEF TypeOK, StarterInv, ControlInv, DriveInv, NoSession, ReceiptInv
<1>4. (VerdictInv /\ OutcomeInv)'
  BY DEF TypeOK, ControlInv, ReceiptInv, VerdictInv, OutcomeInv,
         CompletedIsEarned, StopDecidesOutcome, LiveStates, TerminalStates
<1> QED BY <1>1, <1>2, <1>3, <1>4

\* A run without a worker is taken back.
LEMMA StartRollbackStep ==
  ASSUME Inv, NEW t \in Starters, StartRollback(t), StarterFrame
  PROVE  Inv'
<1> USE ConstantsAssumption DEF Inv, StarterFrame, StartRollback
<1>1. TypeOK'
  <2>1. spc' \in [Starters -> StartPcs]
    BY DEF TypeOK, StartReturns, StartPcs
  <2>2. shown' \in RunStates
    BY DEF TypeOK, RunStates, LiveStates, TerminalStates
  <2>3. /\ runId' \in 0 .. MaxRuns /\ requestId' \in Requests \union {NoRequest}
         /\ active' \in BOOLEAN /\ execFinished' \in BOOLEAN /\ termRecorded' \in BOOLEAN
         /\ quiescent' \in BOOLEAN /\ saved' \in BOOLEAN
    BY DEF TypeOK
  <2>4. lease' \in {"free", "start", "run", "other"}
    BY DEF TypeOK
  <2>5. publication' \in {"none", "bound", "accepted", "withdrawn"}
    BY DEF TypeOK
  <2>6. startMutex' \in Starters \union {Free} /\ sreq' \in [Starters -> Requests \union {NoRequest}]
    BY DEF TypeOK, StartReturns
  <2> QED BY <2>1, <2>2, <2>3, <2>4, <2>5, <2>6 DEF TypeOK
<1>2. (StarterInv /\ ControlInv)'
  BY DEF TypeOK, StarterInv, ControlInv, LiveStates, TerminalStates, StartReturns
<1>3. (DriveInv /\ ReceiptInv)'
  BY DEF TypeOK, StarterInv, ControlInv, DriveInv, NoSession, ReceiptInv, StartReturns
<1>4. (VerdictInv /\ OutcomeInv)'
  BY DEF TypeOK, ControlInv, ReceiptInv, VerdictInv, OutcomeInv,
         CompletedIsEarned, StopDecidesOutcome, LiveStates, TerminalStates, StartReturns
<1> QED BY <1>1, <1>2, <1>3, <1>4

\* A caller that wants a recorded run joined takes start_mutex_.
LEMMA CollectEnterStep ==
  ASSUME Inv, NEW t \in Starters, CollectEnter(t), StarterFrame
  PROVE  Inv'
<1> USE ConstantsAssumption DEF Inv, StarterFrame, CollectEnter
<1>1. TypeOK'
  BY DEF TypeOK, StartPcs
<1>2. (StarterInv /\ ControlInv)'
  BY DEF TypeOK, StarterInv, ControlInv, LiveStates, TerminalStates
<1>3. (DriveInv /\ ReceiptInv)'
  BY DEF TypeOK, StarterInv, ControlInv, DriveInv, NoSession, ReceiptInv
<1>4. (VerdictInv /\ OutcomeInv)'
  BY DEF TypeOK, ControlInv, ReceiptInv, VerdictInv, OutcomeInv,
         CompletedIsEarned, StopDecidesOutcome, LiveStates, TerminalStates
<1> QED BY <1>1, <1>2, <1>3, <1>4

\* The recorded run's thread is joined.
LEMMA CollectJoinStep ==
  ASSUME Inv, NEW t \in Starters, CollectJoin(t), StarterFrame
  PROVE  Inv'
<1> USE ConstantsAssumption DEF Inv, StarterFrame, CollectJoin, StartReturns
<1>1. TypeOK'
  BY DEF TypeOK, StartPcs, WorkerPcs
<1>2. (StarterInv /\ ControlInv)'
  BY DEF TypeOK, StarterInv, ControlInv, LiveStates, TerminalStates
<1>3. (DriveInv /\ ReceiptInv)'
  BY DEF TypeOK, StarterInv, ControlInv, DriveInv, NoSession, ReceiptInv
<1>4. (VerdictInv /\ OutcomeInv)'
  BY DEF TypeOK, ControlInv, ReceiptInv, VerdictInv, OutcomeInv,
         CompletedIsEarned, StopDecidesOutcome, LiveStates, TerminalStates
<1> QED BY <1>1, <1>2, <1>3, <1>4

-----------------------------------------------------------------------------
(* Steps of request_stop().                                                *)

\* A stop is accepted.
LEMMA StopBeginStep ==
  ASSUME Inv, NEW s \in Stoppers, StopBegin(s), StopperFrame
  PROVE  Inv'
<1> USE ConstantsAssumption DEF Inv, StopperFrame, StopBegin, StopMove, Stoppable
<1>1. TypeOK'
  BY DEF TypeOK, StopPcs
<1>2. (StarterInv /\ ControlInv)'
  BY DEF TypeOK, StarterInv, ControlInv, LiveStates, TerminalStates
<1>3. (DriveInv /\ ReceiptInv)'
  BY DEF TypeOK, StarterInv, ControlInv, DriveInv, NoSession, ReceiptInv
<1>4. (VerdictInv /\ OutcomeInv)'
  BY DEF TypeOK, ControlInv, ReceiptInv, VerdictInv, OutcomeInv,
         CompletedIsEarned, StopDecidesOutcome, LiveStates, TerminalStates
<1> QED BY <1>1, <1>2, <1>3, <1>4

\* The held session's stop source is set.
LEMMA StopSignalStep ==
  ASSUME Inv, NEW s \in Stoppers, StopSignal(s), StopperFrame
  PROVE  Inv'
<1> USE ConstantsAssumption DEF Inv, StopperFrame, StopSignal, StopMove
<1>1. TypeOK'
  BY DEF TypeOK, StopPcs
<1>2. (StarterInv /\ ControlInv)'
  BY DEF TypeOK, StarterInv, ControlInv, LiveStates, TerminalStates
<1>3. (DriveInv /\ ReceiptInv)'
  BY DEF TypeOK, StarterInv, ControlInv, DriveInv, NoSession, ReceiptInv
<1>4. (VerdictInv /\ OutcomeInv)'
  BY DEF TypeOK, ControlInv, ReceiptInv, VerdictInv, OutcomeInv,
         CompletedIsEarned, StopDecidesOutcome, LiveStates, TerminalStates
<1> QED BY <1>1, <1>2, <1>3, <1>4

\* The held session's gate is closed.
LEMMA StopSealStep ==
  ASSUME Inv, NEW s \in Stoppers, StopSeal(s), StopperFrame
  PROVE  Inv'
<1> USE ConstantsAssumption DEF Inv, StopperFrame, StopSeal, StopMove
<1>1. TypeOK'
  BY DEF TypeOK, StopPcs
<1>2. (StarterInv /\ ControlInv)'
  BY DEF TypeOK, StarterInv, ControlInv, LiveStates, TerminalStates
<1>3. (DriveInv /\ ReceiptInv)'
  BY DEF TypeOK, StarterInv, ControlInv, DriveInv, NoSession, ReceiptInv
<1>4. (VerdictInv /\ OutcomeInv)'
  BY DEF TypeOK, ControlInv, ReceiptInv, VerdictInv, OutcomeInv,
         CompletedIsEarned, StopDecidesOutcome, LiveStates, TerminalStates
<1> QED BY <1>1, <1>2, <1>3, <1>4

\* The display is marked, if the run still executes.
LEMMA StopMarkStep ==
  ASSUME Inv, NEW s \in Stoppers, StopMark(s), StopperFrame
  PROVE  Inv'
<1> USE ConstantsAssumption DEF Inv, StopperFrame, StopMark, StopMove, Stoppable
<1>1. TypeOK'
  <2>1. shown' \in RunStates
    BY DEF TypeOK, RunStates, LiveStates, TerminalStates
  <2>2. tpc' \in [Stoppers -> StopPcs] /\ held' \in [Stoppers -> SessionIds]
    BY NoSessionType DEF TypeOK, StopPcs
  <2> QED BY <2>1, <2>2 DEF TypeOK
<1>2. (StarterInv /\ ControlInv)'
  BY DEF TypeOK, StarterInv, ControlInv, LiveStates, TerminalStates
<1>3. (DriveInv /\ ReceiptInv)'
  BY DEF TypeOK, StarterInv, ControlInv, DriveInv, NoSession, ReceiptInv
<1>4. (VerdictInv /\ OutcomeInv)'
  BY DEF TypeOK, ControlInv, ReceiptInv, VerdictInv, OutcomeInv,
         CompletedIsEarned, StopDecidesOutcome, LiveStates, TerminalStates
<1> QED BY <1>1, <1>2, <1>3, <1>4

-----------------------------------------------------------------------------
(* Steps of a session.                                                     *)

\* An early stop is passed on to the new session.
LEMMA DriveForwardStep ==
  ASSUME Inv, DriveForward, SessionFrame, WorkerFrame
  PROVE  Inv'
<1> USE ConstantsAssumption DEF Inv, SessionFrame, WorkerFrame, DriveForward, Goto
<1>1. TypeOK'
  BY DEF TypeOK, WorkerPcs
<1>2. (StarterInv /\ ControlInv)'
  BY DEF TypeOK, StarterInv, ControlInv, LiveStates, TerminalStates
<1>3. (DriveInv /\ ReceiptInv)'
  BY DEF TypeOK, StarterInv, ControlInv, DriveInv, NoSession, ReceiptInv
<1>4. (VerdictInv /\ OutcomeInv)'
  BY DEF TypeOK, ControlInv, ReceiptInv, VerdictInv, OutcomeInv,
         CompletedIsEarned, StopDecidesOutcome, LiveStates, TerminalStates
<1> QED BY <1>1, <1>2, <1>3, <1>4

\* A tick begins.
LEMMA SessionTickStep ==
  ASSUME Inv, SessionTick, SessionFrame, WorkerFrame
  PROVE  Inv'
<1> USE ConstantsAssumption DEF Inv, SessionFrame, WorkerFrame, SessionTick, Goto
<1>1. TypeOK'
  BY DEF TypeOK, WorkerPcs
<1>2. (StarterInv /\ ControlInv)'
  BY DEF TypeOK, StarterInv, ControlInv, LiveStates, TerminalStates
<1>3. (DriveInv /\ ReceiptInv)'
  BY DEF TypeOK, StarterInv, ControlInv, DriveInv, NoSession, ReceiptInv
<1>4. (VerdictInv /\ OutcomeInv)'
  BY DEF TypeOK, ControlInv, ReceiptInv, VerdictInv, OutcomeInv,
         CompletedIsEarned, StopDecidesOutcome, LiveStates, TerminalStates
<1> QED BY <1>1, <1>2, <1>3, <1>4

\* The gate lets an input through to the device.
LEMMA SessionAdmitStep ==
  ASSUME Inv, SessionAdmit, SessionFrame, WorkerFrame
  PROVE  Inv'
<1> USE ConstantsAssumption DEF Inv, SessionFrame, WorkerFrame, SessionAdmit, Goto
<1>1. TypeOK'
  BY DEF TypeOK, WorkerPcs
<1>2. (StarterInv /\ ControlInv)'
  BY DEF TypeOK, StarterInv, ControlInv, LiveStates, TerminalStates
<1>3. (DriveInv /\ ReceiptInv)'
  BY DEF TypeOK, StarterInv, ControlInv, DriveInv, NoSession, ReceiptInv
<1>4. (VerdictInv /\ OutcomeInv)'
  BY DEF TypeOK, ControlInv, ReceiptInv, VerdictInv, OutcomeInv,
         CompletedIsEarned, StopDecidesOutcome, LiveStates, TerminalStates
<1> QED BY <1>1, <1>2, <1>3, <1>4

\* The device call returns, or throws.
LEMMA SessionExecuteStep ==
  ASSUME Inv, SessionExecute, SessionFrame, WorkerFrame
  PROVE  Inv'
<1> USE ConstantsAssumption DEF Inv, SessionFrame, WorkerFrame, SessionExecute, Goto
<1>1. TypeOK'
  <2>1. wpc' \in WorkerPcs
    BY DEF WorkerPcs
  <2>2. flow' \in FlowEnds
    BY DEF TypeOK, FlowEnds
  <2>3. unresolved' \in BOOLEAN
    BY DEF TypeOK
  <2> QED BY <2>1, <2>2, <2>3 DEF TypeOK
<1>2. (StarterInv /\ ControlInv)'
  BY DEF TypeOK, StarterInv, ControlInv, LiveStates, TerminalStates
<1>3. (DriveInv /\ ReceiptInv)'
  BY DEF TypeOK, StarterInv, ControlInv, DriveInv, NoSession, ReceiptInv
<1>4. (VerdictInv /\ OutcomeInv)'
  BY DEF TypeOK, ControlInv, ReceiptInv, VerdictInv, OutcomeInv,
         CompletedIsEarned, StopDecidesOutcome, LiveStates, TerminalStates
<1> QED BY <1>1, <1>2, <1>3, <1>4

\* A tick without an input.
LEMMA SessionObserveStep ==
  ASSUME Inv, SessionObserve, SessionFrame, WorkerFrame
  PROVE  Inv'
<1> USE ConstantsAssumption DEF Inv, SessionFrame, WorkerFrame, SessionObserve, Goto
<1>1. TypeOK'
  BY DEF TypeOK, WorkerPcs
<1>2. (StarterInv /\ ControlInv)'
  BY DEF TypeOK, StarterInv, ControlInv, LiveStates, TerminalStates
<1>3. (DriveInv /\ ReceiptInv)'
  BY DEF TypeOK, StarterInv, ControlInv, DriveInv, NoSession, ReceiptInv
<1>4. (VerdictInv /\ OutcomeInv)'
  BY DEF TypeOK, ControlInv, ReceiptInv, VerdictInv, OutcomeInv,
         CompletedIsEarned, StopDecidesOutcome, LiveStates, TerminalStates
<1> QED BY <1>1, <1>2, <1>3, <1>4

\* The executor ends the flow.
LEMMA SessionFlowEndsStep ==
  ASSUME Inv, SessionFlowEnds, SessionFrame, WorkerFrame
  PROVE  Inv'
<1> USE ConstantsAssumption DEF Inv, SessionFrame, WorkerFrame, SessionFlowEnds, Goto
<1>1. TypeOK'
  BY DEF TypeOK, WorkerPcs, FlowEnds
<1>2. (StarterInv /\ ControlInv)'
  BY DEF TypeOK, StarterInv, ControlInv, LiveStates, TerminalStates
<1>3. (DriveInv /\ ReceiptInv)'
  BY DEF TypeOK, StarterInv, ControlInv, DriveInv, NoSession, ReceiptInv
<1>4. (VerdictInv /\ OutcomeInv)'
  BY DEF TypeOK, ControlInv, ReceiptInv, VerdictInv, OutcomeInv,
         CompletedIsEarned, StopDecidesOutcome, LiveStates, TerminalStates
<1> QED BY <1>1, <1>2, <1>3, <1>4

\* A stop ends the flow.
LEMMA SessionCancelledStep ==
  ASSUME Inv, SessionCancelled, SessionFrame, WorkerFrame
  PROVE  Inv'
<1> USE ConstantsAssumption DEF Inv, SessionFrame, WorkerFrame, SessionCancelled, Goto
<1>1. TypeOK'
  BY DEF TypeOK, WorkerPcs, FlowEnds
<1>2. (StarterInv /\ ControlInv)'
  BY DEF TypeOK, StarterInv, ControlInv, LiveStates, TerminalStates
<1>3. (DriveInv /\ ReceiptInv)'
  BY DEF TypeOK, StarterInv, ControlInv, DriveInv, NoSession, ReceiptInv
<1>4. (VerdictInv /\ OutcomeInv)'
  BY DEF TypeOK, ControlInv, ReceiptInv, VerdictInv, OutcomeInv,
         CompletedIsEarned, StopDecidesOutcome, LiveStates, TerminalStates
<1> QED BY <1>1, <1>2, <1>3, <1>4

\* The gate closes behind the last tick.
LEMMA SessionEndStep ==
  ASSUME Inv, SessionEnd, SessionFrame, WorkerFrame
  PROVE  Inv'
<1> USE ConstantsAssumption DEF Inv, SessionFrame, WorkerFrame, SessionEnd, Goto
<1>1. TypeOK'
  BY DEF TypeOK, WorkerPcs
<1>2. (StarterInv /\ ControlInv)'
  BY DEF TypeOK, StarterInv, ControlInv, LiveStates, TerminalStates
<1>3. (DriveInv /\ ReceiptInv)'
  BY DEF TypeOK, StarterInv, ControlInv, DriveInv, NoSession, ReceiptInv
<1>4. (VerdictInv /\ OutcomeInv)'
  BY DEF TypeOK, ControlInv, ReceiptInv, VerdictInv, OutcomeInv,
         CompletedIsEarned, StopDecidesOutcome, LiveStates, TerminalStates
<1> QED BY <1>1, <1>2, <1>3, <1>4

\* Inputs are released and the details assembled.
LEMMA SessionCleanupStep ==
  ASSUME Inv, SessionCleanup, SessionFrame, WorkerFrame
  PROVE  Inv'
<1> USE ConstantsAssumption DEF Inv, SessionFrame, WorkerFrame, SessionCleanup, Goto
<1>1. TypeOK'
  BY DEF TypeOK, WorkerPcs, FlowEnds
<1>2. (StarterInv /\ ControlInv)'
  BY DEF TypeOK, StarterInv, ControlInv, LiveStates, TerminalStates
<1>3. (DriveInv /\ ReceiptInv)'
  BY DEF TypeOK, StarterInv, ControlInv, DriveInv, NoSession, ReceiptInv
<1>4. (VerdictInv /\ OutcomeInv)'
  BY DEF TypeOK, ControlInv, ReceiptInv, VerdictInv, OutcomeInv,
         CompletedIsEarned, StopDecidesOutcome, LiveStates, TerminalStates
<1> QED BY <1>1, <1>2, <1>3, <1>4

-----------------------------------------------------------------------------
(* Steps of drive() that touch only its locals.                            *)

\* The initial lifecycle plan is done.
LEMMA DriveStartupStep ==
  ASSUME Inv, DriveStartup, DriveFrame, WorkerFrame
  PROVE  Inv'
<1> USE ConstantsAssumption DEF Inv, DriveFrame, WorkerFrame, DriveStartup, Goto
<1>1. TypeOK'
  BY DEF TypeOK, WorkerPcs
<1>2. (StarterInv /\ ControlInv)'
  BY DEF TypeOK, StarterInv, ControlInv, LiveStates, TerminalStates
<1>3. (DriveInv /\ ReceiptInv)'
  BY DEF TypeOK, StarterInv, ControlInv, DriveInv, NoSession, ReceiptInv
<1>4. (VerdictInv /\ OutcomeInv)'
  BY DEF TypeOK, ControlInv, ReceiptInv, VerdictInv, OutcomeInv,
         CompletedIsEarned, StopDecidesOutcome, LiveStates, TerminalStates
<1> QED BY <1>1, <1>2, <1>3, <1>4

\* The head of the unit loop.
LEMMA DriveUnitStep ==
  ASSUME Inv, DriveUnit, DriveFrame, WorkerFrame
  PROVE  Inv'
<1> USE ConstantsAssumption DEF Inv, DriveFrame, WorkerFrame, DriveUnit, Goto, UnitsLeft
<1>1. TypeOK'
  BY DEF TypeOK, WorkerPcs
<1>2. (StarterInv /\ ControlInv)'
  BY DEF TypeOK, StarterInv, ControlInv, LiveStates, TerminalStates
<1>3. (DriveInv /\ ReceiptInv)'
  BY DEF TypeOK, StarterInv, ControlInv, DriveInv, NoSession, ReceiptInv
<1>4. (VerdictInv /\ OutcomeInv)'
  BY DEF TypeOK, ControlInv, ReceiptInv, VerdictInv, OutcomeInv,
         CompletedIsEarned, StopDecidesOutcome, LiveStates, TerminalStates
<1> QED BY <1>1, <1>2, <1>3, <1>4

\* The head of the recovery loop.
LEMMA DriveAttemptStep ==
  ASSUME Inv, DriveAttempt, DriveFrame, WorkerFrame
  PROVE  Inv'
<1> USE ConstantsAssumption DEF Inv, DriveFrame, WorkerFrame, DriveAttempt, Goto
<1>1. TypeOK'
  <2>1. wpc' \in WorkerPcs
    BY DEF WorkerPcs
  <2>2. unit < Units
    BY DEF DriveInv
  <2>3. unit' \in 0 .. Units
    BY <2>2 DEF TypeOK
  <2>4. generation' \in 0 .. MaxGenerations
    BY DEF TypeOK
  <2> QED BY <2>1, <2>2, <2>3, <2>4 DEF TypeOK
<1>2. (StarterInv /\ ControlInv)'
  BY DEF TypeOK, StarterInv, ControlInv, LiveStates, TerminalStates
<1>3. (DriveInv /\ ReceiptInv)'
  BY DEF TypeOK, StarterInv, ControlInv, DriveInv, NoSession, ReceiptInv
<1>4. (VerdictInv /\ OutcomeInv)'
  BY DEF TypeOK, ControlInv, ReceiptInv, VerdictInv, OutcomeInv,
         CompletedIsEarned, StopDecidesOutcome, LiveStates, TerminalStates
<1> QED BY <1>1, <1>2, <1>3, <1>4

\* The device is read after a session that did not succeed.
LEMMA DriveObserveStep ==
  ASSUME Inv, DriveObserve, DriveFrame, WorkerFrame
  PROVE  Inv'
<1> USE ConstantsAssumption DEF Inv, DriveFrame, WorkerFrame, DriveObserve, Goto
<1>1. TypeOK'
  <2>1. wpc' \in WorkerPcs
    BY DEF WorkerPcs
  <2>2. covered' \in BOOLEAN
    BY DEF TypeOK
  <2> QED BY <2>1, <2>2 DEF TypeOK
<1>2. (StarterInv /\ ControlInv)'
  BY DEF TypeOK, StarterInv, ControlInv, LiveStates, TerminalStates
<1>3. (DriveInv /\ ReceiptInv)'
  BY DEF TypeOK, StarterInv, ControlInv, DriveInv, NoSession, ReceiptInv
<1>4. (VerdictInv /\ OutcomeInv)'
  BY DEF TypeOK, ControlInv, ReceiptInv, VerdictInv, OutcomeInv,
         CompletedIsEarned, StopDecidesOutcome, LiveStates, TerminalStates
<1> QED BY <1>1, <1>2, <1>3, <1>4

\* The run ends, or recovers over settled receipts only.
LEMMA DriveDecideStep ==
  ASSUME Inv, DriveDecide, DriveFrame, WorkerFrame
  PROVE  Inv'
<1> USE ConstantsAssumption DEF Inv, DriveFrame, WorkerFrame, DriveDecide, Goto,
     MustNotRecover
<1>1. TypeOK'
  BY DEF TypeOK, WorkerPcs
<1>2. (StarterInv /\ ControlInv)'
  BY DEF TypeOK, StarterInv, ControlInv, LiveStates, TerminalStates
<1>3. (DriveInv /\ ReceiptInv)'
  BY DEF TypeOK, StarterInv, ControlInv, DriveInv, NoSession, ReceiptInv
<1>4. (VerdictInv /\ OutcomeInv)'
  BY DEF TypeOK, ControlInv, ReceiptInv, VerdictInv, OutcomeInv,
         CompletedIsEarned, StopDecidesOutcome, LiveStates, TerminalStates
<1> QED BY <1>1, <1>2, <1>3, <1>4

\* A turn of the plan loop.
LEMMA DriveRecoverStep ==
  ASSUME Inv, DriveRecover, DriveFrame, WorkerFrame
  PROVE  Inv'
<1> USE ConstantsAssumption DEF Inv, DriveFrame, WorkerFrame, DriveRecover, Goto
<1>1. TypeOK'
  <2>1. wpc' \in WorkerPcs
    BY DEF WorkerPcs
  <2>2. failure' \in Failures
    BY DEF TypeOK, Failures
  <2> QED BY <2>1, <2>2 DEF TypeOK
<1>2. (StarterInv /\ ControlInv)'
  BY DEF TypeOK, StarterInv, ControlInv, LiveStates, TerminalStates
<1>3. (DriveInv /\ ReceiptInv)'
  BY DEF TypeOK, StarterInv, ControlInv, DriveInv, NoSession, ReceiptInv
<1>4. (VerdictInv /\ OutcomeInv)'
  BY DEF TypeOK, ControlInv, ReceiptInv, VerdictInv, OutcomeInv,
         CompletedIsEarned, StopDecidesOutcome, LiveStates, TerminalStates
<1> QED BY <1>1, <1>2, <1>3, <1>4

\* A deferred plan is due, or a stop ends the wait.
LEMMA DriveDeferStep ==
  ASSUME Inv, DriveDefer, DriveFrame, WorkerFrame
  PROVE  Inv'
<1> USE ConstantsAssumption DEF Inv, DriveFrame, WorkerFrame, DriveDefer, Goto
<1>1. TypeOK'
  <2>1. wpc' \in WorkerPcs
    BY DEF WorkerPcs
  <2>2. failure' \in Failures
    BY DEF TypeOK, Failures
  <2> QED BY <2>1, <2>2 DEF TypeOK
<1>2. (StarterInv /\ ControlInv)'
  BY DEF TypeOK, StarterInv, ControlInv, LiveStates, TerminalStates
<1>3. (DriveInv /\ ReceiptInv)'
  BY DEF TypeOK, StarterInv, ControlInv, DriveInv, NoSession, ReceiptInv
<1>4. (VerdictInv /\ OutcomeInv)'
  BY DEF TypeOK, ControlInv, ReceiptInv, VerdictInv, OutcomeInv,
         CompletedIsEarned, StopDecidesOutcome, LiveStates, TerminalStates
<1> QED BY <1>1, <1>2, <1>3, <1>4

\* The lifecycle plan has been executed.
LEMMA DriveLifecycleStep ==
  ASSUME Inv, DriveLifecycle, DriveFrame, WorkerFrame
  PROVE  Inv'
<1> USE ConstantsAssumption DEF Inv, DriveFrame, WorkerFrame, DriveLifecycle, Goto
<1>1. TypeOK'
  <2>1. wpc' \in WorkerPcs
    BY DEF WorkerPcs
  <2>2. failure' \in Failures
    BY DEF TypeOK, Failures
  <2> QED BY <2>1, <2>2 DEF TypeOK
<1>2. (StarterInv /\ ControlInv)'
  BY DEF TypeOK, StarterInv, ControlInv, LiveStates, TerminalStates
<1>3. (DriveInv /\ ReceiptInv)'
  BY DEF TypeOK, StarterInv, ControlInv, DriveInv, NoSession, ReceiptInv
<1>4. (VerdictInv /\ OutcomeInv)'
  BY DEF TypeOK, ControlInv, ReceiptInv, VerdictInv, OutcomeInv,
         CompletedIsEarned, StopDecidesOutcome, LiveStates, TerminalStates
<1> QED BY <1>1, <1>2, <1>3, <1>4

\* The device is ready: the failure is forgotten.
LEMMA DriveReadyStep ==
  ASSUME Inv, DriveReady, DriveFrame, WorkerFrame
  PROVE  Inv'
<1> USE ConstantsAssumption DEF Inv, DriveFrame, WorkerFrame, DriveReady, Goto
<1>1. TypeOK'
  <2>1. wpc' \in WorkerPcs
    BY DEF WorkerPcs
  <2>2. failure' \in Failures
    BY DEF TypeOK, Failures
  <2> QED BY <2>1, <2>2 DEF TypeOK
<1>2. (StarterInv /\ ControlInv)'
  BY DEF TypeOK, StarterInv, ControlInv, LiveStates, TerminalStates
<1>3. (DriveInv /\ ReceiptInv)'
  BY DEF TypeOK, StarterInv, ControlInv, DriveInv, NoSession, ReceiptInv
<1>4. (VerdictInv /\ OutcomeInv)'
  BY DEF TypeOK, ControlInv, ReceiptInv, VerdictInv, OutcomeInv,
         CompletedIsEarned, StopDecidesOutcome, LiveStates, TerminalStates
<1> QED BY <1>1, <1>2, <1>3, <1>4

\* The device's final word on owned inputs.
LEMMA DriveReleaseStep ==
  ASSUME Inv, DriveRelease, DriveFrame, WorkerFrame
  PROVE  Inv'
<1> USE ConstantsAssumption DEF Inv, DriveFrame, WorkerFrame, DriveRelease, Goto
<1>1. TypeOK'
  BY DEF TypeOK, WorkerPcs
<1>2. (StarterInv /\ ControlInv)'
  BY DEF TypeOK, StarterInv, ControlInv, LiveStates, TerminalStates
<1>3. (DriveInv /\ ReceiptInv)'
  BY DEF TypeOK, StarterInv, ControlInv, DriveInv, NoSession, ReceiptInv
<1>4. (VerdictInv /\ OutcomeInv)'
  BY DEF TypeOK, ControlInv, ReceiptInv, VerdictInv, OutcomeInv,
         CompletedIsEarned, StopDecidesOutcome, LiveStates, TerminalStates
<1> QED BY <1>1, <1>2, <1>3, <1>4

\* The verdict of the run.
LEMMA DriveClassifyStep ==
  ASSUME Inv, DriveClassify, DriveFrame, WorkerFrame
  PROVE  Inv'
<1> USE ConstantsAssumption DEF Inv, DriveFrame, WorkerFrame, DriveClassify, Goto
<1>1. TypeOK'
  <2>1. wpc' \in WorkerPcs
    BY DEF WorkerPcs
  <2>2. failure' \in Failures
    BY DEF TypeOK, Failures
  <2>3. terminal' \in TerminalStates
    BY DEF TypeOK, TerminalStates
  <2> QED BY <2>1, <2>2, <2>3 DEF TypeOK
<1>2. (StarterInv /\ ControlInv)'
  BY DEF TypeOK, StarterInv, ControlInv, LiveStates, TerminalStates
<1>3. (DriveInv /\ ReceiptInv)'
  BY DEF TypeOK, StarterInv, ControlInv, DriveInv, NoSession, ReceiptInv
<1>4. (VerdictInv /\ OutcomeInv)'
  BY DEF TypeOK, ControlInv, ReceiptInv, VerdictInv, OutcomeInv,
         CompletedIsEarned, StopDecidesOutcome, LiveStates, TerminalStates
<1> QED BY <1>1, <1>2, <1>3, <1>4

\* A handoff or an external block replaces it.
LEMMA DriveOverrideStep ==
  ASSUME Inv, DriveOverride, DriveFrame, WorkerFrame
  PROVE  Inv'
<1> USE ConstantsAssumption DEF Inv, DriveFrame, WorkerFrame, DriveOverride, Goto
<1>1. TypeOK'
  BY DEF TypeOK, WorkerPcs, TerminalStates
<1>2. (StarterInv /\ ControlInv)'
  BY DEF TypeOK, StarterInv, ControlInv, LiveStates, TerminalStates
<1>3. (DriveInv /\ ReceiptInv)'
  BY DEF TypeOK, StarterInv, ControlInv, DriveInv, NoSession, ReceiptInv
<1>4. (VerdictInv /\ OutcomeInv)'
  BY DEF TypeOK, ControlInv, ReceiptInv, VerdictInv, OutcomeInv,
         CompletedIsEarned, StopDecidesOutcome, LiveStates, TerminalStates
<1> QED BY <1>1, <1>2, <1>3, <1>4

\* The terminal is stored, or the attempt leaves drive().
LEMMA DriveSaveStep ==
  ASSUME Inv, DriveSave, DriveFrame, WorkerFrame
  PROVE  Inv'
<1> USE ConstantsAssumption DEF Inv, DriveFrame, WorkerFrame, DriveSave, Goto
<1>1. TypeOK'
  BY DEF TypeOK, WorkerPcs
<1>2. (StarterInv /\ ControlInv)'
  BY DEF TypeOK, StarterInv, ControlInv, LiveStates, TerminalStates
<1>3. (DriveInv /\ ReceiptInv)'
  BY DEF TypeOK, StarterInv, ControlInv, DriveInv, NoSession, ReceiptInv
<1>4. (VerdictInv /\ OutcomeInv)'
  BY DEF TypeOK, ControlInv, ReceiptInv, VerdictInv, OutcomeInv,
         CompletedIsEarned, StopDecidesOutcome, LiveStates, TerminalStates
<1> QED BY <1>1, <1>2, <1>3, <1>4

-----------------------------------------------------------------------------
(* Steps of drive() and worker_failed that touch the shared state.         *)

\* The business state exists and the run is shown as running.
LEMMA DriveCreateStep ==
  ASSUME Inv, DriveCreate, WorkerFrame
  PROVE  Inv'
<1> USE ConstantsAssumption DEF Inv, WorkerFrame, DriveCreate, Goto
<1>1. TypeOK'
  BY DEF TypeOK, WorkerPcs, RunStates, LiveStates
<1>2. (StarterInv /\ ControlInv)'
  BY DEF TypeOK, StarterInv, ControlInv, LiveStates, TerminalStates
<1>3. (DriveInv /\ ReceiptInv)'
  BY DEF TypeOK, StarterInv, ControlInv, DriveInv, NoSession, ReceiptInv
<1>4. (VerdictInv /\ OutcomeInv)'
  BY DEF TypeOK, ControlInv, ReceiptInv, VerdictInv, OutcomeInv,
         CompletedIsEarned, StopDecidesOutcome, LiveStates, TerminalStates
<1> QED BY <1>1, <1>2, <1>3, <1>4

\* A session object is built and published.
LEMMA DrivePublishStep ==
  ASSUME Inv, DrivePublish, WorkerFrame
  PROVE  Inv'
<1> USE ConstantsAssumption DEF Inv, WorkerFrame
<1>1. TypeOK'
  <2>1. wpc' \in WorkerPcs
    BY DEF WorkerPcs, DrivePublish, Goto
  <2>2. sid' \in SessionIds /\ session' \in SessionIds
    BY DEF TypeOK, SessionIds, DrivePublish
  <2>3. /\ flow' \in FlowEnds /\ receipt' \in {"none", "sent", "unknown"}
         /\ stopSource' \in BOOLEAN /\ gateStopped' \in BOOLEAN /\ covered' \in BOOLEAN
         /\ released' \in BOOLEAN /\ complete' \in BOOLEAN /\ unresolved' \in BOOLEAN
    BY DEF DrivePublish, FlowEnds
  <2>4. UNCHANGED <<controlVars, stop, lease, shown, quiescent, saved, details, done,
                      unit, generation, workQuiet, failure, last, terminal>>
    BY DEF DrivePublish
  <2> QED BY <2>1, <2>2, <2>3, <2>4 DEF TypeOK
<1>2. (StarterInv /\ ControlInv)'
  BY DEF TypeOK, StarterInv, ControlInv, LiveStates, TerminalStates, DrivePublish, Goto
<1>3. DriveInv'
  BY DEF TypeOK, StarterInv, ControlInv, DriveInv, NoSession, DrivePublish, Goto
<1>4. ReceiptInv'
  BY DEF TypeOK, ControlInv, DriveInv, ReceiptInv, DrivePublish, Goto
<1>5. (VerdictInv /\ OutcomeInv)'
  BY DEF TypeOK, ControlInv, ReceiptInv, VerdictInv, OutcomeInv,
         CompletedIsEarned, StopDecidesOutcome, LiveStates, TerminalStates,
         DrivePublish, Goto
<1> QED BY <1>1, <1>2, <1>3, <1>4, <1>5

\* The session's facts are adopted.
LEMMA DriveAdoptStep ==
  ASSUME Inv, DriveAdopt, WorkerFrame
  PROVE  Inv'
<1> USE ConstantsAssumption DEF Inv, WorkerFrame, DriveAdopt, Goto
<1>1. TypeOK'
  <2>1. wpc' \in WorkerPcs
    BY DEF WorkerPcs
  <2>2. session' \in SessionIds
    BY NoSessionType DEF TypeOK
  <2>3. workQuiet' \in BOOLEAN /\ details' \in BOOLEAN /\ unresolved' \in BOOLEAN
    BY DEF TypeOK
  <2> QED BY <2>1, <2>2, <2>3 DEF TypeOK
<1>2. (StarterInv /\ ControlInv)'
  BY DEF TypeOK, StarterInv, ControlInv, LiveStates, TerminalStates
<1>3. (DriveInv /\ ReceiptInv)'
  BY DEF TypeOK, StarterInv, ControlInv, DriveInv, NoSession, ReceiptInv
<1>4. (VerdictInv /\ OutcomeInv)'
  BY DEF TypeOK, ControlInv, ReceiptInv, VerdictInv, OutcomeInv,
         CompletedIsEarned, StopDecidesOutcome, LiveStates, TerminalStates
<1> QED BY <1>1, <1>2, <1>3, <1>4

\* The unit is counted, or a failure is recorded.
LEMMA DriveJudgeStep ==
  ASSUME Inv, DriveJudge, WorkerFrame
  PROVE  Inv'
<1> USE ConstantsAssumption DEF Inv, WorkerFrame, DriveJudge, UnitSucceeded
<1>1. TypeOK'
  <2>1. wpc' \in WorkerPcs
    BY DEF WorkerPcs
  <2>2. failure' \in Failures
    BY DEF TypeOK, Failures
  <2>3. unit < Units /\ done <= unit
    BY DEF TypeOK, ControlInv, DriveInv
  <2>4. unit' \in 0 .. Units /\ done' \in 0 .. Units
    BY <2>3 DEF TypeOK
  <2>5. last' \in FlowEnds
    BY DEF TypeOK
  <2> QED BY <2>1, <2>2, <2>3, <2>4, <2>5 DEF TypeOK
<1>2. (StarterInv /\ ControlInv)'
  BY DEF TypeOK, StarterInv, ControlInv, LiveStates, TerminalStates
<1>3. (DriveInv /\ ReceiptInv)'
  BY DEF TypeOK, StarterInv, ControlInv, DriveInv, NoSession, ReceiptInv
<1>4. (VerdictInv /\ OutcomeInv)'
  BY DEF TypeOK, ControlInv, ReceiptInv, VerdictInv, OutcomeInv,
         CompletedIsEarned, StopDecidesOutcome, LiveStates, TerminalStates
<1> QED BY <1>1, <1>2, <1>3, <1>4

\* An exception ends the try block.
LEMMA DriveThrowsStep ==
  ASSUME Inv, DriveThrows, WorkerFrame
  PROVE  Inv'
<1> USE ConstantsAssumption DEF Inv, WorkerFrame, DriveThrows, DetailsAfterScope
<1>1. TypeOK'
  <2>1. wpc' \in WorkerPcs
    BY DEF WorkerPcs
  <2>2. failure' \in Failures
    BY DEF TypeOK, Failures
  <2>3. session' \in SessionIds
    BY NoSessionType DEF TypeOK
  <2>4. details' \in BOOLEAN /\ gateStopped' \in BOOLEAN
    BY DEF TypeOK
  <2> QED BY <2>1, <2>2, <2>3, <2>4 DEF TypeOK
<1>2. (StarterInv /\ ControlInv)'
  BY DEF TypeOK, StarterInv, ControlInv, LiveStates, TerminalStates
<1>3. (DriveInv /\ ReceiptInv)'
  BY DEF TypeOK, StarterInv, ControlInv, DriveInv, NoSession, ReceiptInv
<1>4. (VerdictInv /\ OutcomeInv)'
  BY DEF TypeOK, ControlInv, ReceiptInv, VerdictInv, OutcomeInv,
         CompletedIsEarned, StopDecidesOutcome, LiveStates, TerminalStates
<1> QED BY <1>1, <1>2, <1>3, <1>4

\* The run no longer takes a stop.
LEMMA DriveFinishStep ==
  ASSUME Inv, DriveFinish, WorkerFrame
  PROVE  Inv'
<1> USE ConstantsAssumption DEF Inv, WorkerFrame, DriveFinish, Goto
<1>1. TypeOK'
  BY DEF TypeOK, WorkerPcs
<1>2. (StarterInv /\ ControlInv)'
  BY DEF TypeOK, StarterInv, ControlInv, LiveStates, TerminalStates
<1>3. (DriveInv /\ ReceiptInv)'
  BY DEF TypeOK, StarterInv, ControlInv, DriveInv, NoSession, ReceiptInv
<1>4. (VerdictInv /\ OutcomeInv)'
  BY DEF TypeOK, ControlInv, ReceiptInv, VerdictInv, OutcomeInv,
         CompletedIsEarned, StopDecidesOutcome, LiveStates, TerminalStates
<1> QED BY <1>1, <1>2, <1>3, <1>4

\* The terminal is published.
LEMMA DriveRecordStep ==
  ASSUME Inv, DriveRecord, WorkerFrame
  PROVE  Inv'
<1> USE ConstantsAssumption DEF Inv, WorkerFrame, DriveRecord, Goto, DriveReturns,
     ConfirmedReleased
<1>1. TypeOK'
  <2>1. unit' \in 0 .. Units /\ generation' \in 0 .. MaxGenerations
    BY DEF TypeOK
  <2>2. failure' \in Failures /\ last' \in FlowEnds /\ terminal' \in TerminalStates
    BY DEF Failures, FlowEnds, TerminalStates
  <2>3. sid' \in SessionIds /\ flow' \in FlowEnds
    BY NoSessionType DEF FlowEnds
  <2>4. lease' \in {"free", "start", "run", "other"}
    BY DEF TypeOK
  <2>5. active' \in BOOLEAN /\ quiescent' \in BOOLEAN
    BY DEF TypeOK
  <2>6. wpc' \in WorkerPcs
    BY DEF WorkerPcs
  <2>7. shown' \in RunStates
    BY DEF TypeOK, RunStates, LiveStates, TerminalStates
  <2> QED BY <2>1, <2>2, <2>3, <2>4, <2>5, <2>6, <2>7 DEF TypeOK
<1>2. (StarterInv /\ ControlInv)'
  BY DEF TypeOK, StarterInv, ControlInv, LiveStates, TerminalStates
<1>3. (DriveInv /\ ReceiptInv)'
  BY DEF TypeOK, StarterInv, ControlInv, DriveInv, NoSession, ReceiptInv
<1>4. (VerdictInv /\ OutcomeInv)'
  BY DEF TypeOK, ControlInv, ReceiptInv, VerdictInv, OutcomeInv,
         CompletedIsEarned, StopDecidesOutcome, LiveStates, TerminalStates
<1> QED BY <1>1, <1>2, <1>3, <1>4

\* worker_failed stops the run and releases the device.
LEMMA AbortReleaseStep ==
  ASSUME Inv, AbortRelease, WorkerFrame
  PROVE  Inv'
<1> USE ConstantsAssumption DEF Inv, WorkerFrame, AbortRelease, Goto
<1>1. TypeOK'
  BY DEF TypeOK, WorkerPcs
<1>2. (StarterInv /\ ControlInv)'
  BY DEF TypeOK, StarterInv, ControlInv, LiveStates, TerminalStates
<1>3. (DriveInv /\ ReceiptInv)'
  BY DEF TypeOK, StarterInv, ControlInv, DriveInv, NoSession, ReceiptInv
<1>4. (VerdictInv /\ OutcomeInv)'
  BY DEF TypeOK, ControlInv, ReceiptInv, VerdictInv, OutcomeInv,
         CompletedIsEarned, StopDecidesOutcome, LiveStates, TerminalStates
<1> QED BY <1>1, <1>2, <1>3, <1>4

\* worker_failed publishes a failure.
LEMMA AbortRecordStep ==
  ASSUME Inv, AbortRecord, WorkerFrame
  PROVE  Inv'
<1> USE ConstantsAssumption DEF Inv, WorkerFrame, AbortRecord, Goto, DriveReturns,
     ConfirmedReleased
<1>1. TypeOK'
  <2>1. unit' \in 0 .. Units /\ generation' \in 0 .. MaxGenerations
    BY DEF TypeOK
  <2>2. failure' \in Failures /\ last' \in FlowEnds /\ terminal' \in TerminalStates
    BY DEF Failures, FlowEnds, TerminalStates
  <2>3. sid' \in SessionIds /\ flow' \in FlowEnds
    BY NoSessionType DEF FlowEnds
  <2>4. lease' \in {"free", "start", "run", "other"}
    BY DEF TypeOK
  <2>5. active' \in BOOLEAN /\ quiescent' \in BOOLEAN
    BY DEF TypeOK
  <2>6. wpc' \in WorkerPcs
    BY DEF WorkerPcs
  <2>7. shown' \in RunStates
    BY DEF TypeOK, RunStates, LiveStates, TerminalStates
  <2>8. session' \in SessionIds
    BY NoSessionType DEF TypeOK
  <2> QED BY <2>1, <2>2, <2>3, <2>4, <2>5, <2>6, <2>7, <2>8 DEF TypeOK
<1>2. (StarterInv /\ ControlInv)'
  BY DEF TypeOK, StarterInv, ControlInv, LiveStates, TerminalStates
<1>3. (DriveInv /\ ReceiptInv)'
  BY DEF TypeOK, StarterInv, ControlInv, DriveInv, NoSession, ReceiptInv
<1>4. (VerdictInv /\ OutcomeInv)'
  BY DEF TypeOK, ControlInv, ReceiptInv, VerdictInv, OutcomeInv,
         CompletedIsEarned, StopDecidesOutcome, LiveStates, TerminalStates
<1> QED BY <1>1, <1>2, <1>3, <1>4

-----------------------------------------------------------------------------
(* The rest of the world.                                                  *)

\* Another process takes or returns the semaphore.
LEMMA OtherProcessStep ==
  ASSUME Inv, OtherProcess
  PROVE  Inv'
<1> USE ConstantsAssumption DEF Inv, OtherProcess
<1>1. TypeOK'
  BY DEF TypeOK
<1>2. (StarterInv /\ ControlInv)'
  BY DEF TypeOK, StarterInv, ControlInv, LiveStates, TerminalStates
<1>3. (DriveInv /\ ReceiptInv)'
  BY DEF TypeOK, StarterInv, ControlInv, DriveInv, NoSession, ReceiptInv
<1>4. (VerdictInv /\ OutcomeInv)'
  BY DEF TypeOK, ControlInv, ReceiptInv, VerdictInv, OutcomeInv,
         CompletedIsEarned, StopDecidesOutcome, LiveStates, TerminalStates
<1> QED BY <1>1, <1>2, <1>3, <1>4

\* A step that changes nothing keeps the invariant.
LEMMA StutterStep == ASSUME Inv, UNCHANGED vars PROVE Inv'
<1> USE DEF Inv, vars
<1>1. TypeOK'
  BY DEF TypeOK
<1>2. (StarterInv /\ ControlInv)'
  BY DEF StarterInv, ControlInv
<1>3. (DriveInv /\ ReceiptInv)'
  BY DEF DriveInv, ReceiptInv
<1>4. (VerdictInv /\ OutcomeInv)'
  BY DEF VerdictInv, OutcomeInv, CompletedIsEarned, StopDecidesOutcome
<1> QED BY <1>1, <1>2, <1>3, <1>4

-----------------------------------------------------------------------------
(* The invariant.                                                          *)

\* The initial state satisfies it.
LEMMA InitInv == Init => Inv
<1> SUFFICES ASSUME Init PROVE Inv
  OBVIOUS
<1> USE ConstantsAssumption DEF Init
<1>1. TypeOK
  <2>1. session \in SessionIds /\ sid \in SessionIds /\ held \in [Stoppers -> SessionIds]
    BY NoSessionType
  <2>2. spc \in [Starters -> StartPcs] /\ tpc \in [Stoppers -> StopPcs] /\ wpc \in WorkerPcs
    BY DEF StartPcs, StopPcs, WorkerPcs
  <2>3. shown \in RunStates /\ terminal \in TerminalStates
    BY DEF RunStates, TerminalStates
  <2>4. flow \in FlowEnds /\ last \in FlowEnds /\ failure \in Failures
    BY DEF FlowEnds, Failures
  <2>5. sreq \in [Starters -> Requests \union {NoRequest}] /\ startMutex \in Starters \union {Free}
    OBVIOUS
  <2>6. /\ runId \in 0 .. MaxRuns /\ done \in 0 .. Units /\ unit \in 0 .. Units
        /\ generation \in 0 .. MaxGenerations /\ requestId \in Requests \union {NoRequest}
    OBVIOUS
  <2> QED BY <2>1, <2>2, <2>3, <2>4, <2>5, <2>6 DEF TypeOK
<1>2. StarterInv /\ ControlInv /\ DriveInv /\ ReceiptInv /\ VerdictInv
  BY DEF StarterInv, ControlInv, DriveInv, ReceiptInv, VerdictInv
<1>3. OutcomeInv
  BY DEF OutcomeInv, CompletedIsEarned, StopDecidesOutcome
<1> QED BY <1>1, <1>2, <1>3 DEF Inv

\* Every step keeps it.
LEMMA NextInv == Inv /\ [Next]_vars => Inv'
<1> SUFFICES ASSUME Inv, [Next]_vars PROVE Inv'
  OBVIOUS
<1>1. ASSUME NEW t \in Starters, Starter(t) PROVE Inv'
  <2>1. StarterFrame /\ ((\E r \in Requests : StartEnter(t, r)) \/ CollectEnter(t)
          \/ StartCheck(t) \/ StartJoin(t) \/ StartLease(t) \/ StartStoreFails(t)
          \/ StartPublish(t) \/ StartBind(t) \/ StartSpawn(t) \/ StartAccept(t)
          \/ StartRollback(t) \/ CollectJoin(t))
    BY <1>1 DEF Starter, StarterReturns
  <2> QED
    BY <2>1, StartEnterStep, CollectEnterStep, StartCheckStep, StartJoinStep,
           StartLeaseStep,
       StartStoreFailsStep, StartPublishStep, StartBindStep, StartSpawnStep, StartAcceptStep,
       StartRollbackStep, CollectJoinStep
<1>2. ASSUME NEW s \in Stoppers, Stopper(s) PROVE Inv'
  BY <1>2, StopBeginStep, StopSignalStep, StopSealStep, StopMarkStep
     DEF Stopper, StopperReturns
<1>3. ASSUME SessionStep, WorkerFrame PROVE Inv'
  BY <1>3, DriveForwardStep, SessionTickStep, SessionAdmitStep, SessionExecuteStep,
     SessionObserveStep, SessionFlowEndsStep, SessionCancelledStep, SessionEndStep,
     SessionCleanupStep DEF SessionStep
<1>4. ASSUME DriveStep, WorkerFrame PROVE Inv'
  BY <1>4, DriveStartupStep, DriveUnitStep, DriveAttemptStep, DriveObserveStep,
     DriveDecideStep, DriveRecoverStep, DriveDeferStep, DriveLifecycleStep, DriveReadyStep,
     DriveReleaseStep, DriveClassifyStep, DriveOverrideStep, DriveSaveStep DEF DriveStep
<1>5. ASSUME Worker PROVE Inv'
  BY <1>3, <1>4, <1>5, DriveCreateStep, DrivePublishStep, DriveAdoptStep, DriveJudgeStep,
     DriveThrowsStep, DriveFinishStep, DriveRecordStep, AbortReleaseStep, AbortRecordStep
     DEF Worker
<1> QED
  BY <1>1, <1>2, <1>5, OtherProcessStep, StutterStep DEF Next

\* Inv holds in every reachable state of every instance.
THEOREM InvHolds == Spec => []Inv
  BY InitInv, NextInv, PTL DEF Spec

-----------------------------------------------------------------------------
(* The safety properties.                                                  *)

\* The state stays within its types.
THEOREM TypesHold == Spec => []TypeOK
<1>1. Inv => TypeOK
  BY DEF Inv
<1> QED BY InvHolds, <1>1, PTL

\* The device lease is held exactly while the run is active, and an unquiet run
\* is active: start(), drive(), worker_failed and the rollback agree on it.
THEOREM LeaseTheorem == Spec => []LeaseHeldUntilQuiescent
<1>1. Inv => LeaseHeldUntilQuiescent
  BY DEF Inv, ControlInv, LeaseHeldUntilQuiescent
<1> QED BY InvHolds, <1>1, PTL

\* Completed is published only for a run whose every unit succeeded, with nothing
\* owed, nothing held and no stop accepted.
THEOREM CompletedTheorem == Spec => []CompletedIsEarned
<1>1. Inv => CompletedIsEarned
  BY DEF Inv, OutcomeInv
<1> QED BY InvHolds, <1>1, PTL

\* An accepted stop decides the report of a run that became quiescent.
THEOREM StopTheorem == Spec => []StopDecidesOutcome
<1>1. Inv => StopDecidesOutcome
  BY DEF Inv, OutcomeInv
<1> QED BY InvHolds, <1>1, PTL

\* What a run reports about its end is true: earned success, and a stop that counts.
THEOREM VerdictTheorem == Spec => []VerdictIsTrue
BY CompletedTheorem, StopTheorem, PTL DEF VerdictIsTrue

\* The worker acts only for a run whose execution package was accepted.
THEOREM PublicationTheorem == Spec => []WorkerOwnsPublication
<1>1. Inv => WorkerOwnsPublication
  BY DEF Inv, ControlInv, WorkerOwnsPublication
<1> QED BY InvHolds, <1>1, PTL

\* start() and collect_finished_worker() only ever join a recorded run.
THEOREM JoinTheorem == Spec => []JoinsOnlyRecordedRuns
<1>1. Inv => JoinsOnlyRecordedRuns
  BY DEF Inv, TypeOK, StarterInv, ControlInv, JoinsOnlyRecordedRuns
<1> QED BY InvHolds, <1>1, PTL

\* Complete details list every receipt that is still owed.
THEOREM OwedTheorem == Spec => []OwedInputsAreReported
<1>1. Inv => OwedInputsAreReported
  BY DEF Inv, ReceiptInv, OwedInputsAreReported
<1> QED BY InvHolds, <1>1, PTL

-----------------------------------------------------------------------------
(* The action properties.                                                  *)

\* Publication, joins and details are accounted for in every step.
THEOREM AccountTheorem == Spec => []RunIsAccounted
BY PublicationTheorem, JoinTheorem, OwedTheorem, PTL DEF RunIsAccounted

\* A run counter that moves was moved for a request other than the last one:
\* the caller compared it under the mutex that it still holds.
THEOREM RequestTheorem == Spec => RequestRunsOnce
<1>1. Inv /\ [Next]_vars => [runId' # runId => requestId' # requestId]_vars
  <2> SUFFICES ASSUME Inv, Next, runId' # runId PROVE requestId' # requestId
    BY DEF vars
  <2>1. ASSUME NEW t \in Starters, Starter(t) PROVE requestId' # requestId
    <3>1. StartPublish(t)
      BY <2>1 DEF Starter, StarterReturns, StartEnter, CollectEnter, StartCheck,
             StartJoin,
                  StartLease, StartStoreFails, StartBind, StartSpawn, StartAccept,
                  StartRollback, CollectJoin
    <3> QED BY <3>1 DEF Inv, StarterInv, StartPublish, StartMove
  <2>2. ASSUME NEW s \in Stoppers, Stopper(s) PROVE FALSE
    BY <2>2 DEF Stopper, StopperReturns, StopBegin, StopSignal, StopSeal, StopMark
  <2>3. ~Worker /\ ~OtherProcess
    BY DEF Worker, WorkerFrame, OtherProcess
  <2> QED BY <2>1, <2>2, <2>3 DEF Next
<1> QED BY InvHolds, <1>1, PTL DEF Spec, RequestRunsOnce

\* A session follows another of the same run only over settled receipts and
\* released inputs: the decision to recover is the only way back to a session.
THEOREM SettledTheorem == Spec => NextSessionOnlyFromSettled
<1> DEFINE Settled == released /\ complete /\ (receipt # "none" => covered)
<1>1. Inv /\ [Next]_vars => [sid' # sid /\ sid'[1] = sid[1] => Settled]_vars
  <2> SUFFICES ASSUME Inv, Next, sid' # sid, sid'[1] = sid[1] PROVE Settled
    BY DEF vars
  <2>1. ASSUME NEW t \in Starters, Starter(t) PROVE FALSE
    BY <2>1 DEF Starter, StarterReturns, StarterFrame
  <2>2. ASSUME NEW s \in Stoppers, Stopper(s) PROVE FALSE
    BY <2>2 DEF Stopper, StopperReturns, StopBegin, StopSignal, StopSeal, StopMark
  <2>3. ~OtherProcess
    BY DEF OtherProcess
  <2>4. ASSUME Worker PROVE Settled
    <3>1. DrivePublish \/ DriveRecord \/ AbortRecord
      BY <2>4 DEF Worker, SessionStep, SessionFrame, DriveStep, DriveFrame, DriveCreate,
                  DriveAdopt, DriveJudge, DriveThrows, DriveFinish, AbortRelease
    <3>2. ~(DriveRecord \/ AbortRecord)
      BY DEF DriveRecord, AbortRecord, DriveReturns, NoSession, Inv, DriveInv
    <3> QED BY <3>1, <3>2 DEF DrivePublish, Goto, Inv, ReceiptInv
  <2> QED BY <2>1, <2>2, <2>3, <2>4 DEF Next
<1> QED BY InvHolds, <1>1, PTL DEF Spec, NextSessionOnlyFromSettled

-----------------------------------------------------------------------------
(* The coordinator implements RunContract.                                 *)

\* What a step may not touch without being a step of the contract.
Report == <<runId, active, termRecorded, stop, shown>>

\* The state the run is shown in does not matter to the contract while it is open.
LEMMA OpenStutter ==
  ASSUME UNCHANGED <<runId, active, termRecorded, stop>>,
         shown' = shown \/ (active /\ ~termRecorded)
  PROVE  UNCHANGED Contract!vars
  BY DEF Contract!vars, ContractPhase

\* A worker inside drive() works for an open run.
LEMMA WorkerIsOpen == Inv /\ Worker => active /\ ~termRecorded /\ runId > 0
  BY DEF Inv, ControlInv, Worker, SessionStep, DriveStep, Goto,
         DriveForward, SessionTick, SessionAdmit, SessionExecute, SessionObserve,
         SessionFlowEnds, SessionCancelled, SessionEnd, SessionCleanup,
         DriveStartup, DriveUnit, DriveAttempt, DriveObserve, DriveDecide, DriveRecover,
         DriveDefer, DriveLifecycle, DriveReady, DriveRelease, DriveClassify, DriveOverride,
         DriveSave, DriveCreate, DrivePublish, DriveAdopt, DriveJudge, DriveThrows,
         DriveFinish, DriveRecord, AbortRelease, AbortRecord

\* Each step of the coordinator is a step of the contract or leaves it alone.
LEMMA StepRefines == Inv /\ [Next]_vars => [Contract!Next]_Contract!vars
<1> SUFFICES ASSUME Inv, [Next]_vars PROVE [Contract!Next]_Contract!vars
  OBVIOUS
<1>1. ASSUME NEW t \in Starters, Starter(t) PROVE [Contract!Next]_Contract!vars
  <2>1. CASE StartPublish(t)
    <3>1. ~active /\ active' /\ ~termRecorded' /\ runId' = runId + 1 /\ ~stop' /\ runId \in Nat
      BY <2>1 DEF StartPublish, Inv, TypeOK
    <3>2. Contract!Begin
      BY <3>1 DEF Contract!Begin, ContractPhase
    <3> QED BY <3>2 DEF Contract!Next
  <2>2. CASE StartRollback(t)
    <3>1. active /\ ~termRecorded /\ runId > 0 /\ runId \in Nat
      BY <2>2 DEF StartRollback, StartReturns, Inv, StarterInv, TypeOK
    <3>2. ~active' /\ shown' = "Failed" /\ UNCHANGED <<runId, stop>>
      BY <2>2 DEF StartRollback
    <3>3. Contract!Close
      BY <3>1, <3>2 DEF Contract!Close, ContractPhase
    <3> QED BY <3>3 DEF Contract!Next
  <2>3. CASE ~StartPublish(t) /\ ~StartRollback(t)
    <3>1. UNCHANGED Report
      BY <1>1, <2>3 DEF Report, Starter, StarterReturns, StartEnter,
             CollectEnter, StartCheck,
                  StartJoin, StartLease, StartStoreFails, StartBind, StartSpawn, StartAccept,
                  CollectJoin
    <3> QED BY <3>1, OpenStutter DEF Report
  <2> QED BY <2>1, <2>2, <2>3
<1>2. ASSUME NEW s \in Stoppers, Stopper(s) PROVE [Contract!Next]_Contract!vars
  <2>1. CASE StopBegin(s)
    <3>1. active /\ ~termRecorded /\ stop' /\ UNCHANGED <<runId, active, termRecorded, shown>>
      BY <2>1 DEF StopBegin, Stoppable, Inv, ControlInv, TypeOK
    <3>2. stop' = TRUE
      BY <2>1 DEF StopBegin
    <3>3. Contract!Ask
      BY <3>1, <3>2 DEF Contract!Ask, ContractPhase
    <3> QED BY <3>3 DEF Contract!Next
  <2>2. CASE StopMark(s)
    <3>1. shown' = shown \/ (active /\ ~termRecorded)
      BY <2>2 DEF StopMark, Stoppable, Inv, ControlInv
    <3>2. UNCHANGED <<runId, active, termRecorded, stop>>
      BY <2>2 DEF StopMark
    <3> QED BY <3>1, <3>2, OpenStutter
  <2>3. CASE StopSignal(s) \/ StopSeal(s)
    BY <2>3, OpenStutter DEF StopSignal, StopSeal
  <2> QED BY <1>2, <2>1, <2>2, <2>3 DEF Stopper, StopperReturns
<1>3. ASSUME Worker PROVE [Contract!Next]_Contract!vars
  <2>1. active /\ ~termRecorded /\ runId > 0 /\ UNCHANGED runId
    BY <1>3, WorkerIsOpen DEF Worker, WorkerFrame
  <2>2. CASE DriveRecord
    <3>1. /\ shown' = terminal /\ stop' = stop /\ termRecorded' = TRUE
          /\ active' = ~workQuiet /\ wpc = "record" /\ workQuiet \in BOOLEAN
      BY <2>2 DEF DriveRecord, Goto, ConfirmedReleased, Inv, TypeOK
    <3>2. CASE workQuiet
      <4>1. terminal \in IF stop THEN {"UserStopped", "Failed"}
                                 ELSE {"Completed", "Failed", "Interrupted"}
        BY <3>1, <3>2 DEF Inv, VerdictInv, TypeOK, TerminalStates
      <4>2. Contract!Close
        BY <2>1, <3>1, <3>2, <4>1 DEF Contract!Close, ContractPhase, Inv, TypeOK
      <4> QED BY <4>2 DEF Contract!Next
    <3>3. CASE ~workQuiet
      <4>1. terminal = "Interrupted"
        BY <3>1, <3>3 DEF Inv, VerdictInv
      <4>2. Contract!Hold
        BY <2>1, <3>1, <3>3, <4>1 DEF Contract!Hold, ContractPhase
      <4> QED BY <4>2 DEF Contract!Next
    <3> QED BY <3>2, <3>3
  <2>3. CASE AbortRecord
    <3>1. /\ shown' = "Failed" /\ stop' = stop /\ termRecorded' = TRUE
          /\ active' = ~workQuiet /\ workQuiet \in BOOLEAN
      BY <2>3 DEF AbortRecord, ConfirmedReleased, Inv, TypeOK
    <3>2. workQuiet => Contract!Close
      BY <2>1, <3>1 DEF Contract!Close, ContractPhase, Inv, TypeOK
    <3>3. ~workQuiet => Contract!Hold
      BY <2>1, <3>1 DEF Contract!Hold, ContractPhase
    <3> QED BY <3>2, <3>3 DEF Contract!Next
  <2>4. CASE AbortRelease
    <3>1. stop' = TRUE /\ UNCHANGED <<active, termRecorded, shown>>
      BY <2>4 DEF AbortRelease
    <3>2. Contract!Ask
      BY <2>1, <3>1 DEF Contract!Ask, ContractPhase
    <3> QED BY <3>2 DEF Contract!Next
  <2>5. CASE ~DriveRecord /\ ~AbortRecord /\ ~AbortRelease
    <3>1. UNCHANGED <<active, termRecorded, stop>>
      BY <1>3, <2>5 DEF Worker, SessionStep, SessionFrame, DriveStep, DriveFrame,
             DriveCreate,
                        DrivePublish, DriveAdopt, DriveJudge, DriveThrows, DriveFinish
    <3> QED BY <2>1, <3>1, OpenStutter
  <2> QED BY <2>2, <2>3, <2>4, <2>5
<1>4. ASSUME OtherProcess PROVE [Contract!Next]_Contract!vars
  BY <1>4, OpenStutter DEF OtherProcess
<1>5. ASSUME UNCHANGED vars PROVE [Contract!Next]_Contract!vars
  BY <1>5, OpenStutter DEF vars
<1> QED BY <1>1, <1>2, <1>3, <1>4, <1>5 DEF Next

\* The coordinator implements the contract, whatever the number of threads, units,
\* sessions and runs.
THEOREM ContractTheorem == Spec => ImplementsContract
<1>1. Init => Contract!Init
  BY DEF Init, Contract!Init, ContractPhase
<1> QED BY InvHolds, <1>1, StepRefines, PTL DEF Spec, ImplementsContract, Contract!Spec
=============================================================================
