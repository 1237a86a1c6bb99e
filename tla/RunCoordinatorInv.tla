------------------------- MODULE RunCoordinatorInv -------------------------
(***************************************************************************)
(* The inductive invariant of RunCoordinator: what each program counter of *)
(* a starter and of the worker knows about the shared state.               *)
(***************************************************************************)
EXTENDS RunCoordinator

\* Nobody is inside drive().
NoDrive == {"none", "gate", "exited"}

\* drive() between sessions, with no failure on record.
Between == {"create", "startup", "unit", "attempt", "publish"}

\* A session object is published.
InSession == {"forward", "adopt"} \union SessionPcs

Recovering == {"recover", "defer", "lifecycle", "ready"}
Judging    == {"judge", "observe", "decide"}

\* start() from the critical section that publishes the run to the open latch.
Launching == {"bind", "spawn", "accept", "rollback"}

\* start_mutex_ has one owner, and what that owner has already established.
StarterInv ==
  \A t \in Starters :
    /\ spc[t] # "idle" => startMutex = t
    /\ spc[t] \in {"check", "join", "lease", "publish"} => sreq[t] \in Requests
    /\ spc[t] \in {"join", "lease", "publish"} => ~active /\ requestId # sreq[t]
    /\ spc[t] \in {"lease", "publish", "bind", "spawn", "rollback"} => wpc = "none"
    /\ spc[t] = "accept" => wpc = "gate"
    /\ spc[t] = "publish" => lease = "start"
    /\ spc[t] = "collect" => termRecorded
    /\ spc[t] \in Launching =>
         active /\ ~termRecorded /\ runId > 0 /\ done = 0 /\ details /\ ~unresolved

\* The run's control flags, the lease and the display agree.
ControlInv ==
  /\ (lease = "run") = active
  /\ ~quiescent => active
  /\ ~active => termRecorded
  /\ active /\ termRecorded => execFinished /\ runId > 0
  /\ active /\ ~termRecorded => shown \in LiveStates
  /\ runId = 0 => requestId = NoRequest
  /\ wpc = "exited" => execFinished /\ termRecorded
  /\ wpc = "gate" => active /\ ~termRecorded /\ runId > 0 /\ done = 0 /\ details /\ ~unresolved
  /\ wpc \notin NoDrive => active /\ ~termRecorded /\ runId > 0 /\ publication = "accepted"
  /\ wpc \in AbortPcs \union {"release", "classify", "override", "save", "record"} => execFinished

\* Units, failure and the account of receipts along drive().
DriveInv ==
  /\ wpc \in NoDrive \union {"create", "startup"} =>
       unit = 0 /\ generation = 0 /\ failure = "none" /\ receipt = "none" /\ sid = NoSession
  /\ wpc \in {"create", "startup"} => done = 0 /\ ~unresolved
  /\ wpc \notin NoDrive => done <= unit
  /\ wpc \in TryPcs \union SessionPcs /\ wpc \notin {"create", "startup", "unit"} => unit < Units
  /\ wpc \in Between \union InSession \union {"judge"} => failure = "none"
  /\ wpc \in {"observe", "decide"} \union Recovering => failure # "none"
  /\ wpc = "publish" => generation > 0
  /\ wpc \in InSession => session # NoSession
  /\ sid # NoSession => sid[1] > 0

\* What is known of details and receipts at each point.
ReceiptInv ==
  /\ wpc \in Between \union InSession \union Recovering => details
  /\ wpc \in Judging => details = complete
  /\ wpc \in Between \union Recovering \union {"forward", "run", "tick", "execute"} =>
       unresolved = (receipt # "none")
  /\ wpc \in Judging /\ complete => unresolved = (receipt # "none")
  /\ wpc \in FinalPcs /\ details => unresolved = (receipt # "none")
  /\ wpc \in NoDrive \union Between \union Recovering =>
       released /\ complete /\ (receipt # "none" => covered)
  /\ wpc \in Judging /\ workQuiet => released
  /\ wpc = "unit" => stop \/ receipt = "none"
  /\ wpc \in FinalPcs /\ failure = "none" => details /\ (stop \/ receipt = "none")

\* The verdict computed by the worker before it is published.
VerdictInv ==
  wpc \in {"override", "save", "record"} =>
    /\ terminal = "Completed" => workQuiet /\ ~stop /\ done = Units /\ failure = "none"
    /\ terminal = "UserStopped" => stop
    /\ workQuiet /\ stop => terminal = "UserStopped"
    /\ ~workQuiet => terminal = "Interrupted"

\* The published states a reader may see outside a live run.
OutcomeInv ==
  /\ CompletedIsEarned
  /\ StopDecidesOutcome

Inv == /\ TypeOK
       /\ StarterInv
       /\ ControlInv
       /\ DriveInv
       /\ ReceiptInv
       /\ VerdictInv
       /\ OutcomeInv
=============================================================================
