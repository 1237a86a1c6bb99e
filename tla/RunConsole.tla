----------------------------- MODULE RunConsole -----------------------------
(***************************************************************************)
(* The page that shows and commands the run (useRunSession), the service   *)
(* as it sees it, and what lies between: starts that are lost, answered    *)
(* late or handled after the page gave them up, reads that are overtaken   *)
(* by commands, and a service that restarts behind the page.               *)
(*                                                                         *)
(* One page, one-run requests; sessions of several runs are TaskSession's. *)
(* Of the run there is what a status says of it; the worker behind it is   *)
(* RunCoordinator's.                                                       *)
(***************************************************************************)
EXTENDS Naturals, FiniteSets

CONSTANTS
  None,
  (* Bounds of the model. *)
  MaxIds, MaxPresses, MaxStops, MaxInstances

Ids    == 1..MaxIds
Phases == {"no", "sent", "waiting", "reading"}
States == {"Idle", "Running", "StopRequested", "Held", "Ended"}

Submissions == [id: Ids, state: {"preparing", "final"}, wish: 0..MaxIds]
Posts    == [id: Ids, wish: Ids, press: Nat]
Statuses == [of: Nat \X Nat, state: States, latest: BOOLEAN, busy: BOOLEAN,
             preparing: Ids \union {None}]
Views    == [of: Nat \X Nat, state: States, latest: BOOLEAN]
Intents  == [id: Ids, uncertain: BOOLEAN, wish: Ids]
Flights  ==
  [step: {"asked", "overtaken"}, value: {None}] \union [step: {"viewed"}, value: Views]
    \union [step: {"events"}, value: Ids \union {None}]

ASSUME ConsoleAssumption ==
  /\ MaxIds \in Nat \ {0} /\ MaxPresses \in Nat \ {0} /\ MaxInstances \in Nat \ {0}
  /\ MaxStops \in Nat
  /\ None \notin Nat /\ None \notin Submissions
  /\ None \notin Statuses /\ None \notin Intents /\ None \notin Flights

VARIABLES
  (* The service. *)
  instance,       \* instance_id_
  run,            \* the coordinator's snapshot_.run_id, 0 before the first
  state,          \* and its state; "Held" has ended with inputs unreleased
  active,         \* active_run_id_
  submission,     \* submission_: its id and state, or None
  job,            \* the device job of the submission
  cancelled,      \* cancel_operation_, or a newer stop_epoch_
  registered,     \* ids SubmissionStore has on disk
  unfinished,     \* those of them whose receipt there is not final
  writable,       \* and whether it takes more
  started,        \* history: how often each wish was run
  (* Between page and service. *)
  posts,          \* start requests not yet handled: [id, wish, press]
  stops,          \* the stop request not yet handled: its id or None
  answered,       \* whether the start the page waits for has its answer
  (* The page. *)
  shown,          \* run.value, or None
  fresh,          \* fresh, without serviceClosing
  intent,         \* [id, uncertain, wish], or None
  submit, stop,   \* how far submit() and requestStop() are
  flight,         \* runFlight, or None
  presses, stopPresses

runVars     == <<instance, run, state, started>>
storeVars   == <<registered, unfinished, writable>>
jobVars     == <<active, submission, job, cancelled, storeVars>>
serviceVars == <<runVars, jobVars>>
netVars     == <<posts, stops, answered>>
pageVars    == <<shown, fresh, intent, submit, stop, flight, presses, stopPresses>>
vars == <<serviceVars, netVars, pageVars>>

NewFlight == [step |-> "asked", value |-> None]
\* A read whose status will not count, whatever it is.
Overtaken == [step |-> "overtaken", value |-> None]

Init ==
  /\ instance = 1 /\ run = 0 /\ state = "Idle" /\ active = 0
  /\ submission = None /\ job = "none" /\ cancelled = FALSE
  /\ registered = {} /\ unfinished = {} /\ writable = TRUE
  /\ started = [w \in Ids |-> 0]
  /\ posts = {} /\ stops = {} /\ answered = FALSE
  /\ shown = None /\ fresh = FALSE /\ intent = None
  /\ submit = "no" /\ stop = "no" /\ flight = NewFlight
  /\ presses = 0 /\ stopPresses = 0

-----------------------------------------------------------------------------
(* The run.                                                                *)

Executing == state \in {"Running", "StopRequested"}
RunActive == Executing \/ state = "Held"

\* The terminal snapshot: an unconfirmed release keeps the run active.
RecordEnd ==
  /\ Executing /\ state' \in {"Ended", "Held"}
  /\ UNCHANGED <<instance, run, started, jobVars, netVars, pageVars>>

-----------------------------------------------------------------------------
(* The job of a submission, from queue_run to its receipt.                 *)

\* Submitted, failed or cancelled: to the page a receipt is final or is not.
JobEnds ==
  /\ job' = "none" /\ submission' = [submission EXCEPT !.state = "final", !.wish = 0]

\* The last look at cancel_operation_: a stop behind it does not reach the job.
LastLook ==
  /\ job = "preparing" /\ ~cancelled
  /\ job' = "starting"
  /\ UNCHANGED <<runVars, active, submission, cancelled, storeVars, netVars, pageVars>>

\* The coordinator publishes the snapshot, which active_run_id_ follows.
CoordinatorStarts ==
  /\ job = "starting"
  /\ run' = run + 1 /\ state' = "Running"
  /\ started' = [started EXCEPT ![submission.wish] = @ + 1]
  /\ job' = "publishing"
  /\ UNCHANGED <<instance, active, submission, cancelled, storeVars, netVars, pageVars>>

PreparationEnds ==
  /\ job \in {"preparing", "starting"}
  /\ JobEnds
  /\ UNCHANGED <<runVars, active, cancelled, storeVars, netVars, pageVars>>

RecordRun ==
  /\ job = "publishing"
  /\ active' = run /\ job' = "recorded"
  /\ UNCHANGED <<runVars, submission, cancelled, storeVars, netVars, pageVars>>

\* bind_publication or the thread failed, and the run never was; or only the
\* acceptance's clean-up failed, and it lives.  active_run_id_ stays behind.
StartFails ==
  /\ job = "publishing"
  /\ \/ Executing /\ state' = "Ended"
     \/ UNCHANGED state
  /\ JobEnds
  /\ UNCHANGED <<instance, run, active, cancelled, storeVars, started, netVars, pageVars>>

SaveReceipt ==
  /\ job = "recorded"
  /\ JobEnds
  /\ UNCHANGED <<runVars, active, cancelled, storeVars, netVars, pageVars>>

Job ==
  LastLook \/ CoordinatorStarts \/ PreparationEnds \/ RecordRun \/ StartFails \/ SaveReceipt

-----------------------------------------------------------------------------
(* Commands, which the HTTP threads handle in any order.                   *)

\* A request the page has given up is handled all the same.
Awaited(p)  == submit = "sent" /\ p.press = presses

\* Slip: only the submission in memory is known.
Remembered(p) == submission # None /\ submission.id = p.id

Replayed(p) == p.id \in registered
Admitted    == writable /\ job = "none" /\ ~RunActive

\* queue_run, to the thread of the job.
Accept(p) ==
  /\ submission' = [id |-> p.id, state |-> "preparing", wish |-> p.wish]
  /\ registered' = registered \union {p.id}
  /\ job' = "preparing" /\ cancelled' = FALSE
  /\ UNCHANGED <<active, unfinished, writable>>

\* The first receipt, the thread or the receipt of the failure fails.  A write that
\* fails, though its file may be there, closes the store.
FailToQueue(p) ==
  /\ submission' = [id |-> p.id, state |-> "final", wish |-> 0]
  /\ registered' \in {registered, registered \union {p.id}}
  /\ unfinished' \in {unfinished, unfinished \union ({p.id} \intersect registered')}
  /\ writable' \in {writable, FALSE} /\ cancelled' \in {cancelled, FALSE}
  /\ UNCHANGED <<active, job>>

\* Any answer settles the page's intent: accepted, failed, replayed or refused, which
\* may be for want of space too.
HandleStart(p) ==
  /\ p \in posts /\ posts' = posts \ {p}
  /\ answered' = (answered \/ Awaited(p))
  /\ \/ ~Replayed(p) /\ Admitted /\ (Accept(p) \/ FailToQueue(p))
     \/ UNCHANGED jobVars
  /\ UNCHANGED <<instance, run, state, started, stops, pageVars>>

Addressed(id) == id = None \/ (submission # None /\ submission.id = id)

HandleStop(id) ==
  /\ id \in stops /\ stops' = {}
  /\ IF Addressed(id)
       THEN /\ cancelled' = (job = "preparing")            \* looked at nowhere else
            /\ \/ state = "Running" /\ state' = "StopRequested"
               \/ UNCHANGED state                            \* the execution is over
       ELSE UNCHANGED <<cancelled, state>>
  /\ UNCHANGED <<instance, run, active, submission, job, storeVars, started, posts,
                 answered, pageVars>>

LoseCommand ==
  /\ \/ \E p \in posts : posts' = posts \ {p} /\ UNCHANGED stops
     \/ stops # {} /\ stops' = {} /\ UNCHANGED posts
  /\ UNCHANGED <<serviceVars, answered, pageVars>>

\* The process ends and another takes the port: requests die with their
\* connections, submissions and results stay; an unfinished one, or what a failed
\* write left, closes the store.
Restart ==
  /\ instance < MaxInstances
  /\ instance' = instance + 1 /\ run' = 0 /\ state' = "Idle" /\ active' = 0
  /\ submission' = None /\ job' = "none" /\ cancelled' = FALSE
  /\ unfinished' = IF job = "none" THEN unfinished ELSE unfinished \union {submission.id}
  /\ writable' \in {w \in BOOLEAN : w => unfinished' = {}}
  /\ posts' = {} /\ stops' = {}
  /\ UNCHANGED <<registered, started, answered, pageVars>>

-----------------------------------------------------------------------------
(* The page: reading.  run_status looks at the coordinator and then at the *)
(* application; the second look and its arrival are one step, as are the   *)
(* answer with events and its arrival: what may come in between may come   *)
(* before.  In a value, of names the run, preparing the submission in that *)
(* state, and latest says (history) that no command has come back since, or*)
(* that a newer answer was not coherent and was skipped.                   *)

Current == <<instance, run>>
OfShown(of) == shown # None /\ shown.of = of
readVars == <<shown, fresh, intent, submit, stop, presses, stopPresses>>

ShownBusy ==
  shown # None /\ (shown.busy \/ shown.preparing # None
                      \/ shown.state \in {"Running", "StopRequested", "Held"})
CanStart == fresh /\ submit = "no" /\ stop = "no" /\ ~ShownBusy

Poll ==
  /\ flight = None /\ flight' = NewFlight
  /\ UNCHANGED <<serviceVars, netVars, readVars>>

ViewRun ==
  /\ flight # None /\ flight.step = "asked"
  /\ flight' = [step |-> "viewed", value |-> [of |-> Current, state |-> state, latest |-> TRUE]]
  /\ UNCHANGED <<serviceVars, netVars, readVars>>

\* Slip: a command that waited is never over.
AdvanceHalf(phase) == IF phase = "waiting" THEN "reading" ELSE phase

\* The slot is free: commands that waited for it share the next read, those
\* that waited for this one are over.
Advance(phase) ==
  CASE phase = "waiting" -> "reading" [] phase = "reading" -> "no" [] OTHER -> phase
Release ==
  /\ flight' = IF "waiting" \in {submit, stop} THEN NewFlight ELSE None
  /\ submit' = Advance(submit) /\ stop' = Advance(stop)

Coherent == flight.value.of = <<instance, active>>
Submitted(at) == IF submission # None /\ submission.state = at THEN submission.id ELSE None

TakeStatus ==
  /\ flight # None /\ flight.step = "viewed" /\ flight.value.of[1] = instance
  /\ IF Coherent
       THEN LET of == flight.value.of
            IN /\ shown' = [of |-> of, state |-> flight.value.state,
                            latest |-> flight.value.latest,
                            busy |-> RunActive \/ job # "none", preparing |-> Submitted("preparing")]
               /\ fresh' = TRUE
               /\ flight' = [step |-> "events", value |-> Submitted("final")]
               /\ UNCHANGED <<submit, stop>>
       ELSE /\ Release
            /\ shown' = IF shown = None THEN None ELSE [shown EXCEPT !.latest = TRUE]
            /\ UNCHANGED fresh
  /\ UNCHANGED <<serviceVars, netVars, intent, presses, stopPresses>>

\* A receipt that is final settles the intent, whatever the generation.
SettleIntent ==
  intent' = IF intent # None /\ flight.value = intent.id
              THEN [intent EXCEPT !.uncertain = FALSE] ELSE intent

\* The events come or do not.  They are never taken: their owner is compared
\* with the status's instance_id, which it does not have (server_instance_id).
TakeEvents ==
  /\ flight # None /\ flight.step = "events"
  /\ SettleIntent /\ Release
  /\ UNCHANGED <<serviceVars, netVars, shown, fresh, presses, stopPresses>>

\* The status does not come, or not within the five seconds it is fresh.
ReadFails ==
  /\ flight # None /\ flight.step \in {"asked", "viewed"}
  /\ fresh' = FALSE /\ Release
  /\ UNCHANGED <<serviceVars, netVars, shown, intent, presses, stopPresses>>

\* The status comes, or fails, and no longer counts.
Skip ==
  /\ flight # None /\ flight.step = "overtaken"
  /\ Release
  /\ UNCHANGED <<serviceVars, netVars, shown, fresh, intent, presses, stopPresses>>

-----------------------------------------------------------------------------
(* The page: commands.                                                     *)

\* ++generation: a read under way no longer counts.
Overtake ==
  flight' = IF flight = None \/ flight.step = "events" THEN flight ELSE Overtaken

Unconfirmed == intent # None /\ intent.uncertain
SubmitId == IF Unconfirmed THEN intent.id ELSE IF intent = None THEN 1 ELSE intent.id + 1
\* History: which of the user's wishes a press is for.
SubmitWish == IF Unconfirmed THEN intent.wish ELSE IF intent = None THEN 1 ELSE intent.wish + 1

\* While an intent is uncertain a press is for it or, with another fingerprint,
\* refused.
Submit ==
  /\ CanStart /\ presses < MaxPresses
  /\ SubmitId <= MaxIds
  /\ intent' = [id |-> SubmitId, uncertain |-> TRUE, wish |-> SubmitWish]
  /\ posts' = posts \union {[id |-> SubmitId, wish |-> SubmitWish, press |-> presses + 1]}
  /\ presses' = presses + 1 /\ submit' = "sent"
  /\ Overtake
  /\ UNCHANGED <<serviceVars, stops, answered, shown, fresh, stop, stopPresses>>

\* Slip: the read under way is taken for the one behind the command.
ReadsAlong == "reading"

\* afterCommand: waits for the read under way, if any, before it reads.
AfterCommand == IF flight = None THEN "reading" ELSE "waiting"

\* history: the state shown, and one on its way, are from before the answer.
ReadsAfterwards ==
  /\ flight' = CASE flight = None -> NewFlight
                 [] flight # None /\ flight.step = "viewed"
                      -> [flight EXCEPT !.value.latest = FALSE]
                 [] OTHER -> flight
  /\ shown' = IF shown = None THEN None ELSE [shown EXCEPT !.latest = FALSE]

SubmitReturns ==
  /\ submit = "sent"
  /\ \/ answered /\ intent' = [intent EXCEPT !.uncertain = FALSE]
     \/ UNCHANGED intent                                 \* timed out, or no connection
  /\ submit' = AfterCommand /\ answered' = FALSE
  /\ ReadsAfterwards
  /\ UNCHANGED <<serviceVars, posts, stops, fresh, stop, presses, stopPresses>>

StopId ==
  IF shown # None /\ shown.preparing # None THEN shown.preparing
    ELSE IF intent # None /\ (submit # "no" \/ intent.uncertain) THEN intent.id ELSE None

RequestStop ==
  /\ stop = "no" /\ stopPresses < MaxStops
  /\ stops' = stops \union {StopId}
  /\ stopPresses' = stopPresses + 1 /\ stop' = "sent"
  /\ Overtake
  /\ UNCHANGED <<serviceVars, posts, answered, shown, fresh, intent, submit, presses>>

\* Stops have a thread of their own: none is handled after it was given up.
StopReturns ==
  /\ stop = "sent" /\ stops = {}
  /\ stop' = AfterCommand
  /\ ReadsAfterwards
  /\ UNCHANGED <<serviceVars, netVars, fresh, intent, submit, presses, stopPresses>>

-----------------------------------------------------------------------------
Commands ==
  (\E p \in posts : HandleStart(p)) \/ (\E id \in stops : HandleStop(id)) \/ LoseCommand
Reading  == Poll \/ ViewRun \/ TakeStatus \/ TakeEvents \/ ReadFails \/ Skip
User     == Submit \/ SubmitReturns \/ RequestStop \/ StopReturns

Next == RecordEnd \/ Job \/ Commands \/ Restart \/ Reading \/ User

\* The page's timer and its ten-second limits run, the stop's thread is never
\* busy for ever, and of the statuses some come.
Fairness ==
  /\ WF_vars(Poll) /\ SF_vars(ViewRun) /\ SF_vars(TakeStatus)
  /\ WF_vars(ReadFails) /\ WF_vars(TakeEvents) /\ WF_vars(Skip)
  /\ WF_vars(SubmitReturns) /\ WF_vars(StopReturns) /\ WF_vars(Commands)

Spec     == Init /\ [][Next]_vars
FairSpec == Spec /\ Fairness

-----------------------------------------------------------------------------
(* Properties.                                                             *)

\* Types: also, an answer awaits a command under way, a run the application knows was
\* published, and an overtaken status has nothing left to say.
TypeOK ==
  /\ instance \in Nat /\ run \in Nat /\ state \in States /\ started \in [Ids -> Nat]
  /\ active \in 0..run /\ submission \in Submissions \union {None}
  /\ job \in {"none", "preparing", "starting", "publishing", "recorded"}
  /\ cancelled \in BOOLEAN
  /\ registered \subseteq Ids /\ unfinished \subseteq registered /\ writable \in BOOLEAN
  /\ posts \subseteq Posts /\ stops \subseteq Ids \union {None}
  /\ answered \in BOOLEAN /\ (answered => submit = "sent")
  /\ shown \in Statuses \union {None} /\ fresh \in BOOLEAN
  /\ intent \in Intents \union {None} /\ submit \in Phases /\ stop \in Phases
  /\ flight \in Flights \union {None} /\ presses \in Nat /\ stopPresses \in Nat

\* What the user wanted once runs at most once, however often the start was
\* sent, handled, lost or given up, over restarts of the service too.
WishRunsOnce == \A w \in Ids : started[w] <= 1

\* A start is offered only on a state read after the last command came back,
\* but for the time in which the service answers incoherently.
OffersAreCurrent == CanStart => shown.latest

\* A service at rest is offered for a start again, and its last run is shown,
\* whatever was lost before.
AtRest == job = "none" /\ ~RunActive /\ active = run
RestIsOffered == AtRest ~> ~AtRest \/ (CanStart /\ OfShown(Current))
=============================================================================
