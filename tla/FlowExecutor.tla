---------------------------- MODULE FlowExecutor ----------------------------
(***************************************************************************)
(* FlowExecutor::tick: one thread interprets a flow program over a stack   *)
(* of call frames, lets events interrupt any of them, keeps the receipt of *)
(* every input it sent and repairs the observation channel.                *)
(*                                                                         *)
(* The program is the most general one: a selection may enter any step and *)
(* a step may be of any kind, as long as an input is followed by its own   *)
(* AwaitResult, which FlowProgram::validate demands.  Pixels, clocks and   *)
(* the device are choices: a recognition hits or not, a limit has passed   *)
(* or not, a submission is delivered, lost or refused.  An action is one   *)
(* tick (RecoverDevice and the three that look again may share one); only  *)
(* the stop flag is shared with other threads.                             *)
(***************************************************************************)
EXTENDS Naturals, FiniteSets

CONSTANTS
  Inputs,        \* declared inputs
  Retryable,     \* inputs with a retry clause
  Effects,       \* inputs with an effect binding, such as a payment
  Routed,        \* retryable inputs whose retry names restart_from
  Protected,     \* inputs with an interruption_reason
  Discardable,   \* protected inputs with instance_exit_discardable
  Limit,         \* retry->max_submissions of each input, 0 for none
  Events,        \* event rules with a handler
  Replans,       \* rules, Restart included, whose resume mode is Replan
  Restart,       \* the root's on_device_restart rule
  NoEvent,       \* the event of a frame that was called
  MaxDepth,      \* frames of the stack (8 in the code)
  MaxSends,      \* bound: receipts issued in one session
  MaxAttempts    \* bound: submissions of one receipt

Rules == Events \union {Restart}

ASSUME ExecutorAssumption ==
  /\ Retryable \subseteq Inputs /\ Effects \subseteq Inputs
  /\ Routed \subseteq Retryable
  /\ Protected \subseteq Inputs /\ Discardable \subseteq Protected \ Effects
  /\ Limit \in [Inputs -> Nat]
  /\ Restart \notin Events /\ NoEvent \notin Rules
  /\ Replans \subseteq Rules
  /\ MaxDepth \in Nat \ {0} /\ MaxSends \in Nat /\ MaxAttempts \in Nat \ {0}

VARIABLES
  depth,       \* stack_.size()
  frame,       \* stack_: frames 1 .. depth, blank above
  terminal,    \* terminal_
  recovery,    \* read_recovery_: "none", "suspended", or "resumed" to be validated
  checked,     \* read_recovery_->device_checked
  forced,      \* read_recovery_->restart_application
  rebooted,    \* restart_handler_pending_
  exit,        \* instance_exit_proof_: receipts 1 .. exit precede the proved exit
  armed,       \* exception_since_ is set
  cancelled,   \* ports_.cancelled()
  sent,        \* receipts issued
  settled      \* receipts closed by evidence of their result (for the properties)

stackVars    == <<depth, frame>>
recoveryVars == <<recovery, checked, forced, rebooted, exit>>
ledgerVars   == <<sent, settled>>
vars == <<stackVars, terminal, recoveryVars, armed, cancelled, ledgerVars>>

-----------------------------------------------------------------------------
(* Frames and receipts. *)

Levels    == 1 .. MaxDepth
NoReceipt == [id |-> 0]
Receipts  == [id : 1 .. MaxSends, input : Inputs, unknown : BOOLEAN, attempts : 1 .. MaxAttempts]
NoResume  == [rule |-> NoEvent, owner |-> 0]
Resumes   == [rule : Replans, owner : Levels] \union {NoResume}

\* at: choosing a successor ("select"), at a step ("step"), or at the AwaitResult
\* of the frame's own input ("await").
Frames == [at : {"select", "step", "await"}, event : Rules \union {NoEvent}, owner : 0 .. MaxDepth,
           pending : Receipts \union {NoReceipt}, resume : Resumes]

Handler(rule, owner) == [at |-> "step", event |-> rule, owner |-> owner,
                         pending |-> NoReceipt, resume |-> NoResume]
Called == Handler(NoEvent, 0)
Blank  == Called

Active       == 1 .. depth
Top          == frame[depth]
Owes(f)      == f.pending # NoReceipt
IsHandler(f) == f.event # NoEvent
Unresolved   == \E i \in Active : Owes(frame[i])
Unknown      == \E i \in Active : Owes(frame[i]) /\ frame[i].pending.unknown

\* The first n frames of the stack s, and nothing above them.
Cut(s, n) == [i \in Levels |-> IF i <= n THEN s[i] ELSE Blank]

Init ==
  /\ depth = 1 /\ frame = [i \in Levels |-> Blank]
  /\ terminal = "Progress"
  /\ recovery = "none" /\ checked = FALSE /\ forced = FALSE /\ rebooted = FALSE
  /\ exit = 0
  /\ armed = FALSE /\ cancelled = FALSE
  /\ sent = 0 /\ settled = {}

-----------------------------------------------------------------------------
(* Building blocks of a tick. *)

Running == terminal = "Progress" /\ ~cancelled

\* A suspended observation comes before the program.
Interprets == Running /\ recovery # "suspended"

\* The tick interprets the current step; a pending resume comes first.
Stepping(at) == Interprets /\ Top.resume = NoResume /\ Top.at = at

SetTop(f) == frame' = [frame EXCEPT ![depth] = f]
Moved(at) == [Top EXCEPT !.at = at]

Recovering(state) ==
  /\ recovery' = state
  /\ checked' = (checked /\ state # "none")
  /\ forced' = (forced /\ state # "none")
  /\ UNCHANGED <<rebooted, exit>>

\* finish_observation_recovery does nothing while the input context of another
\* step still has to be validated.
FinishRecovery == \E state \in {recovery, "none"} : Recovering(state)

\* clear_unexpected: progress disarms the timer, except inside exception scopes.
Disarm == armed' \in {armed, FALSE}

-----------------------------------------------------------------------------
(* The ends of a flow. *)

\* Seen at the head of a tick or, before anything else was done, inside it.
Cancel ==
  /\ terminal = "Progress" /\ cancelled
  /\ terminal' = "Cancelled"
  /\ FinishRecovery
  /\ UNCHANGED <<stackVars, armed, cancelled, ledgerVars>>

\* A deadline, a limit, a recognition error or an exception of the tick; a Fail or
\* ExternalBlocked step, a stop rule that hit, a result unconfirmed at its deadline,
\* an input that meets an unknown delivery, a replan across another handler.
Stops ==
  /\ Running
  /\ \/ terminal' = "Failed" /\ Recovering("none")
     \/ terminal' = "ExternalBlocked" /\ UNCHANGED recoveryVars
  /\ UNCHANGED <<stackVars, armed, cancelled, ledgerVars>>

\* Slip: only the receipt of the frame itself is looked at, and from any frame.
EndsCleanlyAnyway == ~Owes(Top)

\* Only the root ends the flow, and with every receipt accounted for.
EndsCleanly == depth = 1 /\ ~Unresolved

\* Finish and BusinessFail.
Finish ==
  /\ Stepping("step")
  /\ EndsCleanly
  /\ terminal' \in {"Completed", "BusinessFailed"}
  /\ UNCHANGED <<stackVars, recoveryVars, armed, cancelled, ledgerVars>>

-----------------------------------------------------------------------------
(* Selection, plain steps, calls and returns. *)

\* select_next, and the two re-readings of a scene that may choose again: an
\* input's only successor is its AwaitResult.
Select ==
  /\ Stepping("select")
  /\ SetTop(Moved(IF Owes(Top) THEN "await" ELSE "step"))
  /\ FinishRecovery
  /\ Disarm
  /\ UNCHANGED <<depth, terminal, cancelled, ledgerVars>>

\* Route, Observe, Wait, Poll, business and registered operations, the error edge
\* of a step, and a selection or a refused input that is taken back.
Advance ==
  /\ Stepping("step")
  /\ SetTop(Moved("select"))
  /\ FinishRecovery
  /\ Disarm
  /\ UNCHANGED <<depth, terminal, cancelled, ledgerVars>>

\* A look that nothing explains arms the timer, unless a delivery is unknown; a
\* known wait disarms it.
Look ==
  /\ Interprets
  /\ \/ ~Unknown /\ armed' = TRUE
     \/ Top.resume = NoResume /\ armed' = FALSE
  /\ UNCHANGED <<stackVars, terminal, recoveryVars, cancelled, ledgerVars>>

\* Slip: the depth of the stack is not checked.
PushUnbounded(f) ==
  /\ depth' = depth + 1
  /\ frame' = [frame EXCEPT ![depth + 1] = f]

Push(f) ==
  /\ depth < MaxDepth
  /\ depth' = depth + 1
  /\ frame' = [frame EXCEPT ![depth + 1] = f]

Call ==
  /\ Stepping("step")
  /\ Push(Called)
  /\ UNCHANGED <<terminal, recoveryVars, armed, cancelled, ledgerVars>>

\* Return (completed or handoff): only the popped frame must have settled.  A
\* handler leaves the frame below where it was, or asks it to replan.
Return ==
  /\ Stepping("step")
  /\ depth > 1
  /\ ~Owes(Top)
  /\ depth' = depth - 1
  /\ frame' = [Cut(frame, depth - 1) EXCEPT ![depth - 1] =
       CASE ~IsHandler(Top)        -> [@ EXCEPT !.at = "select"]
         [] Top.event \in Replans  -> [@ EXCEPT !.resume = [rule |-> Top.event, owner |-> Top.owner]]
         [] OTHER                  -> @]
  /\ UNCHANGED <<terminal, recoveryVars, armed, cancelled, ledgerVars>>

\* Return (failure) unwinds the callers while no receipt is open.  Without one that
\* handles it, it fails at the first handler or becomes the root's own failure.
ReturnFailure ==
  /\ Stepping("step")
  /\ depth > 1
  /\ ~Unresolved
  /\ \E k \in 1 .. depth - 1 :
       /\ \A i \in k + 2 .. depth : ~IsHandler(frame[i])
       /\ depth' = k
       /\ frame' = Cut(frame, k)
       /\ \/ IsHandler(frame[k + 1]) /\ terminal' = "Failed"
          \/ k = 1 /\ ~IsHandler(frame[2]) /\ terminal' = "BusinessFailed"
  /\ UNCHANGED <<recoveryVars, armed, cancelled, ledgerVars>>

\* The nearest caller that handles it takes its error edge.
ReturnHandled ==
  /\ Stepping("step")
  /\ ~Unresolved
  /\ \E k \in 1 .. depth - 1 :
       /\ \A i \in k + 1 .. depth : ~IsHandler(frame[i])
       /\ depth' = k
       /\ frame' = [Cut(frame, k) EXCEPT ![k].at = "select"]
  /\ UNCHANGED <<terminal, recoveryVars, armed, cancelled, ledgerVars>>

-----------------------------------------------------------------------------
(* Events. *)

\* Slip: a rule may interrupt its own handler.
Reentrant(rule) == TRUE

\* A rule whose handler is on the stack is not looked for again.
Available(rule) == \A i \in Active : frame[i].event # rule

\* check_events: a rule declared by an active frame interrupts the top frame in
\* any of its positions, unless a delivery is unknown.
PushEvent ==
  /\ Interprets
  /\ ~Unknown
  /\ \E rule \in Events, owner \in Active :
       Available(rule) /\ Push(Handler(rule, owner))
  /\ UNCHANGED <<terminal, recoveryVars, armed, cancelled, ledgerVars>>

\* Receipts of frames n and above.
OpenFrom(n) == {frame[i].pending.id : i \in {j \in n .. depth : Owes(frame[j])}}

\* Only the same restart chain may be unwound together with its handlers.
SameRestart(f, resume) == resume.rule = Restart /\ f.event = Restart /\ f.owner = resume.owner

\* Slip: the owner replans and its receipt stays, proved but not closed.
ReplannedKeeping(f) == [f EXCEPT !.at = "step", !.resume = NoResume]

Replanned(f) == [f EXCEPT !.at = "step", !.resume = NoResume, !.pending = NoReceipt]

\* resume_event: the guard hit and the screen proves the result of every receipt
\* from the owner up, so the owner restarts at its replan step.
ResumeEvent ==
  /\ Interprets
  /\ Top.resume # NoResume
  /\ LET owner == Top.resume.owner IN
       /\ owner \in Active
       /\ \A i \in owner + 1 .. depth : IsHandler(frame[i]) => SameRestart(frame[i], Top.resume)
       /\ depth' = owner
       /\ frame' = [Cut(frame, owner) EXCEPT ![owner] = Replanned(@)]
       /\ settled' = settled \union OpenFrom(owner)
  /\ UNCHANGED <<terminal, recoveryVars, armed, cancelled, sent>>

-----------------------------------------------------------------------------
(* Inputs and their receipts. *)

\* A submission that was not refused: delivered or unknown, and the rest of the
\* tick may still throw, which the receipt survives.
Submitted(f, at) ==
  \/ SetTop([f EXCEPT !.at = at]) /\ FinishRecovery /\ UNCHANGED terminal
  \/ SetTop(f) /\ Recovering("none") /\ terminal' = "Failed"

\* Slip: only the frame's own receipt forbids the input.
MaySubmitOverParent == ~Owes(Top)

\* Any unknown delivery on the stack forbids every further input.
MaySubmit == ~Owes(Top) /\ ~Unknown

Submit ==
  /\ Stepping("step")
  /\ MaySubmit
  /\ sent < MaxSends
  /\ sent' = sent + 1
  /\ \E input \in Inputs, unknown \in BOOLEAN :
       Submitted([Top EXCEPT !.pending =
         [id |-> sent + 1, input |-> input, unknown |-> unknown, attempts |-> 1]], "select")
  /\ UNCHANGED <<depth, armed, cancelled, settled>>

\* settle_await_result: the result is on the screen.  A receipt that was unknown
\* also needs the channel cleaned up, or the flow stops.
Settle ==
  /\ Stepping("await")
  /\ Owes(Top)
  /\ settled' = settled \union {Top.pending.id}
  /\ SetTop([Moved("select") EXCEPT !.pending = NoReceipt])
  /\ FinishRecovery
  /\ Disarm
  /\ UNCHANGED <<depth, terminal, cancelled, sent>>

\* Slip: one submission too many.
SubmissionsLeftOver(r) == Limit[r.input] = 0 \/ r.attempts <= Limit[r.input]

SubmissionsLeft(r) == Limit[r.input] = 0 \/ r.attempts < Limit[r.input]

\* retry_pending_input: the declared button is still there and its result is not.
\* The receipt keeps its identity; a refusal leaves it as it was, a transport that
\* throws leaves it unknown.
Retry ==
  /\ Stepping("await")
  /\ Owes(Top)
  /\ Top.pending.input \in Retryable
  /\ ~Unknown
  /\ SubmissionsLeft(Top.pending)
  /\ Top.pending.attempts < MaxAttempts
  /\ \/ \E unknown \in BOOLEAN :
          Submitted([Top EXCEPT !.pending.unknown = unknown, !.pending.attempts = @ + 1], "await")
     \/ SetTop([Top EXCEPT !.pending.unknown = TRUE]) /\ Recovering("none") /\ terminal' = "Failed"
  /\ UNCHANGED <<depth, armed, cancelled, ledgerVars>>

\* route_error: a repeatable input that was retried and whose page is still there
\* made no progress.  Its receipt is dropped and the error edge is taken.
NoProgress ==
  /\ Stepping("await")
  /\ Owes(Top)
  /\ ~Top.pending.unknown
  /\ Top.pending.attempts > 1
  /\ Top.pending.input \in Retryable \ Effects
  /\ SetTop([Moved("select") EXCEPT !.pending = NoReceipt])
  /\ armed' = FALSE
  /\ UNCHANGED <<depth, terminal, recoveryVars, cancelled, ledgerVars>>

-----------------------------------------------------------------------------
(* Observation recovery and restarts of the application. *)

\* begin_observation_recovery: a read fault, in a tick of the program or of the
\* recovery itself.  A lost transport or application asks for a device check.
Suspend ==
  /\ Running
  /\ recovery' = "suspended"
  /\ checked' \in {checked, FALSE}
  /\ UNCHANGED <<stackVars, terminal, forced, rebooted, exit, armed, cancelled, ledgerVars>>

\* The timer of continuous exceptions ran out on known deliveries only: the
\* application will be restarted.
ExceptionRestart ==
  /\ Running
  /\ recovery = "none"
  /\ ~Unknown
  /\ armed
  /\ armed' = FALSE
  /\ recovery' = "suspended" /\ checked' = FALSE /\ forced' = TRUE
  /\ UNCHANGED <<stackVars, terminal, rebooted, exit, cancelled, ledgerVars>>

LookingAgain == Running /\ recovery = "suspended" /\ checked

\* Slip: a restart that was done is asked for again at the next fault.
StillForced(restarted) == forced

\* A forced restart is consumed as soon as it was done.
ForcedAfter(restarted) == forced /\ ~restarted

\* recover_observation: the device is reachable again, perhaps through a restart of
\* the application, perhaps through one of the instance with proof of its exit.  The
\* port never answers a forced restart without having done it (device_session.cpp 482).
RecoverDevice ==
  /\ Running
  /\ recovery = "suspended"
  /\ ~checked
  /\ checked' = TRUE
  /\ \E restarted, instance \in BOOLEAN :
       /\ instance \/ forced => restarted
       /\ forced' = ForcedAfter(restarted)
       /\ rebooted' = (rebooted \/ restarted)
       /\ exit' = IF instance THEN sent ELSE exit
  /\ UNCHANGED <<stackVars, terminal, recovery, armed, cancelled, ledgerVars>>

\* A fresh frame without a restart: the program goes on where it was.
Restored ==
  /\ LookingAgain
  /\ ~rebooted
  /\ \E state \in {"resumed", "none"} : Recovering(state)
  /\ Disarm
  /\ UNCHANGED <<stackVars, terminal, cancelled, ledgerVars>>

First(levels) == CHOOSE i \in levels : \A j \in levels : i <= j

\* Slip: only the frame on top is searched for a protected input.
ProtectedTop == {i \in {depth} : Owes(frame[i]) /\ frame[i].pending.input \in Protected}

ProtectedOpen == {i \in Active : Owes(frame[i]) /\ frame[i].pending.input \in Protected}

\* A restart under a protected input ends the flow with its receipt in place: as a
\* failure a new session may follow, if a proved exit of the instance covers it.
RestartStops ==
  /\ LookingAgain
  /\ rebooted
  /\ ProtectedOpen # {}
  /\ LET receipt == frame[First(ProtectedOpen)].pending IN
       \/ terminal' = "Failed" /\ receipt.input \in Discardable /\ receipt.id <= exit
       \/ terminal' = "ExternalBlocked"
  /\ recovery' = "none" /\ checked' = FALSE /\ forced' = FALSE /\ rebooted' = FALSE
  /\ armed' = FALSE
  /\ UNCHANGED <<stackVars, exit, cancelled, ledgerVars>>

\* Slip: an effect binding does not protect a retryable input.
RestartableRoughly(f) == Owes(f) => ~f.pending.unknown /\ f.pending.input \in Retryable

\* restartable_menu: the receipt may be given up when the application restarted.
Restartable(f) ==
  Owes(f) => /\ ~f.pending.unknown
             /\ f.pending.input \in Retryable
             /\ f.pending.input \in Effects => f.pending.input \in Routed

\* The frame chooses again where the input was selected, or at restart_from.
Reselected(f, at) ==
  IF Owes(f)
    THEN [f EXCEPT !.pending = NoReceipt,
                   !.at = IF f.pending.input \in Routed THEN "step" ELSE at]
    ELSE f

\* With nothing but restartable receipts on the stack they are all given up.
Reclassified(at) ==
  IF \A i \in Active : Restartable(frame[i])
    THEN [i \in Levels |-> Reselected(frame[i], at)] ELSE frame

\* A restart handler still on the stack goes, with all above it, when its own
\* receipts are restartable; then every handler, when none of them owes anything.
BelowBoot(s) ==
  LET boots == {i \in Active : s[i].event = Restart} IN
  IF boots # {} /\ \A i \in First(boots) .. depth : Restartable(s[i])
    THEN First(boots) - 1 ELSE depth

BelowHandlers(s, n) ==
  LET handlers == {i \in 1 .. n : IsHandler(s[i])} IN
  IF handlers # {} /\ \A i \in First(handlers) .. n : ~Owes(s[i])
    THEN First(handlers) - 1 ELSE n

\* The application was restarted: the stack is cleaned and the root's restart
\* handler goes on top, if there is room.
RestartHandler ==
  /\ LookingAgain
  /\ rebooted
  /\ ProtectedOpen = {}
  /\ \E at \in {"select", "step"} :
       LET stack == Reclassified(at)
           n     == BelowHandlers(stack, BelowBoot(stack)) IN
       IF n < MaxDepth
         THEN /\ depth' = n + 1
              /\ frame' = [Cut(stack, n) EXCEPT ![n + 1] = Handler(Restart, 1)]
              /\ rebooted' = FALSE
              /\ UNCHANGED terminal
         ELSE /\ depth' = n
              /\ frame' = Cut(stack, n)
              /\ terminal' = "Failed"
              /\ UNCHANGED rebooted
  /\ recovery' = "none" /\ checked' = FALSE /\ forced' = FALSE
  /\ armed' = FALSE
  /\ UNCHANGED <<exit, cancelled, ledgerVars>>

\* The session's stop flag, set by another thread; after the end of the flow nobody
\* looks at it.
StopFlag ==
  /\ Running
  /\ cancelled' = TRUE
  /\ UNCHANGED <<stackVars, terminal, recoveryVars, armed, ledgerVars>>

-----------------------------------------------------------------------------
Next ==
  \/ Cancel \/ Stops \/ Finish
  \/ Select \/ Advance \/ Look \/ Call \/ Return \/ ReturnFailure \/ ReturnHandled
  \/ PushEvent \/ ResumeEvent
  \/ Submit \/ Settle \/ Retry \/ NoProgress
  \/ Suspend \/ ExceptionRestart \/ RecoverDevice
  \/ Restored \/ RestartStops \/ RestartHandler
  \/ StopFlag

Spec == Init /\ [][Next]_vars

-----------------------------------------------------------------------------
(* Properties. *)

\* Handlers and replans point down the stack at frames that still exist, a rule's
\* handler is active at most once, and only a handler ever runs above a frame that
\* owes a receipt or has a replan to make (check_events, Return, resume_event).
StackShape ==
  /\ \A i \in Active : frame[i].owner < i /\ frame[i].resume.owner <= i
  /\ \A i, j \in Active : frame[i].event = frame[j].event /\ frame[i].event \in Events => i = j
  /\ \A i \in Active : i < depth /\ (Owes(frame[i]) \/ frame[i].resume # NoResume) =>
       IsHandler(frame[i + 1])

\* The types without the shape of the stack.
VariablesTyped ==
  /\ depth \in Levels
  /\ frame \in [Levels -> Frames]
  /\ \A i \in Levels : i > depth => frame[i] = Blank
  /\ terminal \in {"Progress", "Completed", "BusinessFailed", "Failed", "ExternalBlocked", "Cancelled"}
  /\ recovery \in {"none", "suspended", "resumed"}
  /\ checked \in BOOLEAN /\ forced \in BOOLEAN /\ rebooted \in BOOLEAN
  /\ exit \in 0 .. MaxSends
  /\ armed \in BOOLEAN /\ cancelled \in BOOLEAN
  /\ sent \in 0 .. MaxSends /\ settled \subseteq 1 .. MaxSends

TypeOK == VariablesTyped /\ StackShape

\* A frame that owes a receipt waits for its result: it is never at a step that
\* could send, call, return or finish (FLOW_INPUT_OBSERVER_MISSING, restart and
\* replan included).
OwedIsAwaited ==
  terminal = "Progress" => \A i \in Active : Owes(frame[i]) => frame[i].at # "step"

\* No receipt is submitted more often than its retry clause allows, however many
\* events and recoveries come between the attempts (retry_pending_input).
AttemptsBounded ==
  \A i \in Active :
    Owes(frame[i]) =>
      LET r == frame[i].pending IN
      r.attempts = 1 \/ Limit[r.input] = 0 \/ r.attempts <= Limit[r.input]

\* A receipt is waited for, and sent again only within its clause.
ReceiptsAreKept == OwedIsAwaited /\ AttemptsBounded

\* A restart handler never runs above a protected input: neither Boot's clicks nor
\* its replan can be taken for the result of an interrupted skill (1628-1653).
RestartNeverOverProtected ==
  \A i, j \in Active :
    i < j /\ frame[j].event = Restart /\ Owes(frame[i]) =>
      frame[i].pending.input \notin Protected

\* A restart that was carried out and not yet handled is not demanded once more,
\* and it is handled before the program goes on (1587-1589).
RestartDemandedOnce ==
  terminal = "Progress" /\ rebooted => ~forced /\ recovery = "suspended"

\* The exception timer restarts the application only over known deliveries, and none
\* becomes unknown before the restart is done, however often the device or the look at
\* it fails in between (449-474).
TimerNeverOverUnknown == terminal = "Progress" /\ forced => recovery = "suspended" /\ ~Unknown

\* A restart is forced only over known deliveries, and one that the executor reports to
\* the program is handled once, where nothing protected can be taken for its result.
RestartsAreHandled == RestartNeverOverProtected /\ RestartDemandedOnce /\ TimerNeverOverUnknown

Open(unknown) == {frame[i].pending.id : i \in {j \in Active : Owes(frame[j]) /\ frame[j].pending.unknown = unknown}}

Ledger == INSTANCE InputLedger WITH
  known   <- Open(FALSE),
  unknown <- Open(TRUE),
  ended   <- CASE terminal = "Progress" -> "no"
               [] terminal \in {"Completed", "BusinessFailed"} -> "clean"
               [] OTHER -> "cut"

\* The account of receipts behind calls, events, unwinding and restarts: nothing is
\* sent over an unknown delivery, an unknown receipt leaves only with evidence, and
\* a business outcome is reported only with every receipt closed.
ImplementsLedger == Ledger!Spec

\* An input that was given up without evidence of its result is one the program
\* declared repeatable, and a payment only where it names the route to choose
\* again: no restart or missing progress forgets another (336-356, 1657-1693).
GivenUpIsRepeatable ==
  [][\A i \in Active :
       LET f == frame[i] IN
       Owes(f) /\ f.pending.id \notin (Open(TRUE) \union Open(FALSE) \union settled)' =>
         f.pending.input \in Retryable /\ (f.pending.input \in Effects => f.pending.input \in Routed)]_vars
=============================================================================
