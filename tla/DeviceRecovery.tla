--------------------------- MODULE DeviceRecovery ---------------------------
(***************************************************************************)
(* How a run gets its device back.  Two authorities use the same device    *)
(* session, one after the other: while a session runs, its executor calls  *)
(* DeviceSession::recover_observation until the screen can be read again;  *)
(* when the session has failed, the coordinator observes the device,       *)
(* selects a plan (recovery_policy) and has it executed                    *)
(* (execute_lifecycle_plan), with a new session at its end.  The plan that *)
(* opens a run is executed in the same way; a continuation, which opens    *)
(* with the VPN at most, is left out.                                      *)
(*                                                                         *)
(* The emulator instance, its ADB transport, the game and the VPN are the  *)
(* environment: they change on their own, and a command may fail after it  *)
(* took effect.  Deadlines are flags that the clock raises at any time.    *)
(***************************************************************************)
EXTENDS Naturals, Sequences

CONSTANTS
  VpnRequired,    \* target.vpn_required
  MaxTroubles,    \* bound: changes for the worse
  MaxSessions,    \* bound: sessions of the run
  MaxGeneration   \* bound: connection generations

ASSUME RecoveryAssumption ==
  /\ VpnRequired \in BOOLEAN
  /\ MaxTroubles \in Nat /\ MaxSessions \in Nat \ {0} /\ MaxGeneration \in Nat \ {0}

VARIABLES
  (* The device. *)
  instance,       \* "off", "booting" or "on"
  adb,            \* its transport is up
  game,           \* "none", "behind" or "front"
  vpn,
  (* The device session. *)
  linked,         \* connected_
  generation,     \* generation_
  flags,          \* recovery_*_: [detected, launched, started, origin]
  (* The run. *)
  mode,           \* "plan", "session", "failed" or "over"
  stop,           \* stop_
  sessions,       \* sessions begun
  (* recover_observation and its executor. *)
  at,             \* the next call
  forced,         \* read_recovery_->restart_application
  (* The plan. *)
  reason,         \* what it was selected for
  ops,            \* operations left
  step,           \* "top", "call" or "wait"
  seen,           \* the last observation
  before,         \* the one before the command
  late, expired,  \* the deadlines of the operation and of the whole recovery
  (* For the properties and the bounds. *)
  fresh,          \* seen is younger than the last command of the plan
  ours,           \* this recovery has started the game
  restarted,      \* the game was started, or the instance launched, by this session
  report,         \* the last result of recover_observation
  troubles

deviceVars  == <<instance, adb, game, vpn>>
sessionVars == <<linked, generation, flags>>
runVars     == <<mode, stop, sessions>>
readVars    == <<at, forced, restarted, report>>
planVars    == <<reason, ops, step, seen, before, late, expired, fresh>>
vars == <<deviceVars, sessionVars, runVars, readVars, planVars, ours, troubles>>

NoFlags  == [detected |-> FALSE, launched |-> FALSE, started |-> FALSE, origin |-> 0]
NoReport == [app |-> FALSE, instance |-> FALSE]
Unseen   == [exited |-> FALSE, running |-> FALSE, connected |-> FALSE, game |-> "none",
             vpn |-> FALSE, generation |-> 0]

\* A part of every plan where the target asks for it.
VpnStep == IF VpnRequired THEN <<"vpn">> ELSE <<>>

Init ==
  /\ instance = "on" /\ adb = TRUE /\ game \in {"none", "behind", "front"} /\ vpn \in BOOLEAN
  /\ linked = TRUE /\ generation = 1 /\ flags = NoFlags
  /\ mode = "plan" /\ stop = FALSE /\ sessions = 0
  /\ at = "none" /\ forced = FALSE /\ restarted = FALSE /\ report = NoReport
  /\ reason = "startup" /\ ops = VpnStep \o <<"start">> /\ step = "top"
  /\ seen = Unseen /\ before = Unseen /\ late = FALSE /\ expired = FALSE /\ fresh = FALSE
  /\ ours = FALSE /\ troubles = 0

-----------------------------------------------------------------------------
(* The environment.                                                        *)

WorldFrame == UNCHANGED <<sessionVars, runVars, readVars, planVars, ours>>

Trouble ==
  /\ troubles < MaxTroubles /\ troubles' = troubles + 1
  /\ mode # "over"
  /\ \/ instance' = "off" /\ adb' = FALSE /\ game' = "none" /\ vpn' = FALSE
     \/ adb /\ adb' = FALSE /\ UNCHANGED <<instance, game, vpn>>
     \/ game # "none" /\ game' \in {"none", "behind"} /\ UNCHANGED <<instance, adb, vpn>>
     \/ vpn /\ vpn' = FALSE /\ UNCHANGED <<instance, adb, game>>
  /\ WorldFrame

Boot ==
  /\ instance = "booting" /\ instance' = "on"
  /\ UNCHANGED <<adb, game, vpn, troubles>> /\ WorldFrame

\* A started game gains the focus some time after am start was acknowledged.
Focus ==
  /\ game = "behind" /\ game' = "front"
  /\ UNCHANGED <<instance, adb, vpn, troubles>> /\ WorldFrame

\* The ADB server finds the device again without being asked.
AdbReturns ==
  /\ instance = "on" /\ ~adb /\ adb' = TRUE
  /\ UNCHANGED <<instance, game, vpn, troubles>> /\ WorldFrame

StopRun ==
  /\ mode # "over" /\ ~stop /\ stop' = TRUE
  /\ UNCHANGED <<deviceVars, sessionVars, mode, sessions, readVars, planVars, ours, troubles>>

-----------------------------------------------------------------------------
(* DeviceSession: what it observes, and its lifecycle commands under a     *)
(* read deadline.                                                          *)

Online == instance = "on" /\ linked /\ adb

\* observe_lifecycle.
Observation ==
  [exited |-> instance = "off", running |-> instance = "on", connected |-> Online,
   game |-> IF Online THEN game ELSE "none",
   vpn |-> ~VpnRequired \/ (Online /\ vpn),
   generation |-> generation]

\* disconnect, its cleanup done.
Unlinked == generation' = (IF linked THEN generation + 1 ELSE generation) /\ linked' = FALSE

\* connect after disconnect.
Relinked ==
  /\ linked' = TRUE
  /\ generation' = (IF linked THEN generation + 2 ELSE generation + 1)
  /\ generation' <= MaxGeneration

\* Commands over a live transport; the start may be acknowledged only, or be
\* refused.
StopGame == game' = "none" /\ UNCHANGED <<instance, adb, vpn, linked, generation>>
StartGame ==
  /\ game' \in {"behind", "front"}
  /\ UNCHANGED <<instance, adb, vpn, linked, generation>>
StartVpn == vpn' = TRUE /\ UNCHANGED <<instance, adb, game, linked, generation>>

\* Reconnect: one attempt.
Reconnect ==
  /\ instance = "on"
  /\ adb' = TRUE /\ Relinked
  /\ UNCHANGED <<instance, game, vpn>>

\* RestartInstance: the manager confirms the exit, the launcher is called; with a
\* read deadline the call ends here.
Launch ==
  /\ instance = "off"
  /\ instance' = "booting" /\ Unlinked
  /\ UNCHANGED <<adb, game, vpn>>

NoEffect == UNCHANGED <<deviceVars, linked, generation>>

\* Reconnect and RestartInstance disconnect first, and may fail after that.
Detached == Unlinked /\ UNCHANGED deviceVars

-----------------------------------------------------------------------------
(* A session and recover_observation.  Each call may fail and leave the    *)
(* attempt pending: the executor tries again, or gives up.                 *)

ReadFrame == UNCHANGED <<runVars, planVars, troubles>>

\* A read fails, or an exception lasts until the game is to be restarted.
ReadFault ==
  /\ mode = "session" /\ at = "reading"
  /\ forced' \in BOOLEAN
  /\ at' = "live"
  /\ ours' = FALSE
  /\ UNCHANGED <<deviceVars, sessionVars, restarted, report>> /\ ReadFrame

Pending == at' = "pending" /\ UNCHANGED <<forced, restarted, report, ours>>

Retry ==
  /\ at = "pending" /\ ~stop
  /\ at' = "live"
  /\ UNCHANGED <<deviceVars, sessionVars, forced, restarted, report, ours>> /\ ReadFrame

\* The window is exhausted, or the run is stopped.
SessionFails ==
  /\ mode = "session" /\ at \in {"reading", "pending"}
  /\ mode' = "failed" /\ at' = "none" /\ forced' = FALSE
  /\ UNCHANGED <<deviceVars, sessionVars, stop, sessions, restarted, report, planVars,
                 ours, troubles>>

SessionEnds ==
  /\ mode = "session" /\ at = "reading"
  /\ mode' = "over" /\ at' = "none"
  /\ UNCHANGED <<deviceVars, sessionVars, stop, sessions, forced, restarted, report, planVars,
                 ours, troubles>>

\* Slip: every attempt of a forced restart stops the game.
StopsAlways == forced

StopsNow == forced /\ ~flags.started

\* Any call of the attempt may fail, and may have taken effect.
CallFails ==
  /\ at \in {"live", "adb", "stop", "look", "vpn", "vpnGone", "start"}
  /\ at' = "pending"
  /\ \/ NoEffect /\ UNCHANGED <<restarted, ours>>
     \/ at = "adb" /\ Detached /\ UNCHANGED <<restarted, ours>>
     \/ /\ at = "live" /\ instance = "off" /\ flags.detected /\ ~flags.launched
        /\ Detached /\ UNCHANGED <<restarted, ours>>
     \/ at = "stop" /\ StopsNow /\ Online /\ StopGame /\ UNCHANGED <<restarted, ours>>
     \/ at \in {"vpn", "vpnGone"} /\ Online /\ StartVpn /\ UNCHANGED <<restarted, ours>>
     \/ /\ at = "start" /\ Online /\ StartGame
        /\ restarted' = (restarted \/ game = "none") /\ ours' = TRUE
  /\ UNCHANGED <<flags, forced, report>> /\ ReadFrame

\* The exit is noted first, for the executor to extend its window.
Detect ==
  /\ at = "live" /\ instance = "off" /\ ~flags.launched /\ ~flags.detected
  /\ flags' = [flags EXCEPT !.detected = TRUE,
                            !.origin = IF @ = 0 THEN generation ELSE @]
  /\ Pending
  /\ UNCHANGED <<deviceVars, linked, generation>> /\ ReadFrame

LaunchInstance ==
  /\ at = "live" /\ ~flags.launched /\ flags.detected
  /\ Launch
  /\ flags' = [flags EXCEPT !.launched = TRUE]
  /\ at' = "pending" /\ restarted' = TRUE
  /\ UNCHANGED <<forced, report, ours>> /\ ReadFrame

\* Not there yet, or launched once already.
StillBooting ==
  /\ at = "live"
  /\ instance = "booting" \/ (instance = "off" /\ flags.launched)
  /\ Pending
  /\ UNCHANGED <<deviceVars, sessionVars>> /\ ReadFrame

Alive ==
  /\ at = "live" /\ instance = "on"
  /\ at' = IF Online THEN "stop" ELSE "adb"
  /\ flags' = IF Online \/ flags.origin # 0 THEN flags ELSE [flags EXCEPT !.origin = generation]
  /\ UNCHANGED <<deviceVars, linked, generation, forced, restarted, report, ours>> /\ ReadFrame

ReconnectDevice ==
  /\ at = "adb"
  /\ Reconnect
  /\ at' = "stop"
  /\ UNCHANGED <<flags, forced, restarted, report, ours>> /\ ReadFrame

\* The forced restart, once.
ForceStop ==
  /\ at = "stop" /\ StopsNow
  /\ Online
  /\ StopGame
  /\ flags' = [flags EXCEPT !.started = TRUE]
  /\ at' = "look"
  /\ UNCHANGED <<forced, restarted, report, ours>> /\ ReadFrame

NoStop ==
  /\ at = "stop" /\ ~StopsNow
  /\ at' = "look"
  /\ UNCHANGED <<deviceVars, sessionVars, forced, restarted, report, ours>> /\ ReadFrame

\* To start the game, which counts as started if it was gone.
ToStart(gone) == at' = "start" /\ flags' = [flags EXCEPT !.started = @ \/ gone]

\* pidof and the focus; the VPN comes before the game.
LookAtGame ==
  /\ at = "look" /\ Online
  /\ IF ~(flags.launched \/ flags.started \/ game # "front")
     THEN at' = "done" /\ UNCHANGED flags
     ELSE IF VpnRequired
       THEN at' = (IF game = "none" THEN "vpnGone" ELSE "vpn") /\ UNCHANGED flags
       ELSE ToStart(game = "none")
  /\ UNCHANGED <<deviceVars, linked, generation, forced, restarted, report, ours>> /\ ReadFrame

EnsureVpn ==
  /\ at \in {"vpn", "vpnGone"} /\ Online
  /\ StartVpn
  /\ ToStart(at = "vpnGone")
  /\ UNCHANGED <<forced, restarted, report, ours>> /\ ReadFrame

\* StartApplication; without the focus the attempt is repeated.
StartApplication ==
  /\ at = "start" /\ Online
  /\ StartGame
  /\ restarted' = (restarted \/ game = "none")
  /\ ours' = TRUE
  /\ at' = IF game' = "front" THEN "done" ELSE "pending"
  /\ UNCHANGED <<flags, forced, report>> /\ ReadFrame

\* RECONNECT_GENERATION_NOT_ADVANCED is its own assertion.
ReconnectProved == flags.origin # 0 => generation > flags.origin

\* The result, and the flags are cleared; the executor keeps the proof of an exit.
Restored ==
  /\ at = "done" /\ ReconnectProved
  /\ report' = [app |-> flags.launched \/ flags.started,
                instance |-> report.instance \/ flags.launched]
  /\ flags' = NoFlags
  /\ forced' = (forced /\ ~report'.app)
  /\ at' = "reading"
  /\ UNCHANGED <<deviceVars, linked, generation, restarted, ours>> /\ ReadFrame

\* The exception is no read fault: it ends the session, and the flags stay.
NotProved ==
  /\ at = "done" /\ ~ReconnectProved
  /\ mode' = "failed" /\ at' = "none" /\ forced' = FALSE
  /\ UNCHANGED <<deviceVars, sessionVars, stop, sessions, restarted, report, planVars,
                 ours, troubles>>

-----------------------------------------------------------------------------
(* The coordinator: the plan for a failed session.                         *)

DeviceReason(o, original) ==
  CASE o.exited -> "exited"
    [] o.running /\ ~o.connected -> "disconnected"
    [] o.connected /\ o.game = "none" -> "gone"
    [] o.connected /\ o.game = "behind" -> "background"
    [] OTHER -> original

\* recovery_policy, for a run without effects that are not confirmed.
Policy(why) ==
  CASE why = "exited" -> <<"restart">> \o VpnStep \o <<"start">>
    [] why = "disconnected" -> <<"reconnect">> \o VpnStep \o <<"start">>
    [] why \in {"gone", "background", "restarted"} -> VpnStep \o <<"start">>
    [] why = "stalled" -> VpnStep \o <<"stop", "start">>
    [] OTHER -> <<>>

GiveUp ==
  /\ mode' = "over"
  /\ UNCHANGED <<deviceVars, sessionVars, stop, sessions, readVars, reason, ops, step, before,
                 late, expired, fresh, ours, troubles>>

\* The observation may fail: then the session's own reason stays.  An input that
\* the proved exit of the instance interrupted goes before a lost connection.
SelectPlan ==
  /\ mode = "failed" /\ ~stop /\ sessions < MaxSessions
  /\ \E original \in {"stalled", "other"} :
       reason' \in {original, DeviceReason(Observation, original)}
                    \union {r \in {"restarted"} : report.instance /\ ~Observation.exited}
  /\ Policy(reason') # <<>>
  /\ mode' = "plan"
  /\ ops' = Policy(reason') /\ step' = "top"
  /\ seen' = Observation /\ fresh' = FALSE /\ late' = FALSE /\ expired' = FALSE
  /\ ours' = FALSE
  /\ UNCHANGED <<deviceVars, sessionVars, stop, sessions, readVars, before, troubles>>

NoPlan ==
  /\ mode = "failed"
  /\ UNCHANGED seen
  /\ GiveUp

\* ReadyForBoot: the next session begins.
BeginSession ==
  /\ mode' = "session" /\ at' = "reading"
  /\ sessions' = sessions + 1
  /\ restarted' = FALSE /\ report' = NoReport

-----------------------------------------------------------------------------
(* execute_lifecycle_plan.                                                 *)

Op == Head(ops)
PlanFrame == UNCHANGED <<stop, forced, flags, reason, expired, troubles>>

\* Slip: a running game need not be in front.
DoneBehind(op, o) ==
  CASE op = "stop"  -> o.connected /\ o.game = "none"
    [] op = "vpn"   -> o.connected /\ o.vpn
    [] op = "start" -> o.connected /\ o.game # "none" /\ o.vpn
    [] OTHER        -> FALSE

AlreadyDone(op, o) ==
  CASE op = "stop"  -> o.connected /\ o.game = "none"
    [] op = "vpn"   -> o.connected /\ o.vpn
    [] op = "start" -> o.connected /\ o.game = "front" /\ o.vpn
    [] OTHER        -> FALSE

Precondition(op, o) ==
  CASE op = "restart"   -> o.exited
    [] op = "reconnect" -> o.running
    [] op = "start"     -> o.running /\ o.connected /\ o.game # "front" /\ o.vpn
    [] OTHER            -> o.running /\ o.connected

Postcondition(op, o) ==
  /\ o.running /\ o.connected
  /\ IF op \in {"reconnect", "restart"} THEN o.generation > before.generation
     ELSE AlreadyDone(op, o)

\* The operation is done.
Advance ==
  /\ ops' = Tail(ops) /\ step' = "top" /\ UNCHANGED late
  /\ IF Len(ops) = 1 THEN BeginSession
     ELSE UNCHANGED <<mode, at, sessions, restarted, report>>

\* RetryRequired.  The device is observed once more: only another reason than the
\* one the plan was selected for gets another plan, within the same deadline.
Reselected ==
  LET why == DeviceReason(Observation, "none") IN
  IF why \in {"exited", "disconnected"} \ {reason} THEN why ELSE "none"

\* Slip: the rest of the old plan is taken along.
PolicyAndRest(why) == Policy(why) \o ops

NewPlan(why) == Policy(why)

\* Slip: a new plan whenever the device has changed.
AtAnyTime == TRUE

WithinDeadline == ~expired

Reselect ==
  /\ mode = "plan" /\ step = "retry"
  /\ ~stop /\ WithinDeadline /\ reason # "startup"
  /\ Reselected # "none"
  /\ reason' = Reselected /\ ops' = NewPlan(Reselected) /\ step' = "top"
  /\ seen' = Observation /\ fresh' = FALSE /\ late' = FALSE
  /\ UNCHANGED <<deviceVars, sessionVars, runVars, readVars, before, expired, ours, troubles>>

Unconfirmed ==
  /\ mode = "plan" /\ step = "retry"
  /\ UNCHANGED seen
  /\ stop \/ expired \/ reason = "startup" \/ Reselected = "none"
  /\ GiveUp

\* The plan ends without having made its operation true.
RetryRequired ==
  /\ step' = "retry"
  /\ UNCHANGED <<mode, at, sessions, restarted, report, ops, late>>

\* Slip: only the stop ends it.
StoppedOnly == stop

Over == stop \/ late

\* Cancelled, or RetryRequired: nothing more is asked of the device.
PlanStops ==
  /\ mode = "plan" /\ step \in {"top", "call", "wait"}
  /\ Over
  /\ RetryRequired
  /\ UNCHANGED <<deviceVars, linked, generation, seen, before, fresh, ours>> /\ PlanFrame

\* An observation that cannot be made is an exception, and ends the run, unless
\* its transport may be retried: then the loop begins again.
ObserveFails ==
  /\ mode = "plan" /\ step \in {"top", "wait"}
  /\ UNCHANGED seen
  /\ \/ GiveUp
     \/ /\ step' = "top"
        /\ UNCHANGED <<deviceVars, sessionVars, runVars, readVars, reason, ops, before, late,
                       expired, fresh, ours, troubles>>

Observe ==
  /\ mode = "plan" /\ step = "top" /\ ~Over
  /\ seen' = Observation /\ fresh' = TRUE
  /\ \/ AlreadyDone(Op, Observation) /\ Advance /\ UNCHANGED before
     \/ /\ ~AlreadyDone(Op, Observation) /\ Precondition(Op, Observation)
        /\ step' = "call" /\ before' = Observation
        /\ UNCHANGED <<mode, at, sessions, restarted, report, ops, late>>
     \/ /\ ~AlreadyDone(Op, Observation) /\ ~Precondition(Op, Observation)
        /\ RetryRequired /\ UNCHANGED before
  /\ UNCHANGED <<deviceVars, linked, generation, ours>> /\ PlanFrame

\* execute_lifecycle's effect.
Effect(op) ==
  CASE op = "stop"      -> Online /\ StopGame
    [] op = "start"     -> Online /\ StartGame
    [] op = "vpn"       -> Online /\ StartVpn
    [] op = "reconnect" -> Reconnect
    [] op = "restart"   -> Launch

Issued ==
  /\ fresh' = FALSE
  /\ ours' = (ours \/ Op = "start")

Execute ==
  /\ mode = "plan" /\ step = "call" /\ ~Over
  /\ Effect(Op) /\ Issued
  /\ step' = "wait"
  /\ UNCHANGED <<mode, at, sessions, restarted, report, ops, late, seen, before>> /\ PlanFrame

\* It returned FALSE.
ExecuteRefused ==
  /\ mode = "plan" /\ step = "call" /\ ~Over
  /\ \/ NoEffect
     \/ Op = "reconnect" /\ Detached
  /\ fresh' = FALSE /\ UNCHANGED ours
  /\ RetryRequired
  /\ UNCHANGED <<seen, before>> /\ PlanFrame

\* Slip: the command is repeated as it is.
RepeatsCall == "call"

ObservesAgain == "top"

\* The transport failed, before or after the effect.
ExecuteFails ==
  /\ mode = "plan" /\ step = "call" /\ ~Over
  /\ \/ NoEffect
     \/ Effect(Op)
     \/ Op \in {"reconnect", "restart"} /\ Detached
  /\ Issued
  /\ step' = ObservesAgain
  /\ UNCHANGED <<mode, at, sessions, restarted, report, ops, late, seen, before>> /\ PlanFrame

Changed(op, o) ==
  /\ op # "restart"
  /\ o.exited \/ (op # "reconnect" /\ o.running /\ ~o.connected)

Await ==
  /\ mode = "plan" /\ step = "wait" /\ ~Over
  /\ seen' = Observation /\ fresh' = TRUE
  /\ \/ Postcondition(Op, Observation) /\ Advance
     \/ ~Postcondition(Op, Observation) /\ Changed(Op, Observation) /\ RetryRequired
     \/ /\ ~Postcondition(Op, Observation) /\ ~Changed(Op, Observation)
        /\ UNCHANGED <<mode, at, sessions, restarted, report, ops, late, step>>
  /\ UNCHANGED <<deviceVars, linked, generation, before, ours>> /\ PlanFrame

\* am start again after three seconds, on a screen just seen; a refusal counts
\* for nothing.
StartAgain ==
  /\ mode = "plan" /\ step = "wait" /\ ~Over
  /\ Op = "start" /\ fresh /\ Precondition(Op, seen)
  /\ \/ Online /\ StartGame
     \/ NoEffect
  /\ Issued
  /\ UNCHANGED <<mode, at, sessions, restarted, report, ops, late, step, seen, before>>
  /\ PlanFrame

\* The deadline of the operation, and that of the whole recovery.
StepDeadline ==
  /\ mode = "plan" /\ ~late /\ late' = TRUE
  /\ UNCHANGED <<deviceVars, sessionVars, runVars, readVars, reason, ops, step, seen, before,
                 expired, fresh, ours, troubles>>

RecoveryDeadline ==
  /\ mode = "plan" /\ ~expired /\ expired' = TRUE /\ late' = TRUE
  /\ UNCHANGED <<deviceVars, sessionVars, runVars, readVars, reason, ops, step, seen, before,
                 fresh, ours, troubles>>

-----------------------------------------------------------------------------
World == Trouble \/ Boot \/ Focus \/ AdbReturns \/ StopRun \/ StepDeadline \/ RecoveryDeadline

Reader ==
  \/ ReadFault \/ Retry \/ SessionFails \/ SessionEnds \/ CallFails
  \/ Detect \/ LaunchInstance \/ StillBooting \/ Alive \/ ReconnectDevice
  \/ ForceStop \/ NoStop \/ LookAtGame \/ EnsureVpn \/ StartApplication \/ Restored
  \/ NotProved

Plan ==
  \/ PlanStops \/ ObserveFails \/ Observe \/ Execute \/ ExecuteRefused \/ ExecuteFails
  \/ Await \/ StartAgain \/ Reselect \/ Unconfirmed

Next == World \/ Reader \/ Plan \/ SelectPlan \/ NoPlan

Spec == Init /\ [][Next]_vars

\* The clock runs, and the worker thread does.
FairSpec ==
  /\ Spec
  /\ WF_vars(StepDeadline) /\ WF_vars(RecoveryDeadline)
  /\ WF_vars(Boot) /\ WF_vars(Focus)
  /\ WF_vars(PlanStops \/ Observe \/ Execute \/ Await \/ Reselect \/ Unconfirmed)

-----------------------------------------------------------------------------
(* Properties.                                                             *)

Games == {"none", "behind", "front"}
Operations == {"restart", "reconnect", "vpn", "stop", "start"}

TypeOK ==
  /\ instance \in {"off", "booting", "on"} /\ {adb, vpn, linked} \subseteq BOOLEAN
  /\ game \in Games /\ generation \in 1..(MaxGeneration + 1)
  /\ flags.origin \in 0..generation
  /\ {flags.detected, flags.launched, flags.started} \subseteq BOOLEAN
  /\ mode \in {"plan", "session", "failed", "over"} /\ sessions \in 0..MaxSessions
  /\ at # "none" => mode = "session"
  /\ \A i \in DOMAIN ops : ops[i] \in Operations
  /\ (mode = "plan") = (ops # <<>>) \/ mode = "over"
  /\ expired /\ mode = "plan" => late
  /\ seen.game \in Games /\ before.generation \in 0..generation

(* A game that this recovery has started, in the session or by the plan, is not *)
(* stopped by the same recovery: a repeated attempt, or a plan selected anew,   *)
(* only brings it to the front.                                                 *)
StartedGameIsNotStopped ==
  [][game # "none" /\ game' = "none" /\ troubles' = troubles => ~ours]_vars

(* A command of a plan is decided on an observation that is younger than every  *)
(* command before it, and that allows it: a command whose transport failed may  *)
(* have taken effect.                                                           *)
CommandsFollowObservations ==
  mode = "plan" /\ step = "call" => fresh /\ Precondition(Op, seen)

(* A session begins only on a device that was seen connected, with the game in  *)
(* front and the VPN as the target wants it, after the last command.            *)
ReadyMeansReady ==
  [][mode = "plan" /\ mode' = "session" =>
       fresh' /\ seen'.connected /\ seen'.game = "front" /\ seen'.vpn]_vars

(* Whatever the device does, a plan ends: with a session, or with the run.      *)
RecoveryEnds == (mode = "plan") ~> (mode # "plan")

(* A report that the game was restarted is about this session: after a restart  *)
(* the executor drops its menus and stops at a protected input.                 *)
RestartReportsAreTrue == report.app => restarted
=============================================================================
