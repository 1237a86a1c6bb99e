------------------------ MODULE DeviceRecoveryProofs ------------------------
(***************************************************************************)
(* Theorems about the recovery of the device: an inductive invariant of    *)
(* the plan, the calls of recover_observation and the flags they leave,    *)
(* and the properties that follow from it.                                 *)
(***************************************************************************)
EXTENDS DeviceRecovery, TLAPS

-----------------------------------------------------------------------------
(* The invariant.                                                          *)

\* What is kept of the device and the attempt.
Observations == [exited : BOOLEAN, running : BOOLEAN, connected : BOOLEAN, game : Games,
                 vpn : BOOLEAN, generation : Nat]
FlagRecords  == [detected : BOOLEAN, launched : BOOLEAN, started : BOOLEAN, origin : Nat]
Reports      == [app : BOOLEAN, instance : BOOLEAN]

Calls == {"live", "adb", "stop", "look", "vpn", "vpnGone", "start", "done", "pending", "reading"}

\* The types in full, with the room that is left below the bounds.
DeviceTypes ==
  /\ instance \in {"off", "booting", "on"} /\ adb \in BOOLEAN /\ game \in Games /\ vpn \in BOOLEAN
  /\ linked \in BOOLEAN /\ generation \in 1 .. MaxGeneration + 1
  /\ linked => generation <= MaxGeneration

ReadTypes ==
  /\ flags \in FlagRecords /\ flags.origin <= generation
  /\ at \in Calls \cup {"none"} /\ (at # "none" => mode = "session")
  /\ {forced, restarted, ours} \subseteq BOOLEAN /\ report \in Reports

PlanTypes ==
  /\ mode \in {"plan", "session", "failed", "over"} /\ sessions \in 0 .. MaxSessions
  /\ mode = "plan" => sessions < MaxSessions
  /\ step \in {"top", "call", "wait", "retry"}
  /\ seen \in Observations /\ before \in Observations /\ before.generation <= generation
  /\ {late, expired, fresh} \subseteq BOOLEAN
  /\ expired /\ mode = "plan" => late
  /\ ops \in Seq(Operations) /\ troubles \in 0 .. MaxTroubles

\* A plan ends with the start of the game, and starts it nowhere else.
PlanShape(s) ==
  /\ s \in Seq(Operations) /\ s # <<>>
  /\ \A i \in DOMAIN s : s[i] = "start" <=> i = Len(s)

\* While there is a plan it has operations left; one that has started the game stops
\* it no more.
PlanInv ==
  /\ mode = "plan" => PlanShape(ops) /\ (ours => \A i \in DOMAIN ops : ops[i] # "stop")
  /\ mode \in {"session", "failed"} => ops = <<>>

\* A restart is forced within an attempt only, and an attempt that has come past the
\* stop, or has started the game, has noted it.
ForcedInv ==
  /\ at \in {"none", "reading"} => ~forced
  /\ at \in {"look", "vpn", "vpnGone", "start", "done"} \/ ours => (forced => flags.started)

RecoveryInv ==
  /\ DeviceTypes
  /\ ReadTypes
  /\ PlanTypes
  /\ PlanInv
  /\ ForcedInv
  /\ CommandsFollowObservations

-----------------------------------------------------------------------------
(* Plans and observations.                                                 *)

\* What is done before the game is started or stopped.
Preparations == {"restart", "reconnect", "vpn"}

\* A plan that prepares the device and starts the game.
LEMMA PlanOfPreparations ==
  ASSUME NEW s \in Seq(Preparations)
  PROVE  /\ PlanShape(s \o <<"start">>)
         /\ \A i \in DOMAIN (s \o <<"start">>) : (s \o <<"start">>)[i] # "stop"
  <1> DEFINE t == s \o <<"start">>
  <1>1. /\ Len(s) \in Nat /\ Len(t) = Len(s) + 1 /\ DOMAIN t = 1 .. Len(s) + 1
        /\ \A i \in 1 .. Len(s) : t[i] = s[i] /\ s[i] \in Preparations
        /\ t[Len(s) + 1] = "start"
    OBVIOUS
  <1>2. <<"start">> \in Seq(Operations) /\ s \in Seq(Operations)
    BY DEF Preparations, Operations
  <1>3. t \in Seq(Operations)
    BY <1>2
  <1> HIDE DEF t
  <1>4. \A i \in DOMAIN t : i \in 1 .. Len(s) \/ i = Len(s) + 1
    BY <1>1
  <1>5. \A i \in DOMAIN t : t[i] # "stop" /\ (t[i] = "start" <=> i = Len(t))
    BY <1>1, <1>4 DEF Preparations
  <1>6. t # <<>>
    BY <1>1
  <1>7. QED
    BY <1>3, <1>5, <1>6 DEF PlanShape, t

\* The plan against a game that stalls.
LEMMA PlanWithStop ==
  ASSUME NEW s \in Seq(Preparations)
  PROVE  PlanShape(s \o <<"stop", "start">>)
  <1> DEFINE t == s \o <<"stop", "start">>
  <1>1. /\ Len(s) \in Nat /\ Len(t) = Len(s) + 2 /\ DOMAIN t = 1 .. Len(s) + 2
        /\ \A i \in 1 .. Len(s) : t[i] = s[i] /\ s[i] \in Preparations
        /\ t[Len(s) + 1] = "stop" /\ t[Len(s) + 2] = "start"
    OBVIOUS
  <1>2. <<"stop", "start">> \in Seq(Operations) /\ s \in Seq(Operations)
    BY DEF Preparations, Operations
  <1>3. t \in Seq(Operations)
    BY <1>2
  <1> HIDE DEF t
  <1>4. \A i \in DOMAIN t : i \in 1 .. Len(s) \/ i = Len(s) + 1 \/ i = Len(s) + 2
    BY <1>1
  <1>5. \A i \in DOMAIN t : t[i] = "start" <=> i = Len(t)
    BY <1>1, <1>4 DEF Preparations
  <1>6. t # <<>>
    BY <1>1
  <1>7. QED
    BY <1>3, <1>5, <1>6 DEF PlanShape, t

\* The step for the VPN prepares, and may follow another preparation.
LEMMA VpnPrepares ==
  /\ VpnStep \in Seq(Preparations)
  /\ \A op \in Preparations : <<op>> \o VpnStep \in Seq(Preparations)
  <1>1. <<>> \in Seq(Preparations) /\ \A op \in Preparations : <<op>> \in Seq(Preparations)
    OBVIOUS
  <1>2. "vpn" \in Preparations
    BY DEF Preparations
  <1>3. VpnStep \in Seq(Preparations)
    BY <1>1, <1>2 DEF VpnStep
  <1>4. QED
    BY <1>1, <1>3

\* Every plan starts the game at its end, and a plan for a device that is gone stops
\* nothing.
LEMMA PolicyShape ==
  ASSUME NEW why, Policy(why) # <<>>
  PROVE  /\ PlanShape(Policy(why))
         /\ why \in {"exited", "disconnected"} =>
              \A i \in DOMAIN Policy(why) : Policy(why)[i] # "stop"
  <1>1. "restart" \in Preparations /\ "reconnect" \in Preparations
    BY DEF Preparations
  <1>2. CASE why = "exited"
    BY <1>1, <1>2, VpnPrepares, PlanOfPreparations DEF Policy
  <1>3. CASE why = "disconnected"
    BY <1>1, <1>3, VpnPrepares, PlanOfPreparations DEF Policy
  <1>4. CASE why \in {"gone", "background", "restarted"}
    BY <1>4, VpnPrepares, PlanOfPreparations DEF Policy
  <1>5. CASE why = "stalled"
    BY <1>5, VpnPrepares, PlanWithStop DEF Policy
  <1>6. CASE why \notin {"exited", "disconnected", "gone", "background", "restarted", "stalled"}
    BY <1>6 DEF Policy
  <1>7. QED
    BY <1>2, <1>3, <1>4, <1>5, <1>6

\* The rest of a plan is a plan, if anything is left.
LEMMA PlanGoesOn ==
  ASSUME NEW s, PlanShape(s), Len(s) # 1
  PROVE  /\ PlanShape(Tail(s))
         /\ \A i \in DOMAIN Tail(s) : i + 1 \in DOMAIN s /\ Tail(s)[i] = s[i + 1]
  <1>1. /\ s \in Seq(Operations) /\ Len(s) \in Nat /\ Len(s) > 1 /\ DOMAIN s = 1 .. Len(s)
        /\ \A i \in DOMAIN s : s[i] = "start" <=> i = Len(s)
    <2>1. s \in Seq(Operations) /\ s # <<>> /\ \A i \in DOMAIN s : s[i] = "start" <=> i = Len(s)
      BY DEF PlanShape
    <2>2. Len(s) \in Nat /\ Len(s) # 0 /\ DOMAIN s = 1 .. Len(s)
      BY <2>1
    <2>3. QED
      BY <2>1, <2>2
  <1>2. /\ Tail(s) \in Seq(Operations) /\ Len(Tail(s)) = Len(s) - 1
        /\ DOMAIN Tail(s) = 1 .. Len(s) - 1
        /\ \A i \in 1 .. Len(s) - 1 : Tail(s)[i] = s[i + 1]
    BY <1>1
  <1>3. \A i \in DOMAIN Tail(s) : i + 1 \in DOMAIN s /\ Tail(s)[i] = s[i + 1]
    BY <1>1, <1>2
  <1>4. \A i \in DOMAIN Tail(s) : i + 1 = Len(s) <=> i = Len(Tail(s))
    BY <1>1, <1>2
  <1>5. Tail(s) # <<>>
    BY <1>1, <1>2
  <1>6. QED
    BY <1>1, <1>2, <1>3, <1>4, <1>5 DEF PlanShape

\* Behind its last operation nothing is left of a plan.
LEMMA LastOfPlan ==
  ASSUME NEW s, PlanShape(s), Len(s) = 1
  PROVE  Tail(s) = <<>>
  <1>1. s \in Seq(Operations) /\ s # <<>>
    BY DEF PlanShape
  <1>2. Tail(s) \in Seq(Operations) /\ Len(Tail(s)) = 0
    BY <1>1
  <1>3. \A t \in Seq(Operations) : Len(t) = 0 => t = <<>>
    OBVIOUS
  <1>4. QED
    BY <1>2, <1>3

\* The first operation of a plan, which is the start of the game only at its end.
LEMMA FirstOfPlan ==
  ASSUME PlanShape(ops)
  PROVE  /\ Op = ops[1] /\ Op \in Operations /\ 1 \in DOMAIN ops
         /\ Op = "start" <=> Len(ops) = 1
         /\ Op = "start" => \A i \in DOMAIN ops : ops[i] = "start"
  <1>1. /\ ops \in Seq(Operations) /\ ops # <<>>
        /\ \A i \in DOMAIN ops : ops[i] = "start" <=> i = Len(ops)
    BY DEF PlanShape
  <1>2. /\ Len(ops) \in Nat /\ Len(ops) >= 1 /\ DOMAIN ops = 1 .. Len(ops)
        /\ Op = ops[1] /\ Op \in Operations
    BY <1>1 DEF Op
  <1>3. 1 \in DOMAIN ops /\ (Op = "start" <=> Len(ops) = 1)
    BY <1>1, <1>2
  <1>4. Len(ops) = 1 => \A i \in DOMAIN ops : i = 1
    BY <1>2
  <1>5. QED
    BY <1>2, <1>3, <1>4

\* What is observed of the device.
LEMMA ObservationTypes ==
  ASSUME DeviceTypes
  PROVE  Observation \in Observations /\ Observation.generation = generation
  BY RecoveryAssumption DEF DeviceTypes, Observation, Observations, Online, Games

\* There is a plan for a device that is gone.
LEMMA PlansForTheGone ==
  ASSUME NEW why \in {"exited", "disconnected"}
  PROVE  Policy(why) # <<>>
  <1>1. \A s \in Seq(Preparations) : s \o <<"start">> # <<>>
    OBVIOUS
  <1>2. "restart" \in Preparations /\ "reconnect" \in Preparations
    BY DEF Preparations
  <1>3. QED
    BY <1>1, <1>2, VpnPrepares DEF Policy

-----------------------------------------------------------------------------
(* Commands.                                                               *)

\* A generation that has grown is above all that was noted of the old one.
LEMMA GenerationGrows ==
  ASSUME RecoveryInv, DeviceTypes', generation' >= generation
  PROVE  flags.origin <= generation' /\ before.generation <= generation'
  <1>1. /\ flags.origin \in Nat /\ flags.origin <= generation
        /\ before.generation \in Nat /\ before.generation <= generation
    BY DEF RecoveryInv, ReadTypes, PlanTypes, FlagRecords, Observations
  <1>2. generation \in Nat /\ generation' \in Nat
    BY RecoveryAssumption DEF RecoveryInv, DeviceTypes
  <1>3. QED
    BY <1>1, <1>2

\* To disconnect raises the generation of a device that was connected.
LEMMA UnlinkedTypes ==
  ASSUME DeviceTypes, Unlinked
  PROVE  /\ generation' \in 1 .. MaxGeneration + 1 /\ generation' >= generation
         /\ linked' = FALSE
  <1>1. MaxGeneration \in Nat /\ generation \in 1 .. MaxGeneration + 1
    BY RecoveryAssumption DEF DeviceTypes
  <1>2. CASE linked
    BY <1>1, <1>2 DEF DeviceTypes, Unlinked
  <1>3. CASE ~linked
    BY <1>1, <1>3 DEF Unlinked
  <1>4. QED
    BY <1>2, <1>3

\* A command of the device session, whatever comes of it, keeps the types of the
\* device, and no generation comes back.
LEMMA CommandTypes ==
  ASSUME RecoveryInv,
         \/ NoEffect
         \/ Detached
         \/ StopGame \/ StartGame \/ StartVpn
         \/ Reconnect \/ Launch
  PROVE  DeviceTypes' /\ flags.origin <= generation' /\ before.generation <= generation'
  <1>1. MaxGeneration \in Nat /\ DeviceTypes
    BY RecoveryAssumption DEF RecoveryInv
  <1> USE DEF DeviceTypes, Games
  <1>2. ASSUME NoEffect
       PROVE  DeviceTypes' /\ generation' >= generation
    BY <1>2, <1>1 DEF NoEffect, deviceVars
  <1>3. ASSUME Detached
       PROVE  DeviceTypes' /\ generation' >= generation
    BY <1>3, <1>1, UnlinkedTypes DEF Detached, deviceVars
  <1>4. ASSUME StopGame
       PROVE  DeviceTypes' /\ generation' >= generation
    BY <1>4, <1>1 DEF StopGame
  <1>5. ASSUME StartGame
       PROVE  DeviceTypes' /\ generation' >= generation
    BY <1>5, <1>1 DEF StartGame
  <1>6. ASSUME StartVpn
       PROVE  DeviceTypes' /\ generation' >= generation
    BY <1>6, <1>1 DEF StartVpn
  <1>7. ASSUME Reconnect
       PROVE  DeviceTypes' /\ generation' >= generation
    BY <1>7, <1>1 DEF Reconnect, Relinked
  <1>8. ASSUME Launch
       PROVE  DeviceTypes' /\ generation' >= generation
    BY <1>8, <1>1, UnlinkedTypes DEF Launch
  <1>9. DeviceTypes' /\ generation' >= generation
    BY <1>2, <1>3, <1>4, <1>5, <1>6, <1>7, <1>8
  <1>10. QED
    BY <1>9, GenerationGrows

\* Only the operation that stops the game stops it.
LEMMA EffectKinds ==
  ASSUME RecoveryInv, NEW op \in Operations, Effect(op)
  PROVE  /\ DeviceTypes' /\ flags.origin <= generation' /\ before.generation <= generation'
         /\ op # "stop" => (game' = "none" => game = "none")
  <1>1. CASE op = "stop"
    BY <1>1, CommandTypes DEF Effect
  <1>2. CASE op = "start"
    BY <1>2, CommandTypes DEF Effect, StartGame
  <1>3. CASE op = "vpn"
    BY <1>3, CommandTypes DEF Effect, StartVpn
  <1>4. CASE op = "reconnect"
    BY <1>4, CommandTypes DEF Effect, Reconnect
  <1>5. CASE op = "restart"
    BY <1>5, CommandTypes DEF Effect, Launch
  <1>6. QED
    BY <1>1, <1>2, <1>3, <1>4, <1>5 DEF Operations

\* An issued command leaves the plan as it was: one that starts the game is the last.
LEMMA IssuedKeepsPlan ==
  ASSUME mode = "plan", PlanInv, {ours} \subseteq BOOLEAN, UNCHANGED <<mode, ops>>,
         ours' = ours \/ ours' = (ours \/ Op = "start")
  PROVE  PlanInv' /\ ours' \in BOOLEAN
  <1>1. PlanShape(ops)
    BY DEF PlanInv
  <1>2. Op = "start" => \A i \in DOMAIN ops : ops[i] # "stop"
    BY <1>1, FirstOfPlan
  <1>3. ours' => \A i \in DOMAIN ops : ops[i] # "stop"
    BY <1>2 DEF PlanInv
  <1>4. QED
    BY <1>1, <1>3 DEF PlanInv

-----------------------------------------------------------------------------
(* Every step keeps the invariant.                                         *)

\* The device changes for the worse.
LEMMA TroubleKeeps ==
  ASSUME RecoveryInv, Trouble
  PROVE  RecoveryInv'
  <1> USE DEF RecoveryInv, Trouble, WorldFrame, sessionVars, runVars, readVars, planVars
  <1>1. DeviceTypes'
    BY RecoveryAssumption DEF DeviceTypes, Games
  <1>2. ReadTypes'
    BY RecoveryAssumption DEF ReadTypes, DeviceTypes, Calls
  <1>3. PlanTypes'
    BY RecoveryAssumption DEF PlanTypes, DeviceTypes, ReadTypes
  <1>4. PlanInv'
    BY DEF PlanInv, ReadTypes
  <1>5. ForcedInv'
    BY DEF ForcedInv, ReadTypes
  <1>6. CommandsFollowObservations'
    BY DEF CommandsFollowObservations, ReadTypes, Op
  <1>7. QED
    BY <1>1, <1>2, <1>3, <1>4, <1>5, <1>6

\* The instance has booted.
LEMMA BootKeeps ==
  ASSUME RecoveryInv, Boot
  PROVE  RecoveryInv'
  <1> USE DEF RecoveryInv, Boot, WorldFrame, sessionVars, runVars, readVars, planVars
  <1>1. DeviceTypes'
    BY RecoveryAssumption DEF DeviceTypes, Games
  <1>2. ReadTypes'
    BY RecoveryAssumption DEF ReadTypes, DeviceTypes, Calls
  <1>3. PlanTypes'
    BY RecoveryAssumption DEF PlanTypes, DeviceTypes, ReadTypes
  <1>4. PlanInv'
    BY DEF PlanInv, ReadTypes
  <1>5. ForcedInv'
    BY DEF ForcedInv, ReadTypes
  <1>6. CommandsFollowObservations'
    BY DEF CommandsFollowObservations, ReadTypes, Op
  <1>7. QED
    BY <1>1, <1>2, <1>3, <1>4, <1>5, <1>6

\* The game gains the focus.
LEMMA FocusKeeps ==
  ASSUME RecoveryInv, Focus
  PROVE  RecoveryInv'
  <1> USE DEF RecoveryInv, Focus, WorldFrame, sessionVars, runVars, readVars, planVars
  <1>1. DeviceTypes'
    BY RecoveryAssumption DEF DeviceTypes, Games
  <1>2. ReadTypes'
    BY RecoveryAssumption DEF ReadTypes, DeviceTypes, Calls
  <1>3. PlanTypes'
    BY RecoveryAssumption DEF PlanTypes, DeviceTypes, ReadTypes
  <1>4. PlanInv'
    BY DEF PlanInv, ReadTypes
  <1>5. ForcedInv'
    BY DEF ForcedInv, ReadTypes
  <1>6. CommandsFollowObservations'
    BY DEF CommandsFollowObservations, ReadTypes, Op
  <1>7. QED
    BY <1>1, <1>2, <1>3, <1>4, <1>5, <1>6

\* The transport comes back by itself.
LEMMA AdbReturnsKeeps ==
  ASSUME RecoveryInv, AdbReturns
  PROVE  RecoveryInv'
  <1> USE DEF RecoveryInv, AdbReturns, WorldFrame, sessionVars, runVars, readVars, planVars
  <1>1. DeviceTypes'
    BY RecoveryAssumption DEF DeviceTypes, Games
  <1>2. ReadTypes'
    BY RecoveryAssumption DEF ReadTypes, DeviceTypes, Calls
  <1>3. PlanTypes'
    BY RecoveryAssumption DEF PlanTypes, DeviceTypes, ReadTypes
  <1>4. PlanInv'
    BY DEF PlanInv, ReadTypes
  <1>5. ForcedInv'
    BY DEF ForcedInv, ReadTypes
  <1>6. CommandsFollowObservations'
    BY DEF CommandsFollowObservations, ReadTypes, Op
  <1>7. QED
    BY <1>1, <1>2, <1>3, <1>4, <1>5, <1>6

\* The run is asked to stop.
LEMMA StopRunKeeps ==
  ASSUME RecoveryInv, StopRun
  PROVE  RecoveryInv'
  <1> USE DEF RecoveryInv, StopRun, deviceVars, sessionVars, readVars, planVars
  <1>1. DeviceTypes'
    BY RecoveryAssumption DEF DeviceTypes, Games
  <1>2. ReadTypes'
    BY RecoveryAssumption DEF ReadTypes, DeviceTypes, Calls
  <1>3. PlanTypes'
    BY RecoveryAssumption DEF PlanTypes, DeviceTypes, ReadTypes
  <1>4. PlanInv'
    BY DEF PlanInv, ReadTypes
  <1>5. ForcedInv'
    BY DEF ForcedInv, ReadTypes
  <1>6. CommandsFollowObservations'
    BY DEF CommandsFollowObservations, ReadTypes, Op
  <1>7. QED
    BY <1>1, <1>2, <1>3, <1>4, <1>5, <1>6

\* The deadline of the operation.
LEMMA StepDeadlineKeeps ==
  ASSUME RecoveryInv, StepDeadline
  PROVE  RecoveryInv'
  <1> USE DEF RecoveryInv, StepDeadline, deviceVars, sessionVars, runVars, readVars
  <1>1. DeviceTypes'
    BY RecoveryAssumption DEF DeviceTypes, Games
  <1>2. ReadTypes'
    BY RecoveryAssumption DEF ReadTypes, DeviceTypes, Calls
  <1>3. PlanTypes'
    BY RecoveryAssumption DEF PlanTypes, DeviceTypes, ReadTypes
  <1>4. PlanInv'
    BY DEF PlanInv, ReadTypes
  <1>5. ForcedInv'
    BY DEF ForcedInv, ReadTypes
  <1>6. CommandsFollowObservations'
    BY DEF CommandsFollowObservations, ReadTypes, Op
  <1>7. QED
    BY <1>1, <1>2, <1>3, <1>4, <1>5, <1>6

\* The deadline of the recovery, and of its operation.
LEMMA RecoveryDeadlineKeeps ==
  ASSUME RecoveryInv, RecoveryDeadline
  PROVE  RecoveryInv'
  <1> USE DEF RecoveryInv, RecoveryDeadline, deviceVars, sessionVars, runVars, readVars
  <1>1. DeviceTypes'
    BY RecoveryAssumption DEF DeviceTypes, Games
  <1>2. ReadTypes'
    BY RecoveryAssumption DEF ReadTypes, DeviceTypes, Calls
  <1>3. PlanTypes'
    BY RecoveryAssumption DEF PlanTypes, DeviceTypes, ReadTypes
  <1>4. PlanInv'
    BY DEF PlanInv, ReadTypes
  <1>5. ForcedInv'
    BY DEF ForcedInv, ReadTypes
  <1>6. CommandsFollowObservations'
    BY DEF CommandsFollowObservations, ReadTypes, Op
  <1>7. QED
    BY <1>1, <1>2, <1>3, <1>4, <1>5, <1>6

\* An attempt begins, forced or not, and has started nothing.
LEMMA ReadFaultKeeps ==
  ASSUME RecoveryInv, ReadFault
  PROVE  RecoveryInv'
  <1> USE DEF RecoveryInv, ReadFault, deviceVars, sessionVars, runVars, planVars, ReadFrame
  <1>1. DeviceTypes'
    BY RecoveryAssumption DEF DeviceTypes, Games
  <1>2. ReadTypes'
    BY RecoveryAssumption DEF ReadTypes, DeviceTypes, Calls
  <1>3. PlanTypes'
    BY RecoveryAssumption DEF PlanTypes, DeviceTypes, ReadTypes
  <1>4. PlanInv'
    BY DEF PlanInv, ReadTypes
  <1>5. ForcedInv'
    BY DEF ForcedInv, ReadTypes
  <1>6. CommandsFollowObservations'
    BY DEF CommandsFollowObservations, ReadTypes, Op
  <1>7. QED
    BY <1>1, <1>2, <1>3, <1>4, <1>5, <1>6

\* An attempt is repeated with the flags it left.
LEMMA RetryKeeps ==
  ASSUME RecoveryInv, Retry
  PROVE  RecoveryInv'
  <1> USE DEF RecoveryInv, Retry, deviceVars, sessionVars, runVars, planVars, ReadFrame
  <1>1. DeviceTypes'
    BY RecoveryAssumption DEF DeviceTypes, Games
  <1>2. ReadTypes'
    BY RecoveryAssumption DEF ReadTypes, DeviceTypes, Calls
  <1>3. PlanTypes'
    BY RecoveryAssumption DEF PlanTypes, DeviceTypes, ReadTypes
  <1>4. PlanInv'
    BY DEF PlanInv, ReadTypes
  <1>5. ForcedInv'
    BY DEF ForcedInv, ReadTypes
  <1>6. CommandsFollowObservations'
    BY DEF CommandsFollowObservations, ReadTypes, Op
  <1>7. QED
    BY <1>1, <1>2, <1>3, <1>4, <1>5, <1>6

\* The session fails, and with it the wish for a restart.
LEMMA SessionFailsKeeps ==
  ASSUME RecoveryInv, SessionFails
  PROVE  RecoveryInv'
  <1> USE DEF RecoveryInv, SessionFails, deviceVars, sessionVars, runVars, planVars,
          ReadFrame
  <1>1. DeviceTypes'
    BY RecoveryAssumption DEF DeviceTypes, Games
  <1>2. ReadTypes'
    BY RecoveryAssumption DEF ReadTypes, DeviceTypes, Calls
  <1>3. PlanTypes'
    BY RecoveryAssumption DEF PlanTypes, DeviceTypes, ReadTypes
  <1>4. PlanInv'
    BY DEF PlanInv, ReadTypes
  <1>5. ForcedInv'
    BY DEF ForcedInv, ReadTypes
  <1>6. CommandsFollowObservations'
    BY DEF CommandsFollowObservations, ReadTypes, Op
  <1>7. QED
    BY <1>1, <1>2, <1>3, <1>4, <1>5, <1>6

\* The session ends.
LEMMA SessionEndsKeeps ==
  ASSUME RecoveryInv, SessionEnds
  PROVE  RecoveryInv'
  <1> USE DEF RecoveryInv, SessionEnds, deviceVars, sessionVars, runVars, planVars,
          ReadFrame
  <1>1. DeviceTypes'
    BY RecoveryAssumption DEF DeviceTypes, Games
  <1>2. ReadTypes'
    BY RecoveryAssumption DEF ReadTypes, DeviceTypes, Calls
  <1>3. PlanTypes'
    BY RecoveryAssumption DEF PlanTypes, DeviceTypes, ReadTypes
  <1>4. PlanInv'
    BY DEF PlanInv, ReadTypes
  <1>5. ForcedInv'
    BY DEF ForcedInv, ReadTypes
  <1>6. CommandsFollowObservations'
    BY DEF CommandsFollowObservations, ReadTypes, Op
  <1>7. QED
    BY <1>1, <1>2, <1>3, <1>4, <1>5, <1>6

\* A call that fails may have taken effect.
LEMMA CallFailsKeeps ==
  ASSUME RecoveryInv, CallFails
  PROVE  RecoveryInv'
  <1> USE DEF RecoveryInv, CallFails, runVars, planVars, ReadFrame
  <1>1. DeviceTypes' /\ flags.origin <= generation' /\ before.generation <= generation'
    BY CommandTypes DEF CallFails
  <1>2. PlanInv'
    BY DEF PlanInv, ReadTypes
  <1>3. ReadTypes'
    <2>1. {restarted', ours'} \subseteq BOOLEAN
      BY DEF ReadTypes
    <2>2. QED
      BY <1>1, <2>1 DEF ReadTypes, DeviceTypes, Calls
  <1>4. PlanTypes'
    BY <1>1, RecoveryAssumption DEF PlanTypes, DeviceTypes
  <1>5. ForcedInv'
    BY DEF ForcedInv, ReadTypes
  <1>6. CommandsFollowObservations'
    BY DEF CommandsFollowObservations, ReadTypes, Op
  <1>7. QED
    BY <1>1, <1>3, <1>4, <1>2, <1>5, <1>6

\* The exit of the instance is noted.
LEMMA DetectKeeps ==
  ASSUME RecoveryInv, Detect
  PROVE  RecoveryInv'
  <1> USE DEF RecoveryInv, Detect, deviceVars, sessionVars, runVars, planVars, ReadFrame,
          Pending
  <1>1. DeviceTypes'
    BY RecoveryAssumption DEF DeviceTypes, Games
  <1>2. PlanInv'
    BY DEF PlanInv, ReadTypes
  <1>3. ReadTypes'
    <2>1. flags \in FlagRecords /\ flags.origin <= generation /\ generation \in Nat
      BY RecoveryAssumption DEF ReadTypes, DeviceTypes
    <2>2. flags' \in FlagRecords /\ flags'.origin \in {flags.origin, generation}
      BY <2>1 DEF FlagRecords
    <2>3. flags'.origin <= generation'
      BY <2>1, <2>2
    <2>4. QED
      BY <2>2, <2>3 DEF ReadTypes, Calls
  <1>4. PlanTypes'
    BY RecoveryAssumption DEF PlanTypes, DeviceTypes, ReadTypes
  <1>5. ForcedInv'
    BY DEF ForcedInv, ReadTypes
  <1>6. CommandsFollowObservations'
    BY DEF CommandsFollowObservations, ReadTypes, Op
  <1>7. QED
    BY <1>1, <1>3, <1>4, <1>2, <1>5, <1>6

\* The instance is launched, once.
LEMMA LaunchInstanceKeeps ==
  ASSUME RecoveryInv, LaunchInstance
  PROVE  RecoveryInv'
  <1> USE DEF RecoveryInv, LaunchInstance, runVars, planVars, ReadFrame
  <1>1. DeviceTypes' /\ flags.origin <= generation' /\ before.generation <= generation'
    BY CommandTypes DEF LaunchInstance
  <1>2. PlanInv'
    BY DEF PlanInv, ReadTypes
  <1>3. ReadTypes'
    <2>1. flags' \in FlagRecords /\ flags'.origin <= generation'
      BY <1>1 DEF ReadTypes, FlagRecords
    <2>2. QED
      BY <2>1 DEF ReadTypes, Calls
  <1>4. PlanTypes'
    BY <1>1, RecoveryAssumption DEF PlanTypes, DeviceTypes
  <1>5. ForcedInv'
    BY DEF ForcedInv, ReadTypes
  <1>6. CommandsFollowObservations'
    BY DEF CommandsFollowObservations, ReadTypes, Op
  <1>7. QED
    BY <1>1, <1>3, <1>4, <1>2, <1>5, <1>6

\* The instance is not there yet.
LEMMA StillBootingKeeps ==
  ASSUME RecoveryInv, StillBooting
  PROVE  RecoveryInv'
  <1> USE DEF RecoveryInv, StillBooting, deviceVars, sessionVars, runVars, planVars,
          ReadFrame, Pending
  <1>1. DeviceTypes'
    BY RecoveryAssumption DEF DeviceTypes, Games
  <1>2. ReadTypes'
    BY RecoveryAssumption DEF ReadTypes, DeviceTypes, Calls
  <1>3. PlanTypes'
    BY RecoveryAssumption DEF PlanTypes, DeviceTypes, ReadTypes
  <1>4. PlanInv'
    BY DEF PlanInv, ReadTypes
  <1>5. ForcedInv'
    BY DEF ForcedInv, ReadTypes
  <1>6. CommandsFollowObservations'
    BY DEF CommandsFollowObservations, ReadTypes, Op
  <1>7. QED
    BY <1>1, <1>2, <1>3, <1>4, <1>5, <1>6

\* The instance is there.
LEMMA AliveKeeps ==
  ASSUME RecoveryInv, Alive
  PROVE  RecoveryInv'
  <1> USE DEF RecoveryInv, Alive, deviceVars, sessionVars, runVars, planVars, ReadFrame
  <1>1. DeviceTypes'
    BY RecoveryAssumption DEF DeviceTypes, Games
  <1>2. PlanInv'
    BY DEF PlanInv, ReadTypes
  <1>3. ReadTypes'
    <2>1. flags' \in FlagRecords /\ flags'.origin <= generation'
      BY RecoveryAssumption DEF ReadTypes, FlagRecords, DeviceTypes
    <2>2. QED
      BY <2>1 DEF ReadTypes, Calls
  <1>4. PlanTypes'
    BY RecoveryAssumption DEF PlanTypes, DeviceTypes, ReadTypes
  <1>5. ForcedInv'
    BY DEF ForcedInv, ReadTypes
  <1>6. CommandsFollowObservations'
    BY DEF CommandsFollowObservations, ReadTypes, Op
  <1>7. QED
    BY <1>1, <1>3, <1>4, <1>2, <1>5, <1>6

\* The device is connected again.
LEMMA ReconnectDeviceKeeps ==
  ASSUME RecoveryInv, ReconnectDevice
  PROVE  RecoveryInv'
  <1> USE DEF RecoveryInv, ReconnectDevice, runVars, planVars, ReadFrame
  <1>1. DeviceTypes' /\ flags.origin <= generation' /\ before.generation <= generation'
    BY CommandTypes DEF ReconnectDevice
  <1>2. PlanInv'
    BY DEF PlanInv, ReadTypes
  <1>3. ReadTypes'
    BY <1>1 DEF ReadTypes, DeviceTypes, Calls
  <1>4. PlanTypes'
    BY <1>1, RecoveryAssumption DEF PlanTypes, DeviceTypes
  <1>5. ForcedInv'
    BY DEF ForcedInv, ReadTypes
  <1>6. CommandsFollowObservations'
    BY DEF CommandsFollowObservations, ReadTypes, Op
  <1>7. QED
    BY <1>1, <1>3, <1>4, <1>2, <1>5, <1>6

\* The game is stopped, which is noted.
LEMMA ForceStopKeeps ==
  ASSUME RecoveryInv, ForceStop
  PROVE  RecoveryInv'
  <1> USE DEF RecoveryInv, ForceStop, runVars, planVars, ReadFrame
  <1>1. DeviceTypes' /\ flags.origin <= generation' /\ before.generation <= generation'
    BY CommandTypes DEF ForceStop
  <1>2. PlanInv'
    BY DEF PlanInv, ReadTypes
  <1>3. ReadTypes'
    <2>1. flags' \in FlagRecords /\ flags'.origin <= generation'
      BY <1>1 DEF ReadTypes, FlagRecords
    <2>2. QED
      BY <2>1 DEF ReadTypes, Calls
  <1>4. PlanTypes'
    BY <1>1, RecoveryAssumption DEF PlanTypes, DeviceTypes
  <1>5. ForcedInv'
    BY DEF ForcedInv, ReadTypes
  <1>6. CommandsFollowObservations'
    BY DEF CommandsFollowObservations, ReadTypes, Op
  <1>7. QED
    BY <1>1, <1>3, <1>4, <1>2, <1>5, <1>6

\* Nothing is to be stopped.
LEMMA NoStopKeeps ==
  ASSUME RecoveryInv, NoStop
  PROVE  RecoveryInv'
  <1> USE DEF RecoveryInv, NoStop, deviceVars, sessionVars, runVars, planVars, ReadFrame
  <1>1. DeviceTypes'
    BY RecoveryAssumption DEF DeviceTypes, Games
  <1>2. PlanInv'
    BY DEF PlanInv, ReadTypes
  <1>3. ReadTypes'
    BY RecoveryAssumption DEF ReadTypes, DeviceTypes, Calls
  <1>4. PlanTypes'
    BY RecoveryAssumption DEF PlanTypes, DeviceTypes, ReadTypes
  <1>5. ForcedInv'
    BY DEF ForcedInv, ReadTypes, StopsNow
  <1>6. CommandsFollowObservations'
    BY DEF CommandsFollowObservations, ReadTypes, Op
  <1>7. QED
    BY <1>1, <1>3, <1>4, <1>2, <1>5, <1>6

\* To start the game only adds that it was started.
LEMMA ToStartFlags ==
  ASSUME flags \in FlagRecords, NEW gone \in BOOLEAN, ToStart(gone)
  PROVE  /\ flags' \in FlagRecords /\ flags'.origin = flags.origin
         /\ flags.started => flags'.started
         /\ at' = "start"
  BY DEF ToStart, FlagRecords

\* The game is looked at.
LEMMA LookAtGameKeeps ==
  ASSUME RecoveryInv, LookAtGame
  PROVE  RecoveryInv'
  <1> USE DEF RecoveryInv, LookAtGame, deviceVars, sessionVars, runVars, planVars, ReadFrame
  <1>0. /\ flags' \in FlagRecords /\ flags'.origin = flags.origin
        /\ flags.started => flags'.started
        /\ at' \in {"done", "vpn", "vpnGone", "start"}
    <2>1. flags \in FlagRecords
      BY DEF ReadTypes
    <2>2. CASE UNCHANGED flags /\ at' \in {"done", "vpn", "vpnGone"}
      BY <2>1, <2>2
    <2>3. CASE ToStart(game = "none")
      BY <2>1, <2>3, ToStartFlags
    <2>4. QED
      BY <2>2, <2>3
  <1>1. DeviceTypes'
    BY RecoveryAssumption DEF DeviceTypes, Games
  <1>2. PlanInv'
    BY DEF PlanInv, ReadTypes
  <1>3. ReadTypes'
    <2>1. flags' \in FlagRecords /\ flags'.origin <= generation'
      BY <1>0 DEF ReadTypes
    <2>2. at' \in Calls
      BY <1>0 DEF Calls
    <2>3. QED
      BY <2>1, <2>2 DEF ReadTypes
  <1>4. PlanTypes'
    BY RecoveryAssumption DEF PlanTypes, DeviceTypes, ReadTypes
  <1>5. ForcedInv'
    BY <1>0 DEF ForcedInv, ReadTypes
  <1>6. CommandsFollowObservations'
    BY DEF CommandsFollowObservations, ReadTypes, Op
  <1>7. QED
    BY <1>1, <1>3, <1>4, <1>2, <1>5, <1>6

\* The VPN is started.
LEMMA EnsureVpnKeeps ==
  ASSUME RecoveryInv, EnsureVpn
  PROVE  RecoveryInv'
  <1> USE DEF RecoveryInv, EnsureVpn, runVars, planVars, ReadFrame
  <1>0. /\ flags' \in FlagRecords /\ flags'.origin = flags.origin
        /\ flags.started => flags'.started
        /\ at' = "start"
    BY ToStartFlags DEF ReadTypes
  <1>1. DeviceTypes' /\ flags.origin <= generation' /\ before.generation <= generation'
    BY CommandTypes DEF EnsureVpn
  <1>2. PlanInv'
    BY DEF PlanInv, ReadTypes
  <1>3. ReadTypes'
    BY <1>0, <1>1 DEF ReadTypes, DeviceTypes, Calls
  <1>4. PlanTypes'
    BY <1>1, RecoveryAssumption DEF PlanTypes, DeviceTypes
  <1>5. ForcedInv'
    BY <1>0 DEF ForcedInv, ReadTypes
  <1>6. CommandsFollowObservations'
    BY DEF CommandsFollowObservations, ReadTypes, Op
  <1>7. QED
    BY <1>1, <1>3, <1>4, <1>2, <1>5, <1>6

\* The game is started.
LEMMA StartApplicationKeeps ==
  ASSUME RecoveryInv, StartApplication
  PROVE  RecoveryInv'
  <1> USE DEF RecoveryInv, StartApplication, runVars, planVars, ReadFrame
  <1>1. DeviceTypes' /\ flags.origin <= generation' /\ before.generation <= generation'
    BY CommandTypes DEF StartApplication
  <1>2. PlanInv'
    BY DEF PlanInv, ReadTypes
  <1>3. ReadTypes'
    BY <1>1 DEF ReadTypes, DeviceTypes, Calls
  <1>4. PlanTypes'
    BY <1>1, RecoveryAssumption DEF PlanTypes, DeviceTypes
  <1>5. ForcedInv'
    BY DEF ForcedInv, ReadTypes
  <1>6. CommandsFollowObservations'
    BY DEF CommandsFollowObservations, ReadTypes, Op
  <1>7. QED
    BY <1>1, <1>3, <1>4, <1>2, <1>5, <1>6

\* The screen is back, and a restart that was noted was the one that was forced.
LEMMA RestoredKeeps ==
  ASSUME RecoveryInv, Restored
  PROVE  RecoveryInv'
  <1> USE DEF RecoveryInv, Restored, deviceVars, sessionVars, runVars, planVars, ReadFrame
  <1>1. DeviceTypes'
    BY RecoveryAssumption DEF DeviceTypes, Games
  <1>2. PlanInv'
    BY DEF PlanInv, ReadTypes
  <1>3. ReadTypes'
    BY RecoveryAssumption DEF ReadTypes, DeviceTypes, Calls, NoFlags, FlagRecords, Reports
  <1>4. PlanTypes'
    BY RecoveryAssumption DEF PlanTypes, DeviceTypes, ReadTypes
  <1>5. ForcedInv'
    BY DEF ForcedInv, ReadTypes, NoFlags, FlagRecords
  <1>6. CommandsFollowObservations'
    BY DEF CommandsFollowObservations, ReadTypes, Op
  <1>7. QED
    BY <1>1, <1>3, <1>4, <1>2, <1>5, <1>6

\* The reconnection is not proved.
LEMMA NotProvedKeeps ==
  ASSUME RecoveryInv, NotProved
  PROVE  RecoveryInv'
  <1> USE DEF RecoveryInv, NotProved, deviceVars, sessionVars, runVars, planVars, ReadFrame
  <1>1. DeviceTypes'
    BY RecoveryAssumption DEF DeviceTypes, Games
  <1>2. ReadTypes'
    BY RecoveryAssumption DEF ReadTypes, DeviceTypes, Calls
  <1>3. PlanTypes'
    BY RecoveryAssumption DEF PlanTypes, DeviceTypes, ReadTypes
  <1>4. PlanInv'
    BY DEF PlanInv, ReadTypes
  <1>5. ForcedInv'
    BY DEF ForcedInv, ReadTypes
  <1>6. CommandsFollowObservations'
    BY DEF CommandsFollowObservations, ReadTypes, Op
  <1>7. QED
    BY <1>1, <1>2, <1>3, <1>4, <1>5, <1>6

\* A plan that is stopped or late asks nothing more.
LEMMA PlanStopsKeeps ==
  ASSUME RecoveryInv, PlanStops
  PROVE  RecoveryInv'
  <1> USE DEF RecoveryInv, PlanStops, deviceVars, RetryRequired, PlanFrame
  <1>1. DeviceTypes'
    BY RecoveryAssumption DEF DeviceTypes, Games
  <1>2. ReadTypes'
    BY RecoveryAssumption DEF ReadTypes, DeviceTypes, Calls
  <1>3. PlanTypes'
    BY RecoveryAssumption DEF PlanTypes, DeviceTypes, ReadTypes
  <1>4. PlanInv'
    BY DEF PlanInv, ReadTypes
  <1>5. ForcedInv'
    BY DEF ForcedInv, ReadTypes
  <1>6. CommandsFollowObservations'
    BY DEF CommandsFollowObservations, ReadTypes, Op
  <1>7. QED
    BY <1>1, <1>2, <1>3, <1>4, <1>5, <1>6

\* An observation fails.
LEMMA ObserveFailsKeeps ==
  ASSUME RecoveryInv, ObserveFails
  PROVE  RecoveryInv'
  <1> USE DEF RecoveryInv, ObserveFails, deviceVars, sessionVars, runVars, readVars, GiveUp
  <1>1. DeviceTypes'
    BY RecoveryAssumption DEF DeviceTypes, Games
  <1>2. ReadTypes'
    BY RecoveryAssumption DEF ReadTypes, DeviceTypes, Calls
  <1>3. PlanTypes'
    BY RecoveryAssumption DEF PlanTypes, DeviceTypes, ReadTypes
  <1>4. PlanInv'
    BY DEF PlanInv, ReadTypes
  <1>5. ForcedInv'
    BY DEF ForcedInv, ReadTypes
  <1>6. CommandsFollowObservations'
    BY DEF CommandsFollowObservations, ReadTypes, Op
  <1>7. QED
    BY <1>1, <1>2, <1>3, <1>4, <1>5, <1>6

\* An operation is done, allowed, or the end of the plan.
LEMMA ObserveKeeps ==
  ASSUME RecoveryInv, Observe
  PROVE  RecoveryInv'
  <1> USE DEF RecoveryInv, Observe, deviceVars, PlanFrame
  <1>1. Observation \in Observations /\ Observation.generation = generation
    BY ObservationTypes
  <1>2. PlanShape(ops)
    BY DEF PlanInv
  <1>3. \/ /\ UNCHANGED <<mode, at, sessions, restarted, report, ops, late>>
           /\ step' = "call" => Precondition(Op, Observation)
           /\ step' \in {"call", "wait", "retry"}
        \/ /\ UNCHANGED <<mode, at, sessions, restarted, report, late>>
           /\ step' = "top" /\ ops' = Tail(ops) /\ Len(ops) # 1
        \/ /\ step' = "top" /\ BeginSession /\ UNCHANGED late
           /\ ops' = <<>>
    <2>1. Len(ops) = 1 => Tail(ops) = <<>>
      BY <1>2, LastOfPlan
    <2>2. QED
      BY <2>1 DEF Advance, RetryRequired
  <1> HIDE DEF Observe
  <1>4. DeviceTypes'
    BY DEF Observe, DeviceTypes
  <1>5. PlanInv'
    <2>1. Len(ops) # 1 =>
            /\ PlanShape(Tail(ops))
            /\ (\A i \in DOMAIN ops : ops[i] # "stop") =>
                 (\A i \in DOMAIN Tail(ops) : Tail(ops)[i] # "stop")
      BY <1>2, PlanGoesOn
    <2>2. QED
      BY <1>3, <2>1 DEF Observe, PlanInv, BeginSession
  <1>6. ReadTypes'
    <2>1. flags' = flags /\ forced' = forced /\ ours' = ours /\ generation' = generation
      BY DEF Observe
    <2>2. NoReport \in Reports
      BY DEF NoReport, Reports
    <2>3. QED
      BY <1>3, <2>1, <2>2 DEF ReadTypes, BeginSession, Calls
  <1>7. PlanTypes'
    <2>1. ops' \in Seq(Operations)
      <3>1. ops' = ops \/ (ops' = Tail(ops) /\ Len(ops) # 1) \/ ops' = <<>>
        BY <1>3
      <3>2. <<>> \in Seq(Operations) /\ ops \in Seq(Operations)
        BY <1>2 DEF PlanShape
      <3>3. Len(ops) # 1 => Tail(ops) \in Seq(Operations)
        BY <1>2, PlanGoesOn DEF PlanShape
      <3>4. QED
        BY <3>1, <3>2, <3>3
    <2>2. QED
      BY <1>1, <1>3, <2>1, RecoveryAssumption DEF Observe, PlanTypes, DeviceTypes, BeginSession
  <1>8. ForcedInv'
    BY <1>3 DEF Observe, ForcedInv, ReadTypes, BeginSession
  <1>9. CommandsFollowObservations'
    BY <1>3 DEF Observe, CommandsFollowObservations, BeginSession, Op
  <1>10. QED
    BY <1>4, <1>6, <1>7, <1>5, <1>8, <1>9

\* The command is executed.
LEMMA ExecuteKeeps ==
  ASSUME RecoveryInv, Execute
  PROVE  RecoveryInv'
  <1> USE DEF RecoveryInv, Execute, PlanFrame
  <1>1. PlanShape(ops) /\ Op \in Operations
    BY FirstOfPlan DEF PlanInv
  <1>2. DeviceTypes' /\ flags.origin <= generation' /\ before.generation <= generation'
    BY <1>1, EffectKinds
  <1>3. PlanInv' /\ ours' \in BOOLEAN
    BY IssuedKeepsPlan DEF ReadTypes, Issued
  <1>4. ReadTypes'
    BY <1>2, <1>3 DEF ReadTypes, DeviceTypes
  <1>5. PlanTypes'
    BY <1>2, RecoveryAssumption DEF PlanTypes, DeviceTypes, Issued
  <1>6. ForcedInv'
    BY DEF ForcedInv, ReadTypes
  <1>7. CommandsFollowObservations'
    BY DEF CommandsFollowObservations
  <1>8. QED
    BY <1>2, <1>4, <1>5, <1>3, <1>6, <1>7

\* The command is refused.
LEMMA ExecuteRefusedKeeps ==
  ASSUME RecoveryInv, ExecuteRefused
  PROVE  RecoveryInv'
  <1> USE DEF RecoveryInv, ExecuteRefused, PlanFrame, RetryRequired
  <1>1. DeviceTypes' /\ flags.origin <= generation' /\ before.generation <= generation'
    BY CommandTypes
  <1>2. PlanInv'
    BY DEF PlanInv, ReadTypes
  <1>3. ReadTypes'
    BY <1>1 DEF ReadTypes, DeviceTypes
  <1>4. PlanTypes'
    BY <1>1, RecoveryAssumption DEF PlanTypes, DeviceTypes
  <1>5. ForcedInv'
    BY DEF ForcedInv, ReadTypes
  <1>6. CommandsFollowObservations'
    BY DEF CommandsFollowObservations, ReadTypes, Op
  <1>7. QED
    BY <1>1, <1>3, <1>4, <1>2, <1>5, <1>6

\* The command fails, and may have taken effect.
LEMMA ExecuteFailsKeeps ==
  ASSUME RecoveryInv, ExecuteFails
  PROVE  RecoveryInv'
  <1> USE DEF RecoveryInv, ExecuteFails, PlanFrame
  <1>1. PlanShape(ops) /\ Op \in Operations
    BY FirstOfPlan DEF PlanInv
  <1>2. DeviceTypes' /\ flags.origin <= generation' /\ before.generation <= generation'
    BY <1>1, CommandTypes, EffectKinds
  <1>3. PlanInv' /\ ours' \in BOOLEAN
    BY IssuedKeepsPlan DEF ReadTypes, Issued
  <1>4. ReadTypes'
    BY <1>2, <1>3 DEF ReadTypes, DeviceTypes
  <1>5. PlanTypes'
    BY <1>2, RecoveryAssumption DEF PlanTypes, DeviceTypes, Issued, ObservesAgain
  <1>6. ForcedInv'
    BY DEF ForcedInv, ReadTypes
  <1>7. CommandsFollowObservations'
    BY DEF CommandsFollowObservations, ObservesAgain
  <1>8. QED
    BY <1>2, <1>4, <1>5, <1>3, <1>6, <1>7

\* The device is observed behind the command.
LEMMA AwaitKeeps ==
  ASSUME RecoveryInv, Await
  PROVE  RecoveryInv'
  <1> USE DEF RecoveryInv, Await, deviceVars, PlanFrame
  <1>1. Observation \in Observations /\ Observation.generation = generation
    BY ObservationTypes
  <1>2. PlanShape(ops)
    BY DEF PlanInv
  <1>3. \/ /\ UNCHANGED <<mode, at, sessions, restarted, report, ops, late>>
           /\ step' # "call"
           /\ step' \in {"call", "wait", "retry"}
        \/ /\ UNCHANGED <<mode, at, sessions, restarted, report, late>>
           /\ step' = "top" /\ ops' = Tail(ops) /\ Len(ops) # 1
        \/ /\ step' = "top" /\ BeginSession /\ UNCHANGED late
           /\ ops' = <<>>
    <2>1. Len(ops) = 1 => Tail(ops) = <<>>
      BY <1>2, LastOfPlan
    <2>2. QED
      BY <2>1 DEF Advance, RetryRequired
  <1> HIDE DEF Await
  <1>4. DeviceTypes'
    BY DEF Await, DeviceTypes
  <1>5. PlanInv'
    <2>1. Len(ops) # 1 =>
            /\ PlanShape(Tail(ops))
            /\ (\A i \in DOMAIN ops : ops[i] # "stop") =>
                 (\A i \in DOMAIN Tail(ops) : Tail(ops)[i] # "stop")
      BY <1>2, PlanGoesOn
    <2>2. QED
      BY <1>3, <2>1 DEF Await, PlanInv, BeginSession
  <1>6. ReadTypes'
    <2>1. flags' = flags /\ forced' = forced /\ ours' = ours /\ generation' = generation
      BY DEF Await
    <2>2. NoReport \in Reports
      BY DEF NoReport, Reports
    <2>3. QED
      BY <1>3, <2>1, <2>2 DEF ReadTypes, BeginSession, Calls
  <1>7. PlanTypes'
    <2>1. ops' \in Seq(Operations)
      <3>1. ops' = ops \/ (ops' = Tail(ops) /\ Len(ops) # 1) \/ ops' = <<>>
        BY <1>3
      <3>2. <<>> \in Seq(Operations) /\ ops \in Seq(Operations)
        BY <1>2 DEF PlanShape
      <3>3. Len(ops) # 1 => Tail(ops) \in Seq(Operations)
        BY <1>2, PlanGoesOn DEF PlanShape
      <3>4. QED
        BY <3>1, <3>2, <3>3
    <2>2. QED
      BY <1>1, <1>3, <2>1, RecoveryAssumption DEF Await, PlanTypes, DeviceTypes, BeginSession
  <1>8. ForcedInv'
    BY <1>3 DEF Await, ForcedInv, ReadTypes, BeginSession
  <1>9. CommandsFollowObservations'
    BY <1>3 DEF Await, CommandsFollowObservations, BeginSession, Op
  <1>10. QED
    BY <1>4, <1>6, <1>7, <1>5, <1>8, <1>9

\* The game is started again.
LEMMA StartAgainKeeps ==
  ASSUME RecoveryInv, StartAgain
  PROVE  RecoveryInv'
  <1> USE DEF RecoveryInv, StartAgain, PlanFrame
  <1>1. DeviceTypes' /\ flags.origin <= generation' /\ before.generation <= generation'
    BY CommandTypes
  <1>2. PlanInv' /\ ours' \in BOOLEAN
    BY IssuedKeepsPlan DEF ReadTypes, Issued
  <1>3. ReadTypes'
    BY <1>1, <1>2 DEF ReadTypes, DeviceTypes
  <1>4. PlanTypes'
    BY <1>1, RecoveryAssumption DEF PlanTypes, DeviceTypes, Issued
  <1>5. ForcedInv'
    BY DEF ForcedInv, ReadTypes
  <1>6. CommandsFollowObservations'
    BY DEF CommandsFollowObservations
  <1>7. QED
    BY <1>1, <1>3, <1>4, <1>2, <1>5, <1>6

\* Another plan is selected, for a device that is gone.
LEMMA ReselectKeeps ==
  ASSUME RecoveryInv, Reselect
  PROVE  RecoveryInv'
  <1> USE DEF RecoveryInv, Reselect, deviceVars, sessionVars, runVars, readVars
  <1>1. Observation \in Observations /\ Observation.generation = generation
    BY ObservationTypes
  <1>2. DeviceTypes'
    BY RecoveryAssumption DEF DeviceTypes, Games
  <1>3. PlanInv'
    <2>1. Reselected \in {"exited", "disconnected"}
      BY DEF Reselected
    <2>2. Policy(Reselected) # <<>>
      BY <2>1, PlansForTheGone
    <2>3. QED
      BY <2>1, <2>2, PolicyShape DEF PlanInv, NewPlan
  <1>4. ReadTypes'
    BY RecoveryAssumption DEF ReadTypes, DeviceTypes, Calls
  <1>5. PlanTypes'
    <2>1. ops' \in Seq(Operations)
      BY PlansForTheGone, PolicyShape DEF PlanShape, Reselected, NewPlan
    <2>2. QED
      BY <1>1, <2>1, RecoveryAssumption DEF PlanTypes, WithinDeadline
  <1>6. ForcedInv'
    BY DEF ForcedInv, ReadTypes
  <1>7. CommandsFollowObservations'
    BY DEF CommandsFollowObservations, ReadTypes, Op
  <1>8. QED
    BY <1>2, <1>4, <1>5, <1>3, <1>6, <1>7

\* The plan ends the run.
LEMMA UnconfirmedKeeps ==
  ASSUME RecoveryInv, Unconfirmed
  PROVE  RecoveryInv'
  <1> USE DEF RecoveryInv, Unconfirmed, deviceVars, sessionVars, runVars, readVars, GiveUp
  <1>1. DeviceTypes'
    BY RecoveryAssumption DEF DeviceTypes, Games
  <1>2. ReadTypes'
    BY RecoveryAssumption DEF ReadTypes, DeviceTypes, Calls
  <1>3. PlanTypes'
    BY RecoveryAssumption DEF PlanTypes, DeviceTypes, ReadTypes
  <1>4. PlanInv'
    BY DEF PlanInv, ReadTypes
  <1>5. ForcedInv'
    BY DEF ForcedInv, ReadTypes
  <1>6. CommandsFollowObservations'
    BY DEF CommandsFollowObservations, ReadTypes, Op
  <1>7. QED
    BY <1>1, <1>2, <1>3, <1>4, <1>5, <1>6

\* A plan is selected.
LEMMA SelectPlanKeeps ==
  ASSUME RecoveryInv, SelectPlan
  PROVE  RecoveryInv'
  <1> USE DEF RecoveryInv, SelectPlan, deviceVars, sessionVars, runVars, readVars
  <1>1. Observation \in Observations /\ Observation.generation = generation
    BY ObservationTypes
  <1>2. DeviceTypes'
    BY RecoveryAssumption DEF DeviceTypes, Games
  <1>3. PlanInv'
    BY PolicyShape DEF PlanInv
  <1>4. ReadTypes'
    BY RecoveryAssumption DEF ReadTypes, DeviceTypes, Calls
  <1>5. PlanTypes'
    <2>1. ops' \in Seq(Operations)
      BY PolicyShape DEF PlanShape
    <2>2. QED
      BY <1>1, <2>1, RecoveryAssumption DEF PlanTypes
  <1>6. ForcedInv'
    BY DEF ForcedInv, ReadTypes
  <1>7. CommandsFollowObservations'
    BY DEF CommandsFollowObservations, ReadTypes, Op
  <1>8. QED
    BY <1>2, <1>4, <1>5, <1>3, <1>6, <1>7

\* There is no plan.
LEMMA NoPlanKeeps ==
  ASSUME RecoveryInv, NoPlan
  PROVE  RecoveryInv'
  <1> USE DEF RecoveryInv, NoPlan, deviceVars, sessionVars, runVars, readVars, GiveUp
  <1>1. DeviceTypes'
    BY RecoveryAssumption DEF DeviceTypes, Games
  <1>2. ReadTypes'
    BY RecoveryAssumption DEF ReadTypes, DeviceTypes, Calls
  <1>3. PlanTypes'
    BY RecoveryAssumption DEF PlanTypes, DeviceTypes, ReadTypes
  <1>4. PlanInv'
    BY DEF PlanInv, ReadTypes
  <1>5. ForcedInv'
    BY DEF ForcedInv, ReadTypes
  <1>6. CommandsFollowObservations'
    BY DEF CommandsFollowObservations, ReadTypes, Op
  <1>7. QED
    BY <1>1, <1>2, <1>3, <1>4, <1>5, <1>6

-----------------------------------------------------------------------------
(* The theorems.                                                           *)

\* The plan that opens a run.
LEMMA InitKeeps ==
  ASSUME Init
  PROVE  RecoveryInv
  <1> USE DEF Init
  <1>1. /\ 0 \in 0 .. MaxSessions /\ 0 < MaxSessions
        /\ 1 \in 1 .. MaxGeneration + 1 /\ 1 <= MaxGeneration
        /\ 0 \in 0 .. MaxTroubles
    BY RecoveryAssumption
  <1>2. DeviceTypes
    BY <1>1 DEF DeviceTypes, Games
  <1>3. ReadTypes
    <2>1. flags \in FlagRecords /\ flags.origin <= generation
      BY DEF NoFlags, FlagRecords
    <2>2. report \in Reports
      BY DEF NoReport, Reports
    <2>3. QED
      BY <2>1, <2>2 DEF ReadTypes
  <1>4. PlanTypes
    <2>1. Unseen \in Observations /\ Unseen.generation <= generation
      BY DEF Unseen, Observations, Games
    <2>2. ops \in Seq(Operations)
      BY VpnPrepares, PlanOfPreparations DEF PlanShape
    <2>3. QED
      BY <1>1, <2>1, <2>2 DEF PlanTypes
  <1>5. PlanInv
    BY VpnPrepares, PlanOfPreparations DEF PlanInv
  <1>6. ForcedInv /\ CommandsFollowObservations
    BY DEF ForcedInv, CommandsFollowObservations
  <1>7. QED
    BY <1>2, <1>3, <1>4, <1>5, <1>6 DEF RecoveryInv

\* Every step of the device, the attempt and the plan keeps the invariant.
LEMMA NextKeeps ==
  ASSUME RecoveryInv, [Next]_vars
  PROVE  RecoveryInv'
  <1>1. CASE World
    BY <1>1, TroubleKeeps, BootKeeps, FocusKeeps, AdbReturnsKeeps, StopRunKeeps,
       StepDeadlineKeeps, RecoveryDeadlineKeeps
    DEF World
  <1>2. CASE Reader
    BY <1>2, ReadFaultKeeps, RetryKeeps, SessionFailsKeeps, SessionEndsKeeps, CallFailsKeeps,
       DetectKeeps, LaunchInstanceKeeps, StillBootingKeeps, AliveKeeps, ReconnectDeviceKeeps,
       ForceStopKeeps, NoStopKeeps, LookAtGameKeeps, EnsureVpnKeeps, StartApplicationKeeps,
       RestoredKeeps, NotProvedKeeps
    DEF Reader
  <1>3. CASE Plan
    BY <1>3, PlanStopsKeeps, ObserveFailsKeeps, ObserveKeeps, ExecuteKeeps, ExecuteRefusedKeeps,
       ExecuteFailsKeeps, AwaitKeeps, StartAgainKeeps, ReselectKeeps, UnconfirmedKeeps
    DEF Plan
  <1>4. CASE SelectPlan \/ NoPlan
    BY <1>4, SelectPlanKeeps, NoPlanKeeps
  <1>5. CASE UNCHANGED vars
    BY <1>5
    DEF vars, deviceVars, sessionVars, runVars, readVars, planVars, RecoveryInv, DeviceTypes,
        ReadTypes, PlanTypes, PlanInv, ForcedInv, CommandsFollowObservations, Op
  <1>6. QED
    BY <1>1, <1>2, <1>3, <1>4, <1>5 DEF Next

\* The inductive invariant of the recovery.
THEOREM RecoveryHolds == Spec => []RecoveryInv
  <1>1. Init => RecoveryInv
    BY InitKeeps
  <1>2. RecoveryInv /\ [Next]_vars => RecoveryInv'
    BY NextKeeps
  <1>3. QED
    BY <1>1, <1>2, PTL DEF Spec

\* The device, the attempt and the plan keep their types: there is a plan exactly as
\* long as operations are left, and a call of the reader only within a session.
THEOREM TypeTheorem == Spec => []TypeOK
  <1>1. ASSUME RecoveryInv
        PROVE  TypeOK
    <2> USE <1>1 DEF RecoveryInv
    <2>1. flags.origin \in 0 .. generation /\ before.generation \in 0 .. generation
      BY RecoveryAssumption
      DEF DeviceTypes, ReadTypes, PlanTypes, FlagRecords, Observations
    <2>2. {flags.detected, flags.launched, flags.started} \subseteq BOOLEAN /\ seen.game \in Games
      BY DEF ReadTypes, PlanTypes, FlagRecords, Observations
    <2>3. \A i \in DOMAIN ops : ops[i] \in Operations
      BY DEF PlanTypes
    <2>4. (mode = "plan") = (ops # <<>>) \/ mode = "over"
      BY DEF PlanTypes, PlanInv, PlanShape
    <2>5. {adb, vpn, linked} \subseteq BOOLEAN
      BY DEF DeviceTypes
    <2>6. QED
      BY <2>1, <2>2, <2>3, <2>4, <2>5 DEF TypeOK, DeviceTypes, ReadTypes, PlanTypes
  <1>2. QED
    BY <1>1, RecoveryHolds, PTL

\* A command of a plan is decided on an observation younger than every command before
\* it, and one that allows it.
THEOREM CommandTheorem == Spec => []CommandsFollowObservations
  <1>1. RecoveryInv => CommandsFollowObservations
    BY DEF RecoveryInv
  <1>2. QED
    BY <1>1, RecoveryHolds, PTL

\* A step that stops the game, and is no trouble of the device, is a forced restart that
\* has not yet been noted, or the operation of a plan that has not started the game.
LEMMA StopsOnlyTheirs ==
  ASSUME RecoveryInv, [Next]_vars, game # "none", game' = "none", troubles' = troubles
  PROVE  ~ours
  <1>1. CASE World
    BY <1>1, RecoveryAssumption
    DEF RecoveryInv, PlanTypes, World, Trouble, Boot, Focus, AdbReturns, StopRun, StepDeadline,
        RecoveryDeadline, deviceVars
  <1>2. CASE Reader
    <2>1. CallFails \/ ForceStop
      BY <1>2
      DEF Reader, ReadFault, Retry, SessionFails, SessionEnds, Detect, LaunchInstance, Launch,
          StillBooting, Alive, ReconnectDevice, Reconnect, NoStop, LookAtGame, EnsureVpn, StartVpn,
          StartApplication, StartGame, Restored, NotProved, deviceVars
    <2>2. StopsNow
      BY <2>1
      DEF CallFails, ForceStop, NoEffect, Detached, StartVpn, StartGame, deviceVars
    <2>3. QED
      BY <2>2 DEF StopsNow, RecoveryInv, ForcedInv
  <1>3. CASE Plan
    <2>1. Execute \/ ExecuteFails
      BY <1>3
      DEF Plan, PlanStops, ObserveFails, GiveUp, Observe, ExecuteRefused, NoEffect, Detached, Await,
          StartAgain, StartGame, Reselect, Unconfirmed, deviceVars
    <2>2. mode = "plan" /\ PlanShape(ops)
      BY <2>1 DEF Execute, ExecuteFails, RecoveryInv, PlanInv
    <2>3. Op = ops[1] /\ Op \in Operations /\ 1 \in DOMAIN ops
      BY <2>2, FirstOfPlan
    <2>4. Effect(Op)
      BY <2>1 DEF Execute, ExecuteFails, NoEffect, Detached, deviceVars
    <2>5. Op = "stop"
      BY <2>3, <2>4, EffectKinds
    <2>6. QED
      BY <2>2, <2>3, <2>5 DEF RecoveryInv, PlanInv
  <1>4. CASE SelectPlan \/ NoPlan \/ UNCHANGED vars
    BY <1>4 DEF SelectPlan, NoPlan, GiveUp, vars, deviceVars
  <1>5. QED
    BY <1>1, <1>2, <1>3, <1>4 DEF Next

\* A game that a recovery has started is not stopped by the same recovery.
THEOREM StartedTheorem == Spec => StartedGameIsNotStopped
  <1>1. RecoveryInv /\ [Next]_vars =>
          [game # "none" /\ game' = "none" /\ troubles' = troubles => ~ours]_vars
    BY StopsOnlyTheirs
  <1>2. QED
    BY <1>1, RecoveryHolds, PTL DEF Spec, StartedGameIsNotStopped

\* A plan ends in a session only behind the observation that ends its last operation,
\* which starts the game.
LEMMA SessionsAreReady ==
  ASSUME RecoveryInv, [Next]_vars, mode = "plan", mode' = "session"
  PROVE  fresh' /\ seen'.connected /\ seen'.game = "front" /\ seen'.vpn
  <1>1. Observe \/ Await
    <2>1. CASE World
      BY <2>1
      DEF World, Trouble, Boot, Focus, AdbReturns, StopRun, StepDeadline, RecoveryDeadline,
          WorldFrame, runVars
    <2>2. CASE Reader
      BY <2>2
      DEF Reader, RecoveryInv, ReadTypes, ReadFault, Retry, SessionFails, SessionEnds, CallFails,
          Detect, LaunchInstance, StillBooting, Alive, ReconnectDevice, ForceStop, NoStop,
          LookAtGame, EnsureVpn, StartApplication, Restored, NotProved, ReadFrame, runVars
    <2>3. CASE Plan
      BY <2>3
      DEF Plan, PlanStops, RetryRequired, ObserveFails, GiveUp, Execute, ExecuteRefused,
          ExecuteFails, StartAgain, Reselect, Unconfirmed, runVars
    <2>4. CASE SelectPlan \/ NoPlan \/ UNCHANGED vars
      BY <2>4 DEF SelectPlan, NoPlan, vars, runVars
    <2>5. QED
      BY <2>1, <2>2, <2>3, <2>4 DEF Next
  <1>2. PlanShape(ops)
    BY DEF RecoveryInv, PlanInv
  <1>3. fresh' /\ seen' = Observation
    BY <1>1 DEF Observe, Await
  <1>4. Len(ops) = 1 /\ (AlreadyDone(Op, Observation) \/ Postcondition(Op, Observation))
    BY <1>1 DEF Observe, Await, Advance, RetryRequired
  <1>5. Op = "start"
    BY <1>2, <1>4, FirstOfPlan
  <1>6. AlreadyDone("start", Observation)
    BY <1>4, <1>5 DEF Postcondition
  <1>7. QED
    BY <1>3, <1>6 DEF AlreadyDone

\* A session begins only on a device seen connected behind the last command, with the
\* game in front and the VPN as the target wants it.
THEOREM ReadyTheorem == Spec => ReadyMeansReady
  <1>1. RecoveryInv /\ [Next]_vars =>
          [mode = "plan" /\ mode' = "session" =>
             fresh' /\ seen'.connected /\ seen'.game = "front" /\ seen'.vpn]_vars
    BY SessionsAreReady
  <1>2. QED
    BY <1>1, RecoveryHolds, PTL DEF Spec, ReadyMeansReady
=============================================================================
