---------------------------- MODULE InputChannel ----------------------------
(***************************************************************************)
(* The way of one input from the gate to the device: NativeInputGate with  *)
(* its evidence, DeviceSession, and ScrcpyControlClient with its socket    *)
(* and the contacts it holds.  The worker of the run makes every call; the *)
(* stopper seals the gate beside it; the connection, the guest and what it *)
(* receives are the environment's.                                         *)
(*                                                                         *)
(* A message is whole or "part" of one.  Pixels, coordinates and times are *)
(* left out: a query may fail, evidence may be refused for its contents.   *)
(* So is vpn_ui_step, which clicks past the gate.                          *)
(***************************************************************************)
EXTENDS Naturals, Sequences

CONSTANTS
  Commands,        \* what scrcpy::encode makes of the commands in use
  MaxChannels,     \* bound: handshakes
  MaxGenerations,  \* bound: connects and disconnects of the device
  MaxWaiting,      \* bound: messages still on the way when a command begins
  MaxSessions,     \* bound: sessions, each with a gate of its own
  MaxFaults        \* bound: breaks of the connection and exits of the guest

Contact == [touchDown |-> "touch", touchMove |-> "touch", touchUp |-> "touch",
            keyDown |-> "key", keyUp |-> "key"]
Messages == DOMAIN Contact
Contacts == {"touch", "key"}
Down == [touch |-> "touchDown", key |-> "keyDown"]
Up == [touch |-> "touchUp", key |-> "keyUp"]
Ups == {"touchUp", "keyUp"}

\* A key goes down with the first message of a command or not at all: before that one
\* submit() counts it as held (scrcpy_codec.cpp:95-100, scrcpy_control.cpp:218-219).
ASSUME ChannelAssumption ==
  /\ Commands \subseteq Seq(Messages) \ {<<>>}
  /\ \A c \in Commands : \A i \in DOMAIN c : c[i] = "keyDown" => i = 1
  /\ {MaxChannels, MaxGenerations, MaxWaiting, MaxSessions, MaxFaults} \subseteq Nat

VARIABLES
  (* The gate. *)
  stopped,      \* stopped_
  token,        \* stop_source_ asked to stop
  frame,        \* last_frame_: the evidence a submission uses up
  (* DeviceSession. *)
  connected,    \* connected_
  generation,   \* generation_
  control,      \* control_, the client
  (* The worker. *)
  pc,
  todo,         \* the messages of its command still to be sent
  basis,        \* the frame its command rests on
  result,       \* the last disposition, "none" while a command is on its way
  touched,      \* bytes of this command have left
  clean,        \* the last cleanup confirmed the release
  (* The environment. *)
  link,         \* "none", "up", "lost" (not to be seen yet) or "closed"
  wire,         \* handed to the socket, neither received nor lost
  pressed,      \* the contacts the guest holds down
  guest,        \* the instance runs
  mislaid,      \* contacts whose release was handed over and got lost
  (* For the properties and the bounds. *)
  garbled,      \* a message was sent behind a part of another
  late,         \* messages other than releases sent after the stop
  channel,      \* handshakes so far, the number of the channel
  sessions, faults

gateVars    == <<stopped, token, frame>>
deviceVars  == <<connected, generation, control>>
commandVars == <<todo, basis, result, touched>>
guestVars   == <<pressed, guest, faults>>
sendVars    == <<link, wire, mislaid, garbled>>
vars == <<gateVars, deviceVars, pc, commandVars, clean, guestVars, sendVars, late, channel, sessions>>

-----------------------------------------------------------------------------
NoFrame == [channel |-> 0, generation |-> 0]

\* rest: what a channel has left behind: its process or its forward, or no more than
\* the file on the device, which hinders the next handshake but not the release.
Fresh == [exists |-> TRUE, ready |-> FALSE, socket |-> FALSE, rest |-> "none", held |-> {},
          partial |-> FALSE, unresolved |-> FALSE, unconfirmed |-> FALSE]
NoControl == [Fresh EXCEPT !.exists = FALSE]

Init ==
  /\ stopped = TRUE /\ token = TRUE /\ frame = NoFrame
  /\ connected = FALSE /\ generation = 0 /\ control = NoControl
  /\ pc = "idle" /\ todo = <<>> /\ basis = NoFrame /\ result = "none" /\ touched = FALSE
  /\ clean = TRUE
  /\ link = "none" /\ wire = <<>> /\ pressed = {} /\ guest = TRUE /\ mislaid = {}
  /\ garbled = FALSE /\ late = 0 /\ channel = 0 /\ sessions = 0 /\ faults = 0

At(from, to) == pc = from /\ pc' = to

\* ScrcpyControlClient::connected: the peek sees a connection that was closed, not
\* one that was lost.
Live == control.ready /\ control.socket /\ link \in {"up", "lost"}

\* Slip: the gate does not ask for an unresolved submission.
ReadyWhenLive == connected /\ control.exists /\ Live

InputChannelReady == connected /\ control.exists /\ Live /\ ~control.unresolved

-----------------------------------------------------------------------------
(* What is sent.                                                           *)

\* What the guest holds behind a message.
Holding(holds, message) ==
  CASE message \in {"touchDown", "keyDown"} -> holds \cup {Contact[message]}
    [] message \in Ups -> holds \ {Contact[message]}
    [] OTHER -> holds

\* What the guest will hold when all that is on the way has arrived: what it holds or a
\* message presses, and no later message releases.
Outstanding ==
  {k \in Contacts :
     \/ k \in pressed /\ \A i \in DOMAIN wire : wire[i] # Up[k]
     \/ \E i \in DOMAIN wire : /\ wire[i] = Down[k]
                               /\ \A j \in DOMAIN wire : j > i => wire[j] # Up[k]}

\* Messages are handed to the socket.  They do not arrive over a connection that is not
\* up; a release is mislaid when the client could not know.
Send(messages, unknown) ==
  /\ wire' = IF link = "up" THEN wire \o messages ELSE wire
  /\ LET upped == {k \in Contacts : \E i \in DOMAIN messages : messages[i] = Up[k]} IN
     mislaid' = CASE link = "up" -> mislaid \ upped
                  [] link \in unknown -> mislaid \cup (upped \cap Outstanding)
                  [] OTHER -> mislaid
  /\ garbled' = (garbled \/ (control.partial /\ messages # <<>>))

-----------------------------------------------------------------------------
(* ScrcpyControlClient::close and DeviceSession::release_owned_inputs.     *)

\* The releases close() sends, the touch first, if it sends any.
Releases == (IF "touch" \in control.held THEN <<"touch">> ELSE <<>>)
            \o (IF "key" \in control.held THEN <<"key">> ELSE <<>>)

\* Slip: a part of a message does not keep the releases back.
SilentIfDead == ~Live /\ control.held # {}

\* Behind half a message, or into a closed connection, no release is sent.
Unreleasable == control.partial \/ (~Live /\ control.held # {})

\* Sending stops at the first release that fails.
Sendable == IF control.socket /\ ~Unreleasable THEN 0 .. Len(Releases) ELSE {0}

\* Slip: what could not be released is forgotten.
ForgetsHeld(n) == {}

Kept(n) == {k \in control.held : \A i \in 1 .. n : Releases[i] # k}

\* The child, the forward and the file go, or resist.
Leftovers == CASE control.rest = "none" -> {"none"}
               [] control.rest = "file" -> {"none", "file"}
               [] OTHER -> {"none", "file", "process"}

Closing(n, rest) ==
  [control EXCEPT !.ready = FALSE, !.socket = FALSE, !.rest = rest, !.held = Kept(n),
     !.unconfirmed = @ \/ (control.socket /\ (Unreleasable \/ n < Len(Releases)))]

Closings == {[client |-> Closing(n, rest), sent |-> [i \in 1 .. n |-> Up[Releases[i]]]] :
               n \in Sendable, rest \in Leftovers}

\* Slip: the socket is not given up.
LeavesSocket(c) == Send(c.sent, {"lost"}) /\ link' = link

CloseSends(c) ==
  /\ Send(c.sent, {"lost"})
  /\ link' = IF control.socket THEN "none" ELSE link

Released(c) == ~c.unconfirmed /\ c.held = {} /\ c.rest # "process"

\* Slip: an instance that cannot be asked counts as gone.
ExitSupposed == TRUE

\* The metadata answers, and shows that the process of the instance is not there.
ExitProven == ~guest

\* retire_exited_instance: a guest that is gone holds nothing any more.
Retired(c) == [c EXCEPT !.held = {}, !.partial = FALSE, !.unconfirmed = FALSE]

\* What release_owned_inputs may come to: the client as it is left, what it sent, and
\* the answer, which is no when the capture helper does not close.
Releasings ==
  IF ~control.exists
    THEN [client : {control}, sent : {<<>>}, released : BOOLEAN]
    ELSE (UNION { [client : {c.client}, sent : {c.sent}, released : {Released(c.client), FALSE}] :
                    c \in Closings })
         \cup (UNION { [client : {Retired(c.client)}, sent : {c.sent},
                        released : {c.client.rest # "process", FALSE}] :
                         c \in {d \in Closings : ~Released(d.client) /\ ExitProven} })

-----------------------------------------------------------------------------
(* Sessions and the connection of the device.                              *)

\* NativeExecutionSession with its gate; the run behind an unconfirmed release keeps
\* the device.
Session ==
  /\ At("idle", "ready") /\ clean /\ sessions < MaxSessions
  /\ sessions' = sessions + 1
  /\ stopped' = FALSE /\ token' = FALSE /\ frame' = NoFrame
  /\ result' = "none" /\ late' = 0
  /\ UNCHANGED <<deviceVars, todo, basis, touched, clean, guestVars, sendVars, channel>>

\* DeviceSession::connect: by a recovery behind disconnect(), or where no run is
\* active and ADB had gone.
Connect ==
  /\ pc \in {"idle", "ready"} /\ guest /\ ~control.unresolved
  /\ ~connected \/ (pc = "idle" /\ clean)
  /\ generation < MaxGenerations
  /\ connected' = TRUE /\ generation' = generation + 1 /\ control' = Fresh
  /\ UNCHANGED <<gateVars, pc, commandVars, clean, guestVars, sendVars, late, channel, sessions>>

\* DeviceSession::disconnect, by Reconnect, RestartInstance or the application: what is
\* not released stays connected.
Disconnect ==
  /\ pc \in {"idle", "ready"} /\ connected
  /\ generation < MaxGenerations
  /\ \E r \in Releasings :
       /\ CloseSends(r)
       /\ \/ r.released /\ control' = NoControl /\ connected' = FALSE /\ generation' = generation + 1
          \/ ~r.released /\ control' = r.client /\ UNCHANGED <<connected, generation>>
  /\ UNCHANGED <<gateVars, pc, commandVars, clean, guestVars, late, channel, sessions>>

\* The end of the session, or the last attempt of the coordinator behind it: the gate is
\* sealed before anything is released.
Cleanup ==
  /\ pc \in {"ready", "idle"} /\ pc' = "idle"
  /\ stopped' = TRUE /\ token' = TRUE
  /\ \E r \in Releasings : CloseSends(r) /\ control' = r.client /\ clean' = r.released
  /\ UNCHANGED <<frame, connected, generation, commandVars, guestVars, late, channel, sessions>>

\* stop() takes no lock: first the flag, then the token.
Stop ==
  /\ ~stopped /\ stopped' = TRUE
  /\ UNCHANGED <<token, frame, deviceVars, pc, commandVars, clean, guestVars, sendVars, late, channel,
                 sessions>>

Seal ==
  /\ stopped /\ ~token /\ token' = TRUE
  /\ UNCHANGED <<stopped, frame, deviceVars, pc, commandVars, clean, guestVars, sendVars, late, channel,
                 sessions>>

-----------------------------------------------------------------------------
(* Evidence and the channel.                                               *)

\* The old evidence goes first, whether the reading succeeds or not.
Capture ==
  /\ pc = "ready" /\ ~stopped
  /\ \/ frame' = NoFrame
     \/ connected /\ guest /\ frame' = [channel |-> channel, generation |-> generation]
  /\ UNCHANGED <<stopped, token, deviceVars, pc, commandVars, clean, guestVars, sendVars, late, channel,
                 sessions>>

\* What is left of the old channel is closed before another is opened.
PrepareChannel ==
  /\ pc = "ready" /\ ~stopped /\ ~InputChannelReady
  /\ IF token \/ ~connected \/ ~control.exists \/ control.unresolved
       THEN UNCHANGED <<control, sendVars, pc>>
       ELSE \E c \in Closings : CloseSends(c) /\ control' = c.client
                                /\ pc' = IF Released(c.client) THEN "opening" ELSE "ready"
  /\ UNCHANGED <<stopped, token, connected, generation, commandVars, clean, guestVars, late, channel,
                 sessions>>

\* Slip: the frame taken before the handshake stays.
PrepareKeepsFrame == PrepareChannel /\ UNCHANGED frame

\* prepare_for_input: the evidence goes with the old channel.
Prepare == PrepareChannel /\ frame' = NoFrame

\* ScrcpyControlClient::connect: not over the remains of another channel; an attempt
\* that fails closes again and may leave remains of its own.
Handshake ==
  /\ At("opening", "ready")
  /\ \/ /\ ~token /\ guest /\ control.rest = "none" /\ channel < MaxChannels
        /\ channel' = channel + 1 /\ link' = "up"
        /\ control' = [control EXCEPT !.ready = TRUE, !.socket = TRUE, !.rest = "process"]
     \/ /\ \E rest \in IF control.rest = "none" THEN {"none", "file", "process"} ELSE {control.rest} :
             control' = [control EXCEPT !.rest = rest]
        /\ UNCHANGED <<channel, link>>
  /\ UNCHANGED <<gateVars, connected, generation, commandVars, clean, guestVars, wire, mislaid, garbled,
                 late, sessions>>

\* settle_observed_input: the effect was seen, the channel it went through must rest
\* before another input.
Settle ==
  /\ pc = "ready" /\ control.exists /\ control.unresolved
  /\ \E c \in Closings : CloseSends(c) /\ control' = IF Released(c.client) THEN Fresh ELSE c.client
  /\ UNCHANGED <<gateVars, connected, generation, pc, commandVars, clean, guestVars, late, channel,
                 sessions>>

-----------------------------------------------------------------------------
(* One command.                                                            *)

Answer(disposition) == result' = disposition /\ todo' = <<>> /\ basis' = NoFrame

\* submit() up to the context: the stop, the channel, the evidence.
Refuse ==
  /\ pc = "ready"
  /\ \/ frame' = frame
     \/ ~stopped /\ ~InputChannelReady /\ frame' = NoFrame
  /\ Answer("rejected") /\ touched' = FALSE
  /\ UNCHANGED <<stopped, token, deviceVars, pc, clean, guestVars, sendVars, late, channel, sessions>>

\* The evidence is used up before the context is read, whatever comes of it.
Submit ==
  /\ At("ready", "context")
  /\ ~stopped /\ InputChannelReady /\ frame # NoFrame
  /\ Len(wire) <= MaxWaiting
  /\ todo' \in Commands /\ basis' = frame /\ frame' = NoFrame
  /\ result' = "none" /\ touched' = FALSE
  /\ UNCHANGED <<stopped, token, deviceVars, clean, guestVars, sendVars, late, channel, sessions>>

\* context_matches, a read: to fail here is to have sent nothing.
Context ==
  /\ pc = "context"
  /\ \/ /\ ~stopped /\ connected /\ basis.generation = generation
        /\ pc' = "execute" /\ UNCHANGED <<todo, basis, result>>
     \/ pc' = "ready" /\ Answer("rejected")
  /\ UNCHANGED <<gateVars, deviceVars, touched, clean, guestVars, sendVars, late, channel, sessions>>

\* A key counts as held before its DOWN is sent.
Begun(c) == [c EXCEPT !.held = IF Head(todo) = "keyDown" THEN @ \cup {"key"} ELSE @]

\* DeviceSession::execute and the entry of ScrcpyControlClient::submit: no handshake
\* here, and from here on an exception leaves the delivery open.
Execute ==
  /\ pc = "execute"
  /\ \/ /\ ~token /\ connected /\ Live /\ ~control.partial
        /\ pc' = "check" /\ control' = Begun(control) /\ UNCHANGED <<todo, basis, result>>
     \/ token /\ pc' = "ready" /\ Answer("rejected") /\ UNCHANGED control
     \/ /\ token \/ ~connected \/ ~Live \/ control.partial
        /\ pc' = "ready" /\ Answer("unresolved") /\ UNCHANGED control
  /\ UNCHANGED <<gateVars, connected, generation, touched, clean, guestVars, sendVars, late, channel,
                 sessions>>

\* Slip: the stop is looked at only when a command begins.
CheckSocketOnly ==
  /\ At("check", "put")
  /\ UNCHANGED <<gateVars, deviceVars, commandVars, clean, guestVars, sendVars, late, channel, sessions>>

\* wait_socket: the socket takes bytes, and nobody has asked to stop.
Check ==
  /\ At("check", "put") /\ ~token
  /\ UNCHANGED <<gateVars, deviceVars, commandVars, clean, guestVars, sendVars, late, channel, sessions>>

Late(message) == late' = late + (IF token /\ message \notin Ups THEN 1 ELSE 0)

Put ==
  /\ pc = "put"
  /\ LET message == Head(todo) contact == Contact[message] IN
       /\ Send(<<message>>, {"lost", "closed"}) /\ Late(message)
       /\ control' = [control EXCEPT !.partial = FALSE,
            !.held = CASE message \in Ups -> @ \ {contact}
                       [] message \in {"touchDown", "touchMove"} -> @ \cup {contact}
                       [] OTHER -> @]
  /\ touched' = TRUE
  /\ IF Len(todo) = 1
       THEN pc' = "ready" /\ Answer("submitted")
       ELSE pc' = "check" /\ todo' = Tail(todo) /\ UNCHANGED <<basis, result>>
  /\ UNCHANGED <<gateVars, connected, generation, clean, guestVars, link, channel, sessions>>

\* A part of the message left, then the socket, the clock or the stop put an end to it.
PutPart ==
  /\ At("put", "ready")
  /\ Send(<<"part">>, {}) /\ Late(Head(todo))
  /\ control' = [control EXCEPT !.partial = TRUE, !.unresolved = TRUE]
  /\ touched' = TRUE /\ Answer("unresolved")
  /\ UNCHANGED <<gateVars, connected, generation, clean, guestVars, link, channel, sessions>>

BreaksOff(disposition) ==
  /\ pc \in {"check", "put"} /\ pc' = "ready"
  /\ control' = [control EXCEPT !.unresolved = @ \/ touched]
  /\ Answer(disposition)
  /\ UNCHANGED <<gateVars, connected, generation, touched, clean, guestVars, sendVars, late, channel,
                 sessions>>

\* Slip: an exception of the backend is a rejection, whether it had begun or not.
FailAsRejected == BreaksOff("rejected")

\* The stop, the deadline or the socket between two messages, or before the first.
Fail == BreaksOff("unresolved")

-----------------------------------------------------------------------------
(* The connection and the guest.                                           *)

workerUnchanged == UNCHANGED <<gateVars, deviceVars, pc, commandVars, clean, garbled, late, channel,
                               sessions>>

Deliver ==
  /\ wire # <<>> /\ guest
  /\ pressed' = Holding(pressed, Head(wire)) /\ wire' = Tail(wire)
  /\ UNCHANGED <<link, mislaid, guest, faults>> /\ workerUnchanged

\* What a connection that is not up still held is gone.
Lose ==
  /\ wire # <<>> /\ link # "up"
  /\ wire' = <<>>
  /\ mislaid' = {k \in pressed : k \in mislaid \/ \E i \in DOMAIN wire : wire[i] = Up[k]}
  /\ UNCHANGED <<link, pressed, guest, faults>> /\ workerUnchanged

Breaks ==
  /\ link = "up" /\ faults < MaxFaults
  /\ link' \in {"lost", "closed"} /\ faults' = faults + 1
  /\ UNCHANGED <<wire, pressed, guest, mislaid>> /\ workerUnchanged

Shows ==
  /\ link = "lost" /\ link' = "closed"
  /\ UNCHANGED <<wire, pressed, guest, mislaid, faults>> /\ workerUnchanged

Exits ==
  /\ guest /\ faults < MaxFaults
  /\ guest' = FALSE /\ faults' = faults + 1
  /\ pressed' = {} /\ mislaid' = {} /\ wire' = <<>>
  /\ link' \in IF link = "up" THEN {"lost", "closed"} ELSE {link}
  /\ workerUnchanged

Restarts ==
  /\ ~guest /\ guest' = TRUE
  /\ UNCHANGED <<wire, pressed, link, mislaid, faults>> /\ workerUnchanged

-----------------------------------------------------------------------------
Worker == \/ Session \/ Connect \/ Disconnect \/ Cleanup
          \/ Capture \/ Prepare \/ Handshake \/ Settle
          \/ Refuse \/ Submit \/ Context \/ Execute \/ Check \/ Put \/ PutPart \/ Fail
Environment == \/ Deliver \/ Lose \/ Breaks \/ Shows \/ Exits \/ Restarts

Next == Worker \/ Stop \/ Seal \/ Environment

Spec == Init /\ [][Next]_vars

-----------------------------------------------------------------------------
(* Properties.                                                             *)

Frames == [channel : 0 .. MaxChannels, generation : 0 .. MaxGenerations]

TypeOK ==
  /\ stopped \in BOOLEAN /\ token \in BOOLEAN /\ frame \in Frames
  /\ connected \in BOOLEAN /\ generation \in 0 .. MaxGenerations
  /\ control \in [exists : BOOLEAN, ready : BOOLEAN, socket : BOOLEAN,
                  rest : {"none", "file", "process"}, held : SUBSET Contacts,
                  partial : BOOLEAN, unresolved : BOOLEAN, unconfirmed : BOOLEAN]
  /\ pc \in {"idle", "ready", "opening", "context", "execute", "check", "put"}
  /\ todo \in Seq(Messages) /\ basis \in Frames
  /\ result \in {"none", "submitted", "rejected", "unresolved"}
  /\ touched \in BOOLEAN /\ clean \in BOOLEAN
  /\ link \in {"none", "up", "lost", "closed"} /\ (link # "none") = control.socket
  /\ wire \in Seq(Messages \cup {"part"})
  /\ pressed \subseteq Contacts /\ mislaid \subseteq Contacts /\ guest \in BOOLEAN
  /\ garbled \in BOOLEAN /\ late \in Nat
  /\ channel \in 0 .. MaxChannels /\ sessions \in 0 .. MaxSessions /\ faults \in 0 .. MaxFaults

\* Behind half a message nothing more is sent on its channel: neither the next command
\* nor, in close(), the releases of what is held (scrcpy_control.cpp:211, 259-261).
NothingBehindAPart == ~garbled

\* A rejection is told only of a command no byte of which has left: whatever stopped it
\* behind its first byte, the executor hears "unresolved" (native_input_gate.cpp:208-222).
RejectedIsUnsent == result = "rejected" => ~touched

\* No contact is held by the guest that the client does not know it must release, but
\* those whose release was handed over and lost with the connection: through partial
\* sends, failed releases, a guest that exits, and every replacement of the client.
OwnedContacts == Outstanding \subseteq control.held \cup mislaid

\* After a cleanup that was confirmed nothing remains held, with the same exception; so
\* a guest that could not be asked must not pass for one that is gone
\* (device_session.cpp:163-172).
CleanIsReleased == pc = "idle" /\ clean => Outstanding \subseteq mislaid

\* Who holds what is known before and after a cleanup.
ContactsAreKnown == OwnedContacts /\ CleanIsReleased

\* Once stop() has returned, at most one message that is no release still leaves: the one
\* that had passed its check (devices/README.md:5 allows only releases).
OneAfterStop == late <= 1

\* An input is sent only on the channel, and in the connection, its evidence was taken
\* under: no handshake lies between the frame and the input (device_session.cpp:363-364).
SentOnItsChannel ==
  pc \in {"check", "put"} => basis.channel = channel /\ basis.generation = generation

\* While the delivery of an input is open on the channel no further command begins on it,
\* though the socket may be as healthy as ever (device_session.cpp:44-47).
NothingBesideUnresolved == pc \in {"check", "put"} => ~control.unresolved

\* What is open on a channel closes it for all that would follow.
OpenDeliveryBlocks == NothingBehindAPart /\ NothingBesideUnresolved

\* What the executor hears of an input is what became of it, and it became so where
\* the executor meant it.
SentAsReported == RejectedIsUnsent /\ SentOnItsChannel
=============================================================================
