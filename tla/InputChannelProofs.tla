------------------------- MODULE InputChannelProofs -------------------------
(***************************************************************************)
(* Theorems about the way of an input to the device: an inductive          *)
(* invariant of the gate, the client, the command and the guest, and the   *)
(* properties that follow from it.                                         *)
(***************************************************************************)
EXTENDS InputChannel, TLAPS

-----------------------------------------------------------------------------
(* The invariant.                                                          *)

\* The clients; a command between its evidence and its answer, past the context, and
\* on its way.
Clients == [exists : BOOLEAN, ready : BOOLEAN, socket : BOOLEAN,
            rest : {"none", "file", "process"}, held : SUBSET Contacts,
            partial : BOOLEAN, unresolved : BOOLEAN, unconfirmed : BOOLEAN]
Packets == Messages \cup {"part"}
Busy    == {"context", "execute", "check", "put"}
Sending == {"check", "put"}

\* There is a client exactly where the device is connected or a release is open, and a
\* socket only between a handshake and the next close.
ClientInv ==
  /\ ~connected => control = NoControl
  /\ ~control.exists => control = NoControl
  /\ pc \in {"idle", "opening"} => ~control.socket
  /\ pc = "opening" => control.exists
  /\ pc \in Sending => control.exists /\ control.socket

\* A command that is on its way: its evidence, its channel and its messages.
CommandInv ==
  /\ pc \in Busy =>
       /\ todo # <<>> /\ result = "none"
       /\ \A i \in 2 .. Len(todo) : todo[i] # "keyDown"
       /\ ~control.unresolved
       /\ basis.channel = channel
  /\ pc \in {"context", "execute"} => ~touched
  /\ pc \in Sending => ~control.partial /\ (todo[1] = "keyDown" => "key" \in control.held)
  /\ pc \in Busy \ {"context"} => basis.generation = generation
  /\ frame # NoFrame => pc # "opening" /\ frame.channel = channel

\* What was sent after the stop had passed its check before it.
LateInv == late \in {0, 1} /\ (~token \/ pc = "put" => late = 0)

\* A guest that is gone holds nothing, and nothing is on the way to it.
GuestInv == ~guest => link # "up" /\ pressed = {} /\ wire = <<>>

ChannelInv ==
  /\ TypeOK
  /\ ClientInv
  /\ CommandInv
  /\ LateInv
  /\ GuestInv
  /\ RejectedIsUnsent
  /\ NothingBehindAPart
  /\ ContactsAreKnown

-----------------------------------------------------------------------------
(* What is on the way.                                                     *)

\* The contacts a sequence of messages releases.
Upped(messages) == {k \in Contacts : \E i \in DOMAIN messages : messages[i] = Up[k]}

\* Where nothing arrives and nothing is sent, what will be held stays the same.
LEMMA OutstandingStays ==
  ASSUME UNCHANGED <<pressed, wire>>
  PROVE  Outstanding' = Outstanding
  BY DEF Outstanding

\* A guest that holds nothing, and to which nothing is on the way, will hold nothing.
LEMMA NothingOutstanding ==
  ASSUME pressed' = {}, wire' = <<>>
  PROVE  Outstanding' = {}
  BY DEF Outstanding

\* What is sent takes away what it releases and adds no more than what it presses.
LEMMA SendOutstanding ==
  ASSUME NEW messages \in Seq(Packets), wire \in Seq(Packets),
         wire' = wire \o messages, pressed' = pressed,
         NEW k \in Contacts, k \in Outstanding'
  PROVE  \/ k \in Outstanding /\ k \notin Upped(messages)
         \/ \E i \in DOMAIN messages : messages[i] = Down[k]
  <1> DEFINE n == Len(wire)
  <1>1. /\ n \in Nat /\ DOMAIN wire = 1 .. n
        /\ DOMAIN messages = 1 .. Len(messages) /\ Len(messages) \in Nat
        /\ DOMAIN wire' = 1 .. n + Len(messages)
    OBVIOUS
  <1>2. \A i \in DOMAIN wire : wire'[i] = wire[i]
    OBVIOUS
  <1>3. \A i \in DOMAIN messages : wire'[n + i] = messages[i]
    OBVIOUS
  <1> HIDE DEF n
  <1>4. \A i \in DOMAIN wire : i \in DOMAIN wire'
    BY <1>1
  <1>5. \A i \in DOMAIN messages : n + i \in DOMAIN wire'
    BY <1>1
  <1>6. CASE k \in pressed /\ \A i \in DOMAIN wire' : wire'[i] # Up[k]
    <2>1. k \in Outstanding
      BY <1>6, <1>2, <1>4 DEF Outstanding
    <2>2. k \notin Upped(messages)
      BY <1>6, <1>3, <1>5 DEF Upped
    <2>3. QED
      BY <2>1, <2>2
  <1>7. CASE \E i \in DOMAIN wire' : /\ wire'[i] = Down[k]
                                     /\ \A j \in DOMAIN wire' : j > i => wire'[j] # Up[k]
    <2>1. PICK i \in DOMAIN wire' : /\ wire'[i] = Down[k]
                                    /\ \A j \in DOMAIN wire' : j > i => wire'[j] # Up[k]
      BY <1>7
    <2>2. CASE i \in DOMAIN wire
      <3>1. k \in Outstanding
        BY <2>1, <2>2, <1>2, <1>4 DEF Outstanding
      <3>2. \A j \in DOMAIN messages : n + j > i
        BY <2>2, <1>1
      <3>3. k \notin Upped(messages)
        BY <2>1, <3>2, <1>3, <1>5 DEF Upped
      <3>4. QED
        BY <3>1, <3>3
    <2>3. CASE i \notin DOMAIN wire
      <3>1. i - n \in DOMAIN messages /\ n + (i - n) = i
        BY <2>1, <2>3, <1>1
      <3>2. messages[i - n] = Down[k]
        BY <3>1, <1>3, <2>1
      <3>3. QED
        BY <3>1, <3>2
    <2>4. QED
      BY <2>2, <2>3
  <1>8. QED
    BY <1>6, <1>7 DEF Outstanding

\* A message that arrives presses and releases nothing that was not to be expected.
LEMMA DeliverOutstanding ==
  ASSUME wire \in Seq(Packets), wire # <<>>,
         pressed' = Holding(pressed, Head(wire)), wire' = Tail(wire),
         NEW k \in Contacts, k \in Outstanding'
  PROVE  k \in Outstanding
  <1>1. /\ Len(wire) \in Nat /\ Len(wire) >= 1 /\ DOMAIN wire = 1 .. Len(wire)
        /\ DOMAIN wire' = 1 .. Len(wire) - 1 /\ Head(wire) = wire[1]
    OBVIOUS
  <1>2. \A i \in DOMAIN wire' : wire'[i] = wire[i + 1] /\ i + 1 \in DOMAIN wire
    OBVIOUS
  <1>3. \A j \in DOMAIN wire : j > 1 => j - 1 \in DOMAIN wire' /\ wire'[j - 1] = wire[j]
    <2>1. ASSUME NEW j \in DOMAIN wire, j > 1
          PROVE  j - 1 \in DOMAIN wire' /\ (j - 1) + 1 = j
      BY <2>1, <1>1
    <2>2. QED
      BY <2>1, <1>2
  <1>4. CASE k \in pressed' /\ \A i \in DOMAIN wire' : wire'[i] # Up[k]
    <2>1. \A j \in DOMAIN wire : j > 1 => wire[j] # Up[k]
      BY <1>4, <1>3
    <2>2. 1 \in DOMAIN wire /\ \A j \in DOMAIN wire : j = 1 \/ j > 1
      BY <1>1
    <2>3. CASE wire[1] = Down[k]
      BY <2>1, <2>2, <2>3 DEF Outstanding
    <2>4. CASE wire[1] # Down[k]
      <3>1. k \in pressed /\ wire[1] # Up[k]
        BY <1>1, <1>4, <2>4 DEF Holding, Contacts, Down, Up, Ups, Contact
      <3>2. QED
        BY <2>1, <2>2, <3>1 DEF Outstanding
    <2>5. QED
      BY <2>3, <2>4
  <1>5. CASE \E i \in DOMAIN wire' : /\ wire'[i] = Down[k]
                                     /\ \A j \in DOMAIN wire' : j > i => wire'[j] # Up[k]
    <2>1. PICK i \in DOMAIN wire' : /\ wire'[i] = Down[k]
                                    /\ \A j \in DOMAIN wire' : j > i => wire'[j] # Up[k]
      BY <1>5
    <2>2. i + 1 \in DOMAIN wire /\ wire[i + 1] = Down[k]
      BY <2>1, <1>2
    <2>3. ASSUME NEW j \in DOMAIN wire, j > i + 1
          PROVE  wire[j] # Up[k]
      <3>1. j > 1 /\ j - 1 > i
        BY <2>1, <2>3, <1>1
      <3>2. QED
        BY <3>1, <2>1, <1>3
    <2>4. QED
      BY <2>2, <2>3 DEF Outstanding
  <1>6. QED
    BY <1>4, <1>5 DEF Outstanding

-----------------------------------------------------------------------------
(* What a close may come to.                                               *)

\* A close as the invariant sees it: the client it leaves, and what it sent.
Closed(client, sent) ==
  /\ client \in Clients /\ ~client.socket /\ ~client.ready
  /\ client.exists = control.exists
  /\ ~control.exists => client = control
  /\ sent \in Seq(Ups)
  /\ sent # <<>> => control.socket /\ ~control.partial /\ link \in {"up", "lost"}
  /\ ~guest \/ control.held \subseteq client.held \cup Upped(sent)

\* close() sends releases only, only over a socket that can take them, and what it did
\* not release it still knows.
LEMMA ClosingIsClosed ==
  ASSUME ChannelInv, control.exists, NEW c \in Closings
  PROVE  Closed(c.client, c.sent)
  <1>1. control \in Clients
    BY DEF ChannelInv, TypeOK, Clients
  <1>2. PICK n \in Sendable, rest \in Leftovers :
          c = [client |-> Closing(n, rest), sent |-> [i \in 1 .. n |-> Up[Releases[i]]]]
    BY DEF Closings
  <1>3. /\ Releases \in Seq(Contacts) /\ Len(Releases) \in Nat
        /\ Len(Releases) > 0 => control.held # {}
        /\ DOMAIN Releases = 1 .. Len(Releases)
    <2> DEFINE one(k) == IF k \in control.held THEN <<k>> ELSE <<>>
    <2>1. \A k \in Contacts : one(k) \in Seq(Contacts)
      <3>1. ASSUME NEW k \in Contacts
            PROVE  <<k>> \in Seq(Contacts) /\ <<>> \in Seq(Contacts)
        OBVIOUS
      <3>2. QED
        BY <3>1
    <2>2. \A k \in Contacts : one(k) # <<>> => control.held # {}
      OBVIOUS
    <2>3. Releases = one("touch") \o one("key") /\ {"touch", "key"} \subseteq Contacts
      BY DEF Releases, Contacts
    <2> HIDE DEF one
    <2>4. QED
      BY <2>1, <2>2, <2>3
  <1>4. /\ n \in Nat /\ n <= Len(Releases)
        /\ n > 0 => control.socket /\ ~Unreleasable
    BY <1>2, <1>3 DEF Sendable
  <1>5. \A i \in 1 .. n : Releases[i] \in Contacts
    BY <1>3, <1>4
  <1>6. \A k \in Contacts : Up[k] \in Ups
    BY DEF Contacts, Up, Ups
  <1>7. c.client = Closing(n, rest) /\ c.sent = [i \in 1 .. n |-> Up[Releases[i]]]
    BY <1>2
  <1>8. c.sent \in Seq(Ups) /\ DOMAIN c.sent = 1 .. n
    BY <1>4, <1>5, <1>6, <1>7
  <1>9. rest \in {"none", "file", "process"}
    BY <1>2 DEF Leftovers
  <1>10. Kept(n) \subseteq control.held
    BY DEF Kept
  <1>11. Closing(n, rest) \in Clients
    BY <1>1, <1>9, <1>10 DEF Closing, Clients
  <1>12. /\ Closing(n, rest).held = Kept(n)
         /\ ~Closing(n, rest).socket /\ ~Closing(n, rest).ready
         /\ Closing(n, rest).exists = control.exists
    BY <1>1 DEF Closing, Clients
  <1>13. c.sent # <<>> => control.socket /\ ~control.partial /\ link \in {"up", "lost"}
    <2>1. c.sent # <<>> => n > 0
      BY <1>4, <1>7
    <2>2. QED
      BY <2>1, <1>3, <1>4 DEF Unreleasable, Live
  <1>14. control.held \subseteq c.client.held \cup Upped(c.sent)
    <2>1. ASSUME NEW k \in control.held, k \notin Kept(n)
          PROVE  k \in Upped(c.sent)
      <3>1. k \in Contacts
        BY <1>1 DEF Clients
      <3>2. PICK i \in 1 .. n : Releases[i] = k
        BY <2>1 DEF Kept
      <3>3. i \in DOMAIN c.sent /\ c.sent[i] = Up[k]
        BY <3>2, <1>7, <1>8
      <3>4. QED
        BY <3>1, <3>3 DEF Upped
    <2>2. QED
      BY <2>1, <1>7, <1>12
  <1>15. QED
    BY <1>7, <1>8, <1>11, <1>12, <1>13, <1>14 DEF Closed

\* A release that is confirmed, of whatever kind, leaves nothing held.
LEMMA ReleasingIsClosed ==
  ASSUME ChannelInv, NEW r \in Releasings
  PROVE  /\ Closed(r.client, r.sent)
         /\ r.released => r.client.held = {}
         /\ r.released \in BOOLEAN
  <1>1. control \in Clients
    BY DEF ChannelInv, TypeOK, Clients
  <1>2. CASE ~control.exists
    <2>1. r.client = control /\ r.sent = <<>> /\ r.released \in BOOLEAN
      BY <1>2 DEF Releasings
    <2>2. control = NoControl
      BY <1>2 DEF ChannelInv, ClientInv
    <2>3. ~control.socket /\ ~control.ready /\ control.held = {}
      BY <2>2 DEF NoControl, Fresh
    <2>4. <<>> \in Seq(Ups)
      OBVIOUS
    <2>5. QED
      BY <1>1, <2>1, <2>3, <2>4 DEF Closed
  <1>3. CASE control.exists
    <2>1. /\ r.released \in BOOLEAN
          /\ \/ \E c \in Closings : /\ r.client = c.client /\ r.sent = c.sent
                                    /\ r.released => Released(c.client)
             \/ \E c \in Closings : r.client = Retired(c.client) /\ r.sent = c.sent /\ ~guest
      <3> DEFINE plain(c) == [client : {c.client}, sent : {c.sent},
                              released : {Released(c.client), FALSE}]
      <3> DEFINE exited(c) == [client : {Retired(c.client)}, sent : {c.sent},
                               released : {c.client.rest # "process", FALSE}]
      <3> DEFINE gone == {d \in Closings : ~Released(d.client) /\ ExitProven}
      <3>1. r \in UNION {plain(c) : c \in Closings} \/ r \in UNION {exited(c) : c \in gone}
        BY <1>3 DEF Releasings
      <3>2. \A c \in Closings : r \in plain(c) =>
              /\ r.client = c.client /\ r.sent = c.sent
              /\ (r.released => Released(c.client)) /\ r.released \in BOOLEAN
        BY DEF Released
      <3>3. \A c \in gone : r \in exited(c) =>
              /\ r.client = Retired(c.client) /\ r.sent = c.sent /\ c \in Closings /\ ~guest
              /\ r.released \in BOOLEAN
        BY DEF ExitProven
      <3> HIDE DEF plain, exited, gone
      <3>4. (\E c \in Closings : r \in plain(c)) \/ (\E c \in gone : r \in exited(c))
        BY <3>1
      <3>5. QED
        BY <3>2, <3>3, <3>4
    <2>2. CASE \E c \in Closings : /\ r.client = c.client /\ r.sent = c.sent
                                   /\ r.released => Released(c.client)
      BY <1>3, <2>1, <2>2, ClosingIsClosed DEF Released
    <2>3. CASE \E c \in Closings : r.client = Retired(c.client) /\ r.sent = c.sent /\ ~guest
      <3>1. PICK c \in Closings : r.client = Retired(c.client) /\ r.sent = c.sent
        BY <2>3
      <3>2. Closed(c.client, c.sent)
        BY <1>3, ClosingIsClosed
      <3>3. /\ Retired(c.client) \in Clients /\ Retired(c.client).held = {}
            /\ ~Retired(c.client).socket /\ ~Retired(c.client).ready
            /\ Retired(c.client).exists = control.exists
        BY <3>2 DEF Closed, Retired, Clients
      <3>4. QED
        BY <1>3, <2>1, <2>3, <3>1, <3>2, <3>3 DEF Closed
    <2>4. QED
      BY <2>1, <2>2, <2>3
  <1>4. QED
    BY <1>2, <1>3

\* The releases of a close keep the account: what will still be held the client knows
\* or it is mislaid, and where there was no socket nothing changes at all.
LEMMA CloseKeepsAccount ==
  ASSUME ChannelInv, NEW c, Closed(c.client, c.sent), CloseSends(c), UNCHANGED <<pressed, guest>>
  PROVE  /\ Outstanding' \subseteq c.client.held \cup mislaid'
         /\ link' = "none"
         /\ wire' \in Seq(Packets) /\ mislaid' \subseteq Contacts
         /\ garbled' = FALSE
         /\ ~guest => wire' = <<>>
         /\ ~control.socket => wire' = wire /\ mislaid' = mislaid
  <1> USE DEF CloseSends, Send
  <1> DEFINE upped == Upped(c.sent)
  <1>1. /\ wire \in Seq(Packets) /\ mislaid \subseteq Contacts /\ pressed \subseteq Contacts
        /\ garbled = FALSE
        /\ link \in {"none", "up", "lost", "closed"} /\ (link # "none") = control.socket
        /\ Outstanding \subseteq control.held \cup mislaid
        /\ ~guest => link # "up" /\ wire = <<>> /\ pressed = {}
    BY DEF ChannelInv, TypeOK, Packets, NothingBehindAPart, ContactsAreKnown, OwnedContacts,
           GuestInv
  <1>2. c.sent \in Seq(Packets) /\ \A i \in DOMAIN c.sent : c.sent[i] \in Ups
    BY DEF Closed, Packets, Ups, Messages, Contact
  <1>3. /\ link = "up" => mislaid' = mislaid \ upped /\ wire' = wire \o c.sent
        /\ link = "lost" => mislaid' = mislaid \cup (upped \cap Outstanding) /\ wire' = wire
        /\ link \in {"none", "closed"} => mislaid' = mislaid /\ wire' = wire
    BY DEF Upped
  <1>4. Outstanding \subseteq Contacts /\ Outstanding' \subseteq Contacts
    BY DEF Outstanding
  <1>5. link' = "none"
    BY <1>1
  <1>6. garbled' = FALSE
    BY <1>1 DEF Closed
  <1>7. wire' \in Seq(Packets) /\ mislaid' \subseteq Contacts
    <2> HIDE DEF CloseSends, Send
    <2>1. link = "up" => wire \o c.sent \in Seq(Packets)
      BY <1>1, <1>2
    <2>2. QED
      BY <1>1, <1>3, <1>4, <2>1
  <1>8. ~control.socket => wire' = wire /\ mislaid' = mislaid
    BY <1>1, <1>3
  <1>9. ~guest => wire' = <<>>
    BY <1>1, <1>3
  <1> HIDE DEF CloseSends, Send
  <1>10. ASSUME ~guest
         PROVE  Outstanding' = {}
    BY <1>1, <1>9, <1>10, NothingOutstanding
  <1>11. ASSUME guest
         PROVE  Outstanding' \subseteq c.client.held \cup mislaid'
    <2>1. control.held \subseteq c.client.held \cup upped
      BY <1>11 DEF Closed
    <2>2. CASE link = "up"
      <3>1. ASSUME NEW k \in Outstanding'
            PROVE  k \in Outstanding /\ k \notin upped
        <4>1. \A i \in DOMAIN c.sent : c.sent[i] # Down[k]
          BY <1>2, <1>4 DEF Ups, Down, Contacts
        <4>2. QED
          BY <4>1, <1>1, <1>2, <1>3, <1>4, <2>2, SendOutstanding
      <3>2. QED
        BY <3>1, <2>1, <2>2, <1>1, <1>3
    <2>3. CASE link = "lost"
      <3>1. Outstanding' = Outstanding
        BY <1>3, <2>3, OutstandingStays
      <3>2. QED
        BY <3>1, <2>1, <2>3, <1>1, <1>3
    <2>4. CASE link \in {"none", "closed"}
      <3>1. Outstanding' = Outstanding
        BY <1>3, <2>4, OutstandingStays
      <3>2. upped = {}
        BY <2>4 DEF Closed, Upped
      <3>3. QED
        BY <3>1, <3>2, <2>1, <2>4, <1>1, <1>3
    <2>5. QED
      BY <1>1, <2>2, <2>3, <2>4
  <1>12. QED
    BY <1>5, <1>6, <1>7, <1>8, <1>9, <1>10, <1>11

-----------------------------------------------------------------------------
(* The steps that hand nothing to the socket.                               *)

\* What a command has still to send may be dropped.
LEMMA TodoDropped ==
  ASSUME todo \in Seq(Messages), todo' = todo \/ todo' = <<>>
  PROVE  todo' \in Seq(Messages)
  <1>1. <<>> \in Seq(Messages)
    OBVIOUS
  <1>2. QED
    BY <1>1

\* A session begins behind a confirmed cleanup, with a gate of its own.
LEMMA SessionKeeps ==
  ASSUME ChannelInv, Session
  PROVE  ChannelInv'
  <1> USE DEF ChannelInv, Session, At, deviceVars, guestVars, sendVars
  <1>1. control' \in Clients /\ (link' # "none") = control'.socket
    BY DEF TypeOK, Clients
  <1>2. frame' \in Frames /\ basis' \in Frames
    BY ChannelAssumption DEF TypeOK, Frames, NoFrame
  <1>3. todo' \in Seq(Messages)
    BY ChannelAssumption DEF TypeOK
  <1>4. TypeOK'
    <2>1. sessions' \in 0 .. MaxSessions
      BY ChannelAssumption DEF TypeOK
    <2>2. QED
      BY <1>1, <1>2, <1>3, <2>1 DEF TypeOK, Clients
  <1>5. ClientInv'
    BY DEF TypeOK, ClientInv, Live, Sending
  <1>6. CommandInv'
    BY ChannelAssumption DEF TypeOK, CommandInv, Busy, Sending
  <1>7. LateInv' /\ GuestInv'
    BY DEF LateInv, GuestInv
  <1>8. RejectedIsUnsent' /\ NothingBehindAPart'
    BY DEF RejectedIsUnsent, NothingBehindAPart, CommandInv, Busy
  <1>9. ContactsAreKnown'
    BY OutstandingStays DEF ContactsAreKnown, OwnedContacts, CleanIsReleased
  <1>10. QED
    BY <1>4, <1>5, <1>6, <1>7, <1>8, <1>9

\* A reading replaces the evidence by one of the channel and the connection it was taken in.
LEMMA CaptureKeeps ==
  ASSUME ChannelInv, Capture
  PROVE  ChannelInv'
  <1> USE DEF ChannelInv, Capture, deviceVars, commandVars, guestVars, sendVars
  <1>1. control' \in Clients /\ (link' # "none") = control'.socket
    BY DEF TypeOK, Clients
  <1>2. frame' \in Frames /\ basis' \in Frames
    BY ChannelAssumption DEF TypeOK, Frames, NoFrame
  <1>3. todo' \in Seq(Messages)
    BY ChannelAssumption DEF TypeOK
  <1>4. TypeOK'
    BY <1>1, <1>2, <1>3, ChannelAssumption DEF TypeOK, Clients
  <1>5. ClientInv'
    BY DEF TypeOK, ClientInv, Live, Sending
  <1>6. CommandInv'
    BY ChannelAssumption DEF TypeOK, CommandInv, Busy, Sending, NoFrame, ClientInv
  <1>7. LateInv' /\ GuestInv'
    BY DEF LateInv, GuestInv
  <1>8. RejectedIsUnsent' /\ NothingBehindAPart'
    BY DEF RejectedIsUnsent, NothingBehindAPart, CommandInv, Busy
  <1>9. ContactsAreKnown'
    BY OutstandingStays DEF ContactsAreKnown, OwnedContacts, CleanIsReleased
  <1>10. QED
    BY <1>4, <1>5, <1>6, <1>7, <1>8, <1>9

\* A refusal before the context sends nothing and leaves the client alone.
LEMMA RefuseKeeps ==
  ASSUME ChannelInv, Refuse
  PROVE  ChannelInv'
  <1> USE DEF ChannelInv, Refuse, Answer, deviceVars, guestVars, sendVars
  <1>1. control' \in Clients /\ (link' # "none") = control'.socket
    BY DEF TypeOK, Clients
  <1>2. frame' \in Frames /\ basis' \in Frames
    BY ChannelAssumption DEF TypeOK, Frames, NoFrame
  <1>3. todo' \in Seq(Messages)
    BY ChannelAssumption DEF TypeOK
  <1>4. TypeOK'
    BY <1>1, <1>2, <1>3, ChannelAssumption DEF TypeOK, Clients
  <1>5. ClientInv'
    BY DEF TypeOK, ClientInv, Live, Sending
  <1>6. CommandInv'
    BY ChannelAssumption DEF TypeOK, CommandInv, Busy, Sending
  <1>7. LateInv' /\ GuestInv'
    BY DEF LateInv, GuestInv
  <1>8. RejectedIsUnsent' /\ NothingBehindAPart'
    BY DEF RejectedIsUnsent, NothingBehindAPart, CommandInv, Busy
  <1>9. ContactsAreKnown'
    BY OutstandingStays DEF ContactsAreKnown, OwnedContacts, CleanIsReleased
  <1>10. QED
    BY <1>4, <1>5, <1>6, <1>7, <1>8, <1>9

\* A command begins with evidence of its channel, while no delivery is open.
LEMMA SubmitKeeps ==
  ASSUME ChannelInv, Submit
  PROVE  ChannelInv'
  <1> USE DEF ChannelInv, Submit, At, Frames, NoFrame, deviceVars, guestVars, sendVars
  <1>1. control' \in Clients /\ (link' # "none") = control'.socket
    BY DEF TypeOK, Clients
  <1>2. frame' \in Frames /\ basis' \in Frames
    BY ChannelAssumption DEF TypeOK, Frames, NoFrame
  <1>3. todo' \in Seq(Messages)
    BY ChannelAssumption DEF TypeOK
  <1>4. TypeOK'
    BY <1>1, <1>2, <1>3, ChannelAssumption DEF TypeOK, Clients
  <1>5. ClientInv'
    BY DEF TypeOK, ClientInv, Live, Sending
  <1>6. CommandInv'
    BY ChannelAssumption DEF TypeOK, CommandInv, Busy, Sending, InputChannelReady
  <1>7. LateInv' /\ GuestInv'
    BY DEF LateInv, GuestInv
  <1>8. RejectedIsUnsent' /\ NothingBehindAPart'
    BY DEF RejectedIsUnsent, NothingBehindAPart, CommandInv, Busy
  <1>9. ContactsAreKnown'
    BY OutstandingStays DEF ContactsAreKnown, OwnedContacts, CleanIsReleased
  <1>10. QED
    BY <1>4, <1>5, <1>6, <1>7, <1>8, <1>9

\* The context holds the command to the connection of its evidence.
LEMMA ContextKeeps ==
  ASSUME ChannelInv, Context
  PROVE  ChannelInv'
  <1> USE DEF ChannelInv, Context, Answer, gateVars, deviceVars, guestVars, sendVars
  <1>1. control' \in Clients /\ (link' # "none") = control'.socket
    BY DEF TypeOK, Clients
  <1>2. frame' \in Frames /\ basis' \in Frames
    BY ChannelAssumption DEF TypeOK, Frames, NoFrame
  <1>3. todo' \in Seq(Messages)
    <2>1. todo' = todo \/ todo' = <<>>
      OBVIOUS
    <2>2. todo \in Seq(Messages)
      BY DEF TypeOK
    <2>3. QED
      BY <2>1, <2>2, TodoDropped
  <1>4. TypeOK'
    BY <1>1, <1>2, <1>3, ChannelAssumption DEF TypeOK, Clients
  <1>5. ClientInv'
    BY DEF TypeOK, ClientInv, Live, Sending
  <1>6. CommandInv'
    BY ChannelAssumption DEF TypeOK, CommandInv, Busy, Sending
  <1>7. LateInv' /\ GuestInv'
    BY DEF LateInv, GuestInv
  <1>8. RejectedIsUnsent' /\ NothingBehindAPart'
    BY DEF RejectedIsUnsent, NothingBehindAPart, CommandInv, Busy
  <1>9. ContactsAreKnown'
    BY OutstandingStays DEF ContactsAreKnown, OwnedContacts, CleanIsReleased
  <1>10. QED
    BY <1>4, <1>5, <1>6, <1>7, <1>8, <1>9

\* A command is on its way only over a live channel that no part of a message blocks.
LEMMA ExecuteKeeps ==
  ASSUME ChannelInv, Execute
  PROVE  ChannelInv'
  <1> USE DEF ChannelInv, Execute, Answer, gateVars, guestVars, sendVars
  <1>1. control' \in Clients /\ (link' # "none") = control'.socket
    <2>1. control \in Clients /\ (link # "none") = control.socket
      BY DEF TypeOK, Clients
    <2>2. Begun(control) \in Clients /\ Begun(control).socket = control.socket
      BY <2>1 DEF Begun, Clients, Contacts
    <2>3. QED
      BY <2>1, <2>2
  <1>2. frame' \in Frames /\ basis' \in Frames
    BY ChannelAssumption DEF TypeOK, Frames, NoFrame
  <1>3. todo' \in Seq(Messages)
    <2>1. todo' = todo \/ todo' = <<>>
      OBVIOUS
    <2>2. todo \in Seq(Messages)
      BY DEF TypeOK
    <2>3. QED
      BY <2>1, <2>2, TodoDropped
  <1>4. TypeOK'
    BY <1>1, <1>2, <1>3, ChannelAssumption DEF TypeOK, Clients
  <1>5. ClientInv'
    <2>1. control \in Clients
      BY DEF TypeOK, Clients
    <2>2. CASE control' = control /\ pc' = "ready"
      BY <2>2 DEF ClientInv, Sending
    <2>3. CASE control' = Begun(control) /\ connected /\ Live /\ pc' = "check"
      <3>1. control.exists /\ control.socket
        BY <2>3 DEF Live, ClientInv, NoControl, Fresh
      <3>2. Begun(control).exists = control.exists /\ Begun(control).socket = control.socket
        BY <2>1 DEF Begun, Clients
      <3>3. QED
        BY <2>3, <3>1, <3>2 DEF ClientInv
    <2>4. QED
      BY <2>2, <2>3
  <1>6. CommandInv'
    BY ChannelAssumption DEF TypeOK, CommandInv, Busy, Sending, Begun
  <1>7. LateInv' /\ GuestInv'
    BY DEF LateInv, GuestInv
  <1>8. RejectedIsUnsent' /\ NothingBehindAPart'
    BY DEF RejectedIsUnsent, NothingBehindAPart, CommandInv, Busy
  <1>9. ContactsAreKnown'
    <2>1. control.held \subseteq control'.held
      BY DEF Begun, TypeOK
    <2>2. QED
      BY <2>1, OutstandingStays DEF ContactsAreKnown, OwnedContacts, CleanIsReleased
  <1>10. QED
    BY <1>4, <1>5, <1>6, <1>7, <1>8, <1>9

\* The check lets a message pass while nobody has asked to stop.
LEMMA CheckKeeps ==
  ASSUME ChannelInv, Check
  PROVE  ChannelInv'
  <1> USE DEF ChannelInv, Check, At, gateVars, deviceVars, commandVars, guestVars, sendVars
  <1>1. control' \in Clients /\ (link' # "none") = control'.socket
    BY DEF TypeOK, Clients
  <1>2. frame' \in Frames /\ basis' \in Frames
    BY ChannelAssumption DEF TypeOK, Frames, NoFrame
  <1>3. todo' \in Seq(Messages)
    BY ChannelAssumption DEF TypeOK
  <1>4. TypeOK'
    BY <1>1, <1>2, <1>3, ChannelAssumption DEF TypeOK, Clients
  <1>5. ClientInv'
    BY DEF TypeOK, ClientInv, Live, Sending
  <1>6. CommandInv'
    BY ChannelAssumption DEF TypeOK, CommandInv, Busy, Sending
  <1>7. LateInv' /\ GuestInv'
    BY DEF LateInv, GuestInv
  <1>8. RejectedIsUnsent' /\ NothingBehindAPart'
    BY DEF RejectedIsUnsent, NothingBehindAPart, CommandInv, Busy
  <1>9. ContactsAreKnown'
    BY OutstandingStays DEF ContactsAreKnown, OwnedContacts, CleanIsReleased
  <1>10. QED
    BY <1>4, <1>5, <1>6, <1>7, <1>8, <1>9

\* A command that breaks off is unresolved, and its channel too if bytes have left.
LEMMA FailKeeps ==
  ASSUME ChannelInv, Fail
  PROVE  ChannelInv'
  <1> USE DEF ChannelInv, Fail, Answer, BreaksOff, gateVars, guestVars, sendVars
  <1>1. control' \in Clients /\ (link' # "none") = control'.socket
    BY DEF TypeOK, Clients
  <1>2. frame' \in Frames /\ basis' \in Frames
    BY ChannelAssumption DEF TypeOK, Frames, NoFrame
  <1>3. todo' \in Seq(Messages)
    BY ChannelAssumption DEF TypeOK
  <1>4. TypeOK'
    BY <1>1, <1>2, <1>3, ChannelAssumption DEF TypeOK, Clients
  <1>5. ClientInv'
    <2>1. control'.exists = control.exists
      BY DEF TypeOK
    <2>2. connected /\ control.exists
      BY DEF ClientInv, NoControl, Fresh, Sending
    <2>3. QED
      BY <2>1, <2>2 DEF ClientInv, Sending
  <1>6. CommandInv'
    BY ChannelAssumption DEF TypeOK, CommandInv, Busy, Sending
  <1>7. LateInv' /\ GuestInv'
    BY DEF LateInv, GuestInv
  <1>8. RejectedIsUnsent' /\ NothingBehindAPart'
    BY DEF RejectedIsUnsent, NothingBehindAPart, CommandInv, Busy
  <1>9. ContactsAreKnown'
    <2>1. control'.held = control.held
      BY DEF TypeOK
    <2>2. QED
      BY <2>1, OutstandingStays DEF ContactsAreKnown, OwnedContacts, CleanIsReleased
  <1>10. QED
    BY <1>4, <1>5, <1>6, <1>7, <1>8, <1>9

\* A handshake opens a socket for a client that holds what it held.
LEMMA HandshakeKeeps ==
  ASSUME ChannelInv, Handshake
  PROVE  ChannelInv'
  <1> USE DEF ChannelInv, Handshake, At, gateVars, commandVars, guestVars
  <1>1. control' \in Clients /\ (link' # "none") = control'.socket
    BY DEF TypeOK, Clients
  <1>2. frame' \in Frames /\ basis' \in Frames
    BY ChannelAssumption DEF TypeOK, Frames, NoFrame
  <1>3. todo' \in Seq(Messages)
    BY ChannelAssumption DEF TypeOK
  <1>4. TypeOK'
    BY <1>1, <1>2, <1>3, ChannelAssumption DEF TypeOK, Clients
  <1>5. ClientInv'
    <2>1. control'.exists = control.exists
      BY DEF TypeOK
    <2>2. connected /\ control.exists
      BY DEF ClientInv, NoControl, Fresh
    <2>3. QED
      BY <2>1, <2>2 DEF ClientInv, Sending
  <1>6. CommandInv'
    BY ChannelAssumption DEF TypeOK, CommandInv, Busy, Sending
  <1>7. LateInv' /\ GuestInv'
    BY DEF LateInv, GuestInv
  <1>8. RejectedIsUnsent' /\ NothingBehindAPart'
    BY DEF RejectedIsUnsent, NothingBehindAPart, CommandInv, Busy
  <1>9. ContactsAreKnown'
    <2>1. control'.held = control.held
      BY DEF TypeOK
    <2>2. QED
      BY <2>1, OutstandingStays DEF ContactsAreKnown, OwnedContacts, CleanIsReleased
  <1>10. QED
    BY <1>4, <1>5, <1>6, <1>7, <1>8, <1>9

\* A connection makes a client of its own, where there was none or the last one was released.
LEMMA ConnectKeeps ==
  ASSUME ChannelInv, Connect
  PROVE  ChannelInv'
  <1> USE DEF ChannelInv, Connect, gateVars, commandVars, guestVars, sendVars
  <1>1. control' \in Clients /\ (link' # "none") = control'.socket
    <2>1. ~control.socket
      BY DEF ClientInv, NoControl, Fresh
    <2>2. Fresh \in Clients /\ Fresh.socket = FALSE
      BY DEF Fresh, Clients
    <2>3. link = "none"
      BY <2>1 DEF TypeOK
    <2>4. link' = "none" /\ control' = Fresh
      BY <2>3
    <2>5. QED
      BY <2>2, <2>4
  <1>2. frame' \in Frames /\ basis' \in Frames
    BY ChannelAssumption DEF TypeOK, Frames, NoFrame
  <1>3. todo' \in Seq(Messages)
    BY ChannelAssumption DEF TypeOK
  <1>4. TypeOK'
    BY <1>1, <1>2, <1>3, ChannelAssumption DEF TypeOK, Clients
  <1>5. ClientInv'
    BY DEF TypeOK, ClientInv, Sending, Fresh
  <1>6. CommandInv'
    BY ChannelAssumption DEF TypeOK, CommandInv, Busy, Sending
  <1>7. LateInv' /\ GuestInv'
    BY DEF LateInv, GuestInv
  <1>8. RejectedIsUnsent' /\ NothingBehindAPart'
    BY DEF RejectedIsUnsent, NothingBehindAPart, CommandInv, Busy
  <1>9. ContactsAreKnown'
    <2>1. Outstanding \subseteq mislaid
      <3>1. CASE ~connected
        BY <3>1 DEF ClientInv, NoControl, Fresh, ContactsAreKnown, OwnedContacts
      <3>2. CASE pc = "idle" /\ clean
        BY <3>2 DEF ContactsAreKnown, CleanIsReleased
      <3>3. QED
        BY <3>1, <3>2
    <2>2. QED
      BY <2>1, OutstandingStays DEF ContactsAreKnown, OwnedContacts, CleanIsReleased
  <1>10. QED
    BY <1>4, <1>5, <1>6, <1>7, <1>8, <1>9

\* The stopper raises the flag.
LEMMA StopKeeps ==
  ASSUME ChannelInv, Stop
  PROVE  ChannelInv'
  <1> USE DEF ChannelInv, Stop, deviceVars, commandVars, guestVars, sendVars
  <1>1. control' \in Clients /\ (link' # "none") = control'.socket
    BY DEF TypeOK, Clients
  <1>2. frame' \in Frames /\ basis' \in Frames
    BY ChannelAssumption DEF TypeOK, Frames, NoFrame
  <1>3. todo' \in Seq(Messages)
    BY ChannelAssumption DEF TypeOK
  <1>4. TypeOK'
    BY <1>1, <1>2, <1>3, ChannelAssumption DEF TypeOK, Clients
  <1>5. ClientInv'
    BY DEF TypeOK, ClientInv, Live, Sending
  <1>6. CommandInv'
    BY ChannelAssumption DEF TypeOK, CommandInv, Busy, Sending
  <1>7. LateInv' /\ GuestInv'
    BY DEF LateInv, GuestInv
  <1>8. RejectedIsUnsent' /\ NothingBehindAPart'
    BY DEF RejectedIsUnsent, NothingBehindAPart, CommandInv, Busy
  <1>9. ContactsAreKnown'
    BY OutstandingStays DEF ContactsAreKnown, OwnedContacts, CleanIsReleased
  <1>10. QED
    BY <1>4, <1>5, <1>6, <1>7, <1>8, <1>9

\* The stopper asks the token to stop: the message behind its check may still leave.
LEMMA SealKeeps ==
  ASSUME ChannelInv, Seal
  PROVE  ChannelInv'
  <1> USE DEF ChannelInv, Seal, deviceVars, commandVars, guestVars, sendVars
  <1>1. control' \in Clients /\ (link' # "none") = control'.socket
    BY DEF TypeOK, Clients
  <1>2. frame' \in Frames /\ basis' \in Frames
    BY ChannelAssumption DEF TypeOK, Frames, NoFrame
  <1>3. todo' \in Seq(Messages)
    BY ChannelAssumption DEF TypeOK
  <1>4. TypeOK'
    BY <1>1, <1>2, <1>3, ChannelAssumption DEF TypeOK, Clients
  <1>5. ClientInv'
    BY DEF TypeOK, ClientInv, Live, Sending
  <1>6. CommandInv'
    BY ChannelAssumption DEF TypeOK, CommandInv, Busy, Sending
  <1>7. LateInv' /\ GuestInv'
    BY DEF LateInv, GuestInv
  <1>8. RejectedIsUnsent' /\ NothingBehindAPart'
    BY DEF RejectedIsUnsent, NothingBehindAPart, CommandInv, Busy
  <1>9. ContactsAreKnown'
    BY OutstandingStays DEF ContactsAreKnown, OwnedContacts, CleanIsReleased
  <1>10. QED
    BY <1>4, <1>5, <1>6, <1>7, <1>8, <1>9

\* The connection breaks.
LEMMA BreaksKeeps ==
  ASSUME ChannelInv, Breaks
  PROVE  ChannelInv'
  <1> USE DEF ChannelInv, Breaks, workerUnchanged, gateVars, deviceVars, commandVars
  <1>1. control' \in Clients /\ (link' # "none") = control'.socket
    BY DEF TypeOK, Clients
  <1>2. frame' \in Frames /\ basis' \in Frames
    BY ChannelAssumption DEF TypeOK, Frames, NoFrame
  <1>3. todo' \in Seq(Messages)
    BY ChannelAssumption DEF TypeOK
  <1>4. TypeOK'
    BY <1>1, <1>2, <1>3, ChannelAssumption DEF TypeOK, Clients
  <1>5. ClientInv'
    BY DEF TypeOK, ClientInv, Live, Sending
  <1>6. CommandInv'
    BY ChannelAssumption DEF TypeOK, CommandInv, Busy, Sending
  <1>7. LateInv' /\ GuestInv'
    BY DEF LateInv, GuestInv
  <1>8. RejectedIsUnsent' /\ NothingBehindAPart'
    BY DEF RejectedIsUnsent, NothingBehindAPart, CommandInv, Busy
  <1>9. ContactsAreKnown'
    BY OutstandingStays DEF ContactsAreKnown, OwnedContacts, CleanIsReleased
  <1>10. QED
    BY <1>4, <1>5, <1>6, <1>7, <1>8, <1>9

\* A connection that was lost shows it.
LEMMA ShowsKeeps ==
  ASSUME ChannelInv, Shows
  PROVE  ChannelInv'
  <1> USE DEF ChannelInv, Shows, workerUnchanged, gateVars, deviceVars, commandVars
  <1>1. control' \in Clients /\ (link' # "none") = control'.socket
    BY DEF TypeOK, Clients
  <1>2. frame' \in Frames /\ basis' \in Frames
    BY ChannelAssumption DEF TypeOK, Frames, NoFrame
  <1>3. todo' \in Seq(Messages)
    BY ChannelAssumption DEF TypeOK
  <1>4. TypeOK'
    BY <1>1, <1>2, <1>3, ChannelAssumption DEF TypeOK, Clients
  <1>5. ClientInv'
    BY DEF TypeOK, ClientInv, Live, Sending
  <1>6. CommandInv'
    BY ChannelAssumption DEF TypeOK, CommandInv, Busy, Sending
  <1>7. LateInv' /\ GuestInv'
    BY DEF LateInv, GuestInv
  <1>8. RejectedIsUnsent' /\ NothingBehindAPart'
    BY DEF RejectedIsUnsent, NothingBehindAPart, CommandInv, Busy
  <1>9. ContactsAreKnown'
    BY OutstandingStays DEF ContactsAreKnown, OwnedContacts, CleanIsReleased
  <1>10. QED
    BY <1>4, <1>5, <1>6, <1>7, <1>8, <1>9

\* The guest restarts with nothing pressed.
LEMMA RestartsKeeps ==
  ASSUME ChannelInv, Restarts
  PROVE  ChannelInv'
  <1> USE DEF ChannelInv, Restarts, workerUnchanged, gateVars, deviceVars, commandVars
  <1>1. control' \in Clients /\ (link' # "none") = control'.socket
    BY DEF TypeOK, Clients
  <1>2. frame' \in Frames /\ basis' \in Frames
    BY ChannelAssumption DEF TypeOK, Frames, NoFrame
  <1>3. todo' \in Seq(Messages)
    BY ChannelAssumption DEF TypeOK
  <1>4. TypeOK'
    BY <1>1, <1>2, <1>3, ChannelAssumption DEF TypeOK, Clients
  <1>5. ClientInv'
    BY DEF TypeOK, ClientInv, Live, Sending
  <1>6. CommandInv'
    BY ChannelAssumption DEF TypeOK, CommandInv, Busy, Sending
  <1>7. LateInv' /\ GuestInv'
    BY DEF LateInv, GuestInv
  <1>8. RejectedIsUnsent' /\ NothingBehindAPart'
    BY DEF RejectedIsUnsent, NothingBehindAPart, CommandInv, Busy
  <1>9. ContactsAreKnown'
    BY OutstandingStays DEF ContactsAreKnown, OwnedContacts, CleanIsReleased
  <1>10. QED
    BY <1>4, <1>5, <1>6, <1>7, <1>8, <1>9

-----------------------------------------------------------------------------
(* The steps that close a channel.                                         *)

\* A client of no connection is a client, without a socket, that holds nothing.
LEMMA NewClients ==
  /\ Fresh \in Clients /\ Fresh.socket = FALSE /\ Fresh.held = {} /\ Fresh.exists = TRUE
  /\ NoControl \in Clients /\ NoControl.socket = FALSE /\ NoControl.held = {}
  BY DEF Fresh, NoControl, Clients

\* A disconnect drops the client only behind a release that was confirmed.
LEMMA DisconnectKeeps ==
  ASSUME ChannelInv, Disconnect
  PROVE  ChannelInv'
  <1> USE DEF Disconnect, gateVars, commandVars, guestVars
  <1>1. PICK r \in Releasings :
          /\ CloseSends(r)
          /\ \/ /\ r.released /\ control' = NoControl /\ connected' = FALSE
                /\ generation' = generation + 1
             \/ ~r.released /\ control' = r.client /\ UNCHANGED <<connected, generation>>
    OBVIOUS
  <1>2. /\ Closed(r.client, r.sent)
        /\ r.released => r.client.held = {}
        /\ r.released \in BOOLEAN
    BY ReleasingIsClosed
  <1>3. /\ Outstanding' \subseteq r.client.held \cup mislaid'
        /\ link' = "none"
        /\ wire' \in Seq(Packets) /\ mislaid' \subseteq Contacts
        /\ garbled' = FALSE
        /\ ~guest => wire' = <<>>
        /\ ~control.socket => wire' = wire /\ mislaid' = mislaid
    BY <1>1, <1>2, CloseKeepsAccount
  <1>4. /\ control' \in Clients /\ control'.socket = FALSE
        /\ Outstanding' \subseteq control'.held \cup mislaid'
        /\ ~connected' => control' = NoControl
        /\ ~control'.exists => control' = NoControl
    <2>1. CASE r.released /\ control' = NoControl /\ connected' = FALSE
      BY <1>2, <1>3, <2>1, NewClients
    <2>2. CASE control' = r.client /\ connected' = connected
      BY <1>2, <1>3, <2>2 DEF ChannelInv, Closed, Clients, ClientInv
    <2>3. QED
      BY <1>1, <2>1, <2>2
  <1>5. generation' \in 0 .. MaxGenerations /\ connected' \in BOOLEAN
    <2>1. \/ connected' = FALSE /\ generation' = generation + 1
          \/ connected' = connected /\ generation' = generation
      BY <1>1
    <2>2. generation \in 0 .. MaxGenerations /\ connected \in BOOLEAN /\ MaxGenerations \in Nat
      BY ChannelAssumption DEF ChannelInv, TypeOK
    <2>3. generation < MaxGenerations
      OBVIOUS
    <2>4. generation' = generation \/ generation' = generation + 1
      BY <2>1
    <2>5. connected' = FALSE \/ connected' = connected
      BY <2>1
    <2> HIDE DEF Disconnect
    <2>6. generation' \in 0 .. MaxGenerations
      BY <2>2, <2>3, <2>4
    <2>7. QED
      BY <2>2, <2>5, <2>6
  <1>6. TypeOK'
    BY <1>3, <1>4, <1>5 DEF Disconnect, ChannelInv, TypeOK, Clients, Packets
  <1>7. ClientInv'
    BY <1>4 DEF ClientInv, Sending
  <1>8. CommandInv'
    BY DEF ChannelInv, CommandInv, Busy, Sending
  <1>9. LateInv' /\ GuestInv' /\ RejectedIsUnsent' /\ NothingBehindAPart'
    BY <1>3 DEF ChannelInv, LateInv, GuestInv, RejectedIsUnsent, NothingBehindAPart
  <1>10. CleanIsReleased'
    <2>1. ASSUME pc = "idle", clean
          PROVE  Outstanding' \subseteq mislaid'
      <3>1. wire' = wire /\ mislaid' = mislaid
        BY <1>3, <2>1 DEF ChannelInv, ClientInv
      <3>2. QED
        BY <2>1, <3>1, OutstandingStays DEF ChannelInv, ContactsAreKnown, CleanIsReleased
    <2>2. QED
      BY <2>1 DEF CleanIsReleased
  <1>11. QED
    BY <1>4, <1>6, <1>7, <1>8, <1>9, <1>10 DEF ChannelInv, ContactsAreKnown, OwnedContacts

\* A cleanup seals the gate and closes the channel; confirmed, it leaves nothing held.
LEMMA CleanupKeeps ==
  ASSUME ChannelInv, Cleanup
  PROVE  ChannelInv'
  <1> USE DEF Cleanup, commandVars, guestVars
  <1>1. PICK r \in Releasings : CloseSends(r) /\ control' = r.client /\ clean' = r.released
    OBVIOUS
  <1>2. /\ Closed(r.client, r.sent)
        /\ r.released => r.client.held = {}
        /\ r.released \in BOOLEAN
    BY ReleasingIsClosed
  <1>3. /\ Outstanding' \subseteq r.client.held \cup mislaid'
        /\ link' = "none"
        /\ wire' \in Seq(Packets) /\ mislaid' \subseteq Contacts
        /\ garbled' = FALSE
        /\ ~guest => wire' = <<>>
    BY <1>1, <1>2, CloseKeepsAccount
  <1>4. /\ control' \in Clients /\ control'.socket = FALSE
        /\ ~connected' => control' = NoControl
        /\ ~control'.exists => control' = NoControl
    <2>1. /\ r.client \in Clients /\ ~r.client.socket /\ r.client.exists = control.exists
          /\ ~control.exists => r.client = control
      BY <1>2 DEF Closed
    <2>2. (~connected => ~control.exists) /\ (~control.exists => control = NoControl)
      BY DEF ChannelInv, ClientInv, NoControl, Fresh
    <2>3. r.client.socket = FALSE
      BY <2>1 DEF Clients
    <2>4. QED
      BY <1>1, <2>1, <2>2, <2>3
  <1>5. clean' \in BOOLEAN
    BY <1>1, <1>2
  <1>6. TypeOK'
    BY <1>3, <1>4, <1>5 DEF ChannelInv, TypeOK, Clients, Packets
  <1>7. ClientInv'
    BY <1>4 DEF ClientInv, Sending
  <1>8. CommandInv'
    BY DEF ChannelInv, CommandInv, Busy, Sending
  <1>9. LateInv' /\ GuestInv' /\ RejectedIsUnsent' /\ NothingBehindAPart'
    BY <1>3 DEF ChannelInv, LateInv, GuestInv, RejectedIsUnsent, NothingBehindAPart
  <1>10. ContactsAreKnown'
    BY <1>1, <1>2, <1>3 DEF ContactsAreKnown, OwnedContacts, CleanIsReleased
  <1>11. QED
    BY <1>6, <1>7, <1>8, <1>9, <1>10 DEF ChannelInv

\* The old channel is closed, and its evidence goes, before another is opened.
LEMMA PrepareKeeps ==
  ASSUME ChannelInv, Prepare
  PROVE  ChannelInv'
  <1> USE DEF Prepare, PrepareChannel, commandVars, guestVars
  <1>1. NoFrame \in Frames
    BY ChannelAssumption DEF NoFrame, Frames
  <1>2. CASE UNCHANGED <<control, sendVars, pc>>
    <2> USE <1>2 DEF sendVars
    <2>1. TypeOK'
      BY <1>1 DEF ChannelInv, TypeOK, Frames
    <2>2. ClientInv' /\ CommandInv'
      BY DEF ChannelInv, ClientInv, CommandInv, Busy, Sending
    <2>3. LateInv' /\ GuestInv' /\ RejectedIsUnsent' /\ NothingBehindAPart'
      BY DEF ChannelInv, LateInv, GuestInv, RejectedIsUnsent, NothingBehindAPart
    <2>4. ContactsAreKnown'
      BY OutstandingStays DEF ChannelInv, ContactsAreKnown, OwnedContacts, CleanIsReleased
    <2>5. QED
      BY <2>1, <2>2, <2>3, <2>4 DEF ChannelInv
  <1>3. CASE /\ control.exists
             /\ \E c \in Closings : /\ CloseSends(c) /\ control' = c.client
                                    /\ pc' = IF Released(c.client) THEN "opening" ELSE "ready"
    <2>1. PICK c \in Closings : /\ CloseSends(c) /\ control' = c.client
                                /\ pc' = IF Released(c.client) THEN "opening" ELSE "ready"
      BY <1>3
    <2>2. Closed(c.client, c.sent)
      BY <1>3, ClosingIsClosed
    <2>3. /\ Outstanding' \subseteq c.client.held \cup mislaid'
          /\ link' = "none"
          /\ wire' \in Seq(Packets) /\ mislaid' \subseteq Contacts
          /\ garbled' = FALSE
          /\ ~guest => wire' = <<>>
      BY <2>1, <2>2, CloseKeepsAccount
    <2>4. /\ control' \in Clients /\ control'.socket = FALSE /\ control'.exists
          /\ ~connected' => control' = NoControl
          /\ pc' \in {"opening", "ready"}
      BY <1>3, <2>1, <2>2 DEF ChannelInv, Closed, Clients, ClientInv, NoControl, Fresh
    <2>5. TypeOK'
      BY <1>1, <2>3, <2>4 DEF ChannelInv, TypeOK, Clients, Packets, Frames
    <2>6. ClientInv' /\ CommandInv'
      BY <2>4 DEF ChannelInv, ClientInv, CommandInv, Busy, Sending
    <2>7. LateInv' /\ GuestInv' /\ RejectedIsUnsent' /\ NothingBehindAPart'
      BY <2>3, <2>4 DEF ChannelInv, LateInv, GuestInv, RejectedIsUnsent, NothingBehindAPart
    <2>8. ContactsAreKnown'
      BY <2>1, <2>3, <2>4 DEF ContactsAreKnown, OwnedContacts, CleanIsReleased
    <2>9. QED
      BY <2>5, <2>6, <2>7, <2>8 DEF ChannelInv
  <1>4. QED
    BY <1>2, <1>3

\* A channel with an open delivery is closed; released, the client is as new.
LEMMA SettleKeeps ==
  ASSUME ChannelInv, Settle
  PROVE  ChannelInv'
  <1> USE DEF Settle, gateVars, commandVars, guestVars
  <1>1. PICK c \in Closings :
          CloseSends(c) /\ control' = IF Released(c.client) THEN Fresh ELSE c.client
    OBVIOUS
  <1>2. Closed(c.client, c.sent)
    BY ClosingIsClosed
  <1>3. /\ Outstanding' \subseteq c.client.held \cup mislaid'
        /\ link' = "none"
        /\ wire' \in Seq(Packets) /\ mislaid' \subseteq Contacts
        /\ garbled' = FALSE
        /\ ~guest => wire' = <<>>
    BY <1>1, <1>2, CloseKeepsAccount
  <1>4. connected
    BY DEF ChannelInv, ClientInv, NoControl, Fresh
  <1>5. /\ control' \in Clients /\ control'.socket = FALSE /\ control'.exists
        /\ Outstanding' \subseteq control'.held \cup mislaid'
    <2>1. CASE Released(c.client)
      BY <1>1, <1>3, <2>1, NewClients DEF Released
    <2>2. CASE ~Released(c.client)
      BY <1>1, <1>2, <1>3, <2>2 DEF Closed, Clients
    <2>3. QED
      BY <2>1, <2>2
  <1>6. TypeOK'
    BY <1>3, <1>5 DEF ChannelInv, TypeOK, Clients, Packets
  <1>7. ClientInv' /\ CommandInv'
    BY <1>4, <1>5 DEF ChannelInv, ClientInv, CommandInv, Busy, Sending
  <1>8. LateInv' /\ GuestInv' /\ RejectedIsUnsent' /\ NothingBehindAPart'
    BY <1>3 DEF ChannelInv, LateInv, GuestInv, RejectedIsUnsent, NothingBehindAPart
  <1>9. ContactsAreKnown'
    BY <1>5 DEF ContactsAreKnown, OwnedContacts, CleanIsReleased
  <1>10. QED
    BY <1>6, <1>7, <1>8, <1>9 DEF ChannelInv

-----------------------------------------------------------------------------
(* The steps that send a message of the command.                           *)

\* A message is sent, and the client holds what it presses and forgets what it releases.
LEMMA PutKeeps ==
  ASSUME ChannelInv, Put
  PROVE  ChannelInv'
  <1> USE DEF Put, Answer, gateVars, guestVars
  <1> DEFINE message == Head(todo)
  <1> DEFINE contact == Contact[message]
  <1>1. /\ todo \in Seq(Messages) /\ todo # <<>> /\ control \in Clients
        /\ wire \in Seq(Packets) /\ mislaid \subseteq Contacts /\ pressed \subseteq Contacts
        /\ control.exists /\ control.socket /\ ~control.partial /\ ~control.unresolved
        /\ link \in {"up", "lost", "closed"} /\ garbled = FALSE /\ late = 0
        /\ result = "none" /\ basis.channel = channel /\ basis.generation = generation
        /\ frame # NoFrame => frame.channel = channel
        /\ todo[1] = "keyDown" => "key" \in control.held
        /\ \A i \in 2 .. Len(todo) : todo[i] # "keyDown"
        /\ Outstanding \subseteq control.held \cup mislaid
        /\ connected
    BY DEF ChannelInv, TypeOK, Clients, Packets, ClientInv, CommandInv, Busy, Sending, LateInv,
           NothingBehindAPart, ContactsAreKnown, OwnedContacts, NoControl, Fresh
  <1>2. message \in Messages /\ message = todo[1] /\ contact \in Contacts
    BY <1>1 DEF Messages, Contact, Contacts
  <1>3. /\ Len(todo) \in Nat /\ Len(todo) >= 1
        /\ Tail(todo) \in Seq(Messages) /\ Len(Tail(todo)) = Len(todo) - 1
        /\ \A i \in 1 .. Len(todo) - 1 : Tail(todo)[i] = todo[i + 1]
    BY <1>1
  <1>4. \/ pc' = "ready" /\ result' = "submitted" /\ todo' = <<>> /\ basis' = NoFrame
        \/ /\ pc' = "check" /\ todo' = Tail(todo) /\ todo' # <<>>
           /\ UNCHANGED <<basis, result>>
    BY <1>3
  <1>5. /\ control' \in Clients
        /\ control'.exists = control.exists /\ control'.socket = control.socket
        /\ control'.partial = FALSE /\ control'.unresolved = control.unresolved
        /\ control'.held = CASE message \in Ups -> control.held \ {contact}
                             [] message \in {"touchDown", "touchMove"} ->
                                  control.held \cup {contact}
                             [] OTHER -> control.held
    BY <1>1, <1>2 DEF Clients
  <1>6. <<message>> \in Seq(Packets) /\ DOMAIN <<message>> = {1} /\ <<message>>[1] = message
    BY <1>2 DEF Packets
  <1>7. /\ wire' = IF link = "up" THEN wire \o <<message>> ELSE wire
        /\ garbled' = FALSE
        /\ link = "up" => mislaid' = mislaid \ Upped(<<message>>)
        /\ link # "up" => mislaid' = mislaid \cup (Upped(<<message>>) \cap Outstanding)
    BY <1>1 DEF Send, Upped
  <1>8. late' \in {0, 1} /\ (~token => late' = 0)
    BY <1>1 DEF Late
  <1> HIDE DEF Put, message
  <1>9. \A k \in Contacts : k \in Upped(<<message>>) <=> message = Up[k]
    BY <1>6 DEF Upped
  <1>10. wire' \in Seq(Packets) /\ mislaid' \subseteq Contacts
    <2>1. wire \o <<message>> \in Seq(Packets)
      BY <1>1, <1>6
    <2>2. Outstanding \subseteq Contacts
      BY DEF Outstanding
    <2>3. QED
      BY <1>1, <1>7, <2>1, <2>2
  <1>11. TypeOK'
    <2>1. todo' \in Seq(Messages)
      <3>1. <<>> \in Seq(Messages)
        OBVIOUS
      <3>2. QED
        BY <1>3, <1>4, <3>1
    <2>2. basis' \in Frames
      BY <1>4, ChannelAssumption DEF ChannelInv, TypeOK, Frames, NoFrame
    <2>3. pc' \in {"ready", "check"} /\ result' \in {"submitted", "none"}
      BY <1>1, <1>4
    <2>4. (link' # "none") = control'.socket
      BY <1>5 DEF Put, ChannelInv, TypeOK
    <2>5. late' \in Nat
      BY <1>8
    <2>6. garbled' \in BOOLEAN /\ touched' \in BOOLEAN
      BY <1>7 DEF Put
    <2>7. UNCHANGED <<gateVars, connected, generation, clean, guestVars, link, channel, sessions>>
      BY DEF Put
    <2>8. QED
      BY <1>5, <1>10, <2>1, <2>2, <2>3, <2>4, <2>5, <2>6, <2>7
      DEF ChannelInv, TypeOK, Clients, Packets, Frames
  <1>12. ClientInv'
    BY <1>1, <1>4, <1>5 DEF Put, ClientInv, Sending
  <1>13. CommandInv'
    <2>1. CASE pc' = "ready"
      BY <1>1, <2>1 DEF Put, CommandInv, Busy, Sending
    <2>2. CASE pc' = "check" /\ todo' = Tail(todo) /\ todo' # <<>> /\ UNCHANGED <<basis, result>>
      <3>1. \A i \in 1 .. Len(todo') : todo'[i] # "keyDown"
        <4>1. \A i \in 1 .. Len(todo) - 1 : i + 1 \in 2 .. Len(todo)
          BY <1>3
        <4>2. QED
          BY <1>1, <1>3, <2>2, <4>1
      <3>2. 1 \in 1 .. Len(todo')
        BY <1>3, <2>2
      <3>3. QED
        BY <1>1, <1>5, <2>2, <3>1, <3>2 DEF Put, CommandInv, Busy, Sending
    <2>3. QED
      BY <1>4, <2>1, <2>2
  <1>14. LateInv' /\ GuestInv' /\ RejectedIsUnsent' /\ NothingBehindAPart'
    BY <1>1, <1>4, <1>7, <1>8
    DEF Put, ChannelInv, LateInv, GuestInv, RejectedIsUnsent, NothingBehindAPart
  <1>15. ContactsAreKnown'
    <2>1. \A k \in Contacts : message = Up[k] <=> message \in Ups /\ contact = k
      BY <1>2 DEF Contacts, Up, Ups, Contact, Messages
    <2>2. \A k \in control.held : k \in control'.held \/ message = Up[k]
      BY <1>1, <1>5, <2>1 DEF Clients
    <2>3. ASSUME NEW k \in Outstanding'
          PROVE  k \in control'.held \cup mislaid'
      <3>1. k \in Contacts
        BY <2>3 DEF Outstanding
      <3>2. CASE link = "up"
        <4>1. (k \in Outstanding /\ message # Up[k]) \/ message = Down[k]
          BY <1>1, <1>6, <1>7, <1>9, <2>3, <3>1, <3>2, SendOutstanding DEF Put
        <4>2. CASE message = Down[k]
          <5>1. contact = k /\ message \notin Ups
            BY <3>1, <4>2 DEF Contacts, Down, Contact, Ups
          <5>2. k = "key" => k \in control.held
            BY <1>1, <1>2, <4>2 DEF Down
          <5>3. QED
            BY <1>5, <3>1, <4>2, <5>1, <5>2 DEF Contacts, Down
        <4>3. CASE k \in Outstanding /\ message # Up[k]
          BY <1>1, <1>7, <1>9, <2>2, <3>1, <3>2, <4>3
        <4>4. QED
          BY <4>1, <4>2, <4>3
      <3>3. CASE link # "up"
        <4>1. Outstanding' = Outstanding
          BY <1>7, <3>3, OutstandingStays DEF Put
        <4>2. QED
          BY <1>1, <1>7, <1>9, <2>2, <2>3, <3>1, <3>3, <4>1
      <3>4. QED
        BY <3>2, <3>3
    <2>4. QED
      BY <1>4, <2>3 DEF ContactsAreKnown, OwnedContacts, CleanIsReleased
  <1>16. QED
    BY <1>11, <1>12, <1>13, <1>14, <1>15 DEF ChannelInv

\* A part of a message presses and releases nothing, and blocks the channel.
LEMMA PutPartKeeps ==
  ASSUME ChannelInv, PutPart
  PROVE  ChannelInv'
  <1> USE DEF PutPart, At, Answer, gateVars, guestVars
  <1>1. /\ control \in Clients /\ control.exists /\ control.socket /\ ~control.partial
        /\ wire \in Seq(Packets) /\ mislaid \subseteq Contacts /\ garbled = FALSE /\ late = 0
        /\ Outstanding \subseteq control.held \cup mislaid /\ connected
    BY DEF ChannelInv, TypeOK, Clients, Packets, ClientInv, CommandInv, Busy, Sending, LateInv,
           NothingBehindAPart, ContactsAreKnown, OwnedContacts, NoControl, Fresh
  <1>2. /\ control' \in Clients /\ control'.exists /\ control'.socket = control.socket
        /\ control'.held = control.held
    BY <1>1 DEF Clients
  <1>3. /\ <<"part">> \in Seq(Packets) /\ DOMAIN <<"part">> = {1}
        /\ \A k \in Contacts : "part" \notin {Up[k], Down[k]}
    BY DEF Packets, Contacts, Up, Down
  <1>4. Upped(<<"part">>) = {}
    BY <1>3 DEF Upped
  <1>5. /\ wire' = IF link = "up" THEN wire \o <<"part">> ELSE wire
        /\ garbled' = FALSE /\ mislaid' = mislaid
    BY <1>1, <1>4 DEF Send, Upped
  <1>6. late' \in {0, 1} /\ (~token => late' = 0)
    BY <1>1 DEF Late
  <1>7. wire' \in Seq(Packets)
    <2>1. wire \o <<"part">> \in Seq(Packets)
      BY <1>1, <1>3
    <2>2. QED
      BY <1>1, <1>5, <2>1
  <1>8. <<>> \in Seq(Messages) /\ NoFrame \in Frames
    BY ChannelAssumption DEF NoFrame, Frames
  <1>9. TypeOK'
    <2>1. (link' # "none") = control'.socket
      BY <1>2 DEF ChannelInv, TypeOK
    <2>2. late' \in Nat
      BY <1>6
    <2>3. garbled' \in BOOLEAN /\ mislaid' \subseteq Contacts
      BY <1>1, <1>5
    <2>4. QED
      BY <1>2, <1>7, <1>8, <2>1, <2>2, <2>3 DEF ChannelInv, TypeOK, Clients, Packets, Frames
  <1>10. ClientInv' /\ CommandInv'
    BY <1>1, <1>2 DEF ChannelInv, ClientInv, CommandInv, Busy, Sending
  <1>11. LateInv' /\ GuestInv' /\ RejectedIsUnsent' /\ NothingBehindAPart'
    BY <1>5, <1>6 DEF ChannelInv, LateInv, GuestInv, RejectedIsUnsent, NothingBehindAPart
  <1>12. Outstanding' \subseteq Outstanding
    <2>1. ASSUME NEW k \in Outstanding'
          PROVE  k \in Outstanding
      <3>1. k \in Contacts
        BY <2>1 DEF Outstanding
      <3>2. CASE link = "up"
        <4>1. wire' = wire \o <<"part">> /\ pressed' = pressed
          BY <1>5, <3>2
        <4>2. \A i \in DOMAIN <<"part">> : <<"part">>[i] # Down[k]
          BY <1>3, <3>1
        <4>3. QED
          BY <1>1, <1>3, <2>1, <3>1, <4>1, <4>2, SendOutstanding
      <3>3. CASE link # "up"
        BY <1>5, <2>1, <3>3, OutstandingStays
      <3>4. QED
        BY <3>2, <3>3
    <2>2. QED
      BY <2>1
  <1>13. ContactsAreKnown'
    BY <1>1, <1>2, <1>5, <1>12 DEF ContactsAreKnown, OwnedContacts, CleanIsReleased
  <1>14. QED
    BY <1>9, <1>10, <1>11, <1>13 DEF ChannelInv

-----------------------------------------------------------------------------
(* The steps of the connection and the guest.                              *)

\* A message arrives.
LEMMA DeliverKeeps ==
  ASSUME ChannelInv, Deliver
  PROVE  ChannelInv'
  <1> USE DEF Deliver, workerUnchanged, gateVars, deviceVars, commandVars
  <1>1. wire \in Seq(Packets) /\ pressed \subseteq Contacts
    BY DEF ChannelInv, TypeOK, Packets
  <1>2. wire' \in Seq(Packets)
    BY <1>1
  <1>3. pressed' \subseteq Contacts
    <2>1. Head(wire) \in {"touchDown", "keyDown"} => Contact[Head(wire)] \in Contacts
      BY DEF Contact, Contacts
    <2>2. QED
      BY <1>1, <2>1 DEF Holding
  <1>4. TypeOK'
    BY <1>2, <1>3 DEF ChannelInv, TypeOK, Packets
  <1>5. ClientInv' /\ CommandInv'
    BY DEF ChannelInv, ClientInv, CommandInv, Busy, Sending
  <1>6. LateInv' /\ GuestInv' /\ RejectedIsUnsent' /\ NothingBehindAPart'
    BY DEF ChannelInv, LateInv, GuestInv, RejectedIsUnsent, NothingBehindAPart
  <1>7. Outstanding' \subseteq Outstanding
    <2>1. ASSUME NEW k \in Outstanding'
          PROVE  k \in Contacts /\ k \in Outstanding
      <3>1. k \in Contacts
        BY <2>1 DEF Outstanding
      <3>2. QED
        BY <1>1, <2>1, <3>1, DeliverOutstanding
    <2>2. QED
      BY <2>1
  <1>8. ContactsAreKnown'
    BY <1>7 DEF ChannelInv, ContactsAreKnown, OwnedContacts, CleanIsReleased
  <1>9. QED
    BY <1>4, <1>5, <1>6, <1>8 DEF ChannelInv

\* What was on the way is lost: a release among it is mislaid.
LEMMA LoseKeeps ==
  ASSUME ChannelInv, Lose
  PROVE  ChannelInv'
  <1> USE DEF Lose, workerUnchanged, gateVars, deviceVars, commandVars
  <1>1. TypeOK'
    BY DEF ChannelInv, TypeOK
  <1>2. ClientInv' /\ CommandInv'
    BY DEF ChannelInv, ClientInv, CommandInv, Busy, Sending
  <1>3. LateInv' /\ GuestInv' /\ RejectedIsUnsent' /\ NothingBehindAPart'
    BY DEF ChannelInv, LateInv, GuestInv, RejectedIsUnsent, NothingBehindAPart
  <1>4. pressed \subseteq Contacts
    BY DEF ChannelInv, TypeOK
  <1>5. Outstanding' \subseteq pressed
    BY DEF Outstanding
  <1>6. \A k \in pressed : k \in mislaid' \/ k \in Outstanding
    BY <1>4 DEF Outstanding
  <1>7. \A k \in pressed : k \in mislaid => k \in mislaid'
    OBVIOUS
  <1>8. ContactsAreKnown'
    BY <1>5, <1>6, <1>7 DEF ChannelInv, ContactsAreKnown, OwnedContacts, CleanIsReleased
  <1>9. QED
    BY <1>1, <1>2, <1>3, <1>8 DEF ChannelInv

\* The guest exits and holds nothing.
LEMMA ExitsKeeps ==
  ASSUME ChannelInv, Exits
  PROVE  ChannelInv'
  <1> USE DEF Exits, workerUnchanged, gateVars, deviceVars, commandVars
  <1>1. (link' # "none") = (link # "none") /\ link' \in {"none", "lost", "closed"}
    BY DEF ChannelInv, TypeOK
  <1>2. <<>> \in Seq(Messages \cup {"part"}) /\ faults' \in 0 .. MaxFaults
    BY ChannelAssumption DEF ChannelInv, TypeOK
  <1>3. TypeOK'
    <2>1. link' \in {"none", "up", "lost", "closed"} /\ (link' # "none") = control'.socket
      BY <1>1 DEF ChannelInv, TypeOK
    <2>2. /\ wire' \in Seq(Messages \cup {"part"}) /\ pressed' \subseteq Contacts
          /\ mislaid' \subseteq Contacts /\ guest' \in BOOLEAN
      BY <1>2
    <2>3. QED
      BY <1>2, <2>1, <2>2 DEF ChannelInv, TypeOK
  <1>4. ClientInv' /\ CommandInv'
    BY DEF ChannelInv, ClientInv, CommandInv, Busy, Sending
  <1>5. LateInv' /\ GuestInv' /\ RejectedIsUnsent' /\ NothingBehindAPart'
    BY <1>1 DEF ChannelInv, LateInv, GuestInv, RejectedIsUnsent, NothingBehindAPart
  <1>6. ContactsAreKnown'
    BY NothingOutstanding DEF ContactsAreKnown, OwnedContacts, CleanIsReleased
  <1>7. QED
    BY <1>3, <1>4, <1>5, <1>6 DEF ChannelInv

-----------------------------------------------------------------------------
(* The theorems.                                                           *)

\* The invariant holds before anything has happened.
LEMMA InitKeeps ==
  ASSUME Init
  PROVE  ChannelInv
  <1> USE DEF Init
  <1>1. <<>> \in Seq(Messages) /\ <<>> \in Seq(Messages \cup {"part"}) /\ NoFrame \in Frames
    BY ChannelAssumption DEF NoFrame, Frames
  <1>2. 0 \in 0 .. MaxChannels /\ 0 \in 0 .. MaxGenerations
    BY ChannelAssumption
  <1>3. 0 \in 0 .. MaxSessions /\ 0 \in 0 .. MaxFaults
    BY ChannelAssumption
  <1>4. TypeOK
    BY <1>1, <1>2, <1>3, NewClients DEF TypeOK, Clients
  <1>5. ClientInv /\ CommandInv /\ LateInv /\ GuestInv
    BY NewClients DEF ClientInv, CommandInv, LateInv, GuestInv, Busy, Sending
  <1>6. Outstanding = {}
    BY DEF Outstanding
  <1>7. RejectedIsUnsent /\ NothingBehindAPart /\ ContactsAreKnown
    BY <1>6 DEF RejectedIsUnsent, NothingBehindAPart, ContactsAreKnown, OwnedContacts,
                CleanIsReleased
  <1>8. QED
    BY <1>4, <1>5, <1>7 DEF ChannelInv

\* Every step of the gate, the channel and their environment keeps the invariant.
LEMMA NextKeeps ==
  ASSUME ChannelInv, [Next]_vars
  PROVE  ChannelInv'
  <1>1. CASE Worker
    BY <1>1, SessionKeeps, ConnectKeeps, DisconnectKeeps, CleanupKeeps, CaptureKeeps, PrepareKeeps,
       HandshakeKeeps, SettleKeeps, RefuseKeeps, SubmitKeeps, ContextKeeps, ExecuteKeeps,
       CheckKeeps, PutKeeps, PutPartKeeps, FailKeeps
    DEF Worker
  <1>2. CASE Stop \/ Seal
    BY <1>2, StopKeeps, SealKeeps
  <1>3. CASE Environment
    BY <1>3, DeliverKeeps, LoseKeeps, BreaksKeeps, ShowsKeeps, ExitsKeeps, RestartsKeeps
    DEF Environment
  <1>4. CASE UNCHANGED vars
    BY <1>4, OutstandingStays
    DEF vars, gateVars, deviceVars, commandVars, guestVars, sendVars, ChannelInv, TypeOK, ClientInv,
        CommandInv, LateInv, GuestInv, RejectedIsUnsent, NothingBehindAPart, ContactsAreKnown,
        OwnedContacts, CleanIsReleased, Busy, Sending
  <1>5. QED
    BY <1>1, <1>2, <1>3, <1>4 DEF Next

\* The inductive invariant of the input channel.
THEOREM ChannelHolds == Spec => []ChannelInv
  <1>1. Init => ChannelInv
    BY InitKeeps
  <1>2. ChannelInv /\ [Next]_vars => ChannelInv'
    BY NextKeeps
  <1>3. QED
    BY <1>1, <1>2, PTL DEF Spec

\* Every variable of the gate, the client and the guest keeps its type, and a socket
\* is there exactly as long as a connection is.
THEOREM TypeTheorem == Spec => []TypeOK
  <1>1. ChannelInv => TypeOK
    BY DEF ChannelInv
  <1>2. QED
    BY <1>1, ChannelHolds, PTL

\* What the executor hears of an input is what became of it: no byte of a rejected
\* command has left, and no command leaves on another channel, or in another connection,
\* than its evidence was taken in (native_input_gate.cpp:208-222).
THEOREM SentTheorem == Spec => []SentAsReported
  <1>1. ChannelInv => SentAsReported
    BY DEF ChannelInv, CommandInv, Busy, Sending, SentAsReported, SentOnItsChannel
  <1>2. QED
    BY <1>1, ChannelHolds, PTL

\* The guest holds nothing the client does not know of, but what was released into a
\* connection that was lost; behind a confirmed cleanup it holds no more than that.
THEOREM ContactsTheorem == Spec => []ContactsAreKnown
  <1>1. ChannelInv => ContactsAreKnown
    BY DEF ChannelInv
  <1>2. QED
    BY <1>1, ChannelHolds, PTL

\* At most one message that is no release leaves behind the stop.
THEOREM StopTheorem == Spec => []OneAfterStop
  <1>1. ChannelInv => OneAfterStop
    BY DEF ChannelInv, LateInv, OneAfterStop
  <1>2. QED
    BY <1>1, ChannelHolds, PTL

\* Nothing is sent behind half a message, and no command begins on a channel with an
\* open delivery.
THEOREM OpenDeliveryTheorem == Spec => []OpenDeliveryBlocks
  <1>1. ChannelInv => OpenDeliveryBlocks
    BY DEF ChannelInv, CommandInv, Busy, Sending, OpenDeliveryBlocks, NothingBesideUnresolved
  <1>2. QED
    BY <1>1, ChannelHolds, PTL
=============================================================================
