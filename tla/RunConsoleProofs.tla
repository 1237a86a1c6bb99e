-------------------------- MODULE RunConsoleProofs --------------------------
(***************************************************************************)
(* Proofs about RunConsole: types, that a wish runs once, and that a start *)
(* is offered only on a current state.  WishInv says what the service has  *)
(* on disk for every wish that ran; OfferInv that a command is still under *)
(* way as long as what is shown, or about to be, may be older than its     *)
(* answer.                                                                 *)
(***************************************************************************)
EXTENDS RunConsole, TLAPS

\* Ids and wishes go together; a wish that ran is registered, and the one
\* being prepared has not run.
WishInv ==
  /\ \A p \in posts : p.wish = p.id
  /\ intent # None => intent.wish = intent.id
  /\ submit = "sent" => intent # None
  /\ \A w \in Ids : started[w] <= 1 /\ (started[w] = 1 => w \in registered)
  /\ job # "none" => submission # None /\ submission.id \in registered
  /\ job \in {"preparing", "starting"}
       => submission.wish \in registered /\ started[submission.wish] = 0

\* A command on its way, or one that waits for a read that is still to be taken.
Pending ==
  \/ {"sent", "waiting"} \intersect {submit, stop} # {}
  \/ "reading" \in {submit, stop} /\ flight # None /\ flight.step \in {"asked", "viewed"}

OfferInv ==
  /\ fresh => shown # None
  /\ fresh /\ ~shown.latest => Pending
  /\ flight # None /\ flight.step = "viewed" /\ ~flight.value.latest
       => "waiting" \in {submit, stop}

Inv == TypeOK /\ WishInv /\ OfferInv

\* Tuples of variables and the parts of types are opened everywhere.
USE DEF vars, serviceVars, runVars, jobVars, storeVars, netVars, pageVars, readVars, Ids, Phases, States

-----------------------------------------------------------------------------
\* The reads the page begins or gives up are flights.
LEMMA FlightTypes == NewFlight \in Flights /\ Overtaken \in Flights
  BY DEF NewFlight, Overtaken, Flights

\* What a release leaves has the right types.
LEMMA ReleaseTypes ==
  ASSUME Release, submit \in Phases, stop \in Phases
  PROVE  flight' \in Flights \union {None} /\ submit' \in Phases /\ stop' \in Phases
  BY FlightTypes DEF Release, Advance

\* What a command leaves that begins, or that is answered, has the right types.
LEMMA OvertakeTypes ==
  ASSUME TypeOK, Overtake PROVE flight' \in Flights \union {None}
  BY FlightTypes DEF Overtake, TypeOK

LEMMA AnswerTypes ==
  ASSUME TypeOK, ReadsAfterwards
  PROVE  /\ AfterCommand \in Phases
         /\ shown' \in Statuses \union {None} /\ flight' \in Flights \union {None}
<1>1. AfterCommand \in Phases
  BY DEF AfterCommand
<1>2. shown' \in Statuses \union {None}
  BY DEF TypeOK, ReadsAfterwards, Statuses
<1>3. flight' \in Flights \union {None}
  <2>1. CASE flight # None /\ flight.step = "viewed"
    <3>1. flight' = [flight EXCEPT !.value.latest = FALSE]
      BY <2>1 DEF ReadsAfterwards
    <3>2. flight \in [step: {"viewed"}, value: Views]
      BY <2>1 DEF TypeOK, Flights
    <3>3. [flight.value EXCEPT !.latest = FALSE] \in Views
      BY <3>2 DEF Views
    <3>4. flight' \in [step: {"viewed"}, value: Views]
      BY <3>1, <3>2, <3>3
    <3> QED BY <3>4 DEF Flights
  <2>2. CASE flight = None
    BY <2>2, FlightTypes DEF ReadsAfterwards
  <2>3. CASE flight # None /\ flight.step # "viewed"
    BY <2>3 DEF ReadsAfterwards, TypeOK
  <2> QED BY <2>1, <2>2, <2>3
<1> QED BY <1>1, <1>2, <1>3

\* The job's end leaves the submission a final receipt.
LEMMA ReceiptTypes ==
  ASSUME TypeOK, WishInv, job # "none", JobEnds PROVE submission' \in Submissions
<1>1. submission \in Submissions
  BY DEF TypeOK, WishInv
<1>2. 0 \in 0..MaxIds
  BY ConsoleAssumption
<1> QED BY <1>1, <1>2 DEF JobEnds, Submissions

\* What a press sends, and what the page keeps of it, has the right types.
LEMMA SubmitTypes ==
  ASSUME TypeOK, WishInv, Submit PROVE intent' \in Intents /\ posts' \subseteq Posts
<1>1. SubmitId \in Ids /\ SubmitWish \in Ids
  BY ConsoleAssumption DEF Submit, SubmitId, SubmitWish, Unconfirmed, Intents, WishInv, TypeOK
<1> QED BY <1>1 DEF Submit, Intents, Posts, TypeOK

\* A status that is taken is what was read of the run.
LEMMA TakenStatus ==
  ASSUME TypeOK, TakeStatus, Coherent
  PROVE  /\ shown' \in Statuses /\ flight' \in Flights
         /\ shown'.latest = flight.value.latest
<1>1. Submitted("preparing") \in Ids \union {None} /\ Submitted("final") \in Ids \union {None}
  BY ConsoleAssumption DEF Submitted, Submissions, TypeOK
<1>2. flight.value \in Views
  BY ConsoleAssumption DEF TakeStatus, Flights, TypeOK
<1> DEFINE busy == RunActive \/ job # "none"
<1>3. busy \in BOOLEAN
  OBVIOUS
<1>4. shown' = [of |-> flight.value.of, state |-> flight.value.state,
                latest |-> flight.value.latest, busy |-> busy,
                preparing |-> Submitted("preparing")]
  BY DEF TakeStatus
<1>5. shown' \in Statuses /\ shown'.latest = flight.value.latest
  <2> HIDE DEF busy
  <2> QED BY <1>1, <1>2, <1>3, <1>4 DEF Statuses, Views
<1>6. flight' \in Flights
  BY <1>1 DEF TakeStatus, Flights
<1> QED BY <1>5, <1>6

\* Every step keeps the types.
LEMMA TypeStep == Inv /\ [Next]_vars => TypeOK'
<1> SUFFICES ASSUME Inv, [Next]_vars PROVE TypeOK'
  OBVIOUS
<1> USE ConsoleAssumption DEF Inv, TypeOK
<1>1. CASE RecordEnd
  BY <1>1 DEF RecordEnd, Executing
<1>2. CASE CoordinatorStarts
  <2>1. submission.wish \in Ids
    BY <1>2 DEF CoordinatorStarts, WishInv
  <2>2. started' \in [Ids -> Nat]
    BY <1>2, <2>1 DEF CoordinatorStarts
  <2>3. run' \in Nat /\ active' \in 0..run'
    BY <1>2 DEF CoordinatorStarts
  <2> QED BY <1>2, <2>2, <2>3 DEF CoordinatorStarts
<1>3. CASE PreparationEnds
  BY <1>3, ReceiptTypes DEF PreparationEnds, JobEnds
<1>4. CASE RecordRun
  BY <1>4 DEF RecordRun
<1>5. CASE StartFails
  BY <1>5, ReceiptTypes DEF StartFails, JobEnds, Executing
<1>6. CASE SaveReceipt
  BY <1>6, ReceiptTypes DEF SaveReceipt, JobEnds
<1>7. ASSUME NEW p \in posts, HandleStart(p) PROVE TypeOK'
  <2>1. answered' \in BOOLEAN /\ (answered' => submit' = "sent")
    BY <1>7 DEF HandleStart, Awaited
  <2>2. CASE UNCHANGED jobVars
    BY <1>7, <2>1, <2>2 DEF HandleStart
  <2>3. p.id \in Ids /\ p.wish \in 0..MaxIds
    BY DEF Posts
  <2>4. CASE Accept(p)
    <3>1. submission' \in Submissions
      BY <2>3, <2>4 DEF Accept, Submissions
    <3> QED BY <1>7, <2>1, <2>3, <2>4, <3>1 DEF HandleStart, Accept
  <2>5. CASE FailToQueue(p)
    <3>1. submission' \in Submissions
      BY <2>3, <2>5 DEF FailToQueue, Submissions
    <3>2. registered' \subseteq Ids /\ unfinished' \subseteq registered'
      BY <2>3, <2>5 DEF FailToQueue
    <3>3. writable' \in BOOLEAN /\ cancelled' \in BOOLEAN
      BY <2>5 DEF FailToQueue
    <3> QED BY <1>7, <2>1, <2>5, <3>1, <3>2, <3>3 DEF HandleStart, FailToQueue
  <2> QED BY <1>7, <2>2, <2>4, <2>5 DEF HandleStart
<1>8. ASSUME NEW id \in stops, HandleStop(id) PROVE TypeOK'
  <2>1. cancelled' \in BOOLEAN
    BY <1>8 DEF HandleStop
  <2> QED BY <1>8, <2>1 DEF HandleStop
<1>9. CASE LoseCommand
  <2>1. posts' \subseteq Posts /\ stops' \subseteq Ids \union {None}
    BY <1>9 DEF LoseCommand
  <2> QED BY <1>9, <2>1 DEF LoseCommand
<1>10. CASE Restart
  <2>1. writable' \in BOOLEAN /\ unfinished' \subseteq registered'
    <3>1. job # "none" => submission.id \in registered
      BY DEF WishInv
    <3> QED BY <1>10, <3>1 DEF Restart
  <2>2. active' \in 0..run'
    BY <1>10 DEF Restart
  <2>3. instance' \in Nat /\ run' \in Nat
    BY <1>10 DEF Restart
  <2> QED BY <1>10, <2>1, <2>2, <2>3 DEF Restart
<1>11. CASE Poll
  BY <1>11, FlightTypes DEF Poll
<1>12. CASE ViewRun
  BY <1>12 DEF ViewRun, Current, Flights, Views
<1>13. CASE TakeStatus
  <2>3. CASE Coherent
    BY <1>13, <2>3, TakenStatus DEF TakeStatus
  <2>4. CASE ~Coherent
    <3>1. shown' \in Statuses \union {None}
      BY <1>13, <2>4 DEF TakeStatus, Statuses
    <3> QED BY <1>13, <2>4, <3>1, ReleaseTypes DEF TakeStatus, Release, Advance
  <2> QED BY <2>3, <2>4
<1>14. CASE TakeEvents
  <2>1. intent' \in Intents \union {None}
    BY <1>14 DEF TakeEvents, SettleIntent, Intents
  <2> QED BY <1>14, <2>1, ReleaseTypes DEF TakeEvents, Release, Advance
<1>15. CASE ReadFails
  BY <1>15, ReleaseTypes DEF ReadFails, Release, Advance
<1>16. CASE Skip
  BY <1>16, ReleaseTypes DEF Skip, Release, Advance
<1>17. CASE Submit
  BY <1>17, SubmitTypes, OvertakeTypes DEF Submit
<1>18. CASE SubmitReturns
  <2>1. intent' \in Intents \union {None}
    BY <1>18 DEF SubmitReturns, Intents, WishInv
  <2>2. submit' \in Phases /\ shown' \in Statuses \union {None} /\ flight' \in Flights \union {None}
    BY <1>18, AnswerTypes DEF SubmitReturns
  <2> QED BY <1>18, <2>1, <2>2 DEF SubmitReturns
<1>19. CASE RequestStop
  <2>1. StopId \in Ids \union {None}
    BY DEF StopId, Statuses, Intents
  <2> QED BY <1>19, <2>1, OvertakeTypes DEF RequestStop
<1>20. CASE StopReturns
  BY <1>20, AnswerTypes DEF StopReturns
<1>21. CASE LastLook
  BY <1>21 DEF LastLook
<1>22. CASE UNCHANGED vars
  BY <1>22
<1> QED
  BY <1>1, <1>2, <1>3, <1>4, <1>5, <1>6, <1>7, <1>8, <1>9, <1>10, <1>11,
     <1>12, <1>13, <1>14, <1>15, <1>16, <1>17, <1>18, <1>19, <1>20, <1>21, <1>22
     DEF Next, Job, Commands, Reading, User

\* Every step keeps what is known of the wishes.
LEMMA WishStep == Inv /\ [Next]_vars => WishInv'
<1> SUFFICES ASSUME Inv, [Next]_vars PROVE WishInv'
  OBVIOUS
<1> USE ConsoleAssumption DEF Inv, TypeOK, WishInv, Submissions, Posts, Statuses, Views, Intents, Flights
<1>1. CASE RecordEnd
  BY <1>1 DEF RecordEnd, Executing
<1>2. CASE CoordinatorStarts
  BY <1>2 DEF CoordinatorStarts
<1>3. CASE PreparationEnds
  BY <1>3 DEF PreparationEnds, JobEnds
<1>4. CASE RecordRun
  BY <1>4 DEF RecordRun
<1>5. CASE StartFails
  BY <1>5 DEF StartFails, JobEnds, Executing
<1>6. CASE SaveReceipt
  BY <1>6 DEF SaveReceipt, JobEnds
<1>7. ASSUME NEW p \in posts, HandleStart(p) PROVE WishInv'
  <2>1. p.wish = p.id /\ p.id \in Ids
    OBVIOUS
  <2>2. CASE UNCHANGED jobVars
    BY <1>7, <2>2 DEF HandleStart
  <2>3. CASE ~Replayed(p) /\ Accept(p)
    <3>1. submission'.wish = p.id /\ submission' \in Submissions
      BY <2>1, <2>3, ConsoleAssumption DEF Accept
    <3>2. p.id \notin registered /\ started[p.id] = 0
      BY <2>1, <2>3 DEF Replayed
    <3> QED BY <1>7, <2>3, <3>1, <3>2 DEF HandleStart, Accept
  <2>4. CASE Admitted /\ FailToQueue(p)
    <3>1. job' = "none" /\ registered \subseteq registered'
      BY <2>4 DEF FailToQueue, Admitted
    <3> QED BY <1>7, <3>1 DEF HandleStart
  <2> QED BY <1>7, <2>2, <2>3, <2>4 DEF HandleStart
<1>8. ASSUME NEW id \in stops, HandleStop(id) PROVE WishInv'
  BY <1>8 DEF HandleStop, Addressed
<1>9. CASE LoseCommand
  BY <1>9 DEF LoseCommand
<1>10. CASE Restart
  BY <1>10 DEF Restart
<1>11. CASE Poll
  BY <1>11 DEF Poll, NewFlight
<1>12. CASE ViewRun
  BY <1>12 DEF ViewRun, Current
<1>13. CASE TakeStatus
  BY <1>13 DEF TakeStatus, Coherent, Submitted, Release, Advance, NewFlight
<1>14. CASE TakeEvents
  BY <1>14 DEF TakeEvents, SettleIntent, Release, Advance, NewFlight
<1>15. CASE ReadFails
  BY <1>15 DEF ReadFails, Release, Advance, NewFlight
<1>16. CASE Skip
  BY <1>16 DEF Skip, Release, Advance, NewFlight
<1>17. CASE Submit
  <2>1. SubmitWish = SubmitId
    BY DEF SubmitId, SubmitWish, Unconfirmed
  <2>2. \A p \in posts' : p.wish = p.id
    BY <1>17, <2>1 DEF Submit
  <2>3. intent' # None /\ intent'.wish = intent'.id
    <3>1. intent' = [id |-> SubmitId, uncertain |-> TRUE, wish |-> SubmitWish]
      BY <1>17 DEF Submit
    <3>2. intent' \in Intents
      BY <1>17, SubmitTypes
    <3> QED BY <2>1, <3>1, <3>2
  <2> QED BY <1>17, <2>2, <2>3 DEF Submit
<1>18. CASE SubmitReturns
  BY <1>18 DEF SubmitReturns, AfterCommand, ReadsAfterwards, NewFlight
<1>19. CASE RequestStop
  BY <1>19 DEF RequestStop, Overtake, Overtaken, StopId
<1>20. CASE StopReturns
  BY <1>20 DEF StopReturns, AfterCommand, ReadsAfterwards, NewFlight
<1>21. CASE LastLook
  BY <1>21 DEF LastLook
<1>22. CASE UNCHANGED vars
  BY <1>22
<1> QED
  BY <1>1, <1>2, <1>3, <1>4, <1>5, <1>6, <1>7, <1>8, <1>9, <1>10, <1>11,
     <1>12, <1>13, <1>14, <1>15, <1>16, <1>17, <1>18, <1>19, <1>20, <1>21, <1>22
     DEF Next, Job, Commands, Reading, User

\* A command that comes back waits for the read under way or begins one.
LEMMA AnswerStep ==
  ASSUME TypeOK, OfferInv, ReadsAfterwards, UNCHANGED fresh,
         AfterCommand \in {submit', stop'}
  PROVE  OfferInv'
<1>1. fresh' => shown' # None
  BY ConsoleAssumption DEF OfferInv, ReadsAfterwards, TypeOK, Statuses
<1>2. CASE flight = None
  <2>1. "reading" \in {submit', stop'} /\ flight' = NewFlight
    BY <1>2 DEF AfterCommand, ReadsAfterwards
  <2>2. flight' # None /\ flight'.step = "asked"
    BY <2>1, FlightTypes, ConsoleAssumption DEF NewFlight
  <2> QED BY <1>1, <2>1, <2>2 DEF OfferInv, Pending
<1>3. CASE flight # None
  <2>1. "waiting" \in {submit', stop'}
    BY <1>3 DEF AfterCommand
  <2> QED BY <1>1, <2>1 DEF OfferInv, Pending
<1> QED BY <1>2, <1>3

\* Every step leaves a command under way where what is shown may be too old.
LEMMA OfferStep == Inv /\ [Next]_vars => OfferInv'
<1> SUFFICES ASSUME Inv, [Next]_vars PROVE OfferInv'
  OBVIOUS
<1> USE ConsoleAssumption DEF Inv, TypeOK, OfferInv, Pending, Submissions, Posts, Statuses, Views, Intents, Flights
<1>1. CASE RecordEnd
  BY <1>1 DEF RecordEnd, Executing
<1>2. CASE CoordinatorStarts
  BY <1>2 DEF CoordinatorStarts
<1>3. CASE PreparationEnds
  BY <1>3 DEF PreparationEnds, JobEnds
<1>4. CASE RecordRun
  BY <1>4 DEF RecordRun
<1>5. CASE StartFails
  BY <1>5 DEF StartFails, JobEnds, Executing
<1>6. CASE SaveReceipt
  BY <1>6 DEF SaveReceipt, JobEnds
<1>7. ASSUME NEW p \in posts, HandleStart(p) PROVE OfferInv'
  BY <1>7 DEF HandleStart, Awaited, Replayed, Admitted, RunActive, Executing
<1>8. ASSUME NEW id \in stops, HandleStop(id) PROVE OfferInv'
  BY <1>8 DEF HandleStop, Addressed
<1>9. CASE LoseCommand
  BY <1>9 DEF LoseCommand
<1>10. CASE Restart
  BY <1>10 DEF Restart
<1>11. CASE Poll
  BY <1>11 DEF Poll, NewFlight
<1>12. CASE ViewRun
  <2>1. flight' = [step |-> "viewed",
                   value |-> [of |-> Current, state |-> state, latest |-> TRUE]]
    BY <1>12 DEF ViewRun
  <2>2. flight' \in [step: {"viewed"}, value: Views] /\ flight'.value.latest
    BY <2>1 DEF Current
  <2> QED BY <1>12, <2>2 DEF ViewRun
<1>13. CASE TakeStatus
  <2>1. CASE Coherent
    <3>1. shown' # None /\ shown'.latest = flight.value.latest
      <4> HIDE DEF Statuses
      <4> QED BY <1>13, <2>1, TakenStatus
    <3>2. flight'.step = "events"
      BY <1>13, <2>1 DEF TakeStatus
    <3>3. shown'.latest \/ "waiting" \in {submit', stop'}
      BY <1>13, <2>1, <3>1 DEF TakeStatus
    <3> QED BY <3>1, <3>2, <3>3
  <2>2. CASE ~Coherent
    <3>1. ASSUME shown # None PROVE shown' # None /\ shown'.latest
      <4>1. shown' = [shown EXCEPT !.latest = TRUE]
        BY <1>13, <2>2, <3>1 DEF TakeStatus
      <4>2. shown' \in Statuses /\ shown'.latest
        BY <3>1, <4>1
      <4> QED BY <4>2
    <3>2. shown' # None => shown # None
      BY <1>13, <2>2 DEF TakeStatus
    <3>3. Release /\ UNCHANGED fresh
      BY <1>13, <2>2 DEF TakeStatus
    <3> QED BY <3>1, <3>2, <3>3 DEF Release, Advance, NewFlight
  <2> QED BY <2>1, <2>2
<1>14. CASE TakeEvents
  BY <1>14 DEF TakeEvents, SettleIntent, Release, Advance, NewFlight
<1>15. CASE ReadFails
  BY <1>15 DEF ReadFails, Release, Advance, NewFlight
<1>16. CASE Skip
  BY <1>16 DEF Skip, Release, Advance, NewFlight
<1>17. CASE Submit
  BY <1>17 DEF Submit, Overtake, Overtaken, SubmitId, SubmitWish, Unconfirmed, CanStart
<1>18. CASE SubmitReturns
  BY <1>18, AnswerStep DEF SubmitReturns
<1>19. CASE RequestStop
  BY <1>19 DEF RequestStop, Overtake, Overtaken, StopId
<1>20. CASE StopReturns
  BY <1>20, AnswerStep DEF StopReturns
<1>21. CASE LastLook
  BY <1>21 DEF LastLook
<1>22. CASE UNCHANGED vars
  BY <1>22
<1> QED
  BY <1>1, <1>2, <1>3, <1>4, <1>5, <1>6, <1>7, <1>8, <1>9, <1>10, <1>11,
     <1>12, <1>13, <1>14, <1>15, <1>16, <1>17, <1>18, <1>19, <1>20, <1>21, <1>22
     DEF Next, Job, Commands, Reading, User
-----------------------------------------------------------------------------
\* A fresh page and a fresh service satisfy the invariant.
LEMMA InvInit == Init => Inv
<1> SUFFICES ASSUME Init PROVE Inv
  OBVIOUS
<1> USE ConsoleAssumption DEF Init
<1>1. started \in [Ids -> Nat] /\ 1 \in Nat /\ 0 \in 0..0
  OBVIOUS
<1>2. TypeOK
  BY <1>1, FlightTypes DEF TypeOK
<1>3. WishInv
  BY DEF WishInv
<1>4. OfferInv
  BY DEF OfferInv, NewFlight
<1> QED BY <1>2, <1>3, <1>4 DEF Inv

\* The invariant holds in every state, whatever is lost, retried or restarted.
THEOREM InvHolds == Spec => []Inv
<1>1. Inv /\ [Next]_vars => Inv'
  BY TypeStep, WishStep, OfferStep DEF Inv
<1> QED BY InvInit, <1>1, PTL DEF Spec

\* The types, of the service, of what is on its way and of the page.
THEOREM TypesHold == Spec => []TypeOK
<1>1. Inv => TypeOK
  BY DEF Inv
<1> QED BY InvHolds, <1>1, PTL

\* A start that is sent again, arrives late, or is handled by the next
\* instance of the service runs the user's wish no second time.
THEOREM WishTheorem == Spec => []WishRunsOnce
<1>1. Inv => WishRunsOnce
  BY DEF Inv, WishInv, WishRunsOnce
<1> QED BY InvHolds, <1>1, PTL

\* The page offers a start only on a state read after its last command.
THEOREM OfferTheorem == Spec => []OffersAreCurrent
<1>1. ASSUME Inv PROVE OffersAreCurrent
  <2>1. CanStart => fresh /\ submit = "no" /\ stop = "no"
    BY DEF CanStart
  <2> QED BY <1>1, <2>1 DEF Inv, OfferInv, Pending, OffersAreCurrent
<1> QED BY InvHolds, <1>1, PTL
=============================================================================
