------------------------- MODULE FlowExecutorProofs -------------------------
(***************************************************************************)
(* Proofs about FlowExecutor: types and the shape of the stack, what is    *)
(* sent and awaited, restarts, and that the account of receipts is the one *)
(* of InputLedger.  StackInv is about the stack and its receipts, ModeInv  *)
(* about the recovery.  Each action has a lemma that says what becomes of  *)
(* the stack and of the account: Accounted, Issued or Reissued.            *)
(***************************************************************************)
EXTENDS FlowExecutor, WellFoundedInduction, TLAPS

-----------------------------------------------------------------------------
(* Frames. *)

\* Where a frame may be.
Places == {"select", "step", "await"}

\* What the updates of a frame leave of it.
LEMMA FieldTypes ==
  ASSUME NEW f \in Frames
  PROVE  /\ f.at \in Places /\ f.event \in Rules \union {NoEvent} /\ f.owner \in 0 .. MaxDepth
         /\ f.pending \in Receipts \union {NoReceipt} /\ f.resume \in Resumes
  BY DEF Frames, Places

\* A frame that moves keeps all but its place.
LEMMA MovedFields ==
  ASSUME NEW f \in Frames, NEW at \in Places
  PROVE  LET g == [f EXCEPT !.at = at] IN
         /\ g \in Frames /\ g.at = at
         /\ g.event = f.event /\ g.owner = f.owner /\ g.pending = f.pending /\ g.resume = f.resume
  BY DEF Frames, Places

\* A frame that gets or loses a receipt keeps all else.
LEMMA PendingFields ==
  ASSUME NEW f \in Frames, NEW r \in Receipts \union {NoReceipt}
  PROVE  LET g == [f EXCEPT !.pending = r] IN
         /\ g \in Frames /\ g.pending = r
         /\ g.event = f.event /\ g.owner = f.owner /\ g.at = f.at /\ g.resume = f.resume
  BY DEF Frames, Places

\* A frame that is asked to replan keeps all else.
LEMMA ResumeFields ==
  ASSUME NEW f \in Frames, NEW r \in Resumes
  PROVE  LET g == [f EXCEPT !.resume = r] IN
         /\ g \in Frames /\ g.resume = r
         /\ g.event = f.event /\ g.owner = f.owner /\ g.at = f.at /\ g.pending = f.pending
  BY DEF Frames, Places

\* A replanned frame is at a step and owes nothing.
LEMMA ReplannedFields ==
  ASSUME NEW f \in Frames
  PROVE  /\ Replanned(f) \in Frames /\ Replanned(f).at = "step"
         /\ Replanned(f).pending = NoReceipt /\ Replanned(f).resume = NoResume
         /\ Replanned(f).event = f.event /\ Replanned(f).owner = f.owner
  BY DEF Replanned, Frames, Resumes

\* A frame that chooses again owes nothing; one that owed nothing stays as it was.
LEMMA ReselectedFields ==
  ASSUME NEW f \in Frames, NEW at \in {"select", "step"}
  PROVE  LET g == Reselected(f, at) IN
         /\ g \in Frames /\ g.pending = NoReceipt
         /\ ~Owes(f) => g = f
         /\ g.event = f.event /\ g.owner = f.owner /\ g.resume = f.resume
<1>1. CASE Owes(f)
  <2> DEFINE place == IF f.pending.input \in Routed THEN "step" ELSE at
  <2>1. place \in Places
    BY DEF Places
  <2>2. Reselected(f, at) = [f EXCEPT !.pending = NoReceipt, !.at = place]
    BY <1>1 DEF Reselected
  <2> HIDE DEF place
  <2> QED BY <1>1, <2>1, <2>2 DEF Frames, Places
<1>2. CASE ~Owes(f)
  BY <1>2 DEF Reselected, Owes
<1> QED BY <1>1, <1>2

\* A new frame is at a step, and owes and replans nothing.
LEMMA HandlerFields ==
  ASSUME NEW rule \in Rules \union {NoEvent}, NEW owner \in 0 .. MaxDepth
  PROVE  LET g == Handler(rule, owner) IN
         /\ g \in Frames /\ g.at = "step" /\ g.event = rule /\ g.owner = owner
         /\ g.pending = NoReceipt /\ g.resume = NoResume
  BY DEF Handler, Frames, Resumes

\* A receipt sent again.
LEMMA RetriedFields ==
  ASSUME NEW f \in Frames, f.pending \in Receipts, NEW u \in BOOLEAN,
         f.pending.attempts < MaxAttempts, MaxAttempts \in Nat
  PROVE  LET g == [f EXCEPT !.pending.unknown = u, !.pending.attempts = @ + 1] IN
         /\ g \in Frames /\ g.pending \in Receipts
         /\ g.pending.id = f.pending.id /\ g.pending.input = f.pending.input
         /\ g.pending.unknown = u /\ g.pending.attempts = f.pending.attempts + 1
         /\ g.event = f.event /\ g.owner = f.owner /\ g.at = f.at /\ g.resume = f.resume
<1> DEFINE n == f.pending.attempts + 1
           r == [f.pending EXCEPT !.unknown = u, !.attempts = n]
<1>1. n \in 1 .. MaxAttempts
  BY DEF Receipts
<1>2. [f EXCEPT !.pending.unknown = u, !.pending.attempts = @ + 1] = [f EXCEPT !.pending = r]
  BY DEF Frames, Receipts
<1> HIDE DEF n
<1>3. /\ r \in Receipts /\ r.id = f.pending.id /\ r.input = f.pending.input
      /\ r.unknown = u /\ r.attempts = n
  BY <1>1 DEF Receipts
<1> HIDE DEF r
<1>4. n = f.pending.attempts + 1
  BY DEF n
<1> DEFINE g == [f EXCEPT !.pending = r]
<1>5. /\ g \in Frames /\ g.pending = r
      /\ g.event = f.event /\ g.owner = f.owner /\ g.at = f.at /\ g.resume = f.resume
  BY <1>3, PendingFields
<1> HIDE DEF g
<1>6. [f EXCEPT !.pending.unknown = u, !.pending.attempts = @ + 1] = g
  BY <1>2, Zenon DEF g
<1> QED BY <1>3, <1>4, <1>5, <1>6

\* A receipt whose delivery got lost.
LEMMA LostFields ==
  ASSUME NEW f \in Frames, f.pending \in Receipts
  PROVE  LET g == [f EXCEPT !.pending.unknown = TRUE] IN
         /\ g \in Frames /\ g.pending \in Receipts
         /\ g.pending.id = f.pending.id /\ g.pending.input = f.pending.input
         /\ g.pending.unknown = TRUE /\ g.pending.attempts = f.pending.attempts
         /\ g.event = f.event /\ g.owner = f.owner /\ g.at = f.at /\ g.resume = f.resume
<1> DEFINE r == [f.pending EXCEPT !.unknown = TRUE]
<1>1. r \in Receipts /\ r.id = f.pending.id /\ r.input = f.pending.input /\ r.unknown = TRUE
      /\ r.attempts = f.pending.attempts
  BY DEF Receipts
<1>2. [f EXCEPT !.pending.unknown = TRUE] = [f EXCEPT !.pending = r]
  BY DEF Frames, Receipts
<1> HIDE DEF r
<1> QED BY <1>1, <1>2, PendingFields
-----------------------------------------------------------------------------
(* The stack. *)

\* Frames up to the depth, blanks above, and the receipts issued so far.
StackTypes ==
  /\ depth \in Levels /\ frame \in [Levels -> Frames]
  /\ \A i \in Levels : i > depth => frame[i] = Blank
  /\ sent \in 0 .. MaxSends /\ settled \subseteq 1 .. sent

\* The root is no handler, and a handler knows its owner.
HandlersOwned == \A i \in Levels : IsHandler(frame[i]) => frame[i].owner # 0

\* A receipt has an identity of its own, and is open or settled.
ReceiptsDiffer ==
  /\ \A i \in Levels : Owes(frame[i]) =>
       /\ frame[i].pending.id \in 1 .. sent
       /\ frame[i].pending.id \notin settled
  /\ \A i, j \in Levels :
       Owes(frame[i]) /\ Owes(frame[j]) /\ frame[i].pending.id = frame[j].pending.id => i = j

\* The stack and what it owes.
StackInv ==
  /\ StackTypes /\ StackShape /\ HandlersOwned /\ ReceiptsDiffer
  /\ AttemptsBounded /\ RestartNeverOverProtected

\* The constants are what the validated program and the build make them.
USE ExecutorAssumption

\* What a frame owes is a receipt with an identity.
LEMMA Owed ==
  ASSUME NEW f \in Frames
  PROVE  /\ Owes(f) <=> f.pending \in Receipts
         /\ f.pending \in Receipts => f.pending.id \in Nat \ {0}
  BY FieldTypes DEF Owes, Receipts, NoReceipt

\* The levels above the stack hold nothing.
LEMMA BlankFields == Blank \in Frames /\ ~Owes(Blank) /\ ~IsHandler(Blank) /\ Blank.resume = NoResume
  BY HandlerFields DEF Blank, Called, Owes, IsHandler

\* What becomes of a stack whose top alone changes.
LEMMA TopChanges ==
  ASSUME StackInv, NEW f \in Frames, SetTop(f), UNCHANGED depth,
         f.event = Top.event, f.owner = Top.owner, f.resume = Top.resume,
         sent' \in sent .. MaxSends, settled' \subseteq 1 .. sent',
         \A i \in Levels : i # depth /\ Owes(frame[i]) => frame[i].pending.id \notin settled',
         Owes(f) => /\ f.pending.id \in 1 .. sent' /\ f.pending.id \notin settled'
                    /\ \A i \in Levels : i # depth /\ Owes(frame[i]) => frame[i].pending.id # f.pending.id
                    /\ \/ f.pending.attempts = 1 \/ Limit[f.pending.input] = 0
                       \/ f.pending.attempts <= Limit[f.pending.input]
  PROVE  /\ StackInv' /\ frame'[depth] = f
         /\ \A i \in Levels : i # depth => frame'[i] = frame[i]
<1>1. frame' = [frame EXCEPT ![depth] = f] /\ frame \in [Levels -> Frames] /\ depth \in Levels
  BY DEF SetTop, StackInv, StackTypes
<1>2. frame' \in [Levels -> Frames] /\ frame'[depth] = f
      /\ \A i \in Levels : i # depth => frame'[i] = frame[i]
  BY <1>1
<1>3. StackTypes'
  BY <1>2 DEF StackInv, StackTypes, Levels
<1>4. StackShape'
  BY <1>1, <1>2 DEF StackInv, StackShape, Active, Top, IsHandler, Levels
<1>5. HandlersOwned'
  BY <1>1, <1>2 DEF StackInv, HandlersOwned, Top, IsHandler
<1>6. ReceiptsDiffer'
  BY <1>1, <1>2 DEF StackInv, StackTypes, ReceiptsDiffer
<1>7. AttemptsBounded'
  BY <1>1, <1>2 DEF StackInv, AttemptsBounded, Active, Levels
<1>8. RestartNeverOverProtected'
  BY <1>1, <1>2 DEF StackInv, RestartNeverOverProtected, Active, Levels, Top
<1> QED BY <1>2, <1>3, <1>4, <1>5, <1>6, <1>7, <1>8 DEF StackInv

\* What becomes of a stack on which something without a receipt is put.
LEMMA TopAdded ==
  ASSUME StackInv, NEW f \in Frames, Push(f), UNCHANGED ledgerVars,
         f.pending = NoReceipt, f.resume = NoResume, f.owner <= depth, f.event # Restart,
         IsHandler(f) => f.owner # 0,
         f.event \in Events => \A i \in Active : frame[i].event # f.event,
         ~IsHandler(f) => ~Owes(Top) /\ Top.resume = NoResume
  PROVE  /\ StackInv' /\ frame'[depth + 1] = f
         /\ \A i \in Levels : i # depth + 1 => frame'[i] = frame[i]
<1>1. /\ frame' = [frame EXCEPT ![depth + 1] = f] /\ frame \in [Levels -> Frames]
      /\ depth \in Levels /\ depth + 1 \in Levels /\ depth' = depth + 1
  BY DEF Push, StackInv, StackTypes, Levels
<1>2. frame' \in [Levels -> Frames] /\ frame'[depth + 1] = f
      /\ \A i \in Levels : i # depth + 1 => frame'[i] = frame[i]
  BY <1>1
<1>3. StackTypes'
  BY <1>1, <1>2 DEF StackInv, StackTypes, Levels, ledgerVars
<1>a. \A i \in Levels : frame[i].owner \in 0 .. MaxDepth /\ frame[i].resume.owner \in 0 .. MaxDepth
  BY <1>1, FieldTypes DEF Resumes, NoResume, Levels
<1>b. \A i \in Active' : i = depth + 1 \/ i \in Active
  BY <1>1 DEF Active, Levels
<1>c. f.resume.owner = 0 /\ f.owner \in 0 .. MaxDepth
  BY FieldTypes DEF NoResume
<1>4. StackShape'
  <2>1. \A i \in Active' : frame'[i].owner < i /\ frame'[i].resume.owner <= i
    <3>1. ASSUME NEW i \in Active PROVE frame'[i].owner < i /\ frame'[i].resume.owner <= i
      BY <1>1, <1>2, <3>1 DEF StackInv, StackShape, Active, Levels
    <3>2. frame'[depth + 1].owner < depth + 1 /\ frame'[depth + 1].resume.owner <= depth + 1
      BY <1>1, <1>2, <1>c DEF Levels
    <3> QED BY <1>b, <3>1, <3>2
  <2>2. \A i, j \in Active' : frame'[i].event = frame'[j].event /\ frame'[i].event \in Events => i = j
    BY <1>1, <1>2, <1>b DEF StackInv, StackShape, Active, Levels
  <2>3. \A i \in Active' : i < depth' /\ (Owes(frame'[i]) \/ frame'[i].resume # NoResume) =>
          IsHandler(frame'[i + 1])
    <3> SUFFICES ASSUME NEW i \in Active, Owes(frame'[i]) \/ frame'[i].resume # NoResume
                 PROVE  IsHandler(frame'[i + 1])
      BY <1>1, <1>b
    <3>1. frame'[i] = frame[i]
      BY <1>1, <1>2 DEF Active, Levels
    <3>2. CASE i = depth
      BY <1>2, <3>1, <3>2 DEF Top
    <3>3. CASE i < depth
      <4>1. IsHandler(frame[i + 1])
        BY <3>1, <3>3 DEF StackInv, StackShape
      <4> QED BY <1>1, <1>2, <3>3, <4>1 DEF Active, Levels
    <3> QED BY <1>1, <3>2, <3>3 DEF Active, Levels
  <2> QED BY <2>1, <2>2, <2>3 DEF StackShape
<1>5. HandlersOwned'
  BY <1>1, <1>2 DEF StackInv, HandlersOwned, IsHandler
<1>6. ReceiptsDiffer'
  BY <1>1, <1>2 DEF StackInv, ReceiptsDiffer, Owes, ledgerVars
<1>7. AttemptsBounded'
  BY <1>1, <1>2 DEF StackInv, AttemptsBounded, Active, Levels, Owes
<1>8. RestartNeverOverProtected'
  BY <1>1, <1>2 DEF StackInv, RestartNeverOverProtected, Active, Levels, Owes
<1> QED BY <1>2, <1>3, <1>4, <1>5, <1>6, <1>7, <1>8 DEF StackInv

\* What becomes of a stack that is cut, with receipts closed or as they were.
LEMMA TopRemoved ==
  ASSUME StackInv, NEW n \in 1 .. depth, depth' = n, frame' \in [Levels -> Frames],
         \A i \in Levels : i > n => frame'[i] = Blank,
         \A i \in 1 .. n : /\ frame'[i].event = frame[i].event /\ frame'[i].owner = frame[i].owner
                           /\ frame'[i].pending \in {frame[i].pending, NoReceipt},
         \A i \in 1 .. n : i < n => frame'[i].resume = frame[i].resume,
         frame'[n].resume.owner <= n,
         UNCHANGED sent, settled' \subseteq 1 .. sent,
         \A i \in 1 .. n : Owes(frame'[i]) => frame'[i].pending.id \notin settled'
  PROVE  StackInv'
<1>1. n \in Levels /\ depth \in Levels /\ n <= depth /\ frame \in [Levels -> Frames]
  BY DEF StackInv, StackTypes, Levels
<1>2. StackTypes'
  BY <1>1 DEF StackInv, StackTypes, Levels
<1>3. StackShape'
  <2>1. \A i \in Active' : frame'[i].owner < i /\ frame'[i].resume.owner <= i
    BY <1>1 DEF StackInv, StackShape, Active
  <2>2. \A i, j \in Active' : frame'[i].event = frame'[j].event /\ frame'[i].event \in Events => i = j
    BY <1>1 DEF StackInv, StackShape, Active
  <2>3. \A i \in Active' : i < depth' /\ (Owes(frame'[i]) \/ frame'[i].resume # NoResume) =>
          IsHandler(frame'[i + 1])
    <3> SUFFICES ASSUME NEW i \in 1 .. n, i < n, Owes(frame'[i]) \/ frame'[i].resume # NoResume
                 PROVE  IsHandler(frame'[i + 1])
      BY DEF Active
    <3>1. Owes(frame[i]) \/ frame[i].resume # NoResume
      BY DEF Owes
    <3>2. IsHandler(frame[i + 1])
      BY <1>1, <3>1 DEF StackInv, StackShape, Active
    <3>3. i + 1 \in 1 .. n
      BY <1>1
    <3> QED BY <3>2, <3>3 DEF IsHandler
  <2> QED BY <2>1, <2>2, <2>3 DEF StackShape
<1>4. HandlersOwned'
  BY <1>1, BlankFields DEF StackInv, HandlersOwned, IsHandler, Levels
<1>5. \A i \in Levels : Owes(frame'[i]) => i <= n /\ Owes(frame[i]) /\ frame'[i].pending = frame[i].pending
  BY <1>1, BlankFields DEF Owes, Levels
<1>6. ReceiptsDiffer'
  <2>1. \A i \in Levels : Owes(frame'[i]) =>
          frame'[i].pending.id \in 1 .. sent' /\ frame'[i].pending.id \notin settled'
    BY <1>1, <1>5 DEF StackInv, ReceiptsDiffer, Levels
  <2>2. \A i, j \in Levels :
          Owes(frame'[i]) /\ Owes(frame'[j]) /\ frame'[i].pending.id = frame'[j].pending.id => i = j
    BY <1>5 DEF StackInv, ReceiptsDiffer
  <2> QED BY <2>1, <2>2 DEF ReceiptsDiffer
<1>7. AttemptsBounded'
  BY <1>1, <1>5 DEF StackInv, AttemptsBounded, Active, Levels
<1>8. RestartNeverOverProtected'
  BY <1>1, <1>5 DEF StackInv, RestartNeverOverProtected, Active, Levels
<1> QED BY <1>2, <1>3, <1>4, <1>6, <1>7, <1>8 DEF StackInv

-----------------------------------------------------------------------------
(* What a step may do to the account of receipts. *)

\* A known receipt of a repeatable input, of a payment only with a route.
GivenUp(f) ==
  /\ ~f.pending.unknown
  /\ f.pending.input \in Retryable
  /\ f.pending.input \in Effects => f.pending.input \in Routed

\* The receipts that are no longer owed.
Gone == {frame[i].pending.id : i \in {j \in Levels : Owes(frame[j]) /\ ~Owes(frame'[j])}}

\* No receipt is new or changed; what is gone was settled, or all of it given up.
Accounted ==
  /\ sent' = sent
  /\ \A i \in Levels : Owes(frame'[i]) => frame'[i].pending = frame[i].pending
  /\ \/ settled' = settled \union Gone
     \/ settled' = settled /\ \A i \in Levels : Owes(frame[i]) /\ ~Owes(frame'[i]) => GivenUp(frame[i])

\* The top frame gets the next receipt, with none unknown.
Issued ==
  /\ ~Owes(frame[depth]) /\ ~Unknown
  /\ sent' = sent + 1 /\ UNCHANGED settled
  /\ Owes(frame'[depth]) /\ frame'[depth].pending.id = sent' /\ frame'[depth].pending.unknown \in BOOLEAN
  /\ \A i \in Levels : i # depth => frame'[i] = frame[i]

\* The top frame keeps its receipt, of which less may be known.
Reissued ==
  /\ Owes(frame[depth]) /\ ~Unknown
  /\ UNCHANGED ledgerVars
  /\ Owes(frame'[depth]) /\ frame'[depth].pending.id = frame[depth].pending.id
  /\ frame'[depth].pending.unknown \in BOOLEAN
  /\ \A i \in Levels : i # depth => frame'[i] = frame[i]

-----------------------------------------------------------------------------
(* The stack over one step. *)

\* The top frame is where the stack says, and its fields are in range.
LEMMA TopTypes ==
  ASSUME StackInv
  PROVE  /\ depth \in Levels /\ depth \in Nat \ {0} /\ Top = frame[depth] /\ Top \in Frames
         /\ Active \subseteq Levels /\ depth \in Active
  BY DEF StackInv, StackTypes, Levels, Active, Top

\* A top that keeps or closes its receipt leaves the rest of the stack in order.
LEMMA TopMoves ==
  ASSUME StackInv, NEW f \in Frames, SetTop(f), UNCHANGED depth,
         f.event = Top.event, f.owner = Top.owner, f.resume = Top.resume,
         f.pending \in {Top.pending, NoReceipt},
         UNCHANGED sent, settled' \subseteq 1 .. sent,
         \A i \in Levels : Owes(frame[i]) /\ (i # depth \/ Owes(f)) => frame[i].pending.id \notin settled'
  PROVE  /\ StackInv' /\ frame'[depth] = f
         /\ \A i \in Levels : i # depth => frame'[i] = frame[i]
<1>1. Owes(f) => Owes(Top) /\ f.pending = Top.pending
  BY DEF Owes
<1>2. Owes(f) => f.pending.id \in 1 .. sent' /\ f.pending.id \notin settled'
  BY <1>1, TopTypes DEF StackInv, ReceiptsDiffer
<1>3. Owes(f) => \A i \in Levels : i # depth /\ Owes(frame[i]) => frame[i].pending.id # f.pending.id
  BY <1>1, TopTypes DEF StackInv, ReceiptsDiffer
<1>4. Owes(f) => \/ f.pending.attempts = 1 \/ Limit[f.pending.input] = 0
                 \/ f.pending.attempts <= Limit[f.pending.input]
  BY <1>1, TopTypes DEF StackInv, AttemptsBounded
<1>5. sent' \in sent .. MaxSends /\ settled' \subseteq 1 .. sent'
  BY DEF StackInv, StackTypes
<1> QED BY <1>2, <1>3, <1>4, <1>5, TopChanges

\* While the flow goes on, what owes a receipt is not at a step of its own.
LEMMA TopAwaits ==
  ASSUME StackInv, OwedIsAwaited, NEW f,
         frame'[depth] = f, \A i \in Levels : i # depth => frame'[i] = frame[i], UNCHANGED depth,
         terminal' = "Progress" => terminal = "Progress" /\ (Owes(f) => f.at # "step")
  PROVE  OwedIsAwaited'
  BY TopTypes DEF OwedIsAwaited, Active

\* A step that touches neither the stack nor the account.
LEMMA StackKept ==
  ASSUME StackInv, OwedIsAwaited, UNCHANGED <<stackVars, ledgerVars>>,
         terminal' = "Progress" => terminal = "Progress"
  PROVE  StackInv' /\ OwedIsAwaited' /\ Accounted
<1>1. Accounted
  BY DEF Accounted, stackVars, ledgerVars
<1> QED BY <1>1
       DEF StackInv, StackTypes, StackShape, HandlersOwned, ReceiptsDiffer, AttemptsBounded,
         RestartNeverOverProtected, OwedIsAwaited, Active, Top, stackVars, ledgerVars

\* Choosing a successor: the input of the frame, if any, is awaited next.
LEMMA SelectStack ==
  ASSUME StackInv, OwedIsAwaited, Select
  PROVE  StackInv' /\ OwedIsAwaited' /\ Accounted
<1> DEFINE at == IF Owes(Top) THEN "await" ELSE "step"
<1>1. SetTop(Moved(at)) /\ UNCHANGED <<depth, terminal, sent, settled>>
  BY DEF Select, ledgerVars
<1>2. at \in Places /\ (Owes(Top) => at # "step")
  BY DEF Places
<1> HIDE DEF at
<1>3. /\ Moved(at) \in Frames /\ Moved(at).at = at
      /\ Moved(at).event = Top.event /\ Moved(at).owner = Top.owner
      /\ Moved(at).pending = Top.pending /\ Moved(at).resume = Top.resume
  BY <1>2, TopTypes, MovedFields DEF Moved
<1>4. /\ StackInv' /\ frame'[depth] = Moved(at)
      /\ \A i \in Levels : i # depth => frame'[i] = frame[i]
  BY <1>1, <1>3, TopMoves DEF StackInv, StackTypes, ReceiptsDiffer
<1>5. Owes(Moved(at)) => Moved(at).at # "step"
  BY <1>2, <1>3 DEF Owes
<1>6. Accounted
  BY <1>1, <1>3, <1>4, TopTypes DEF Accounted, Owes
<1> QED BY <1>1, <1>4, <1>5, <1>6, TopAwaits

\* A plain step.
LEMMA AdvanceStack ==
  ASSUME StackInv, OwedIsAwaited, Advance
  PROVE  StackInv' /\ OwedIsAwaited' /\ Accounted
<1>1. SetTop(Moved("select")) /\ UNCHANGED <<depth, terminal, sent, settled>>
  BY DEF Advance, ledgerVars
<1>2. LET f == Moved("select") IN
      /\ f \in Frames /\ f.at = "select"
      /\ f.event = Top.event /\ f.owner = Top.owner /\ f.pending = Top.pending /\ f.resume = Top.resume
  BY TopTypes, MovedFields DEF Moved, Places
<1>3. /\ StackInv' /\ frame'[depth] = Moved("select")
      /\ \A i \in Levels : i # depth => frame'[i] = frame[i]
  BY <1>1, <1>2, TopMoves DEF StackInv, StackTypes, ReceiptsDiffer
<1>4. Accounted
  BY <1>1, <1>2, <1>3, TopTypes DEF Accounted, Owes
<1> QED BY <1>1, <1>2, <1>3, <1>4, TopAwaits

\* A frame whose receipt is closed and which chooses again.
LEMMA ClosedFields ==
  ASSUME StackInv
  PROVE  LET g == [Moved("select") EXCEPT !.pending = NoReceipt] IN
         /\ g \in Frames /\ g.at = "select" /\ g.pending = NoReceipt
         /\ g.event = Top.event /\ g.owner = Top.owner /\ g.resume = Top.resume
<1> DEFINE f == Moved("select")
<1>1. /\ f \in Frames /\ f.at = "select"
      /\ f.event = Top.event /\ f.owner = Top.owner /\ f.resume = Top.resume
  BY TopTypes, MovedFields DEF Moved, Places
<1> HIDE DEF f
<1> QED BY <1>1, PendingFields DEF f

\* A receipt that is settled was the one of the top frame, and no other.
LEMMA SettleStack ==
  ASSUME StackInv, OwedIsAwaited, Settle
  PROVE  StackInv' /\ OwedIsAwaited' /\ Accounted
<1> DEFINE f == [Moved("select") EXCEPT !.pending = NoReceipt]
<1>1. /\ SetTop(f) /\ UNCHANGED <<depth, terminal, sent>> /\ Owes(Top)
      /\ settled' = settled \union {Top.pending.id}
  BY DEF Settle
<1>2. /\ f \in Frames /\ f.at = "select" /\ f.pending = NoReceipt
      /\ f.event = Top.event /\ f.owner = Top.owner /\ f.resume = Top.resume
  BY ClosedFields
<1> HIDE DEF f
<1>3. settled' \subseteq 1 .. sent
  BY <1>1, TopTypes DEF StackInv, StackTypes, ReceiptsDiffer
<1>4. \A i \in Levels : Owes(frame[i]) /\ i # depth => frame[i].pending.id \notin settled'
  BY <1>1, TopTypes DEF StackInv, ReceiptsDiffer
<1>5. ~Owes(f)
  BY <1>2 DEF Owes
<1>6. StackInv' /\ frame'[depth] = f /\ \A i \in Levels : i # depth => frame'[i] = frame[i]
  BY <1>1, <1>2, <1>3, <1>4, <1>5, TopMoves
<1>7. Gone = {Top.pending.id}
  BY <1>1, <1>5, <1>6, TopTypes DEF Gone
<1>8. Accounted
  BY <1>1, <1>5, <1>6, <1>7 DEF Accounted
<1> QED BY <1>1, <1>5, <1>6, <1>8, TopAwaits

\* A receipt given up for want of progress was known, and repeatable.
LEMMA NoProgressStack ==
  ASSUME StackInv, OwedIsAwaited, NoProgress
  PROVE  StackInv' /\ OwedIsAwaited' /\ Accounted
<1> DEFINE f == [Moved("select") EXCEPT !.pending = NoReceipt]
<1>1. SetTop(f) /\ UNCHANGED <<depth, terminal, sent, settled>>
  BY DEF NoProgress, ledgerVars
<1>2. /\ f \in Frames /\ f.at = "select" /\ f.pending = NoReceipt
      /\ f.event = Top.event /\ f.owner = Top.owner /\ f.resume = Top.resume
  BY ClosedFields
<1> HIDE DEF f
<1>3. ~Owes(f)
  BY <1>2 DEF Owes
<1>4. StackInv' /\ frame'[depth] = f /\ \A i \in Levels : i # depth => frame'[i] = frame[i]
  BY <1>1, <1>2, <1>3, TopMoves DEF StackInv, StackTypes, ReceiptsDiffer
<1>5. GivenUp(frame[depth])
  BY TopTypes DEF NoProgress, GivenUp
<1>6. Accounted
  BY <1>1, <1>3, <1>4, <1>5 DEF Accounted
<1> QED BY <1>1, <1>3, <1>4, <1>6, TopAwaits

\* A receipt gets the next identity, which no other has.
LEMMA FreshReceipt ==
  ASSUME StackInv, sent < MaxSends, NEW input \in Inputs, NEW unknown \in BOOLEAN,
         NEW f \in Frames, SetTop(f), UNCHANGED <<depth, settled>>, sent' = sent + 1,
         f.event = Top.event, f.owner = Top.owner, f.resume = Top.resume,
         f.pending = [id |-> sent + 1, input |-> input, unknown |-> unknown, attempts |-> 1]
  PROVE  /\ StackInv' /\ frame'[depth] = f
         /\ \A i \in Levels : i # depth => frame'[i] = frame[i]
<1>1. sent \in 0 .. MaxSends /\ settled \subseteq 1 .. sent
  BY DEF StackInv, StackTypes
<1>2. sent' \in sent .. MaxSends /\ settled' \subseteq 1 .. sent'
  BY <1>1
<1>3. f.pending.id = sent + 1 /\ f.pending.attempts = 1
  BY <1>1
<1>4. \A i \in Levels : Owes(frame[i]) => frame[i].pending.id \in 1 .. sent /\ frame[i].pending.id \notin settled
  BY DEF StackInv, ReceiptsDiffer
<1>5. f.pending.id \in 1 .. sent' /\ f.pending.id \notin settled'
  BY <1>1, <1>3
<1>6. \A i \in Levels : i # depth /\ Owes(frame[i]) => frame[i].pending.id # f.pending.id
  BY <1>1, <1>3, <1>4
<1> QED BY <1>2, <1>3, <1>4, <1>5, <1>6, TopChanges

\* A new input gets a receipt of its own.
LEMMA SubmitStack ==
  ASSUME StackInv, OwedIsAwaited, Submit
  PROVE  StackInv' /\ OwedIsAwaited' /\ Issued
<1>1. sent < MaxSends /\ sent' = sent + 1 /\ UNCHANGED <<depth, settled>> /\ terminal = "Progress"
  BY DEF Submit, Stepping, Interprets, Running
<1>2. PICK input \in Inputs, unknown \in BOOLEAN :
        Submitted([Top EXCEPT !.pending =
          [id |-> sent + 1, input |-> input, unknown |-> unknown, attempts |-> 1]], "select")
  BY DEF Submit
<1> DEFINE r == [id |-> sent + 1, input |-> input, unknown |-> unknown, attempts |-> 1]
           f == [Top EXCEPT !.pending = r]
           g == [f EXCEPT !.at = "select"]
<1>3. r \in Receipts
  BY <1>1 DEF Receipts, StackInv, StackTypes
<1>4. /\ f \in Frames /\ f.pending = r
      /\ f.event = Top.event /\ f.owner = Top.owner /\ f.resume = Top.resume
  <2> HIDE DEF r
  <2> QED BY <1>3, TopTypes, PendingFields
<1>5. /\ g \in Frames /\ g.pending = r /\ g.at = "select"
      /\ g.event = Top.event /\ g.owner = Top.owner /\ g.resume = Top.resume
  <2> HIDE DEF f, r
  <2> QED BY <1>4, MovedFields DEF Places
<1>6. \/ SetTop(g) /\ UNCHANGED terminal
      \/ SetTop(f) /\ terminal' = "Failed"
  BY <1>2 DEF Submitted
<1>a. /\ ~Owes(frame[depth]) /\ ~Unknown
      /\ r.id = sent + 1 /\ r.unknown \in BOOLEAN /\ \A x : x.pending = r => Owes(x)
  BY <1>3, TopTypes, Owed DEF Submit, MaySubmit, Owes, Receipts, NoReceipt
<1> HIDE DEF f, g
<1>7. CASE SetTop(g) /\ UNCHANGED terminal
  <2>1. StackInv' /\ frame'[depth] = g /\ \A i \in Levels : i # depth => frame'[i] = frame[i]
    BY <1>1, <1>5, <1>7, FreshReceipt
  <2>2. Issued
    <3> HIDE DEF r
    <3> QED BY <1>a, <1>1, <1>5, <2>1 DEF Issued
  <2> QED BY <1>1, <1>5, <1>7, <2>1, <2>2, TopAwaits
<1>8. CASE SetTop(f) /\ terminal' = "Failed"
  <2>1. StackInv' /\ frame'[depth] = f /\ \A i \in Levels : i # depth => frame'[i] = frame[i]
    BY <1>1, <1>4, <1>8, FreshReceipt
  <2>2. Issued
    <3> HIDE DEF r
    <3> QED BY <1>a, <1>1, <1>4, <2>1 DEF Issued
  <2> QED BY <1>8, <2>1, <2>2 DEF OwedIsAwaited
<1> QED BY <1>6, <1>7, <1>8

\* A receipt that is sent once more within its clause, or that got lost.
LEMMA SameReceipt ==
  ASSUME StackInv, Owes(Top), NEW f \in Frames, SetTop(f), UNCHANGED <<depth, ledgerVars>>,
         f.event = Top.event, f.owner = Top.owner, f.resume = Top.resume,
         f.pending.id = Top.pending.id, f.pending.input = Top.pending.input,
         \/ f.pending.attempts = Top.pending.attempts
         \/ f.pending.attempts = Top.pending.attempts + 1 /\ SubmissionsLeft(Top.pending)
  PROVE  /\ StackInv' /\ frame'[depth] = f
         /\ \A i \in Levels : i # depth => frame'[i] = frame[i]
<1>1. Top.pending \in Receipts
  BY TopTypes, Owed
<1>2. \/ f.pending.attempts = 1 \/ Limit[f.pending.input] = 0
      \/ f.pending.attempts <= Limit[f.pending.input]
  <2>1. CASE f.pending.attempts = Top.pending.attempts
    BY <2>1, TopTypes DEF StackInv, AttemptsBounded
  <2>2. CASE f.pending.attempts = Top.pending.attempts + 1 /\ SubmissionsLeft(Top.pending)
    BY <1>1, <2>2 DEF SubmissionsLeft, Receipts
  <2> QED BY <2>1, <2>2
<1>3. \A i \in Levels : Owes(frame[i]) => frame[i].pending.id \in 1 .. sent /\ frame[i].pending.id \notin settled
  BY DEF StackInv, ReceiptsDiffer
<1>4. f.pending.id \in 1 .. sent /\ f.pending.id \notin settled
  BY <1>3, TopTypes
<1>5. \A i \in Levels : i # depth /\ Owes(frame[i]) => frame[i].pending.id # f.pending.id
  BY TopTypes DEF StackInv, ReceiptsDiffer
<1>6. sent' \in sent .. MaxSends /\ settled' \subseteq 1 .. sent'
  BY DEF StackInv, StackTypes, ledgerVars
<1> QED BY <1>2, <1>3, <1>4, <1>5, <1>6, TopChanges DEF ledgerVars

\* An input sent again keeps its receipt.
LEMMA RetryStack ==
  ASSUME StackInv, OwedIsAwaited, Retry
  PROVE  StackInv' /\ OwedIsAwaited' /\ Reissued
<1>1. /\ UNCHANGED <<depth, ledgerVars>> /\ terminal = "Progress" /\ Owes(Top)
      /\ SubmissionsLeft(Top.pending) /\ Top.pending.attempts < MaxAttempts
  BY DEF Retry, Stepping, Interprets, Running
<1>2. Top \in Frames /\ Top.pending \in Receipts
  BY <1>1, TopTypes, Owed
<1>a. Top = frame[depth] /\ ~Unknown /\ \A x \in Frames : x.pending \in Receipts => Owes(x) /\ x.pending.unknown \in BOOLEAN
  BY TopTypes, Owed DEF Retry, Receipts
<1>3. CASE SetTop([Top EXCEPT !.pending.unknown = TRUE]) /\ terminal' = "Failed"
  <2> DEFINE f == [Top EXCEPT !.pending.unknown = TRUE]
  <2>1. /\ f \in Frames /\ f.pending.id = Top.pending.id /\ f.pending.input = Top.pending.input
        /\ f.pending.attempts = Top.pending.attempts /\ f.pending \in Receipts
        /\ f.event = Top.event /\ f.owner = Top.owner /\ f.resume = Top.resume
    BY <1>2, LostFields
  <2>2. SetTop(f)
    BY <1>3
  <2> HIDE DEF f
  <2>3. StackInv' /\ frame'[depth] = f /\ \A i \in Levels : i # depth => frame'[i] = frame[i]
    BY <1>1, <2>1, <2>2, SameReceipt
  <2>4. Reissued
    BY <1>1, <1>a, <2>1, <2>3 DEF Reissued
  <2> QED BY <1>3, <2>3, <2>4 DEF OwedIsAwaited
<1>4. ASSUME NEW unknown \in BOOLEAN,
             Submitted([Top EXCEPT !.pending.unknown = unknown, !.pending.attempts = @ + 1], "await")
      PROVE  StackInv' /\ OwedIsAwaited' /\ Reissued
  <2> DEFINE f == [Top EXCEPT !.pending.unknown = unknown, !.pending.attempts = @ + 1]
             g == [f EXCEPT !.at = "await"]
  <2>1. /\ f \in Frames /\ f.pending.id = Top.pending.id /\ f.pending.input = Top.pending.input
        /\ f.pending.attempts = Top.pending.attempts + 1 /\ f.pending \in Receipts
        /\ f.event = Top.event /\ f.owner = Top.owner /\ f.resume = Top.resume
    BY <1>1, <1>2, RetriedFields
  <2>2. \/ SetTop(g) /\ UNCHANGED terminal
        \/ SetTop(f) /\ terminal' = "Failed"
    BY <1>4 DEF Submitted
  <2>3. /\ g \in Frames /\ g.pending = f.pending /\ g.at = "await"
        /\ g.event = Top.event /\ g.owner = Top.owner /\ g.resume = Top.resume
    <3> HIDE DEF f
    <3> QED BY <2>1, MovedFields DEF Places
  <2> HIDE DEF f, g
  <2>4. CASE SetTop(g) /\ UNCHANGED terminal
    <3>1. StackInv' /\ frame'[depth] = g /\ \A i \in Levels : i # depth => frame'[i] = frame[i]
      BY <1>1, <2>1, <2>3, <2>4, SameReceipt
    <3>2. Reissued
      BY <1>1, <1>a, <2>1, <2>3, <3>1 DEF Reissued
    <3> QED BY <1>1, <2>3, <2>4, <3>1, <3>2, TopAwaits
  <2>5. CASE SetTop(f) /\ terminal' = "Failed"
    <3>1. StackInv' /\ frame'[depth] = f /\ \A i \in Levels : i # depth => frame'[i] = frame[i]
      BY <1>1, <2>1, <2>5, SameReceipt
    <3>2. Reissued
      BY <1>1, <1>a, <2>1, <3>1 DEF Reissued
    <3> QED BY <2>5, <3>1, <3>2 DEF OwedIsAwaited
  <2> QED BY <2>2, <2>4, <2>5
<1> QED BY <1>3, <1>4 DEF Retry

\* What is put on the stack owes nothing, and hides nothing.
LEMMA AddedAccount ==
  ASSUME StackInv, UNCHANGED ledgerVars, ~Owes(frame'[depth + 1]),
         \A i \in Levels : i # depth + 1 => frame'[i] = frame[i]
  PROVE  Accounted
<1>1. \A i \in Levels : i = depth + 1 => ~Owes(frame[i])
  BY TopTypes, BlankFields DEF StackInv, StackTypes
<1> QED BY <1>1 DEF Accounted, ledgerVars

\* A call comes from a step, so its caller owes nothing.
LEMMA CallStack ==
  ASSUME StackInv, OwedIsAwaited, Call
  PROVE  StackInv' /\ OwedIsAwaited' /\ Accounted
<1>1. /\ Top.at = "step" /\ Top.resume = NoResume /\ terminal = "Progress"
      /\ Push(Called) /\ UNCHANGED <<terminal, ledgerVars>>
  BY DEF Call, Stepping, Interprets, Running
<1>2. ~Owes(Top)
  BY <1>1, TopTypes DEF OwedIsAwaited
<1>3. /\ Called \in Frames /\ Called.event = NoEvent /\ Called.owner = 0 /\ ~Owes(Called)
      /\ Called.pending = NoReceipt /\ Called.resume = NoResume /\ ~IsHandler(Called)
  BY HandlerFields DEF Called, IsHandler, Owes
<1>4. NoEvent \notin Events /\ NoEvent # Restart
  BY DEF Rules
<1>5. /\ StackInv' /\ frame'[depth + 1] = Called
      /\ \A i \in Levels : i # depth + 1 => frame'[i] = frame[i]
  BY <1>1, <1>2, <1>3, <1>4, TopAdded, TopTypes
<1>6. depth' = depth + 1
  BY <1>1 DEF Push
<1>7. Accounted
  BY <1>1, <1>3, <1>5, AddedAccount
<1> QED BY <1>1, <1>3, <1>5, <1>6, <1>7, TopTypes DEF OwedIsAwaited, Active, Levels

\* An event may interrupt a frame that waits for a result, whose receipt stays.
LEMMA PushEventStack ==
  ASSUME StackInv, OwedIsAwaited, PushEvent
  PROVE  StackInv' /\ OwedIsAwaited' /\ Accounted
<1>1. PICK rule \in Events, owner \in Active : Available(rule) /\ Push(Handler(rule, owner))
  BY DEF PushEvent
<1>2. UNCHANGED <<terminal, ledgerVars>>
  BY DEF PushEvent
<1> DEFINE f == Handler(rule, owner)
<1>3. rule \in Rules /\ rule # NoEvent /\ rule # Restart /\ owner \in 0 .. MaxDepth /\ owner # 0 /\ owner <= depth
  BY TopTypes DEF Rules, Active, Levels
<1>4. /\ f \in Frames /\ f.event = rule /\ f.owner = owner /\ f.pending = NoReceipt
      /\ f.resume = NoResume /\ ~Owes(f) /\ IsHandler(f)
  BY <1>3, HandlerFields DEF IsHandler, Owes
<1> HIDE DEF f
<1>5. Push(f)
  BY <1>1 DEF f
<1>6. StackInv' /\ frame'[depth + 1] = f /\ \A i \in Levels : i # depth + 1 => frame'[i] = frame[i]
  BY <1>1, <1>2, <1>3, <1>4, <1>5, TopAdded DEF Available
<1>7. depth' = depth + 1
  BY <1>1 DEF Push
<1>8. Accounted
  BY <1>2, <1>4, <1>6, AddedAccount
<1> QED BY <1>2, <1>4, <1>6, <1>7, <1>8, TopTypes DEF OwedIsAwaited, Active, Levels

\* A cut stack keeps its lower frames.
LEMMA CutFrames ==
  ASSUME NEW s \in [Levels -> Frames], NEW n \in Levels
  PROVE  /\ Cut(s, n) \in [Levels -> Frames]
         /\ \A i \in Levels : Cut(s, n)[i] = IF i <= n THEN s[i] ELSE Blank
  BY BlankFields DEF Cut

\* A cut that takes nothing owed, and keeps what the frames below owe.
LEMMA CutAccount ==
  ASSUME StackInv, NEW n \in 1 .. depth, UNCHANGED ledgerVars,
         \A i \in Levels : i > n => frame'[i] = Blank,
         \A i \in 1 .. n : frame'[i].pending = frame[i].pending,
         \A i \in n + 1 .. depth : ~Owes(frame[i])
  PROVE  Accounted
<1>1. \A i \in Levels : i \in 1 .. n \/ i \in n + 1 .. depth \/ i > depth
  BY TopTypes DEF Levels
<1>2. \A i \in Levels : i > depth => ~Owes(frame[i])
  BY BlankFields DEF StackInv, StackTypes
<1>3. \A i \in Levels : i > n => ~Owes(frame'[i])
  BY BlankFields
<1>4. \A i \in Levels : i \in 1 .. n \/ i > n
  BY TopTypes DEF Levels
<1> QED BY <1>1, <1>2, <1>3, <1>4 DEF Accounted, Owes, ledgerVars

\* What is cut off owes nothing to the frames below.
LEMMA CutAwaits ==
  ASSUME StackInv, OwedIsAwaited, NEW n \in 1 .. depth, depth' = n,
         \A i \in 1 .. n : Owes(frame'[i]) => Owes(frame[i]) /\ (frame'[i].at # "step" \/ frame'[i].at = frame[i].at),
         terminal' = "Progress" => terminal = "Progress"
  PROVE  OwedIsAwaited'
  BY TopTypes DEF OwedIsAwaited, Active

\* A return takes a frame that owes nothing.
LEMMA ReturnStack ==
  ASSUME StackInv, OwedIsAwaited, Return
  PROVE  StackInv' /\ OwedIsAwaited' /\ Accounted
<1> DEFINE n == depth - 1
           f == frame[n]
           g == CASE ~IsHandler(Top)        -> [f EXCEPT !.at = "select"]
                  [] Top.event \in Replans  -> [f EXCEPT !.resume = [rule |-> Top.event, owner |-> Top.owner]]
                  [] OTHER                  -> f
<1>1. /\ depth > 1 /\ depth' = n /\ UNCHANGED <<terminal, ledgerVars>>
      /\ frame' = [Cut(frame, n) EXCEPT ![n] =
           CASE ~IsHandler(Top)        -> [@ EXCEPT !.at = "select"]
             [] Top.event \in Replans  -> [@ EXCEPT !.resume = [rule |-> Top.event, owner |-> Top.owner]]
             [] OTHER                  -> @]
  BY DEF Return
<1>2. n \in Levels /\ n \in 1 .. depth /\ frame \in [Levels -> Frames] /\ f \in Frames /\ n < depth
  BY <1>1, TopTypes DEF Levels, StackInv, StackTypes
<1>3. Cut(frame, n)[n] = f
  BY <1>2, CutFrames
<1>4. frame' = [Cut(frame, n) EXCEPT ![n] = g]
  BY <1>1, <1>2, <1>3, CutFrames
<1>5. /\ g \in Frames /\ g.event = f.event /\ g.owner = f.owner /\ g.pending = f.pending
      /\ g.resume.owner <= n /\ (g.at = f.at \/ g.at = "select")
  <2>1. f.resume.owner <= n
    BY <1>2 DEF StackInv, StackShape, Active
  <2>2. CASE ~IsHandler(Top)
    <3>1. g = [f EXCEPT !.at = "select"]
      BY <2>2 DEF IsHandler, Rules
    <3> HIDE DEF n, f, g
    <3> QED BY <1>2, <2>1, <3>1, MovedFields DEF Places
  <2>3. CASE IsHandler(Top) /\ Top.event \in Replans
    <3> DEFINE r == [rule |-> Top.event, owner |-> Top.owner]
    <3>1. g = [f EXCEPT !.resume = r]
      BY <2>3
    <3>2. Top.owner # 0 /\ Top.owner \in 0 .. MaxDepth /\ Top.owner < depth
      BY <2>3, TopTypes, FieldTypes DEF StackInv, HandlersOwned, StackShape
    <3>3. r \in Resumes /\ r.owner <= n
      BY <2>3, <3>2, TopTypes DEF Resumes, Levels
    <3> HIDE DEF n, f, g, r
    <3> QED BY <1>2, <3>1, <3>3, ResumeFields
  <2>4. CASE IsHandler(Top) /\ Top.event \notin Replans
    BY <1>2, <2>1, <2>4
  <2> QED BY <2>2, <2>3, <2>4
<1> HIDE DEF g
<1>6. /\ frame' \in [Levels -> Frames] /\ frame'[n] = g
      /\ \A i \in Levels : i < n => frame'[i] = frame[i]
      /\ \A i \in Levels : i > n => frame'[i] = Blank
  <2> HIDE DEF n
  <2> QED BY <1>2, <1>4, <1>5, CutFrames DEF Levels
<1>7. \A i \in 1 .. n : /\ frame'[i].event = frame[i].event /\ frame'[i].owner = frame[i].owner
                        /\ frame'[i].pending = frame[i].pending
                        /\ i < n => frame'[i].resume = frame[i].resume
                        /\ Owes(frame'[i]) => Owes(frame[i]) /\ frame'[i].pending = frame[i].pending
                        /\ frame'[i].at # "step" \/ frame'[i].at = frame[i].at
  <2> SUFFICES ASSUME NEW i \in 1 .. n
               PROVE  /\ frame'[i].event = frame[i].event /\ frame'[i].owner = frame[i].owner
                      /\ frame'[i].pending = frame[i].pending
                      /\ i < n => frame'[i].resume = frame[i].resume
                      /\ frame'[i].at # "step" \/ frame'[i].at = frame[i].at
    BY DEF Owes
  <2>1. CASE i = n
    BY <1>5, <1>6, <2>1
  <2>2. CASE i < n
    BY <1>2, <1>6, <2>2 DEF Levels
  <2> QED BY <1>2, <2>1, <2>2
<1>8. /\ UNCHANGED sent /\ settled' \subseteq 1 .. sent
      /\ \A i \in 1 .. n : Owes(frame'[i]) => frame'[i].pending.id \notin settled'
  <2>1. UNCHANGED <<sent, settled>> /\ settled \subseteq 1 .. sent
    BY <1>1 DEF ledgerVars, StackInv, StackTypes
  <2>2. \A i \in 1 .. n : i \in Levels
    BY <1>2 DEF Levels
  <2> HIDE DEF n
  <2>3. \A i \in 1 .. n : Owes(frame'[i]) => frame'[i].pending.id \notin settled
    BY <1>7, <2>2 DEF StackInv, ReceiptsDiffer
  <2> QED BY <2>1, <2>3
<1>9. frame'[n].resume.owner <= n
  BY <1>5, <1>6
<1> HIDE DEF n, f
<1>10. StackInv'
  BY <1>1, <1>2, <1>6, <1>7, <1>8, <1>9, TopRemoved
<1>11. OwedIsAwaited'
  BY <1>1, <1>2, <1>7, CutAwaits
<1>12. ~Owes(frame[depth]) /\ \A i \in n + 1 .. depth : i = depth
  BY <1>1, TopTypes DEF Return, n
<1>13. Accounted
  BY <1>1, <1>2, <1>6, <1>7, <1>12, CutAccount
<1> QED BY <1>10, <1>11, <1>13

\* Unwinding to a caller keeps what the caller owes.
LEMMA UnwoundStack ==
  ASSUME StackInv, OwedIsAwaited, NEW k \in 1 .. depth, NEW g \in Frames,
         depth' = k, frame' = [Cut(frame, k) EXCEPT ![k] = g], UNCHANGED sent,
         settled' \subseteq 1 .. sent,
         \A i \in 1 .. k : i < k /\ Owes(frame[i]) => frame[i].pending.id \notin settled',
         Owes(g) => g.pending.id \notin settled',
         g.event = frame[k].event, g.owner = frame[k].owner, g.resume.owner <= k,
         g.pending \in {frame[k].pending, NoReceipt}, Owes(g) => g.at # "step" \/ g.at = frame[k].at,
         terminal' = "Progress" => terminal = "Progress"
  PROVE  /\ StackInv' /\ OwedIsAwaited'
         /\ \A i \in Levels : i > k => frame'[i] = Blank
         /\ \A i \in 1 .. k : frame'[i] = IF i = k THEN g ELSE frame[i]
<1>1. k \in Levels /\ frame \in [Levels -> Frames] /\ \A i \in 1 .. k : i \in Levels
  BY TopTypes DEF Levels, StackInv, StackTypes
<1>2. /\ frame' \in [Levels -> Frames] /\ frame'[k] = g
      /\ \A i \in Levels : i < k => frame'[i] = frame[i]
      /\ \A i \in Levels : i > k => frame'[i] = Blank
  BY <1>1, CutFrames DEF Levels
<1>3. \A i \in 1 .. k : \/ i = k
                        \/ i < k /\ frame'[i] = frame[i]
  BY <1>1, <1>2
<1>4. \A i \in 1 .. k : /\ frame'[i].event = frame[i].event /\ frame'[i].owner = frame[i].owner
                        /\ frame'[i].pending \in {frame[i].pending, NoReceipt}
  BY <1>2, <1>3
<1>5. \A i \in 1 .. k : i < k => frame'[i].resume = frame[i].resume
  BY <1>3
<1>6. \A i \in 1 .. k : Owes(frame'[i]) => frame'[i].pending.id \notin settled'
  BY <1>2, <1>3
<1>7. \A i \in 1 .. k : Owes(frame'[i]) => Owes(frame[i]) /\ (frame'[i].at # "step" \/ frame'[i].at = frame[i].at)
  BY <1>2, <1>3 DEF Owes
<1>8. StackInv'
  BY <1>2, <1>4, <1>5, <1>6, TopRemoved
<1>9. OwedIsAwaited'
  BY <1>7, CutAwaits
<1> QED BY <1>2, <1>3, <1>8, <1>9

\* A failure unwinds a stack that owes nothing.
LEMMA ReturnFailureStack ==
  ASSUME StackInv, OwedIsAwaited, ReturnFailure
  PROVE  StackInv' /\ OwedIsAwaited' /\ Accounted
<1>1. /\ UNCHANGED ledgerVars /\ terminal = "Progress" /\ ~Unresolved
  BY DEF ReturnFailure, Stepping, Interprets, Running
<1>2. PICK k \in 1 .. depth - 1 : depth' = k /\ frame' = Cut(frame, k)
  BY DEF ReturnFailure
<1>3. k \in 1 .. depth /\ k \in Levels /\ frame \in [Levels -> Frames]
  BY TopTypes DEF Levels, StackInv, StackTypes
<1>4. frame' = [Cut(frame, k) EXCEPT ![k] = frame[k]]
  BY <1>2, <1>3, CutFrames
<1>5. \A i \in 1 .. k : i \in Active /\ ~Owes(frame[i])
  BY <1>1, <1>3, TopTypes DEF Unresolved, Active
<1>6. frame[k].resume.owner <= k /\ frame[k] \in Frames /\ ~Owes(frame[k])
  BY <1>3, <1>5 DEF StackInv, StackShape
<1>7. UNCHANGED sent /\ settled' \subseteq 1 .. sent
  BY <1>1 DEF ledgerVars, StackInv, StackTypes
<1>8. /\ StackInv' /\ OwedIsAwaited' /\ \A i \in Levels : i > k => frame'[i] = Blank
      /\ \A i \in 1 .. k : frame'[i] = frame[i]
  BY <1>1, <1>2, <1>3, <1>4, <1>5, <1>6, <1>7, UnwoundStack
<1>9. \A i \in k + 1 .. depth : ~Owes(frame[i])
  BY <1>1, <1>3, TopTypes DEF Unresolved, Active
<1>10. Accounted
  BY <1>1, <1>3, <1>8, <1>9, CutAccount
<1> QED BY <1>8, <1>10

\* So does one that a caller handles.
LEMMA ReturnHandledStack ==
  ASSUME StackInv, OwedIsAwaited, ReturnHandled
  PROVE  StackInv' /\ OwedIsAwaited' /\ Accounted
<1>1. /\ UNCHANGED <<terminal, ledgerVars>> /\ ~Unresolved
  BY DEF ReturnHandled
<1>2. PICK k \in 1 .. depth - 1 : depth' = k /\ frame' = [Cut(frame, k) EXCEPT ![k].at = "select"]
  BY DEF ReturnHandled
<1>3. k \in 1 .. depth /\ k \in Levels /\ frame \in [Levels -> Frames]
  BY TopTypes DEF Levels, StackInv, StackTypes
<1> DEFINE g == [frame[k] EXCEPT !.at = "select"]
<1>4. Cut(frame, k) \in [Levels -> Frames] /\ Cut(frame, k)[k] = frame[k]
  BY <1>3, CutFrames
<1>5. frame' = [Cut(frame, k) EXCEPT ![k] = g]
  BY <1>2, <1>3, <1>4
<1>6. \A i \in 1 .. k : i \in Active /\ ~Owes(frame[i])
  BY <1>1, <1>3, TopTypes DEF Unresolved, Active
<1>7. /\ g \in Frames /\ g.pending = frame[k].pending /\ g.at = "select"
      /\ g.event = frame[k].event /\ g.owner = frame[k].owner /\ g.resume = frame[k].resume
  BY <1>3, MovedFields DEF Places
<1> HIDE DEF g
<1>8. g.resume.owner <= k /\ ~Owes(g)
  BY <1>3, <1>6, <1>7 DEF StackInv, StackShape, Owes
<1>9. UNCHANGED sent /\ settled' \subseteq 1 .. sent
  BY <1>1 DEF ledgerVars, StackInv, StackTypes
<1>10. /\ StackInv' /\ OwedIsAwaited' /\ \A i \in Levels : i > k => frame'[i] = Blank
       /\ \A i \in 1 .. k : frame'[i] = IF i = k THEN g ELSE frame[i]
  BY <1>1, <1>2, <1>3, <1>5, <1>6, <1>7, <1>8, <1>9, UnwoundStack
<1>11. \A i \in k + 1 .. depth : ~Owes(frame[i])
  BY <1>1, <1>3, TopTypes DEF Unresolved, Active
<1>12. \A i \in 1 .. k : frame'[i].pending = frame[i].pending
  BY <1>7, <1>10
<1>13. Accounted
  BY <1>1, <1>3, <1>10, <1>11, <1>12, CutAccount
<1> QED BY <1>10, <1>13

\* A replan closes the receipts from its owner up, which were proved, and only those.
LEMMA ResumeEventStack ==
  ASSUME StackInv, OwedIsAwaited, ResumeEvent
  PROVE  StackInv' /\ OwedIsAwaited' /\ Accounted
<1> DEFINE k == Top.resume.owner
           g == Replanned(frame[k])
<1>1. /\ UNCHANGED <<terminal, sent>> /\ k \in Active /\ depth' = k
      /\ frame' = [Cut(frame, k) EXCEPT ![k] = Replanned(@)]
      /\ settled' = settled \union OpenFrom(k)
  BY DEF ResumeEvent
<1>2. k \in 1 .. depth /\ k \in Levels /\ frame \in [Levels -> Frames]
  BY <1>1, TopTypes DEF Active, StackInv, StackTypes
<1> HIDE DEF k
<1>3. Cut(frame, k) \in [Levels -> Frames] /\ Cut(frame, k)[k] = frame[k]
  BY <1>2, CutFrames
<1>4. frame' = [Cut(frame, k) EXCEPT ![k] = g]
  BY <1>1, <1>2, <1>3
<1>5. /\ g \in Frames /\ g.pending = NoReceipt /\ g.resume = NoResume
      /\ g.event = frame[k].event /\ g.owner = frame[k].owner
  BY <1>2, ReplannedFields
<1> HIDE DEF g
<1>6. g.resume.owner <= k /\ ~Owes(g)
  BY <1>2, <1>5 DEF NoResume, Owes
<1>7. \A i \in k .. depth : i \in Levels
  BY <1>2, TopTypes DEF Levels
<1>8. settled' \subseteq 1 .. sent
  <2>1. OpenFrom(k) \subseteq 1 .. sent
    BY <1>7 DEF OpenFrom, StackInv, ReceiptsDiffer
  <2> QED BY <1>1, <2>1 DEF StackInv, StackTypes
<1>9. ASSUME NEW i \in 1 .. k, i < k, Owes(frame[i])
      PROVE  frame[i].pending.id \notin settled'
  <2>1. i \in Levels
    BY <1>2 DEF Levels
  <2>2. frame[i].pending.id \notin OpenFrom(k)
    BY <1>2, <1>7, <1>9, <2>1 DEF OpenFrom, StackInv, ReceiptsDiffer
  <2> QED BY <1>1, <1>9, <2>1, <2>2 DEF StackInv, ReceiptsDiffer
<1>10. /\ StackInv' /\ OwedIsAwaited' /\ \A i \in Levels : i > k => frame'[i] = Blank
       /\ \A i \in 1 .. k : frame'[i] = IF i = k THEN g ELSE frame[i]
  BY <1>1, <1>2, <1>4, <1>5, <1>6, <1>8, <1>9, UnwoundStack
<1>11. \A i \in Levels : /\ i < k <=> i \in 1 .. k /\ i # k
                         /\ i >= k => ~Owes(frame'[i])
                         /\ i < k => frame'[i] = frame[i]
  BY <1>2, <1>6, <1>10, BlankFields DEF Levels
<1>12. \A i \in Levels : i > depth => ~Owes(frame[i])
  BY BlankFields DEF StackInv, StackTypes
<1>13. Gone = OpenFrom(k)
  <2>1. \A i \in Levels : Owes(frame[i]) /\ ~Owes(frame'[i]) <=> i \in k .. depth /\ Owes(frame[i])
    BY <1>2, <1>11, <1>12, TopTypes DEF Levels
  <2> QED BY <1>7, <2>1 DEF Gone, OpenFrom
<1>14. Accounted
  BY <1>1, <1>2, <1>11, <1>13 DEF Accounted, Levels
<1> QED BY <1>10, <1>14

-----------------------------------------------------------------------------
(* A restart of the application. *)

\* The least of a set of levels.
LEMMA FirstIsLeast ==
  ASSUME NEW S, S \subseteq Nat, S # {}
  PROVE  First(S) \in S /\ \A j \in S : First(S) <= j
<1>1. PICK x \in S : \A y \in S : ~(<<y, x>> \in OpToRel(<, Nat))
  BY WFMin, NatLessThanWellFounded, Zenon
<1>2. ASSUME NEW y \in S PROVE ~(y < x)
  <2>1. x \in Nat /\ y \in Nat
    OBVIOUS
  <2> QED BY <1>1, <2>1, Zenon DEF OpToRel
<1>3. \A y \in S : x <= y
  BY <1>2
<1> QED BY <1>3, Zenon DEF First

\* Cleaning the stack leaves at least the root, which is no handler.
LEMMA RestartCuts ==
  ASSUME StackInv, NEW s \in [Levels -> Frames], \A i \in Levels : s[i].event = frame[i].event
  PROVE  /\ BelowBoot(s) \in 1 .. depth
         /\ \A n \in 1 .. depth : BelowHandlers(s, n) \in 1 .. n
<1>1. depth \in Nat \ {0} /\ \A i \in 1 .. depth : i \in Levels
  BY TopTypes DEF Levels
<1>2. \A i \in 1 .. depth : IsHandler(s[i]) => i \in 2 .. depth
  <2>1. ASSUME 1 \in Levels PROVE ~IsHandler(s[1])
    <3>1. frame[1].owner < 1 /\ frame[1].owner \in 0 .. MaxDepth
      BY <1>1, <2>1, FieldTypes DEF StackInv, StackTypes, StackShape, Active
    <3>2. ~IsHandler(frame[1])
      BY <2>1, <3>1 DEF StackInv, HandlersOwned
    <3> QED BY <2>1, <3>2 DEF IsHandler
  <2> QED BY <1>1, <2>1
<1>3. BelowBoot(s) \in 1 .. depth
  <2> DEFINE boots == {i \in Active : s[i].event = Restart}
  <2>1. boots \subseteq 2 .. depth
    BY <1>2 DEF Active, IsHandler, Rules
  <2>2. BelowBoot(s) = IF boots # {} /\ \A i \in First(boots) .. depth : Restartable(s[i])
                         THEN First(boots) - 1 ELSE depth
    BY DEF BelowBoot
  <2> HIDE DEF boots
  <2>3. boots # {} => First(boots) \in 2 .. depth
    BY <2>1, FirstIsLeast
  <2> QED BY <1>1, <2>2, <2>3
<1>4. ASSUME NEW n \in 1 .. depth PROVE BelowHandlers(s, n) \in 1 .. n
  <2> DEFINE handlers == {i \in 1 .. n : IsHandler(s[i])}
  <2>1. handlers \subseteq 2 .. n
    BY <1>1, <1>2
  <2>2. BelowHandlers(s, n) = IF handlers # {} /\ \A i \in First(handlers) .. n : ~Owes(s[i])
                                THEN First(handlers) - 1 ELSE n
    BY DEF BelowHandlers
  <2> HIDE DEF handlers
  <2>3. handlers \subseteq Nat
    BY <2>1
  <2>4. handlers # {} => First(handlers) \in 2 .. n
    BY <2>1, <2>3, FirstIsLeast, Zenon
  <2> QED BY <1>1, <2>2, <2>4
<1> QED BY <1>3, <1>4

\* A stack chosen again has the handlers and resumes it had, and no new receipt.
LEMMA ReclassifiedFrames ==
  ASSUME StackInv, NEW at \in {"select", "step"}
  PROVE  /\ Reclassified(at) \in [Levels -> Frames]
         /\ \A i \in Levels :
              LET g == Reclassified(at)[i] IN
              /\ g.event = frame[i].event /\ g.owner = frame[i].owner /\ g.resume = frame[i].resume
              /\ g = frame[i] \/ g.pending = NoReceipt
<1>1. frame \in [Levels -> Frames]
  BY DEF StackInv, StackTypes
<1>2. \A i \in Levels :
        LET g == Reselected(frame[i], at) IN
        /\ g \in Frames
        /\ g.event = frame[i].event /\ g.owner = frame[i].owner /\ g.resume = frame[i].resume
        /\ g.pending = NoReceipt
  BY <1>1, ReselectedFields
<1>3. CASE \A i \in Active : Restartable(frame[i])
  <2>1. Reclassified(at) = [i \in Levels |-> Reselected(frame[i], at)]
    BY <1>3 DEF Reclassified
  <2> QED BY <1>2, <2>1
<1>4. CASE ~\A i \in Active : Restartable(frame[i])
  BY <1>1, <1>4 DEF Reclassified
<1> QED BY <1>3, <1>4

\* What a restart gives up: declared menus only, here of the frames that choose again.
LEMMA ReclassifiedGivesUp ==
  ASSUME StackInv, NEW at \in {"select", "step"}
  PROVE  \A i \in Levels : Owes(frame[i]) /\ ~Owes(Reclassified(at)[i]) => GivenUp(frame[i])
<1>1. \A i \in Levels : Owes(frame[i]) => i \in Active
  BY TopTypes, BlankFields DEF StackInv, StackTypes, Active, Levels
<1>2. CASE \A i \in Active : Restartable(frame[i])
  BY <1>1, <1>2 DEF Restartable, GivenUp
<1>3. CASE ~\A i \in Active : Restartable(frame[i])
  BY <1>3 DEF Reclassified
<1> QED BY <1>2, <1>3

\* And of the frames that are cut off.
LEMMA CutGivesUp ==
  ASSUME StackInv, NEW s \in [Levels -> Frames],
         \A i \in Levels : s[i].event = frame[i].event /\ (s[i] = frame[i] \/ s[i].pending = NoReceipt)
  PROVE  \A i \in Levels : i > BelowHandlers(s, BelowBoot(s)) /\ Owes(s[i]) => GivenUp(frame[i])
<1> DEFINE m == BelowBoot(s)
           n == BelowHandlers(s, m)
<1>1. m \in 1 .. depth /\ n \in 1 .. m
  BY RestartCuts
<1>2. \A i \in Levels : Owes(s[i]) => Owes(frame[i]) /\ s[i] = frame[i]
  BY DEF Owes
<1>3. \A i \in Levels : Owes(s[i]) => i <= depth
  BY <1>2, TopTypes, BlankFields DEF StackInv, StackTypes, Levels
<1>4. \A i \in Levels : i > m /\ Owes(s[i]) => Restartable(s[i])
  <2> DEFINE boots == {i \in Active : s[i].event = Restart}
  <2>1. m = IF boots # {} /\ \A i \in First(boots) .. depth : Restartable(s[i])
              THEN First(boots) - 1 ELSE depth
    BY DEF BelowBoot
  <2>2. boots \subseteq Nat
    BY TopTypes DEF Active
  <2> HIDE DEF boots
  <2>3. boots # {} => First(boots) \in Nat
    BY <2>2, FirstIsLeast
  <2> HIDE DEF m, n
  <2> QED BY <1>1, <1>3, <2>1, <2>3, TopTypes DEF Levels
<1>5. \A i \in Levels : i > n /\ i <= m => ~Owes(s[i])
  <2> DEFINE handlers == {i \in 1 .. m : IsHandler(s[i])}
  <2>1. n = IF handlers # {} /\ \A i \in First(handlers) .. m : ~Owes(s[i])
              THEN First(handlers) - 1 ELSE m
    BY DEF BelowHandlers
  <2>2. handlers \subseteq Nat
    OBVIOUS
  <2> HIDE DEF handlers
  <2>3. handlers # {} => First(handlers) \in Nat
    BY <2>2, FirstIsLeast
  <2> HIDE DEF m, n
  <2> QED BY <1>1, <2>1, <2>3, TopTypes DEF Levels
<1>6. \A i \in Levels : Owes(frame[i]) /\ Restartable(frame[i]) => GivenUp(frame[i])
  BY DEF Restartable, GivenUp
<1> HIDE DEF m, n
<1>7. \A i \in Levels : i > n /\ Owes(s[i]) => i > m
  BY <1>1, <1>5, TopTypes DEF Levels
<1> QED BY <1>2, <1>4, <1>6, <1>7 DEF m, n

\* What becomes of a stack on which the restart handler is put.
LEMMA RestartAdded ==
  ASSUME StackInv, NEW n \in 1 .. depth, n < MaxDepth, depth' = n + 1, frame' \in [Levels -> Frames],
         frame'[n + 1] = Handler(Restart, 1),
         \A i \in Levels : i > n + 1 => frame'[i] = Blank,
         \A i \in 1 .. n : /\ frame'[i].event = frame[i].event /\ frame'[i].owner = frame[i].owner
                           /\ frame'[i].resume = frame[i].resume
                           /\ frame'[i].pending \in {frame[i].pending, NoReceipt},
         ProtectedOpen = {}, UNCHANGED ledgerVars
  PROVE  StackInv'
<1> DEFINE h == Handler(Restart, 1)
<1>1. /\ n \in Levels /\ n + 1 \in Levels /\ depth \in Levels /\ n <= depth /\ n \in Nat \ {0}
      /\ frame \in [Levels -> Frames] /\ \A i \in 1 .. n : i \in Levels
  BY DEF StackInv, StackTypes, Levels
<1>2. /\ h \in Frames /\ h.event = Restart /\ h.owner = 1 /\ h.pending = NoReceipt /\ h.resume = NoResume
      /\ IsHandler(h) /\ ~Owes(h)
  BY HandlerFields DEF Rules, IsHandler, Owes
<1>3. frame'[n + 1] = h
  OBVIOUS
<1> HIDE DEF h
<1>4. \A i \in Levels : i \in 1 .. n \/ i = n + 1 \/ i > n + 1
  BY <1>1 DEF Levels
<1>5. StackTypes'
  BY <1>1 DEF StackInv, StackTypes, ledgerVars, Levels
<1>6. StackShape'
  <2>1. \A i \in Active' : frame'[i].owner < i /\ frame'[i].resume.owner <= i
    <3>1. ASSUME NEW i \in 1 .. n PROVE frame'[i].owner < i /\ frame'[i].resume.owner <= i
      BY <1>1 DEF StackInv, StackShape, Active
    <3>2. frame'[n + 1].owner < n + 1 /\ frame'[n + 1].resume.owner <= n + 1
      BY <1>1, <1>2, <1>3 DEF NoResume
    <3> QED BY <1>1, <3>1, <3>2 DEF Active
  <2>2. \A i, j \in Active' : frame'[i].event = frame'[j].event /\ frame'[i].event \in Events => i = j
    <3>1. \A i, j \in 1 .. n : frame'[i].event = frame'[j].event /\ frame'[i].event \in Events => i = j
      BY <1>1 DEF StackInv, StackShape, Active
    <3>2. frame'[n + 1].event \notin Events
      BY <1>2, <1>3
    <3> QED BY <1>1, <3>1, <3>2 DEF Active
  <2>3. \A i \in Active' : i < depth' /\ (Owes(frame'[i]) \/ frame'[i].resume # NoResume) =>
          IsHandler(frame'[i + 1])
    <3> SUFFICES ASSUME NEW i \in 1 .. n, Owes(frame'[i]) \/ frame'[i].resume # NoResume
                 PROVE  IsHandler(frame'[i + 1])
      BY <1>1 DEF Active
    <3>1. CASE i = n
      BY <1>2, <1>3, <3>1
    <3>2. CASE i < n
      <4>1. Owes(frame[i]) \/ frame[i].resume # NoResume
        BY DEF Owes
      <4>2. IsHandler(frame[i + 1])
        BY <1>1, <3>2, <4>1 DEF StackInv, StackShape, Active
      <4>3. i + 1 \in 1 .. n
        BY <1>1, <3>2
      <4> QED BY <4>2, <4>3 DEF IsHandler
    <3> QED BY <1>1, <3>1, <3>2
  <2> QED BY <2>1, <2>2, <2>3 DEF StackShape
<1>7. HandlersOwned'
  BY <1>1, <1>2, <1>3, <1>4, BlankFields DEF StackInv, HandlersOwned, IsHandler
<1>8. \A i \in Levels : Owes(frame'[i]) => i \in 1 .. n /\ Owes(frame[i]) /\ frame'[i].pending = frame[i].pending
  BY <1>1, <1>2, <1>3, <1>4, BlankFields DEF Owes
<1>9. ReceiptsDiffer'
  <2>1. \A i \in Levels : Owes(frame'[i]) =>
          frame'[i].pending.id \in 1 .. sent' /\ frame'[i].pending.id \notin settled'
    BY <1>8 DEF StackInv, ReceiptsDiffer, ledgerVars
  <2>2. \A i, j \in Levels :
          Owes(frame'[i]) /\ Owes(frame'[j]) /\ frame'[i].pending.id = frame'[j].pending.id => i = j
    BY <1>8 DEF StackInv, ReceiptsDiffer
  <2> QED BY <2>1, <2>2 DEF ReceiptsDiffer
<1>10. AttemptsBounded'
  BY <1>1, <1>4, <1>8 DEF StackInv, AttemptsBounded, Active, Levels
<1>11. RestartNeverOverProtected'
  <2>1. \A i \in Active' : i \in Levels
    BY <1>1 DEF Active, Levels
  <2>2. \A i \in Active : ~(Owes(frame[i]) /\ frame[i].pending.input \in Protected)
    BY DEF ProtectedOpen
  <2>3. \A i \in 1 .. n : i \in Active
    BY <1>1 DEF Active
  <2> QED BY <1>8, <2>1, <2>2, <2>3 DEF RestartNeverOverProtected
<1> QED BY <1>5, <1>6, <1>7, <1>9, <1>10, <1>11 DEF StackInv

\* A restart cleans the stack of what may be given up and puts its handler on top.
LEMMA RestartHandlerStack ==
  ASSUME StackInv, OwedIsAwaited, RestartHandler
  PROVE  StackInv' /\ OwedIsAwaited' /\ Accounted
<1>1. ProtectedOpen = {} /\ UNCHANGED ledgerVars /\ terminal = "Progress"
  BY DEF RestartHandler, LookingAgain, Running
<1>2. PICK at \in {"select", "step"} :
       LET stack == Reclassified(at)
           n     == BelowHandlers(stack, BelowBoot(stack)) IN
       IF n < MaxDepth
         THEN /\ depth' = n + 1
              /\ frame' = [Cut(stack, n) EXCEPT ![n + 1] = Handler(Restart, 1)]
         ELSE /\ depth' = n
              /\ frame' = Cut(stack, n)
              /\ terminal' = "Failed"
  BY DEF RestartHandler
<1> DEFINE s == Reclassified(at)
           n == BelowHandlers(s, BelowBoot(s))
           h == Handler(Restart, 1)
<1>3. /\ s \in [Levels -> Frames]
      /\ \A i \in Levels : /\ s[i].event = frame[i].event /\ s[i].owner = frame[i].owner
                           /\ s[i].resume = frame[i].resume
                           /\ s[i] = frame[i] \/ s[i].pending = NoReceipt
  BY ReclassifiedFrames
<1>4. /\ n < MaxDepth => depth' = n + 1 /\ frame' = [Cut(s, n) EXCEPT ![n + 1] = h]
      /\ ~(n < MaxDepth) => depth' = n /\ frame' = Cut(s, n) /\ terminal' = "Failed"
  BY <1>2
<1>a. \A i \in Levels : Owes(frame[i]) /\ ~Owes(s[i]) => GivenUp(frame[i])
  BY ReclassifiedGivesUp
<1> HIDE DEF s
<1>5. n \in 1 .. depth
  BY <1>3, RestartCuts, TopTypes
<1> HIDE DEF n
<1>6. n \in Levels /\ n \in Nat /\ \A i \in 1 .. n : i \in Levels
  BY <1>5, TopTypes DEF Levels
<1>7. /\ Cut(s, n) \in [Levels -> Frames]
      /\ \A i \in Levels : Cut(s, n)[i] = IF i <= n THEN s[i] ELSE Blank
  BY <1>3, <1>6, CutFrames
<1>8. /\ h \in Frames /\ h.pending = NoReceipt
  BY HandlerFields DEF Rules, Levels
<1>b. \A i \in Levels : i > n /\ Owes(s[i]) => GivenUp(frame[i])
  BY <1>3, CutGivesUp DEF n
<1>c. ASSUME \A i \in 1 .. n : frame'[i] = s[i], \A i \in Levels : i > n => ~Owes(frame'[i])
      PROVE  Accounted
  <2>1. \A i \in Levels : i \in 1 .. n \/ i > n
    BY <1>6 DEF Levels
  <2>2. \A i \in Levels : Owes(frame'[i]) => frame'[i].pending = frame[i].pending
    BY <1>3, <1>6, <1>c, <2>1 DEF Owes
  <2>3. \A i \in Levels : Owes(frame[i]) /\ ~Owes(frame'[i]) => GivenUp(frame[i])
    BY <1>a, <1>b, <1>c, <2>1
  <2> QED BY <1>1, <2>2, <2>3 DEF Accounted, ledgerVars
<1>9. CASE n < MaxDepth
  <2>1. n + 1 \in Levels
    BY <1>6, <1>9 DEF Levels
  <2>2. /\ frame' \in [Levels -> Frames] /\ frame'[n + 1] = h /\ depth' = n + 1
        /\ \A i \in Levels : i # n + 1 => frame'[i] = Cut(s, n)[i]
    BY <1>4, <1>7, <1>8, <1>9, <2>1
  <2>3. /\ \A i \in Levels : i > n + 1 => frame'[i] = Blank
        /\ \A i \in 1 .. n : frame'[i] = s[i]
    BY <1>6, <1>7, <2>2 DEF Levels
  <2>4. \A i \in 1 .. n : /\ frame'[i].event = frame[i].event /\ frame'[i].owner = frame[i].owner
                          /\ frame'[i].resume = frame[i].resume
                          /\ frame'[i].pending \in {frame[i].pending, NoReceipt}
    BY <1>3, <1>6, <2>3
  <2>5. StackInv'
    BY <1>1, <1>5, <1>9, <2>2, <2>3, <2>4, RestartAdded DEF h
  <2>6. \A i \in 1 .. n : Owes(frame'[i]) => frame'[i] = frame[i]
    BY <1>3, <1>6, <2>3 DEF Owes
  <2>7. \A i \in Active' : i = n + 1 \/ i \in 1 .. n
    BY <1>6, <2>2 DEF Active
  <2>8. \A i \in 1 .. n : i \in Active
    BY <1>5, TopTypes DEF Active
  <2>9. OwedIsAwaited'
    BY <1>1, <1>8, <2>2, <2>6, <2>7, <2>8 DEF OwedIsAwaited, Owes
  <2>10. \A i \in Levels : i > n => ~Owes(frame'[i])
    BY <1>6, <1>8, <2>2, <2>3, BlankFields DEF Levels, Owes
  <2>11. Accounted
    BY <1>c, <2>3, <2>10
  <2> QED BY <2>5, <2>9, <2>11
<1>10. CASE ~(n < MaxDepth)
  <2>1. frame' = Cut(s, n) /\ depth' = n /\ terminal' = "Failed"
    BY <1>4, <1>10
  <2>2. /\ frame' \in [Levels -> Frames] /\ \A i \in 1 .. n : frame'[i] = s[i]
        /\ \A i \in Levels : i > n => frame'[i] = Blank
    BY <1>6, <1>7, <2>1 DEF Levels
  <2>3. \A i \in 1 .. n : /\ frame'[i].event = frame[i].event /\ frame'[i].owner = frame[i].owner
                          /\ frame'[i].resume = frame[i].resume
                          /\ frame'[i].pending \in {frame[i].pending, NoReceipt}
    BY <1>3, <1>6, <2>2
  <2>4. frame'[n].resume.owner <= n
    BY <1>5, <1>6, <2>3, TopTypes DEF StackInv, StackShape, Active
  <2>5. UNCHANGED sent /\ settled' \subseteq 1 .. sent
        /\ \A i \in Levels : Owes(frame[i]) => frame[i].pending.id \notin settled'
    BY <1>1 DEF ledgerVars, StackInv, StackTypes, ReceiptsDiffer
  <2>6. \A i \in 1 .. n : Owes(frame'[i]) => frame'[i].pending.id \notin settled'
    BY <1>6, <2>3, <2>5 DEF Owes
  <2>7. StackInv'
    BY <1>5, <2>1, <2>2, <2>3, <2>4, <2>5, <2>6, TopRemoved
  <2>8. Accounted
    BY <1>c, <2>2, BlankFields
  <2> QED BY <2>1, <2>7, <2>8 DEF OwedIsAwaited
<1> QED BY <1>9, <1>10

-----------------------------------------------------------------------------
(* The invariant. *)

\* How a flow may end.
Ends == {"Completed", "BusinessFailed", "Failed", "ExternalBlocked", "Cancelled"}

\* The end of the flow, the recovery and the timer, with the restart that is
\* demanded at most once.
ModeInv ==
  /\ terminal \in {"Progress"} \union Ends
  /\ recovery \in {"none", "suspended", "resumed"}
  /\ checked \in BOOLEAN /\ forced \in BOOLEAN /\ rebooted \in BOOLEAN
  /\ armed \in BOOLEAN /\ cancelled \in BOOLEAN
  /\ RestartDemandedOnce

\* The proof of an exit covers receipts that were issued.
ExitInv == exit \in 0 .. MaxSends

\* A forced restart waits for the device over known deliveries.
TimerInv == terminal = "Progress" /\ forced => recovery = "suspended" /\ ~checked /\ ~Unknown

\* What every state of the executor satisfies.
Inv == StackInv /\ OwedIsAwaited /\ ModeInv /\ ExitInv /\ TimerInv

\* The first state: the root, which owes nothing.
LEMMA InvInit == Init => Inv
<1> SUFFICES ASSUME Init PROVE Inv
  OBVIOUS
<1>1. depth = 1 /\ frame = [i \in Levels |-> Blank] /\ sent = 0 /\ settled = {}
  BY DEF Init
<1>2. \A i \in Levels : frame[i] = Blank
  BY <1>1
<1>3. 1 \in Levels
  BY DEF Levels
<1>4. Blank.owner = 0 /\ Blank.pending = NoReceipt /\ Blank.resume = NoResume /\ Blank.event = NoEvent
  BY HandlerFields DEF Blank, Called
<1>5. StackInv
  BY <1>1, <1>2, <1>3, <1>4, BlankFields
     DEF StackInv, StackTypes, StackShape, HandlersOwned, ReceiptsDiffer, AttemptsBounded,
         RestartNeverOverProtected, Active, NoResume
<1>6. OwedIsAwaited
  BY <1>1, <1>2, <1>3, BlankFields DEF OwedIsAwaited, Active
<1>7. ModeInv
  BY Zenon DEF Init, ModeInv, RestartDemandedOnce, Ends
<1>8. ExitInv
  BY DEF Init, ExitInv
<1>9. TimerInv
  BY DEF Init, TimerInv
<1> QED BY <1>5, <1>6, <1>7, <1>8, <1>9 DEF Inv

\* Every step keeps the stack and what it owes, and accounts for every receipt.
LEMMA StackStep ==
  ASSUME StackInv, OwedIsAwaited, [Next]_vars
  PROVE  StackInv' /\ OwedIsAwaited' /\ (Accounted \/ Issued \/ Reissued)
<1>1. ASSUME UNCHANGED <<stackVars, ledgerVars>>, terminal' = "Progress" => terminal = "Progress"
      PROVE  StackInv' /\ OwedIsAwaited' /\ Accounted
  BY <1>1, StackKept
<1>2. CASE UNCHANGED vars
  BY <1>1, <1>2 DEF vars
<1>3. CASE Cancel \/ Stops \/ Finish \/ StopFlag
  BY <1>1, <1>3 DEF Cancel, Stops, Finish, StopFlag, Stepping, Interprets, Running
<1>4. CASE Look \/ Suspend \/ ExceptionRestart \/ RecoverDevice \/ Restored \/ RestartStops
  BY <1>1, <1>4 DEF Look, Suspend, ExceptionRestart, RecoverDevice, Restored, RestartStops,
     LookingAgain, Interprets, Running
<1>5. CASE Select
  BY <1>5, SelectStack
<1>6. CASE Advance
  BY <1>6, AdvanceStack
<1>7. CASE Call
  BY <1>7, CallStack
<1>8. CASE Return
  BY <1>8, ReturnStack
<1>9. CASE ReturnFailure
  BY <1>9, ReturnFailureStack
<1>10. CASE ReturnHandled
  BY <1>10, ReturnHandledStack
<1>11. CASE PushEvent
  BY <1>11, PushEventStack
<1>12. CASE ResumeEvent
  BY <1>12, ResumeEventStack
<1>13. CASE Submit
  BY <1>13, SubmitStack
<1>14. CASE Settle
  BY <1>14, SettleStack
<1>15. CASE Retry
  BY <1>15, RetryStack
<1>16. CASE NoProgress
  BY <1>16, NoProgressStack
<1>17. CASE RestartHandler
  BY <1>17, RestartHandlerStack
<1> QED BY <1>2, <1>3, <1>4, <1>5, <1>6, <1>7, <1>8, <1>9, <1>10, <1>11, <1>12, <1>13, <1>14,
           <1>15, <1>16, <1>17 DEF Next

\* A recovery that begins, goes on or is over.
LEMMA RecoveringMode ==
  ASSUME ModeInv, NEW state \in {recovery, "resumed", "none"}, Recovering(state)
  PROVE  /\ recovery' \in {"none", "suspended", "resumed"} /\ checked' \in BOOLEAN /\ forced' \in BOOLEAN
         /\ UNCHANGED <<rebooted, exit>>
<1>1. checked' \in BOOLEAN /\ forced' \in BOOLEAN
  BY Zenon DEF Recovering
<1>2. recovery' = state /\ UNCHANGED <<rebooted, exit>>
  BY Zenon DEF Recovering
<1> QED BY <1>1, <1>2 DEF ModeInv

\* Every step keeps the mode: a restart that was done is handled before the program
\* goes on, and demanded no second time.
LEMMA ModeStep ==
  ASSUME ModeInv, [Next]_vars
  PROVE  ModeInv'
<1> USE DEF ModeInv, RestartDemandedOnce
<1>1. CASE UNCHANGED vars
  BY <1>1, Zenon DEF vars, recoveryVars
<1>2. CASE Cancel
  BY <1>2, Zenon DEF Cancel, FinishRecovery, Recovering, Ends
<1>3. CASE Stops
  BY <1>3, Zenon DEF Stops, Recovering, recoveryVars, Ends
<1>4. CASE Finish
  BY <1>4, Zenon DEF Finish, recoveryVars, Ends
<1>5. CASE StopFlag
  BY <1>5, Zenon DEF StopFlag, recoveryVars
<1>6. CASE Look
  BY <1>6, Zenon DEF Look, recoveryVars
<1>7. CASE Select \/ Advance \/ Settle
  <2>1. /\ recovery # "suspended" /\ terminal = "Progress" /\ UNCHANGED <<terminal, cancelled>>
        /\ FinishRecovery /\ Disarm
    BY <1>7, Zenon DEF Select, Advance, Settle, Stepping, Interprets, Running
  <2>2. /\ recovery' \in {"none", "suspended", "resumed"} /\ checked' \in BOOLEAN /\ forced' \in BOOLEAN
        /\ UNCHANGED <<rebooted, exit>>
    BY <2>1, RecoveringMode, Zenon DEF FinishRecovery
  <2>3. armed' \in BOOLEAN /\ ~rebooted
    BY <2>1, Zenon DEF Disarm
  <2> QED BY <2>1, <2>2, <2>3, Zenon
<1>8. CASE Call \/ Return \/ ReturnHandled \/ PushEvent \/ ResumeEvent
  <2>1. UNCHANGED <<terminal, recoveryVars, armed, cancelled>>
    BY <1>8, Zenon DEF Call, Return, ReturnHandled, PushEvent, ResumeEvent
  <2> QED BY <2>1, Zenon DEF recoveryVars
<1>9. CASE ReturnFailure
  <2>1. UNCHANGED <<recoveryVars, armed, cancelled>> /\ terminal' \in Ends
    BY <1>9, Zenon DEF ReturnFailure, Ends
  <2>2. terminal' # "Progress"
    BY <2>1 DEF Ends
  <2> QED BY <2>1, <2>2, Zenon DEF recoveryVars
<1>10. CASE NoProgress
  BY <1>10, Zenon DEF NoProgress, recoveryVars
<1>11. CASE Submit \/ Retry
  <2>1. /\ recovery # "suspended" /\ terminal = "Progress" /\ UNCHANGED <<armed, cancelled>>
        /\ \/ FinishRecovery /\ UNCHANGED terminal
           \/ Recovering("none") /\ terminal' = "Failed"
    BY <1>11, Zenon DEF Submit, Retry, Submitted, Stepping, Interprets, Running
  <2>2. CASE FinishRecovery /\ UNCHANGED terminal
    <3>1. /\ recovery' \in {"none", "suspended", "resumed"} /\ checked' \in BOOLEAN /\ forced' \in BOOLEAN
          /\ UNCHANGED <<rebooted, exit>>
      BY <2>2, RecoveringMode, Zenon DEF FinishRecovery
    <3> QED BY <2>1, <2>2, <3>1, Zenon
  <2>3. CASE Recovering("none") /\ terminal' = "Failed"
    BY <2>1, <2>3, Zenon DEF Recovering, Ends
  <2> QED BY <2>1, <2>2, <2>3
<1>12. CASE Suspend
  BY <1>12, Zenon DEF Suspend
<1>13. CASE ExceptionRestart
  BY <1>13, Zenon DEF ExceptionRestart, Running
<1>14. CASE RecoverDevice
  <2>1. /\ recovery = "suspended" /\ terminal = "Progress" /\ checked' = TRUE
        /\ UNCHANGED <<terminal, recovery, armed, cancelled>>
    BY <1>14, Zenon DEF RecoverDevice, Running
  <2>2. PICK restarted \in BOOLEAN : /\ forced' = (forced /\ ~restarted)
                                     /\ rebooted' = (rebooted \/ restarted)
    BY <1>14, Zenon DEF RecoverDevice, ForcedAfter
  <2> QED BY <2>1, <2>2, Zenon
<1>15. CASE Restored
  <2>1. /\ ~rebooted /\ UNCHANGED <<terminal, cancelled>> /\ armed' \in BOOLEAN
        /\ \E state \in {recovery, "resumed", "none"} : Recovering(state)
    BY <1>15, Zenon DEF Restored, Disarm
  <2>2. /\ recovery' \in {"none", "suspended", "resumed"} /\ checked' \in BOOLEAN /\ forced' \in BOOLEAN
        /\ UNCHANGED <<rebooted, exit>>
    BY <2>1, RecoveringMode, Zenon
  <2> QED BY <2>1, <2>2, Zenon
<1>16. CASE RestartStops
  BY <1>16, Zenon DEF RestartStops, Ends
<1>17. CASE RestartHandler
  <2>1. /\ recovery' = "none" /\ checked' = FALSE /\ forced' = FALSE /\ armed' = FALSE
        /\ UNCHANGED cancelled
    BY <1>17, Zenon DEF RestartHandler
  <2>2. \/ rebooted' = FALSE /\ UNCHANGED terminal
        \/ terminal' = "Failed" /\ UNCHANGED rebooted
    BY <1>17 DEF RestartHandler
  <2> QED BY <2>1, <2>2, Zenon DEF Ends
<1> QED BY <1>1, <1>2, <1>3, <1>4, <1>5, <1>6, <1>7, <1>8, <1>9, <1>10, <1>11, <1>12, <1>13,
           <1>14, <1>15, <1>16, <1>17 DEF Next

\* The proof of an exit covers receipts that were issued.
LEMMA ExitStep ==
  ASSUME StackInv, ExitInv, [Next]_vars
  PROVE  ExitInv'
<1>1. sent \in 0 .. MaxSends
  BY DEF StackInv, StackTypes
<1>2. exit' \in {exit, sent}
  BY DEF Next, vars, recoveryVars, Recovering, FinishRecovery, Cancel, Stops, Finish, Select, Advance, Look,
     Call, Return, ReturnFailure, ReturnHandled, PushEvent, ResumeEvent, Submit, Submitted, Settle, Retry,
     NoProgress, Suspend, ExceptionRestart, RecoverDevice, Restored, RestartStops, RestartHandler, StopFlag
<1> QED BY <1>1, <1>2 DEF ExitInv

\* A restart is forced over known deliveries; until it is done the program stands
\* still, and so do its receipts.
LEMMA TimerStep ==
  ASSUME ModeInv, TimerInv, [Next]_vars
  PROVE  TimerInv'
<1> SUFFICES ASSUME terminal' = "Progress", forced' PROVE (recovery = "suspended" /\ ~checked /\ ~Unknown)'
  BY DEF TimerInv
<1>1. ASSUME UNCHANGED stackVars, ~Unknown PROVE ~Unknown'
  BY <1>1, Zenon DEF stackVars, Unknown, Active, Owes
<1>2. forced \in BOOLEAN /\ checked \in BOOLEAN
  BY Zenon DEF ModeInv
<1>3. CASE UNCHANGED vars
  BY <1>1, <1>3 DEF vars, recoveryVars, TimerInv
<1>4. CASE Suspend
  <2>1. recovery' = "suspended" /\ checked' \in {checked, FALSE} /\ UNCHANGED stackVars
    BY <1>4, Zenon DEF Suspend
  <2>2. terminal = "Progress" /\ forced' = forced
    BY <1>4, Zenon DEF Suspend, Running
  <2>3. ~checked /\ ~Unknown
    BY <2>2 DEF TimerInv
  <2>4. ~checked'
    BY <1>2, <2>1, <2>3
  <2> QED BY <1>1, <2>1, <2>3, <2>4
<1>5. CASE ExceptionRestart
  BY <1>1, <1>5 DEF ExceptionRestart
<1>6. CASE RecoverDevice
  <2>1. PICK restarted \in BOOLEAN : (forced => restarted) /\ forced' = (forced /\ ~restarted)
    BY <1>6, Zenon DEF RecoverDevice, ForcedAfter
  <2> QED BY <1>2, <2>1, Zenon
<1>7. CASE StopFlag
  BY <1>1, <1>7 DEF StopFlag, Running, recoveryVars, TimerInv
<1>8. CASE RestartStops \/ RestartHandler
  BY <1>8, Zenon DEF RestartStops, RestartHandler
<1>9. CASE Restored
  <2>1. ~forced
    BY <1>9, <1>2, Zenon DEF Restored, LookingAgain, Running, TimerInv
  <2>2. PICK state \in {"resumed", "none"} : Recovering(state)
    BY <1>9, Zenon DEF Restored
  <2> QED BY <2>1, <2>2, Zenon DEF Recovering
<1>10. CASE Cancel \/ Stops \/ Finish \/ ReturnFailure
  BY <1>10 DEF Cancel, Stops, Finish, ReturnFailure
<1>11. ASSUME Interprets PROVE ~forced
  BY <1>11, <1>2, Zenon DEF Interprets, Running, TimerInv
<1>12. CASE Look \/ Call \/ Return \/ ReturnHandled \/ PushEvent \/ ResumeEvent \/ NoProgress
  <2>1. Interprets /\ UNCHANGED recoveryVars
    BY <1>12, Zenon DEF Look, Call, Return, ReturnHandled, PushEvent, ResumeEvent, NoProgress, Stepping
  <2> QED BY <1>11, <2>1 DEF recoveryVars
<1>13. CASE Select \/ Advance \/ Settle \/ Submit \/ Retry
  <2>1. Interprets /\ \E state \in {recovery, "none"} : Recovering(state)
    BY <1>13, Zenon DEF Select, Advance, Settle, Submit, Retry, Submitted, Stepping, FinishRecovery
  <2>2. PICK state \in {recovery, "none"} : Recovering(state)
    BY <2>1, Zenon
  <2> QED BY <1>11, <2>1, <2>2, Zenon DEF Recovering
<1> QED BY <1>3, <1>4, <1>5, <1>6, <1>7, <1>8, <1>9, <1>10, <1>12, <1>13 DEF Next

\* The stack, the account of receipts and the mode of recovery hold in every state.
THEOREM InvHolds == Spec => []Inv
<1>1. Inv /\ [Next]_vars => Inv'
  BY StackStep, ModeStep, ExitStep, TimerStep DEF Inv
<1> QED BY InvInit, <1>1, PTL DEF Spec

\* Every variable keeps its type, and the stack its shape: handlers and replans
\* point at frames below, a rule's handler is there at most once, and what owes a
\* receipt is on top or under a handler.
THEOREM TypesHold == Spec => []TypeOK
<1>1. Inv => TypeOK
  BY DEF Inv, StackInv, StackTypes, ModeInv, ExitInv, TypeOK, VariablesTyped, Ends
<1> QED BY InvHolds, <1>1, PTL

\* What was sent is waited for, and is sent again only within its clause, whatever
\* events, unwinding and recoveries come between.
THEOREM ReceiptsTheorem == Spec => []ReceiptsAreKept
<1>1. Inv => ReceiptsAreKept
  BY DEF Inv, StackInv, ReceiptsAreKept
<1> QED BY InvHolds, <1>1, PTL

\* A restart is handled once, never above an input it could be taken for, and forced
\* only where every delivery is known.
THEOREM RestartsTheorem == Spec => []RestartsAreHandled
<1>1. Inv => RestartsAreHandled
  BY DEF Inv, StackInv, ModeInv, TimerInv, TimerNeverOverUnknown, RestartsAreHandled
<1> QED BY InvHolds, <1>1, PTL

-----------------------------------------------------------------------------
(* The account of receipts. *)

\* The open receipts are those the levels owe, each at one level.
OpenAccount ==
  /\ \A u \in BOOLEAN : \A x : x \in Open(u) <=>
       \E i \in Levels : Owes(frame[i]) /\ frame[i].pending.unknown = u /\ frame[i].pending.id = x
  /\ \A i \in Levels : Owes(frame[i]) => i \in Active /\ frame[i].pending.unknown \in BOOLEAN

\* So they are in every state.
LEMMA OpenMembers == StackInv => OpenAccount
<1> SUFFICES ASSUME StackInv PROVE OpenAccount
  OBVIOUS
<1>1. \A i \in Levels : Owes(frame[i]) => i \in Active
  BY TopTypes, BlankFields DEF StackInv, StackTypes, Active, Levels
<1>2. \A i \in Levels : Owes(frame[i]) => frame[i].pending.unknown \in BOOLEAN
  BY Owed DEF StackInv, StackTypes, Receipts
<1> QED BY <1>1, <1>2, TopTypes DEF Open, OpenAccount

\* And in the state after the step.
LEMMA OpenMembersNext == StackInv' => OpenAccount'
BY OpenMembers, PTL

\* Without a new receipt the open ones lose those that are gone, and no others.
LEMMA OpenShrinks ==
  ASSUME StackInv, StackInv', Accounted
  PROVE  /\ \A u \in BOOLEAN : Open(u)' = Open(u) \ Gone
         /\ Gone \subseteq Open(TRUE) \union Open(FALSE)
<1>1. \A i, j \in Levels : Owes(frame[i]) /\ Owes(frame[j]) /\ frame[i].pending.id = frame[j].pending.id => i = j
  BY DEF StackInv, ReceiptsDiffer
<1>2. \A i \in Levels : Owes(frame'[i]) => Owes(frame[i]) /\ frame'[i].pending = frame[i].pending
  BY DEF Accounted, Owes
<1>3. \A x : x \in Gone <=> \E i \in Levels : Owes(frame[i]) /\ ~Owes(frame'[i]) /\ frame[i].pending.id = x
  BY DEF Gone
<1>4. ASSUME NEW u \in BOOLEAN, NEW x PROVE x \in Open(u)' <=> x \in Open(u) /\ x \notin Gone
  <2>1. ASSUME x \in Open(u)' PROVE x \in Open(u) /\ x \notin Gone
    <3>1. PICK i \in Levels : Owes(frame'[i]) /\ frame'[i].pending.unknown = u /\ frame'[i].pending.id = x
      BY <2>1, OpenMembersNext DEF OpenAccount
    <3> QED BY <1>1, <1>2, <1>3, <3>1, OpenMembers DEF OpenAccount
  <2>2. ASSUME x \in Open(u), x \notin Gone PROVE x \in Open(u)'
    <3>1. PICK i \in Levels : Owes(frame[i]) /\ frame[i].pending.unknown = u /\ frame[i].pending.id = x
      BY <2>2, OpenMembers DEF OpenAccount
    <3>2. Owes(frame'[i])
      BY <1>3, <2>2, <3>1
    <3> QED BY <1>2, <3>1, <3>2, OpenMembersNext DEF OpenAccount
  <2> QED BY <2>1, <2>2
<1>5. \A u \in BOOLEAN : Open(u)' = Open(u) \ Gone
  BY <1>4
<1>6. Gone \subseteq Open(TRUE) \union Open(FALSE)
  <2> SUFFICES ASSUME NEW x \in Gone PROVE x \in Open(TRUE) \/ x \in Open(FALSE)
    OBVIOUS
  <2>1. PICK i \in Levels : Owes(frame[i]) /\ frame[i].pending.id = x
    BY <1>3
  <2>2. frame[i].pending.unknown \in BOOLEAN
    BY <2>1, OpenMembers DEF OpenAccount
  <2> QED BY <2>1, <2>2, OpenMembers DEF OpenAccount
<1> QED BY <1>5, <1>6

\* A step takes the flow no further than to one end, and to a business outcome
\* only with nothing owed.
LEMMA EndStep ==
  ASSUME Inv, Next
  PROVE  /\ terminal = "Progress" /\ terminal' \in {"Progress"} \union Ends
         /\ terminal' \in {"Completed", "BusinessFailed"} => ~Unresolved /\ UNCHANGED sent
<1>1. CASE Cancel \/ Stops \/ Finish \/ StopFlag
  BY <1>1 DEF Cancel, Stops, Finish, StopFlag, Stepping, Interprets, Running, EndsCleanly, Ends, ledgerVars
<1>2. CASE ReturnFailure
  BY <1>2 DEF ReturnFailure, Stepping, Interprets, Running, Ends, ledgerVars
<1>3. CASE Select \/ Advance \/ Look \/ Call \/ Return \/ ReturnHandled \/ PushEvent \/ ResumeEvent
  BY <1>3 DEF Select, Advance, Look, Call, Return, ReturnHandled, PushEvent, ResumeEvent,
     Stepping, Interprets, Running
<1>4. CASE Submit \/ Settle \/ Retry \/ NoProgress
  BY <1>4 DEF Submit, Submitted, Settle, Retry, NoProgress, Stepping, Interprets, Running, Ends
<1>5. CASE Suspend \/ ExceptionRestart \/ RecoverDevice \/ Restored \/ RestartStops
  BY <1>5 DEF Suspend, ExceptionRestart, RecoverDevice, Restored, RestartStops, LookingAgain, Running, Ends
<1>6. CASE RestartHandler
  <2>1. terminal = "Progress" /\ terminal' \in {terminal, "Failed"}
    BY <1>6 DEF RestartHandler, LookingAgain, Running
  <2> QED BY <2>1 DEF Ends
<1> QED BY <1>1, <1>2, <1>3, <1>4, <1>5, <1>6 DEF Next

\* A receipt that leaves the account without evidence was one of a repeatable input.
THEOREM GivenUpTheorem == Spec => GivenUpIsRepeatable
<1> DEFINE Repeats == \A i \in Active :
             LET f == frame[i] IN
             Owes(f) /\ f.pending.id \notin (Open(TRUE) \union Open(FALSE) \union settled)' =>
               f.pending.input \in Retryable /\ (f.pending.input \in Effects => f.pending.input \in Routed)
<1>1. ASSUME Inv, [Next]_vars PROVE Repeats
  <2> SUFFICES ASSUME NEW i \in Active, Owes(frame[i]),
                      frame[i].pending.id \notin Open(TRUE)', frame[i].pending.id \notin Open(FALSE)',
                      frame[i].pending.id \notin settled'
               PROVE  GivenUp(frame[i])
    BY DEF GivenUp
  <2>1. i \in Levels /\ StackInv /\ StackInv' /\ (Accounted \/ Issued \/ Reissued)
    BY <1>1, TopTypes, StackStep DEF Inv
  <2>2. \A j \in Levels : Owes(frame'[j]) => frame'[j].pending.id # frame[i].pending.id
    <3> SUFFICES ASSUME NEW j \in Levels, Owes(frame'[j]), frame'[j].pending.id = frame[i].pending.id
                 PROVE  FALSE
      OBVIOUS
    <3>1. frame'[j].pending.unknown \in BOOLEAN
      BY <2>1, OpenMembersNext DEF OpenAccount
    <3> QED BY <2>1, <3>1, OpenMembersNext DEF OpenAccount
  <2>3. ~Owes(frame'[i]) \/ frame'[i].pending.id # frame[i].pending.id
    BY <2>1, <2>2
  <2>4. CASE Accounted
    <3>1. ~Owes(frame'[i])
      BY <2>1, <2>3, <2>4 DEF Accounted
    <3>2. frame[i].pending.id \in Gone
      BY <2>1, <3>1 DEF Gone
    <3> QED BY <2>1, <2>4, <3>1, <3>2 DEF Accounted
  <2>5. CASE Issued
    BY <2>1, <2>3, <2>5 DEF Issued
  <2>6. CASE Reissued
    BY <2>1, <2>3, <2>6 DEF Reissued
  <2> QED BY <2>1, <2>4, <2>5, <2>6
<1>2. Spec => [][Repeats]_vars
  BY InvHolds, <1>1, PTL DEF Spec
<1> QED BY <1>2 DEF GivenUpIsRepeatable

-----------------------------------------------------------------------------
(* The refinement of InputLedger. *)

\* What the ledger calls the end of the flow.
Ended == CASE terminal = "Progress" -> "no"
           [] terminal \in {"Completed", "BusinessFailed"} -> "clean"
           [] OTHER -> "cut"

\* A step of the flow ends it or not, and cleanly only with nothing open.
LEMMA EndedStep ==
  ASSUME Inv, Next
  PROVE  /\ Ended = "no" /\ Ended' \in {"no", "clean", "cut"}
         /\ Ended' = "clean" => Open(TRUE) = {} /\ Open(FALSE) = {} /\ ~Unresolved /\ UNCHANGED sent
<1>1. /\ terminal = "Progress" /\ terminal' \in {"Progress"} \union Ends
      /\ terminal' \in {"Completed", "BusinessFailed"} => ~Unresolved /\ UNCHANGED sent
  BY EndStep
<1>2. Ended = "no" /\ Ended' \in {"no", "clean", "cut"}
  BY <1>1 DEF Ended, Ends
<1>3. Ended' = "clean" => ~Unresolved /\ UNCHANGED sent
  BY <1>1 DEF Ended, Ends
<1>4. ~Unresolved => Open(TRUE) = {} /\ Open(FALSE) = {}
  BY DEF Unresolved, Open
<1> QED BY <1>2, <1>3, <1>4

\* Receipts that are gone were confirmed or given up; with none gone the flow ends
\* or goes on.
LEMMA AccountedRefines ==
  ASSUME Inv, Inv', Next, Accounted
  PROVE  Ledger!Next \/ UNCHANGED Ledger!vars
<1> DEFINE known == Open(FALSE)
           unknown == Open(TRUE)
<1>1. /\ Ended = "no" /\ Ended' \in {"no", "clean", "cut"}
      /\ Ended' = "clean" => unknown = {} /\ known = {}
  BY EndedStep
<1>2. /\ known' = known \ Gone /\ unknown' = unknown \ Gone
      /\ Gone \subseteq known \union unknown /\ sent' = sent
  BY OpenShrinks DEF Inv, Accounted
<1>3. CASE Gone = {}
  <2>1. known' = known /\ unknown' = unknown /\ settled' = settled
    BY <1>2, <1>3 DEF Accounted
  <2>2. CASE Ended' = "no"
    BY <1>1, <1>2, <2>1, <2>2 DEF Ledger!vars, Ended
  <2>3. CASE Ended' # "no"
    BY <1>1, <1>2, <2>1, <2>3 DEF Ledger!Next, Ledger!End, Ended
  <2> QED BY <2>2, <2>3
<1>4. CASE Gone # {} /\ settled' = settled \union Gone
  <2>1. Ended' \in {"no", "cut"}
    BY <1>1, <1>2, <1>4
  <2>2. Ledger!Confirm(Gone)
    BY <1>1, <1>2, <1>4, <2>1 DEF Ledger!Confirm, Ledger!MayEnd, Ended
  <2> QED BY <1>2, <2>2 DEF Ledger!Next
<1>5. CASE Gone # {} /\ settled' = settled
           /\ \A i \in Levels : Owes(frame[i]) /\ ~Owes(frame'[i]) => GivenUp(frame[i])
  <2>1. Ended' \in {"no", "cut"}
    BY <1>1, <1>2, <1>5
  <2>2. Gone \subseteq known /\ Gone \intersect unknown = {}
    <3> SUFFICES ASSUME NEW x \in Gone PROVE x \in known /\ x \notin unknown
      OBVIOUS
    <3>1. PICK i \in Levels : Owes(frame[i]) /\ ~Owes(frame'[i]) /\ frame[i].pending.id = x
      BY DEF Gone
    <3>2. frame[i].pending.unknown = FALSE
      BY <1>5, <3>1, OpenMembers DEF GivenUp, Inv, OpenAccount
    <3>3. x \in known
      BY <3>1, <3>2, OpenMembers DEF Inv, OpenAccount
    <3>4. ASSUME x \in unknown PROVE FALSE
      <4>1. PICK j \in Levels : Owes(frame[j]) /\ frame[j].pending.unknown = TRUE /\ frame[j].pending.id = x
        BY <3>4, OpenMembers DEF Inv, OpenAccount
      <4>2. i = j
        BY <3>1, <4>1 DEF Inv, StackInv, ReceiptsDiffer
      <4> QED BY <3>2, <4>1, <4>2
    <3> QED BY <3>3, <3>4
  <2>3. Ledger!GiveUp(Gone)
    BY <1>1, <1>2, <1>5, <2>1, <2>2 DEF Ledger!GiveUp, Ledger!MayEnd, Ended
  <2> QED BY <1>2, <2>3 DEF Ledger!Next
<1> QED BY <1>3, <1>4, <1>5 DEF Accounted

\* With no delivery unknown on the stack, none is in the account.
LEMMA NoneUnknown ==
  ASSUME StackInv, ~Unknown
  PROVE  Open(TRUE) = {} /\ \A i \in Levels : Owes(frame[i]) => frame[i].pending.unknown = FALSE
<1>1. Open(TRUE) = {}
  BY DEF Unknown, Open
<1> QED BY <1>1, OpenMembers DEF OpenAccount

\* A new receipt is a Send.
LEMMA IssuedRefines ==
  ASSUME Inv, Inv', Next, Issued
  PROVE  Ledger!Next
<1>1. /\ Ended = "no" /\ Ended' \in {"no", "clean", "cut"} /\ (Ended' = "clean" => sent' = sent)
  BY EndedStep
<1>2. sent' = sent + 1 /\ sent \in Nat /\ settled' = settled /\ depth \in Levels
  BY TopTypes DEF Issued, Inv, StackInv, StackTypes
<1>3. Ended' \in {"no", "cut"}
  BY <1>1, <1>2
<1>4. Open(TRUE) = {} /\ ~Owes(frame[depth]) /\ Owes(frame'[depth]) /\ frame'[depth].pending.id = sent'
      /\ frame'[depth].pending.unknown \in BOOLEAN
      /\ \A i \in Levels : i # depth => frame'[i] = frame[i]
  BY NoneUnknown DEF Issued, Inv
<1>5. ASSUME NEW u \in BOOLEAN, NEW x
      PROVE  x \in Open(u)' <=> x \in Open(u) \/ (x = sent' /\ u = frame'[depth].pending.unknown)
  <2>1. x \in Open(u)' <=> \E i \in Levels : Owes(frame'[i]) /\ frame'[i].pending.unknown = u /\ frame'[i].pending.id = x
    BY OpenMembersNext DEF Inv, OpenAccount
  <2>2. x \in Open(u) <=> \E i \in Levels : Owes(frame[i]) /\ frame[i].pending.unknown = u /\ frame[i].pending.id = x
    BY OpenMembers DEF Inv, OpenAccount
  <2> QED BY <1>2, <1>4, <2>1, <2>2
<1>6. \/ Open(FALSE)' = Open(FALSE) \union {sent'} /\ Open(TRUE)' = Open(TRUE)
      \/ Open(TRUE)' = {sent'} /\ Open(FALSE)' = Open(FALSE)
  <2>1. CASE frame'[depth].pending.unknown = TRUE
    BY <1>4, <1>5, <2>1
  <2>2. CASE frame'[depth].pending.unknown = FALSE
    BY <1>4, <1>5, <2>2
  <2> QED BY <1>4, <2>1, <2>2
<1>7. Ledger!Send
  BY <1>1, <1>2, <1>3, <1>4, <1>6 DEF Ledger!Send, Ledger!MayEnd, Ended
<1> QED BY <1>7 DEF Ledger!Next

\* A retry is a Resend when its delivery is in doubt, and nothing new otherwise.
LEMMA ReissuedRefines ==
  ASSUME Inv, Inv', Next, Reissued
  PROVE  Ledger!Next \/ UNCHANGED Ledger!vars
<1> DEFINE r == frame[depth].pending.id
<1>1. /\ Owes(frame[depth]) /\ Owes(frame'[depth]) /\ frame'[depth].pending.id = r /\ depth \in Levels
      /\ frame'[depth].pending.unknown \in BOOLEAN
      /\ \A i \in Levels : i # depth => frame'[i] = frame[i]
      /\ sent' = sent /\ settled' = settled
  BY TopTypes DEF Reissued, ledgerVars, Inv
<1>2. /\ Open(TRUE) = {} /\ frame[depth].pending.unknown = FALSE
  BY <1>1, NoneUnknown DEF Reissued, Inv
<1>3. /\ Ended = "no" /\ Ended' \in {"no", "cut"}
  BY <1>1, EndedStep, TopTypes DEF Unresolved, Inv
<1>4. \A i \in Levels : i # depth /\ Owes(frame[i]) => frame[i].pending.id # r
  BY <1>1 DEF Inv, StackInv, ReceiptsDiffer
<1> HIDE DEF r
<1>5. ASSUME NEW u \in BOOLEAN, NEW x
      PROVE  x \in Open(u)' <=> \/ x \in Open(u) /\ x # r
                                \/ x = r /\ u = frame'[depth].pending.unknown
  <2>1. x \in Open(u)' <=> \E i \in Levels : Owes(frame'[i]) /\ frame'[i].pending.unknown = u /\ frame'[i].pending.id = x
    BY OpenMembersNext DEF Inv, OpenAccount
  <2>2. x \in Open(u) <=> \E i \in Levels : Owes(frame[i]) /\ frame[i].pending.unknown = u /\ frame[i].pending.id = x
    BY OpenMembers DEF Inv, OpenAccount
  <2> QED BY <1>1, <1>4, <2>1, <2>2 DEF r
<1>6. r \in Open(FALSE)
  BY <1>1, <1>2, OpenMembers DEF Inv, OpenAccount, r
<1>7. CASE frame'[depth].pending.unknown = TRUE
  <2>1. Open(FALSE)' = Open(FALSE) \ {r} /\ Open(TRUE)' = {r}
    BY <1>2, <1>5, <1>7
  <2>2. Ledger!Resend(r)
    BY <1>1, <1>2, <1>3, <1>6, <2>1 DEF Ledger!Resend, Ledger!MayEnd, Ended
  <2> QED BY <1>6, <2>2 DEF Ledger!Next
<1>8. CASE frame'[depth].pending.unknown = FALSE
  <2>1. Open(FALSE)' = Open(FALSE) /\ Open(TRUE)' = Open(TRUE)
    BY <1>2, <1>5, <1>6, <1>8
  <2>2. CASE Ended' = "no"
    BY <1>1, <1>3, <2>1, <2>2 DEF Ledger!vars, Ended
  <2>3. CASE Ended' = "cut"
    BY <1>1, <1>3, <2>1, <2>3 DEF Ledger!Next, Ledger!End, Ended
  <2> QED BY <1>3, <2>2, <2>3
<1> QED BY <1>1, <1>7, <1>8

\* The flow executor keeps the account that InputLedger promises: nothing is sent
\* over an unknown delivery, and no receipt is forgotten by a call, an event, a
\* replan or a restart.
THEOREM LedgerTheorem == Spec => ImplementsLedger
<1>1. Init => Ledger!Init
  <2> SUFFICES ASSUME Init PROVE Ledger!Init
    OBVIOUS
  <2>1. StackInv /\ \A i \in Levels : ~Owes(frame[i])
    BY InvInit, BlankFields DEF Init, Inv
  <2>2. Open(TRUE) = {} /\ Open(FALSE) = {}
    BY <2>1, TopTypes DEF Open
  <2> QED BY <2>2 DEF Ledger!Init, Init
<1>2. ASSUME Inv, Inv', [Next]_vars PROVE [Ledger!Next]_(Ledger!vars)
  <2>1. CASE UNCHANGED vars
    BY <2>1 DEF Ledger!vars, vars, stackVars, ledgerVars, Open, Active, Owes
  <2>2. CASE Next
    <3>1. Accounted \/ Issued \/ Reissued
      BY <1>2, StackStep DEF Inv
    <3> QED BY <1>2, <2>2, <3>1, AccountedRefines, IssuedRefines, ReissuedRefines
  <2> QED BY <1>2, <2>1, <2>2
<1> QED BY InvHolds, <1>1, <1>2, PTL DEF Spec, ImplementsLedger, Ledger!Spec
=============================================================================
