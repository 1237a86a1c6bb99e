--------------------------- MODULE MatchingProofs ---------------------------
(***************************************************************************)
(* The budget of Matching counts the tickets that exist, and its leaves    *)
(* never all wait for each other, for every finite set of leaves, every    *)
(* size of their matches and every target.                                 *)
(*                                                                         *)
(* Bytes(tickets) is the number of the units that leaves have and          *)
(* Holders(tickets) that of the leaves with a ticket: both change by what  *)
(* one leaf takes or gives back.  MatchingInv adds where a leaf may have a *)
(* ticket at all, which makes every acquire one for a leaf without, and    *)
(* CacheInv who loads the entries that others wait for.                    *)
(***************************************************************************)
EXTENDS Matching, FiniteSetTheorems, TLAPS

-----------------------------------------------------------------------------
(* Units, bytes and holders.                                               *)

\* An interval from one on.
LEMMA FirstNumbers ==
  ASSUME NEW n \in Nat
  PROVE  IsFiniteSet(1 .. n) /\ Cardinality(1 .. n) = n
<1>1. 1 \in Int /\ n \in Int
  OBVIOUS
<1>2. /\ IsFiniteSet(1 .. n)
      /\ Cardinality(1 .. n) = IF 1 > n THEN 0 ELSE n - 1 + 1
  BY <1>1, FS_Interval
<1>3. (IF 1 > n THEN 0 ELSE n - 1 + 1) = n
  OBVIOUS
<1> QED
  BY <1>2, <1>3

\* The units of a ticket per leaf are finitely many: each leaf has an interval of them.
LEMMA UnitsAreFinite ==
  ASSUME NEW tickets \in [Leaves -> Nat]
  PROVE  IsFiniteSet(Units(tickets))
<1> DEFINE own == [l \in Leaves |-> {l} \X (1 .. tickets[l])]
<1> DEFINE all == {{l} \X (1 .. tickets[l]) : l \in Leaves}
<1>1. own \in Surjection(Leaves, all)
  BY DEF Surjection
<1>2. IsFiniteSet(all)
  BY <1>1, FS_Surjection, MatchingAssumption
<1>3. ASSUME NEW l \in Leaves PROVE IsFiniteSet({l} \X (1 .. tickets[l]))
  <2>1. tickets[l] \in Nat
    OBVIOUS
  <2>2. IsFiniteSet({l}) /\ IsFiniteSet(1 .. tickets[l])
    BY <2>1, FS_Singleton, FirstNumbers
  <2> QED
    BY <2>2, FS_Product
<1>4. \A own2 \in all : IsFiniteSet(own2)
  BY <1>3
<1>5. IsFiniteSet(UNION all)
  BY <1>2, <1>4, FS_UNION
<1> QED
  BY <1>5 DEF Units

\* A unit belongs to a leaf and is one of those that its ticket counts.
LEMMA UnitsOfLeaves ==
  ASSUME NEW tickets \in [Leaves -> Nat], NEW u
  PROVE  u \in Units(tickets) <=> \E l \in Leaves : u \in {l} \X (1 .. tickets[l])
BY DEF Units

\* The bytes of no ticket are none, and only of those.
LEMMA BytesOfNone ==
  ASSUME NEW tickets \in [Leaves -> Nat]
  PROVE  /\ Bytes(tickets) \in Nat
         /\ Bytes(tickets) = 0 <=> \A l \in Leaves : tickets[l] = 0
<1>1. IsFiniteSet(Units(tickets))
  BY UnitsAreFinite
<1>2. Bytes(tickets) \in Nat
  BY <1>1, FS_CardinalityType DEF Bytes
<1>3. Bytes(tickets) = 0 <=> Units(tickets) = {}
  BY <1>1, FS_EmptySet DEF Bytes
<1>4. ASSUME NEW l \in Leaves, tickets[l] # 0
      PROVE  Units(tickets) # {}
  <2>1. <<l, 1>> \in {l} \X (1 .. tickets[l])
    BY <1>4
  <2> QED
    BY <2>1, UnitsOfLeaves
<1>5. ASSUME \A l \in Leaves : tickets[l] = 0
      PROVE  Units(tickets) = {}
  <2>1. \A l \in Leaves : {l} \X (1 .. tickets[l]) = {}
    BY <1>5
  <2> QED
    BY <2>1, UnitsOfLeaves
<1> QED
  BY <1>2, <1>3, <1>4, <1>5

\* A leaf without a ticket that takes one of n adds n bytes.
LEMMA BytesOfOneMore ==
  ASSUME NEW tickets \in [Leaves -> Nat], NEW l \in Leaves, NEW n \in Nat, tickets[l] = 0
  PROVE  Bytes([tickets EXCEPT ![l] = n]) = Bytes(tickets) + n
<1> DEFINE more == [tickets EXCEPT ![l] = n]
<1> DEFINE new == {l} \X (1 .. n)
<1>1. more \in [Leaves -> Nat]
  OBVIOUS
<1>2. more[l] = n /\ \A k \in Leaves \ {l} : more[k] = tickets[k]
  OBVIOUS
<1>3. {l} \X (1 .. tickets[l]) = {}
  OBVIOUS
<1>4. Units(more) = Units(tickets) \union new
  <2>1. ASSUME NEW u PROVE u \in Units(more) <=> u \in Units(tickets) \/ u \in new
    <3> HIDE DEF more
    <3>1. u \in Units(more) <=> \E k \in Leaves : u \in {k} \X (1 .. more[k])
      BY <1>1, UnitsOfLeaves
    <3>2. u \in Units(tickets) <=> \E k \in Leaves : u \in {k} \X (1 .. tickets[k])
      BY UnitsOfLeaves
    <3> QED
      BY <3>1, <3>2, <1>2, <1>3
  <2> QED
    BY <2>1
<1>5. Units(tickets) \intersect new = {}
  <2>1. ASSUME NEW u \in Units(tickets), u \in new PROVE FALSE
    <3>1. PICK k \in Leaves : u \in {k} \X (1 .. tickets[k])
      BY <2>1, UnitsOfLeaves
    <3>2. u[1] = k /\ u[1] = l
      BY <3>1, <2>1
    <3> QED
      BY <3>1, <3>2, <1>3
  <2> QED
    BY <2>1
<1>6. IsFiniteSet(new) /\ Cardinality(new) = n
  <2>1. IsFiniteSet({l}) /\ Cardinality({l}) = 1
    BY FS_Singleton
  <2>2. IsFiniteSet(1 .. n) /\ Cardinality(1 .. n) = n
    BY FirstNumbers
  <2>3. IsFiniteSet(new) /\ Cardinality(new) = Cardinality({l}) * Cardinality(1 .. n)
    BY <2>1, <2>2, FS_Product
  <2>4. 1 * n = n
    OBVIOUS
  <2> QED
    BY <2>1, <2>2, <2>3, <2>4
<1>7. IsFiniteSet(Units(tickets)) /\ Cardinality(Units(tickets)) \in Nat
  BY UnitsAreFinite, FS_CardinalityType
<1>8. Cardinality({}) = 0
  BY FS_EmptySet
<1> HIDE DEF new
<1>9. Cardinality(Units(tickets) \union new)
        = Cardinality(Units(tickets)) + Cardinality(new) - Cardinality({})
  BY <1>5, <1>6, <1>7, FS_Union
<1>10. Cardinality(Units(more)) = Cardinality(Units(tickets)) + n
  <2> HIDE DEF more
  <2> QED
    BY <1>4, <1>6, <1>7, <1>8, <1>9
<1> QED
  BY <1>10 DEF Bytes

\* And one that gives its ticket back takes away what it had.
LEMMA BytesOfOneLess ==
  ASSUME NEW tickets \in [Leaves -> Nat], NEW l \in Leaves
  PROVE  Bytes(tickets) = Bytes([tickets EXCEPT ![l] = 0]) + tickets[l]
<1> DEFINE less == [tickets EXCEPT ![l] = 0]
<1>1. less \in [Leaves -> Nat] /\ less[l] = 0 /\ tickets[l] \in Nat
  OBVIOUS
<1>2. [less EXCEPT ![l] = tickets[l]] = tickets
  OBVIOUS
<1> HIDE DEF less
<1>3. Bytes([less EXCEPT ![l] = tickets[l]]) = Bytes(less) + tickets[l]
  BY <1>1, BytesOfOneMore
<1> QED
  BY <1>2, <1>3 DEF less

\* The leaves with a ticket are finitely many, and none when no leaf has one.
LEMMA HoldersOfNone ==
  ASSUME NEW tickets \in [Leaves -> Nat]
  PROVE  /\ IsFiniteSet(HoldersOf(tickets)) /\ Holders(tickets) \in Nat
         /\ Holders(tickets) = 0 <=> \A l \in Leaves : tickets[l] = 0
<1>1. HoldersOf(tickets) \in SUBSET Leaves
  BY DEF HoldersOf
<1>2. IsFiniteSet(HoldersOf(tickets))
  BY <1>1, FS_Subset, MatchingAssumption
<1>3. Holders(tickets) \in Nat
  BY <1>2, FS_CardinalityType DEF Holders
<1>4. Holders(tickets) = 0 <=> HoldersOf(tickets) = {}
  BY <1>2, FS_EmptySet DEF Holders
<1>5. HoldersOf(tickets) = {} <=> \A l \in Leaves : tickets[l] = 0
  BY DEF HoldersOf
<1> QED
  BY <1>2, <1>3, <1>4, <1>5

\* A leaf without a ticket that takes one is one holder more.
LEMMA OneHolderMore ==
  ASSUME NEW tickets \in [Leaves -> Nat], NEW l \in Leaves, NEW n \in Nat \ {0}, tickets[l] = 0
  PROVE  Holders([tickets EXCEPT ![l] = n]) = Holders(tickets) + 1
<1>1. HoldersOf([tickets EXCEPT ![l] = n]) = HoldersOf(tickets) \union {l}
  BY DEF HoldersOf
<1>2. l \notin HoldersOf(tickets)
  BY DEF HoldersOf
<1>3. IsFiniteSet(HoldersOf(tickets))
  BY HoldersOfNone
<1> QED
  BY <1>1, <1>2, <1>3, FS_AddElement DEF Holders

\* One that has a ticket and gives it back is one holder less.
LEMMA OneHolderLess ==
  ASSUME NEW tickets \in [Leaves -> Nat], NEW l \in Leaves
  PROVE  Holders(tickets) =
           Holders([tickets EXCEPT ![l] = 0]) + (IF tickets[l] > 0 THEN 1 ELSE 0)
<1> DEFINE less == [tickets EXCEPT ![l] = 0]
<1>1. less \in [Leaves -> Nat] /\ less[l] = 0 /\ tickets[l] \in Nat
  OBVIOUS
<1>2. [less EXCEPT ![l] = tickets[l]] = tickets
  OBVIOUS
<1>3. Holders(less) \in Nat
  BY <1>1, HoldersOfNone
<1>4. CASE tickets[l] > 0
  <2> HIDE DEF less
  <2>1. tickets[l] \in Nat \ {0}
    BY <1>1, <1>4
  <2>2. Holders([less EXCEPT ![l] = tickets[l]]) = Holders(less) + 1
    BY <1>1, <2>1, OneHolderMore
  <2> QED
    BY <1>2, <1>4, <2>2 DEF less
<1>5. CASE ~(tickets[l] > 0)
  <2>1. tickets[l] = 0
    BY <1>1, <1>5
  <2>2. less = tickets
    BY <2>1
  <2>3. Holders(tickets) = Holders(less) + 0
    <3> HIDE DEF less
    <3> QED
      BY <1>3, <2>2
  <2> QED
    BY <1>5, <2>3
<1> QED
  BY <1>4, <1>5

-----------------------------------------------------------------------------
(* The invariant.                                                          *)

Locations ==
  {"idle", "load", "check", "asleep", "decode", "decoded", "fault", "granted", "match", "unwind"}

LeafTypes   == pc \in [Leaves -> Locations] /\ asset \in [Leaves -> Assets]
TicketTypes == held \in [Leaves -> Nat] /\ extra \in [Leaves -> Nat]

\* Who asks for a ticket has none.
WithoutTickets(l) == pc[l] \in {"idle", "check", "asleep"} => held[l] = 0 /\ extra[l] = 0

\* The decoder's ticket lives from its grant to the end of the decoder.
WithoutDecoder(l) == pc[l] \notin {"decode", "decoded"} => extra[l] = 0
DecoderHolds(l)   == pc[l] = "decoded" => extra[l] > 0

\* The image is loaded before the match gets its ticket.
ImageBeforeMatch(l) ==
  asset[l] = "image" /\ pc[l] \in {"load", "decode", "decoded"} => held[l] = 0

TicketFits(l) == WithoutTickets(l) /\ WithoutDecoder(l) /\ DecoderHolds(l) /\ ImageBeforeMatch(l)

TicketInv == \A l \in Leaves : TicketFits(l)

MatchingInv == LeafTypes /\ TicketTypes /\ TicketInv /\ BudgetKept

\* The leaf l goes to at; of the others a notification may wake those who sleep.
Moves(l, at) ==
  /\ pc' \in [Leaves -> Locations]
  /\ pc'[l] = at
  /\ \A k \in Leaves \ {l} : pc'[k] = pc[k] \/ (pc[k] = "asleep" /\ pc'[k] = "check")

-----------------------------------------------------------------------------
(* What steps have in common.                                              *)

\* A step of a leaf alone.
LEMMA GoesAlone ==
  ASSUME LeafTypes, NEW l \in Leaves, NEW at \in Locations, Goto(l, at)
  PROVE  Moves(l, at)
BY DEF LeafTypes, Goto, Moves

\* A step of a leaf that wakes the others.
LEMMA GoesAndNotifies ==
  ASSUME LeafTypes, NEW l \in Leaves, NEW at \in Locations, Notified(l, at)
  PROVE  Moves(l, at)
<1>1. "check" \in Locations
  BY DEF Locations
<1> QED
  BY <1>1 DEF LeafTypes, Notified, Moves

\* A leaf of which nothing changes, save that it may wake up, stays within its tickets.
LEMMA OthersFit ==
  ASSUME LeafTypes, TicketTypes, TicketInv, NEW l \in Leaves, NEW at, Moves(l, at),
         \A k \in Leaves \ {l} : asset'[k] = asset[k] /\ held'[k] = held[k] /\ extra'[k] = extra[k],
         TicketFits(l)'
  PROVE  TicketInv'
<1>1. ASSUME NEW k \in Leaves \ {l} PROVE TicketFits(k)'
  <2>1. TicketFits(k)
    BY DEF TicketInv
  <2>2. asset'[k] = asset[k] /\ held'[k] = held[k] /\ extra'[k] = extra[k]
    OBVIOUS
  <2>3. pc'[k] = pc[k] \/ (pc[k] = "asleep" /\ pc'[k] = "check")
    BY DEF Moves
  <2> QED
    BY <2>1, <2>2, <2>3
    DEF TicketFits, WithoutTickets, WithoutDecoder, DecoderHolds, ImageBeforeMatch
<1> QED
  BY <1>1 DEF TicketInv

\* What neither takes nor gives back leaves the budget as it is.
LEMMA BudgetStays ==
  ASSUME BudgetKept, UNCHANGED <<budgetVars, held, extra>>
  PROVE  BudgetKept'
BY DEF BudgetKept, budgetVars, Bytes, Units, Holders, HoldersOf

\* Neither the tickets nor the assets change: all that is left is where the leaf goes.
LEMMA OnlyGoes ==
  ASSUME MatchingInv, NEW l \in Leaves, NEW at \in Locations, Moves(l, at),
         UNCHANGED <<budgetVars, asset, held, extra>>, TicketFits(l)'
  PROVE  MatchingInv'
<1>1. LeafTypes' /\ TicketTypes'
  BY DEF MatchingInv, LeafTypes, TicketTypes, Moves
<1>2. TicketInv'
  BY OthersFit DEF MatchingInv
<1>3. BudgetKept'
  BY BudgetStays DEF MatchingInv
<1> QED
  BY <1>1, <1>2, <1>3 DEF MatchingInv

\* Tickets that are given back: the budget beyond its target was one ticket's, so that
\* what is left when it leaves is nothing.
LEMMA BudgetGetsBack ==
  ASSUME BudgetKept, TicketTypes', NEW bytes \in Nat, NEW tickets \in Nat,
         used = Bytes(held') + Bytes(extra') + bytes,
         active = Holders(held') + Holders(extra') + tickets,
         used' = used - bytes, active' = active - tickets
  PROVE  BudgetKept'
<1> USE MatchingAssumption
<1>1. /\ Bytes(held') \in Nat /\ Bytes(extra') \in Nat
      /\ Holders(held') \in Nat /\ Holders(extra') \in Nat
  BY BytesOfNone, HoldersOfNone DEF TicketTypes
<1>2. used' = Bytes(held') + Bytes(extra') /\ active' = Holders(held') + Holders(extra')
  BY <1>1
<1>3. ASSUME used' > Target PROVE active' = 1
  <2>1. active = 1
    BY <1>1, <1>3 DEF BudgetKept
  <2>2. active' \in {0, 1}
    BY <1>1, <2>1
  <2>3. ASSUME active' = 0 PROVE FALSE
    <3>1. Holders(held') = 0 /\ Holders(extra') = 0
      BY <1>1, <1>2, <2>3
    <3>2. \A l \in Leaves : held'[l] = 0 /\ extra'[l] = 0
      BY <3>1, HoldersOfNone DEF TicketTypes
    <3>3. Bytes(held') = 0 /\ Bytes(extra') = 0
      BY <3>2, BytesOfNone DEF TicketTypes
    <3> QED
      BY <1>2, <1>3, <3>3
  <2> QED
    BY <2>2, <2>3
<1> QED
  BY <1>2, <1>3 DEF BudgetKept, Bytes, Units, Holders, HoldersOf

-----------------------------------------------------------------------------
(* MatchBudget::acquire and release.                                       *)

\* A wait, its end and a refusal take nothing.
LEMMA WaitsKeep ==
  ASSUME MatchingInv, NEW l \in Leaves, Sleep(l) \/ Poll(l) \/ Denied(l)
  PROVE  MatchingInv'
<1>1. CASE Sleep(l)
  <2>1. "asleep" \in Locations
    BY DEF Locations
  <2>2. Moves(l, "asleep")
    BY <1>1, <2>1, GoesAlone DEF Sleep, MatchingInv
  <2>3. TicketFits(l)'
    BY <1>1, <2>2
    DEF Sleep, Moves, MatchingInv, TicketInv, TicketFits, WithoutTickets, WithoutDecoder,
        DecoderHolds, ImageBeforeMatch
  <2> QED
    BY <1>1, <2>1, <2>2, <2>3, OnlyGoes DEF Sleep
<1>2. CASE Poll(l)
  <2>1. "check" \in Locations
    BY DEF Locations
  <2>2. Moves(l, "check")
    BY <1>2, <2>1, GoesAlone DEF Poll, MatchingInv
  <2>3. TicketFits(l)'
    BY <1>2, <2>2
    DEF Poll, Moves, MatchingInv, TicketInv, TicketFits, WithoutTickets, WithoutDecoder,
        DecoderHolds, ImageBeforeMatch
  <2> QED
    BY <1>2, <2>1, <2>2, <2>3, OnlyGoes DEF Poll
<1>3. CASE Denied(l)
  <2> DEFINE at == IF ForMatch(l) THEN "unwind" ELSE "fault"
  <2>1. at \in Locations /\ at \in {"unwind", "fault"}
    BY DEF Locations
  <2>2. Moves(l, at)
    BY <1>3, <2>1, GoesAlone DEF Denied, MatchingInv
  <2> HIDE DEF at
  <2>3. extra'[l] = 0
    BY <1>3 DEF Denied, MatchingInv, TicketInv, TicketFits, WithoutTickets
  <2>4. TicketFits(l)'
    BY <2>1, <2>2, <2>3
    DEF Moves, TicketFits, WithoutTickets, WithoutDecoder, DecoderHolds, ImageBeforeMatch
  <2> QED
    BY <1>3, <2>1, <2>2, <2>4, OnlyGoes DEF Denied
<1> QED
  BY <1>1, <1>2, <1>3

\* A ticket goes to a leaf without one, within the target or alone.
LEMMA GrantedKeeps ==
  ASSUME MatchingInv, NEW l \in Leaves, Granted(l)
  PROVE  MatchingInv'
<1> DEFINE n == Wanted(l)
<1> USE MatchingAssumption
<1>1. n \in Nat \ {0}
  BY DEF Wanted
<1>2. held[l] = 0 /\ extra[l] = 0 /\ pc[l] = "check"
  BY DEF Granted, MatchingInv, TicketInv, TicketFits, WithoutTickets
<1>3. Room(n) /\ used' = used + n /\ active' = active + 1
  BY DEF Granted, MustWait
<1>4. /\ Bytes(held) \in Nat /\ Bytes(extra) \in Nat
      /\ Holders(held) \in Nat /\ Holders(extra) \in Nat
  BY BytesOfNone, HoldersOfNone DEF MatchingInv, TicketTypes
<1>5. active = 0 => used = 0
  <2>1. ASSUME active = 0 PROVE used = 0
    <3>1. Holders(held) = 0 /\ Holders(extra) = 0
      BY <1>4, <2>1 DEF MatchingInv, BudgetKept
    <3>2. \A k \in Leaves : held[k] = 0 /\ extra[k] = 0
      BY <3>1, HoldersOfNone DEF MatchingInv, TicketTypes
    <3>3. Bytes(held) = 0 /\ Bytes(extra) = 0
      BY <3>2, BytesOfNone DEF MatchingInv, TicketTypes
    <3> QED
      BY <3>3 DEF MatchingInv, BudgetKept
  <2> QED
    BY <2>1
<1>6. used' > Target => active' = 1
  <2> HIDE DEF n
  <2>1. used \in Nat /\ active \in Nat
    BY <1>4 DEF MatchingInv, BudgetKept
  <2> QED
    BY <1>1, <1>3, <1>5, <2>1 DEF Room
<1>7. CASE ForMatch(l)
  <2>1. held' = [held EXCEPT ![l] = n] /\ extra' = extra /\ Goto(l, "granted") /\ asset' = asset
    BY <1>7 DEF Granted
  <2>2. "granted" \in Locations
    BY DEF Locations
  <2>3. Moves(l, "granted")
    BY <2>1, <2>2, GoesAlone DEF MatchingInv
  <2>4. LeafTypes' /\ TicketTypes'
    BY <1>1, <2>1, <2>3 DEF Moves, MatchingInv, LeafTypes, TicketTypes
  <2>5. TicketFits(l)'
    BY <1>2, <2>1, <2>3
    DEF Moves, TicketFits, WithoutTickets, WithoutDecoder, DecoderHolds, ImageBeforeMatch
  <2>6. TicketInv'
    BY <2>1, <2>3, <2>5, OthersFit DEF MatchingInv, TicketTypes
  <2>7. Bytes(held') = Bytes(held) + n /\ Holders(held') = Holders(held) + 1
    BY <1>1, <1>2, <2>1, BytesOfOneMore, OneHolderMore DEF MatchingInv, TicketTypes
  <2>8. Bytes(extra') = Bytes(extra) /\ Holders(extra') = Holders(extra)
    BY <2>1
  <2>9. BudgetKept'
    <3>1. used' = Bytes(held') + Bytes(extra') /\ active' = Holders(held') + Holders(extra')
      BY <1>1, <1>3, <1>4, <2>7, <2>8 DEF MatchingInv, BudgetKept
    <3> QED
      BY <1>6, <3>1 DEF BudgetKept, Bytes, Units, Holders, HoldersOf
  <2> QED
    BY <2>4, <2>6, <2>9 DEF MatchingInv
<1>8. CASE ~ForMatch(l)
  <2>1. extra' = [extra EXCEPT ![l] = n] /\ held' = held /\ Goto(l, "decode") /\ asset' = asset
    BY <1>8 DEF Granted
  <2>2. "decode" \in Locations
    BY DEF Locations
  <2>3. Moves(l, "decode")
    BY <2>1, <2>2, GoesAlone DEF MatchingInv
  <2>4. LeafTypes' /\ TicketTypes'
    BY <1>1, <2>1, <2>3 DEF Moves, MatchingInv, LeafTypes, TicketTypes
  <2>5. TicketFits(l)'
    BY <1>2, <2>1, <2>3
    DEF Moves, TicketFits, WithoutTickets, WithoutDecoder, DecoderHolds, ImageBeforeMatch
  <2>6. TicketInv'
    BY <2>1, <2>3, <2>5, OthersFit DEF MatchingInv, TicketTypes
  <2>7. Bytes(extra') = Bytes(extra) + n /\ Holders(extra') = Holders(extra) + 1
    BY <1>1, <1>2, <2>1, BytesOfOneMore, OneHolderMore DEF MatchingInv, TicketTypes
  <2>8. Bytes(held') = Bytes(held) /\ Holders(held') = Holders(held)
    BY <2>1
  <2>9. BudgetKept'
    <3>1. used' = Bytes(held') + Bytes(extra') /\ active' = Holders(held') + Holders(extra')
      BY <1>1, <1>3, <1>4, <2>7, <2>8 DEF MatchingInv, BudgetKept
    <3> QED
      BY <1>6, <3>1 DEF BudgetKept, Bytes, Units, Holders, HoldersOf
  <2> QED
    BY <2>4, <2>6, <2>9 DEF MatchingInv
<1> QED
  BY <1>7, <1>8

-----------------------------------------------------------------------------
(* DecodedAssetCache::load.                                                *)

\* A leaf begins with its image.
LEMMA BeginKeeps ==
  ASSUME MatchingInv, NEW l \in Leaves, Begin(l)
  PROVE  MatchingInv'
<1>1. "load" \in Locations /\ "image" \in Assets
  BY DEF Locations, Assets
<1>2. Moves(l, "load")
  BY <1>1, GoesAlone DEF Begin, MatchingInv
<1>3. asset' = [asset EXCEPT ![l] = "image"] /\ held' = held /\ extra' = extra
  BY DEF Begin
<1>4. LeafTypes' /\ TicketTypes'
  BY <1>1, <1>2, <1>3 DEF Moves, MatchingInv, LeafTypes, TicketTypes
<1>5. TicketFits(l)'
  <2>1. held[l] = 0 /\ extra[l] = 0
    BY DEF Begin, MatchingInv, TicketInv, TicketFits, WithoutTickets
  <2> QED
    BY <1>2, <1>3, <2>1
    DEF Moves, TicketFits, WithoutTickets, WithoutDecoder, DecoderHolds, ImageBeforeMatch
<1>6. TicketInv'
  BY <1>2, <1>3, <1>5, OthersFit DEF MatchingInv, LeafTypes
<1>7. BudgetKept'
  BY BudgetStays DEF Begin, MatchingInv
<1> QED
  BY <1>4, <1>6, <1>7 DEF MatchingInv

\* The first that loads an asset decodes it, with a ticket if it has none.
LEMMA LoadFirstKeeps ==
  ASSUME MatchingInv, NEW l \in Leaves, LoadFirst(l)
  PROVE  MatchingInv'
<1>1. PICK at \in {"fault", "check", "decode"} : Goto(l, at) /\ (at = "check" => OwnTicket(l))
  BY DEF LoadFirst
<1>2. at \in Locations
  BY DEF Locations
<1>3. Moves(l, at)
  BY <1>1, <1>2, GoesAlone DEF MatchingInv
<1>4. TicketFits(l)'
  BY <1>1, <1>3
  DEF LoadFirst, OwnTicket, Moves, MatchingInv, TicketInv, TicketFits, WithoutTickets,
      WithoutDecoder, DecoderHolds, ImageBeforeMatch
<1> QED
  BY <1>2, <1>3, <1>4, OnlyGoes DEF LoadFirst

\* With the asset a leaf goes to the ticket of its match, or to the match.
LEMMA LoadedFits ==
  ASSUME NEW l \in Leaves, asset[l] \in Assets, TicketFits(l),
         pc[l] \in {"load", "decode", "decoded"}, Moves(l, Loaded(l)),
         asset'[l] = asset[l], held'[l] = held[l], extra'[l] = 0
  PROVE  TicketFits(l)'
BY
DEF Loaded, Assets, Moves, TicketFits, WithoutTickets, WithoutDecoder, DecoderHolds,
    ImageBeforeMatch

\* Where it goes is a place.
LEMMA LoadedIsAPlace ==
  ASSUME NEW l \in Leaves
  PROVE  Loaded(l) \in Locations
BY DEF Loaded, Locations

\* Those who find an entry leave with the asset, or for their end.
LEMMA LoadsKeep ==
  ASSUME MatchingInv, NEW l \in Leaves, LoadShared(l) \/ LoadCancelled(l)
  PROVE  MatchingInv'
<1>1. pc[l] = "load" /\ extra[l] = 0 /\ asset[l] \in Assets /\ TicketFits(l)
  BY DEF LoadShared, LoadCancelled, MatchingInv, LeafTypes, TicketInv, TicketFits, WithoutDecoder
<1>2. UNCHANGED <<budgetVars, asset, held, extra>>
  BY DEF LoadShared, LoadCancelled
<1>3. CASE Goto(l, Loaded(l))
  <2>1. Moves(l, Loaded(l))
    BY <1>3, LoadedIsAPlace, GoesAlone DEF MatchingInv
  <2>2. TicketFits(l)'
    BY <1>1, <1>2, <2>1, LoadedFits
  <2> QED
    BY <1>2, <2>1, <2>2, LoadedIsAPlace, OnlyGoes
<1>4. CASE Goto(l, "unwind")
  <2>1. "unwind" \in Locations
    BY DEF Locations
  <2>2. Moves(l, "unwind")
    BY <1>4, <2>1, GoesAlone DEF MatchingInv
  <2>3. TicketFits(l)'
    BY <1>1, <1>2, <2>2
    DEF Moves, TicketFits, WithoutTickets, WithoutDecoder, DecoderHolds, ImageBeforeMatch
  <2> QED
    BY <1>2, <2>1, <2>2, <2>3, OnlyGoes
<1> QED
  BY <1>3, <1>4 DEF LoadShared, LoadCancelled

\* A decoder with a ticket has still to give it back.
LEMMA DecodedKeeps ==
  ASSUME MatchingInv, NEW l \in Leaves, Decoded(l)
  PROVE  MatchingInv'
<1>1. /\ pc[l] = "decode" /\ extra[l] \in Nat /\ held[l] \in Nat
      /\ asset[l] \in Assets /\ TicketFits(l)
  BY DEF Decoded, MatchingInv, LeafTypes, TicketTypes, TicketInv
<1>2. UNCHANGED <<budgetVars, asset, held, extra>>
  BY DEF Decoded
<1>3. CASE extra[l] = 0
  <2>1. Moves(l, Loaded(l))
    BY <1>3, LoadedIsAPlace, GoesAlone DEF Decoded, MatchingInv
  <2>2. TicketFits(l)'
    BY <1>1, <1>2, <1>3, <2>1, LoadedFits
  <2> QED
    BY <1>2, <2>1, <2>2, LoadedIsAPlace, OnlyGoes
<1>4. CASE extra[l] # 0
  <2>1. "decoded" \in Locations
    BY DEF Locations
  <2>2. Moves(l, "decoded")
    BY <1>4, <2>1, GoesAlone DEF Decoded, MatchingInv
  <2>3. TicketFits(l)'
    BY <1>1, <1>2, <1>4, <2>2
    DEF Moves, TicketFits, WithoutTickets, WithoutDecoder, DecoderHolds, ImageBeforeMatch
  <2> QED
    BY <1>2, <2>1, <2>2, <2>3, OnlyGoes
<1> QED
  BY <1>3, <1>4

\* The ticket of a decoder is one of those that are counted.
LEMMA DecoderGivesBack ==
  ASSUME MatchingInv, NEW l \in Leaves, NEW at \in Locations, LeaveScope(l, at),
         UNCHANGED <<asset, held>>, extra[l] > 0, TicketFits(l)'
  PROVE  MatchingInv'
<1>1. extra' = [extra EXCEPT ![l] = 0] /\ extra[l] \in Nat
  BY DEF LeaveScope, MatchingInv, TicketTypes
<1>2. Moves(l, at)
  BY GoesAndNotifies DEF LeaveScope, MatchingInv
<1>3. LeafTypes' /\ TicketTypes'
  BY <1>1, <1>2 DEF Moves, MatchingInv, LeafTypes, TicketTypes
<1>4. TicketInv'
  BY <1>1, <1>2, OthersFit DEF MatchingInv, TicketTypes
<1>5. BudgetKept'
  <2>1. Bytes(extra) = Bytes(extra') + extra[l] /\ Holders(extra) = Holders(extra') + 1
    BY <1>1, BytesOfOneLess, OneHolderLess DEF MatchingInv, TicketTypes
  <2>2. /\ Bytes(held') \in Nat /\ Bytes(extra') \in Nat
        /\ Holders(held') \in Nat /\ Holders(extra') \in Nat
    BY <1>3, BytesOfNone, HoldersOfNone DEF TicketTypes
  <2>3. /\ used = Bytes(held') + Bytes(extra') + extra[l]
        /\ active = Holders(held') + Holders(extra') + 1
    BY <1>1, <2>1, <2>2 DEF MatchingInv, BudgetKept
  <2> QED
    BY <1>1, <1>3, <2>3, BudgetGetsBack DEF LeaveScope, MatchingInv
<1> QED
  BY <1>3, <1>4, <1>5 DEF MatchingInv

\* A decoder that succeeds gives its ticket back before the leaf goes on.
LEMMA DecoderDoneKeeps ==
  ASSUME MatchingInv, NEW l \in Leaves, DecoderDone(l)
  PROVE  MatchingInv'
<1>1. /\ pc[l] = "decoded" /\ extra[l] > 0 /\ asset[l] \in Assets /\ TicketFits(l)
      /\ UNCHANGED <<asset, held>> /\ LeaveScope(l, Loaded(l))
  BY DEF DecoderDone, MatchingInv, LeafTypes, TicketInv, TicketFits, DecoderHolds
<1>2. Moves(l, Loaded(l))
  BY <1>1, LoadedIsAPlace, GoesAndNotifies DEF LeaveScope, MatchingInv
<1>3. extra'[l] = 0
  BY <1>1 DEF LeaveScope, MatchingInv, TicketTypes
<1> QED
  BY <1>1, <1>2, <1>3, LoadedFits, LoadedIsAPlace, DecoderGivesBack

\* So does one that fails.
LEMMA DecodeFailsKeeps ==
  ASSUME MatchingInv, NEW l \in Leaves, DecodeFails(l)
  PROVE  MatchingInv'
<1>1. "fault" \in Locations /\ extra[l] \in Nat
  BY DEF Locations, MatchingInv, TicketTypes
<1>2. UNCHANGED <<asset, held>>
  BY DEF DecodeFails
<1>3. CASE extra[l] = 0
  <2>1. Goto(l, "fault") /\ UNCHANGED <<budgetVars, extra>>
    BY <1>3 DEF DecodeFails
  <2>2. Moves(l, "fault")
    BY <1>1, <2>1, GoesAlone DEF MatchingInv
  <2>3. TicketFits(l)'
    BY <1>3, <2>1, <2>2
    DEF Moves, TicketFits, WithoutTickets, WithoutDecoder, DecoderHolds, ImageBeforeMatch
  <2> QED
    BY <1>1, <1>2, <2>1, <2>2, <2>3, OnlyGoes
<1>4. CASE extra[l] # 0
  <2>1. LeaveScope(l, "fault")
    BY <1>4 DEF DecodeFails
  <2>2. Moves(l, "fault")
    BY <1>1, <2>1, GoesAndNotifies DEF LeaveScope, MatchingInv
  <2>3. extra'[l] = 0
    BY <2>1 DEF LeaveScope, MatchingInv, TicketTypes
  <2>4. TicketFits(l)'
    BY <2>2, <2>3
    DEF Moves, TicketFits, WithoutTickets, WithoutDecoder, DecoderHolds, ImageBeforeMatch
  <2>5. extra[l] > 0
    BY <1>1, <1>4
  <2> QED
    BY <1>1, <1>2, <2>1, <2>4, <2>5, DecoderGivesBack
<1> QED
  BY <1>3, <1>4

\* A loader that failed has no ticket of its own left.
LEMMA LoaderFailsKeeps ==
  ASSUME MatchingInv, NEW l \in Leaves, LoaderFails(l)
  PROVE  MatchingInv'
<1>1. "unwind" \in Locations /\ UNCHANGED <<budgetVars, asset, held, extra>>
  BY DEF LoaderFails, Locations
<1>2. Moves(l, "unwind")
  BY <1>1, GoesAlone DEF LoaderFails, MatchingInv
<1>3. extra'[l] = 0
  BY <1>1 DEF LoaderFails, MatchingInv, TicketInv, TicketFits, WithoutDecoder
<1>4. TicketFits(l)'
  BY <1>2, <1>3
  DEF Moves, TicketFits, WithoutTickets, WithoutDecoder, DecoderHolds, ImageBeforeMatch
<1> QED
  BY <1>1, <1>2, <1>4, OnlyGoes

-----------------------------------------------------------------------------
(* The match, a stop, and all steps together.                              *)

\* A mask is loaded under the ticket of the match.
LEMMA UseTicketKeeps ==
  ASSUME MatchingInv, NEW l \in Leaves, UseTicket(l)
  PROVE  MatchingInv'
<1>1. UNCHANGED <<budgetVars, held, extra>> /\ extra[l] = 0
  BY DEF UseTicket, MatchingInv, TicketInv, TicketFits, WithoutDecoder
<1>2. CASE Goto(l, "match") /\ UNCHANGED asset
  <2>1. "match" \in Locations
    BY DEF Locations
  <2>2. Moves(l, "match")
    BY <1>2, <2>1, GoesAlone DEF MatchingInv
  <2>3. TicketFits(l)'
    BY <1>1, <2>2
    DEF Moves, TicketFits, WithoutTickets, WithoutDecoder, DecoderHolds, ImageBeforeMatch
  <2> QED
    BY <1>1, <1>2, <2>1, <2>2, <2>3, OnlyGoes
<1>3. CASE Goto(l, "load") /\ asset' = [asset EXCEPT ![l] = "mask"]
  <2>1. "load" \in Locations /\ "mask" \in Assets
    BY DEF Locations, Assets
  <2>2. Moves(l, "load")
    BY <1>3, <2>1, GoesAlone DEF MatchingInv
  <2>3. LeafTypes' /\ TicketTypes'
    BY <1>1, <1>3, <2>1, <2>2 DEF Moves, MatchingInv, LeafTypes, TicketTypes
  <2>4. TicketFits(l)'
    <3>1. asset'[l] = "mask"
      BY <1>3 DEF MatchingInv, LeafTypes
    <3> QED
      BY <1>1, <2>2, <3>1
      DEF Moves, TicketFits, WithoutTickets, WithoutDecoder, DecoderHolds, ImageBeforeMatch
  <2>5. TicketInv'
    BY <1>1, <1>3, <2>2, <2>4, OthersFit DEF MatchingInv, LeafTypes
  <2>6. BudgetKept'
    BY <1>1, BudgetStays DEF MatchingInv
  <2> QED
    BY <2>3, <2>5, <2>6 DEF MatchingInv
<1> QED
  BY <1>2, <1>3 DEF UseTicket

\* At its end a leaf gives back all that it has, and what it has is counted.
LEMMA FinishKeeps ==
  ASSUME MatchingInv, NEW l \in Leaves, Finish(l)
  PROVE  MatchingInv'
<1>1. held[l] \in Nat /\ extra[l] = 0
  BY DEF Finish, MatchingInv, TicketTypes, TicketInv, TicketFits, WithoutDecoder
<1>2. /\ held' = [held EXCEPT ![l] = 0] /\ extra' = extra
      /\ asset' = [asset EXCEPT ![l] = "image"]
  BY DEF Finish
<1>3. "idle" \in Locations /\ "image" \in Assets
  BY DEF Locations, Assets
<1>4. Moves(l, "idle")
  BY <1>3, GoesAlone, GoesAndNotifies DEF Finish, MatchingInv
<1>5. LeafTypes' /\ TicketTypes'
  BY <1>2, <1>3, <1>4 DEF Moves, MatchingInv, LeafTypes, TicketTypes
<1>6. TicketFits(l)'
  <2>1. held'[l] = 0 /\ extra'[l] = 0
    BY <1>1, <1>2 DEF MatchingInv, TicketTypes
  <2> QED
    BY <1>4, <2>1
    DEF Moves, TicketFits, WithoutTickets, WithoutDecoder, DecoderHolds, ImageBeforeMatch
<1>7. TicketInv'
  BY <1>2, <1>4, <1>6, OthersFit DEF MatchingInv, LeafTypes, TicketTypes
<1>8. BudgetKept'
  <2>1. CASE held[l] = 0
    <3>1. held' = held
      BY <1>2, <2>1 DEF MatchingInv, TicketTypes
    <3> QED
      BY <1>2, <2>1, <3>1, BudgetStays DEF Finish, MatchingInv
  <2>2. CASE held[l] # 0
    <3>1. /\ Bytes(held) = Bytes(held') + held[l]
          /\ Holders(held) = Holders(held') + 1
      <4>1. held \in [Leaves -> Nat] /\ held[l] > 0
        BY <1>1, <2>2 DEF MatchingInv, TicketTypes
      <4> QED
        BY <1>2, <4>1, BytesOfOneLess, OneHolderLess
    <3>2. /\ Bytes(held') \in Nat /\ Bytes(extra') \in Nat
          /\ Holders(held') \in Nat /\ Holders(extra') \in Nat
      BY <1>5, BytesOfNone, HoldersOfNone DEF TicketTypes
    <3>3. /\ used = Bytes(held') + Bytes(extra') + held[l]
          /\ active = Holders(held') + Holders(extra') + 1
      BY <1>1, <1>2, <3>1, <3>2 DEF MatchingInv, BudgetKept
    <3>4. used' = used - held[l] /\ active' = active - 1
      BY <2>2 DEF Finish
    <3> QED
      BY <1>1, <1>5, <3>3, <3>4, BudgetGetsBack DEF MatchingInv
  <2> QED
    BY <2>1, <2>2
<1> QED
  BY <1>5, <1>7, <1>8 DEF MatchingInv

\* A stop wakes some of those who sleep, and takes nothing.
LEMMA CancelKeeps ==
  ASSUME MatchingInv, NEW s \in Services, Cancel(s)
  PROVE  MatchingInv'
<1>1. UNCHANGED <<budgetVars, asset, held, extra>>
  BY DEF Cancel
<1>2. "check" \in Locations
  BY DEF Locations
<1>3. /\ pc' \in [Leaves -> Locations]
      /\ \A k \in Leaves : pc'[k] = pc[k] \/ (pc[k] = "asleep" /\ pc'[k] = "check")
  BY <1>2 DEF Cancel, MatchingInv, LeafTypes
<1>4. LeafTypes' /\ TicketTypes'
  BY <1>1, <1>3 DEF MatchingInv, LeafTypes, TicketTypes
<1>5. TicketInv'
  BY <1>1, <1>3
  DEF MatchingInv, TicketInv, TicketFits, WithoutTickets, WithoutDecoder, DecoderHolds,
      ImageBeforeMatch
<1>6. BudgetKept'
  BY <1>1, BudgetStays DEF MatchingInv
<1> QED
  BY <1>4, <1>5, <1>6 DEF MatchingInv

\* At first no leaf has a ticket and the budget is empty.
LEMMA InitSafe == Init => MatchingInv
<1> SUFFICES ASSUME Init PROVE MatchingInv
  OBVIOUS
<1>1. LeafTypes /\ TicketTypes
  BY DEF Init, LeafTypes, TicketTypes, Locations, Assets
<1>2. TicketInv
  BY
  DEF Init, TicketInv, TicketFits, WithoutTickets, WithoutDecoder, DecoderHolds, ImageBeforeMatch
<1>3. \A l \in Leaves : held[l] = 0 /\ extra[l] = 0
  BY DEF Init
<1>4. Bytes(held) = 0 /\ Bytes(extra) = 0 /\ Holders(held) = 0 /\ Holders(extra) = 0
  BY <1>1, <1>3, BytesOfNone, HoldersOfNone DEF TicketTypes
<1>5. BudgetKept
  BY <1>4, MatchingAssumption DEF Init, BudgetKept
<1> QED
  BY <1>1, <1>2, <1>5 DEF MatchingInv

\* Every step of a leaf and every stop keeps the invariant.
LEMMA StepSafe == MatchingInv /\ [Next]_vars => MatchingInv'
<1> SUFFICES ASSUME MatchingInv, [Next]_vars PROVE MatchingInv'
  OBVIOUS
<1>1. ASSUME NEW l \in Leaves, Begin(l) \/ Step(l) PROVE MatchingInv'
  <2>1. CASE Begin(l)
    BY <2>1, BeginKeeps
  <2>2. CASE Acquire(l)
    BY <2>2, WaitsKeep, GrantedKeeps DEF Acquire
  <2>3. CASE Load(l)
    BY <2>3, LoadFirstKeeps, LoadsKeep, DecodedKeeps, DecodeFailsKeeps, DecoderDoneKeeps,
       LoaderFailsKeeps DEF Load
  <2>4. CASE UseTicket(l)
    BY <2>4, UseTicketKeeps
  <2>5. CASE Finish(l)
    BY <2>5, FinishKeeps
  <2> QED
    BY <1>1, <2>1, <2>2, <2>3, <2>4, <2>5 DEF Step
<1>2. ASSUME NEW s \in Services, Cancel(s) PROVE MatchingInv'
  BY <1>2, CancelKeeps
<1>3. CASE UNCHANGED vars
  <2>1. UNCHANGED <<budgetVars, leafVars>>
    BY <1>3 DEF vars
  <2>2. BudgetKept'
    BY <2>1, BudgetStays DEF leafVars, MatchingInv
  <2>3. LeafTypes' /\ TicketTypes' /\ TicketInv'
    BY <2>1
    DEF leafVars, MatchingInv, LeafTypes, TicketTypes, TicketInv, TicketFits, WithoutTickets,
        WithoutDecoder, DecoderHolds, ImageBeforeMatch
  <2> QED
    BY <2>2, <2>3 DEF MatchingInv
<1> QED
  BY <1>1, <1>2, <1>3 DEF Next

-----------------------------------------------------------------------------
(* The cache: who loads what.                                              *)

EntryStates == {"none", "loading", "ready", "error"}

CacheTypes ==
  entry \in [Services -> [Assets -> EntryStates]] /\ leased \in [Leaves -> SUBSET Assets]

\* A leaf has no lease of what it is about to load; its mask comes after the image, and
\* under the ticket of the match.
LeaseFits(l) ==
  /\ asset[l] = "image" => "mask" \notin leased[l]
  /\ pc[l] = "idle" => leased[l] = {}
  /\ pc[l] = "load" => asset[l] \notin leased[l]
  /\ pc[l] = "granted" => asset[l] = "image"
MaskFits(l)  == asset[l] = "mask" \/ pc[l] = "granted" => held[l] > 0
CacheFits(l) == LeaseFits(l) /\ MaskFits(l)

\* An entry that is being loaded has a leaf that loads it.
LoaderPlaces == {"check", "asleep", "decode", "fault"}
Loading(l)   == pc[l] \in LoaderPlaces /\ asset[l] \notin leased[l]
Loads(l, s, a) == ServiceOf[l] = s /\ asset[l] = a /\ Loading(l)

LoaderInv ==
  \A s \in Services, a \in Assets : entry[s][a] = "loading" => \E l \in Leaves : Loads(l, s, a)

CacheInv == CacheTypes /\ (\A l \in Leaves : CacheFits(l)) /\ LoaderInv

\* A step of the leaf l: nobody's entry begins to be loaded, and what l loads it goes on
\* to load, or the entry is done.
NothingBegins ==
  \A s \in Services, a \in Assets : entry'[s][a] = "loading" => entry[s][a] = "loading"
StillLoads(l) ==
  Loading(l) => \/ Loading(l)' /\ asset'[l] = asset[l]
                \/ entry'[ServiceOf[l]][asset[l]] # "loading"

\* What a step does not touch of the other leaves keeps its place in the cache.
LEMMA OthersKeepLeases ==
  ASSUME CacheInv, NEW l \in Leaves, NEW at, Moves(l, at),
         \A k \in Leaves \ {l} :
           asset'[k] = asset[k] /\ held'[k] = held[k] /\ leased'[k] = leased[k],
         CacheFits(l)'
  PROVE  \A k \in Leaves : CacheFits(k)'
<1>1. ASSUME NEW k \in Leaves \ {l} PROVE CacheFits(k)'
  <2>1. CacheFits(k)
    BY DEF CacheInv
  <2>2. asset'[k] = asset[k] /\ held'[k] = held[k] /\ leased'[k] = leased[k]
    OBVIOUS
  <2>3. pc'[k] = pc[k] \/ (pc[k] = "asleep" /\ pc'[k] = "check")
    BY DEF Moves
  <2> QED
    BY <2>1, <2>2, <2>3 DEF CacheFits, LeaseFits, MaskFits
<1> QED
  BY <1>1

\* Each of the other loaders still loads what it did.
LEMMA OthersStillLoad ==
  ASSUME NEW l \in Leaves, NEW at, Moves(l, at), NEW k \in Leaves \ {l},
         asset'[k] = asset[k], leased'[k] = leased[k], NEW s, NEW a, Loads(k, s, a)
  PROVE  Loads(k, s, a)'
BY DEF Moves, Loads, Loading, LoaderPlaces

\* A step that begins no load keeps the invariant of the cache.
LEMMA CacheKept ==
  ASSUME CacheInv, NEW l \in Leaves, NEW at, Moves(l, at),
         \A k \in Leaves \ {l} :
           asset'[k] = asset[k] /\ held'[k] = held[k] /\ leased'[k] = leased[k],
         CacheTypes', CacheFits(l)', NothingBegins, StillLoads(l)
  PROVE  CacheInv'
<1>1. \A k \in Leaves : CacheFits(k)'
  BY OthersKeepLeases
<1>2. ASSUME NEW s \in Services, NEW a \in Assets, entry'[s][a] = "loading"
      PROVE  \E k \in Leaves : Loads(k, s, a)'
  <2>1. PICK k \in Leaves : Loads(k, s, a)
    BY <1>2 DEF NothingBegins, CacheInv, LoaderInv
  <2>2. CASE k = l
    BY <1>2, <2>1, <2>2 DEF StillLoads, Loads
  <2>3. CASE k # l
    BY <2>1, <2>3, OthersStillLoad
  <2> QED
    BY <2>2, <2>3
<1>3. LoaderInv'
  BY <1>2 DEF LoaderInv
<1> QED
  BY <1>1, <1>3 DEF CacheInv

\* A step that touches neither the entries nor the leases nor the assets nor what the
\* matches hold, and after which a loader is one still.
LEMMA OnlyGoesInCache ==
  ASSUME CacheInv, NEW l \in Leaves, NEW at, Moves(l, at),
         UNCHANGED <<entry, leased, asset, held>>,
         at \notin {"idle", "load", "granted"},
         pc[l] \in LoaderPlaces /\ asset[l] \notin leased[l] => at \in LoaderPlaces
  PROVE  CacheInv'
<1>1. CacheTypes'
  BY DEF CacheInv, CacheTypes
<1>2. pc'[l] = at
  BY DEF Moves
<1>3. CacheFits(l)'
  BY <1>2 DEF CacheInv, CacheFits, LeaseFits, MaskFits
<1>4. NothingBegins
  BY DEF NothingBegins
<1>5. StillLoads(l)
  BY <1>2 DEF StillLoads, Loading
<1> QED
  BY <1>1, <1>3, <1>4, <1>5, CacheKept

\* An entry that the leaf l sets is set, and no other.
LEMMA EntrySet ==
  ASSUME CacheTypes, NEW l \in Leaves, asset[l] \in Assets, NEW state \in EntryStates,
         SetEntry(l, state)
  PROVE  /\ entry' \in [Services -> [Assets -> EntryStates]]
         /\ entry'[ServiceOf[l]][asset[l]] = state
         /\ \A s \in Services, a \in Assets :
              s # ServiceOf[l] \/ a # asset[l] => entry'[s][a] = entry[s][a]
<1>1. ServiceOf[l] \in Services
  BY MatchingAssumption
<1> QED
  BY <1>1 DEF CacheTypes, SetEntry

\* A trim takes ready entries away and changes no other.
LEMMA TrimTakesReady ==
  ASSUME CacheTypes, NEW s \in Services, NEW among, NEW gone \in SUBSET Unwanted(s, among)
  PROVE  /\ Trimmed(s, gone) \in [Services -> [Assets -> EntryStates]]
         /\ \A t \in Services, a \in Assets :
              Trimmed(s, gone)[t][a] = "loading" => entry[t][a] = "loading"
<1>1. "none" \in EntryStates
  BY DEF EntryStates
<1> QED
  BY <1>1 DEF CacheTypes, Trimmed

\* The steps of a ticket leave the cache alone.
LEMMA TicketsKeepCache ==
  ASSUME MatchingInv, CacheInv, NEW l \in Leaves, Acquire(l)
  PROVE  CacheInv'
<1> USE MatchingAssumption
<1>1. asset[l] \in Assets /\ LeafTypes /\ TicketTypes
  BY DEF MatchingInv, LeafTypes
<1>2. CASE Sleep(l)
  <2>1. Moves(l, "asleep")
    BY <1>1, <1>2, GoesAlone DEF Sleep, Locations
  <2> QED
    BY <1>2, <2>1, OnlyGoesInCache DEF Sleep, LoaderPlaces
<1>3. CASE Poll(l)
  <2>1. Moves(l, "check")
    BY <1>1, <1>3, GoesAlone DEF Poll, Locations
  <2> QED
    BY <1>3, <2>1, OnlyGoesInCache DEF Poll, LoaderPlaces
<1>4. CASE Denied(l)
  <2> DEFINE at == IF ForMatch(l) THEN "unwind" ELSE "fault"
  <2>1. Moves(l, at)
    BY <1>1, <1>4, GoesAlone DEF Denied, Locations
  <2>2. asset[l] \notin leased[l] => ~ForMatch(l)
    BY <1>1 DEF CacheInv, CacheTypes, CacheFits, LeaseFits, ForMatch, Assets
  <2>3. UNCHANGED <<entry, leased, asset, held>>
    BY <1>4 DEF Denied
  <2>4. asset[l] \notin leased[l] => at \in LoaderPlaces
    BY <2>2 DEF LoaderPlaces
  <2>5. at \notin {"idle", "load", "granted"}
    OBVIOUS
  <2> HIDE DEF at
  <2> QED
    BY <2>1, <2>3, <2>4, <2>5, OnlyGoesInCache
<1>5. CASE Granted(l) /\ ForMatch(l)
  <2>1. /\ held' = [held EXCEPT ![l] = Wanted(l)] /\ Goto(l, "granted")
        /\ UNCHANGED <<entry, asset, leased>>
    BY <1>5 DEF Granted
  <2>2. Moves(l, "granted")
    BY <1>1, <2>1, GoesAlone DEF Locations
  <2>3. Wanted(l) \in Nat \ {0}
    BY DEF Wanted
  <2>4. held'[l] > 0
    BY <1>1, <2>1, <2>3 DEF TicketTypes
  <2>5. CacheFits(l)'
    BY <1>5, <2>1, <2>2, <2>4 DEF Moves, ForMatch, CacheInv, CacheFits, LeaseFits, MaskFits
  <2>6. CacheTypes' /\ NothingBegins
    BY <2>1 DEF CacheInv, CacheTypes, NothingBegins
  <2>7. StillLoads(l)
    <3>1. leased[l] # {} /\ asset[l] = "image"
      BY <1>5 DEF ForMatch
    <3>2. asset[l] \in leased[l]
      BY <3>1 DEF CacheInv, CacheTypes, CacheFits, LeaseFits, Assets
    <3> QED
      BY <3>2 DEF StillLoads, Loading
  <2>8. \A k \in Leaves \ {l} : asset'[k] = asset[k] /\ held'[k] = held[k] /\ leased'[k] = leased[k]
    BY <1>1, <2>1 DEF TicketTypes
  <2> QED
    BY <2>2, <2>5, <2>6, <2>7, <2>8, CacheKept
<1>6. CASE Granted(l) /\ ~ForMatch(l)
  <2>1. Goto(l, "decode") /\ UNCHANGED <<entry, leased, asset, held>>
    BY <1>6 DEF Granted
  <2>2. Moves(l, "decode")
    BY <1>1, <2>1, GoesAlone DEF Locations
  <2> QED
    BY <2>1, <2>2, OnlyGoesInCache DEF LoaderPlaces
<1> QED
  BY <1>2, <1>3, <1>4, <1>5, <1>6 DEF Acquire

\* The first that loads an asset becomes its loader.
LEMMA LoadFirstKeepsCache ==
  ASSUME MatchingInv, CacheInv, NEW l \in Leaves, LoadFirst(l)
  PROVE  CacheInv'
<1>1. asset[l] \in Assets /\ LeafTypes
  BY DEF MatchingInv, LeafTypes
<1>2. PICK at \in {"fault", "check", "decode"} : Goto(l, at)
  BY DEF LoadFirst
<1>3. Moves(l, at)
  BY <1>1, <1>2, GoesAlone DEF Locations
<1>4. UNCHANGED <<leased, asset, held>> /\ SetEntry(l, "loading") /\ pc[l] = "load"
  BY DEF LoadFirst
<1>5. /\ entry' \in [Services -> [Assets -> EntryStates]]
      /\ \A s \in Services, a \in Assets :
           s # ServiceOf[l] \/ a # asset[l] => entry'[s][a] = entry[s][a]
  <2>1. "loading" \in EntryStates
    BY DEF EntryStates
  <2> QED
    BY <1>1, <1>4, <2>1, EntrySet DEF CacheInv
<1>6. CacheTypes'
  BY <1>4, <1>5 DEF CacheInv, CacheTypes
<1>7. CacheFits(l)'
  BY <1>3, <1>4 DEF Moves, CacheInv, CacheFits, LeaseFits, MaskFits
<1>8. \A k \in Leaves : CacheFits(k)'
  BY <1>3, <1>4, <1>7, OthersKeepLeases
<1>9. Loads(l, ServiceOf[l], asset[l])'
  BY <1>3, <1>4 DEF Moves, Loads, Loading, LoaderPlaces, CacheInv, CacheFits, LeaseFits
<1>10. ASSUME NEW s \in Services, NEW a \in Assets, entry'[s][a] = "loading"
       PROVE  \E k \in Leaves : Loads(k, s, a)'
  <2>1. CASE s = ServiceOf[l] /\ a = asset[l]
    <3>1. Loads(l, s, a)'
      BY <1>4, <1>9, <2>1 DEF Loads
    <3> QED
      BY <3>1
  <2>2. CASE ~(s = ServiceOf[l] /\ a = asset[l])
    <3>1. PICK k \in Leaves : Loads(k, s, a)
      BY <1>5, <1>10, <2>2 DEF CacheInv, LoaderInv
    <3>2. k # l
      BY <2>2, <3>1 DEF Loads
    <3>3. Loads(k, s, a)'
      BY <1>3, <1>4, <3>1, <3>2, OthersStillLoad
    <3> QED
      BY <3>3
  <2> QED
    BY <2>1, <2>2
<1>11. LoaderInv'
  BY <1>10 DEF LoaderInv
<1> QED
  BY <1>6, <1>8, <1>11 DEF CacheInv

\* Who finds the asset takes a lease and goes on.
LEMMA LoadSharedKeepsCache ==
  ASSUME MatchingInv, CacheInv, NEW l \in Leaves, LoadShared(l)
  PROVE  CacheInv'
<1>1. asset[l] \in Assets /\ LeafTypes
  BY DEF MatchingInv, LeafTypes
<1>2. UNCHANGED <<entry, asset, held>> /\ pc[l] = "load"
  BY DEF LoadShared
<1>3. CASE leased' = [leased EXCEPT ![l] = @ \union {asset[l]}] /\ Goto(l, Loaded(l))
  <2>1. Moves(l, Loaded(l))
    BY <1>1, <1>3, LoadedIsAPlace, GoesAlone
  <2>2. CacheTypes' /\ NothingBegins
    BY <1>1, <1>2, <1>3 DEF CacheInv, CacheTypes, NothingBegins
  <2>3. CacheFits(l)'
    <3>1. leased'[l] = leased[l] \union {asset[l]} /\ asset'[l] = asset[l] /\ held'[l] = held[l]
      BY <1>2, <1>3 DEF CacheInv, CacheTypes
    <3>2. pc'[l] \in {"check", "match"}
      BY <2>1 DEF Moves, Loaded
    <3>3. CacheFits(l)
      BY DEF CacheInv
    <3> QED
      BY <3>1, <3>2, <3>3 DEF CacheFits, LeaseFits, MaskFits
  <2>4. StillLoads(l)
    BY <1>2 DEF StillLoads, Loading, LoaderPlaces
  <2>5. \A k \in Leaves \ {l} : asset'[k] = asset[k] /\ held'[k] = held[k] /\ leased'[k] = leased[k]
    BY <1>2, <1>3 DEF CacheInv, CacheTypes
  <2> QED
    BY <2>1, <2>2, <2>3, <2>4, <2>5, CacheKept
<1>4. CASE Goto(l, "unwind") /\ UNCHANGED leased
  <2>1. Moves(l, "unwind")
    BY <1>1, <1>4, GoesAlone DEF Locations
  <2> QED
    BY <1>2, <1>4, <2>1, OnlyGoesInCache DEF LoaderPlaces
<1> QED
  BY <1>3, <1>4 DEF LoadShared

\* With its decoder's end the entry is ready, and what the trim takes was ready.
LEMMA DecodedKeepsCache ==
  ASSUME MatchingInv, CacheInv, NEW l \in Leaves, Decoded(l)
  PROVE  CacheInv'
<1>1. asset[l] \in Assets /\ LeafTypes /\ ServiceOf[l] \in Services
  BY MatchingAssumption DEF MatchingInv, LeafTypes
<1>2. UNCHANGED <<asset, held>> /\ leased' = [leased EXCEPT ![l] = @ \union {asset[l]}]
  BY DEF Decoded
<1>3. PICK at \in {"check", "match", "decoded"} : Goto(l, at)
  BY DEF Decoded, Loaded
<1>4. Moves(l, at)
  BY <1>1, <1>3, GoesAlone DEF Locations
<1>5. PICK gone \in SUBSET Unwanted(ServiceOf[l], Leaves) :
        entry' = [Trimmed(ServiceOf[l], gone) EXCEPT ![ServiceOf[l]][asset[l]] = "ready"]
  BY DEF Decoded
<1> DEFINE trimmed == Trimmed(ServiceOf[l], gone)
<1>6. /\ trimmed \in [Services -> [Assets -> EntryStates]]
      /\ \A t \in Services, a \in Assets : trimmed[t][a] = "loading" => entry[t][a] = "loading"
  BY <1>1, TrimTakesReady DEF CacheInv
<1>7. /\ entry' \in [Services -> [Assets -> EntryStates]]
      /\ entry'[ServiceOf[l]][asset[l]] = "ready"
      /\ \A t \in Services, a \in Assets :
           t # ServiceOf[l] \/ a # asset[l] => entry'[t][a] = trimmed[t][a]
  <2>1. "ready" \in EntryStates
    BY DEF EntryStates
  <2> HIDE DEF trimmed
  <2>2. entry' = [trimmed EXCEPT ![ServiceOf[l]][asset[l]] = "ready"]
    BY <1>5 DEF trimmed
  <2> QED
    BY <1>1, <1>6, <2>1, <2>2
<1> HIDE DEF trimmed
<1>8. CacheTypes'
  BY <1>1, <1>2, <1>7 DEF CacheInv, CacheTypes
<1>9. NothingBegins
  BY <1>6, <1>7 DEF NothingBegins
<1>10. StillLoads(l)
  BY <1>7 DEF StillLoads
<1>11. CacheFits(l)'
  <2>1. leased'[l] = leased[l] \union {asset[l]} /\ asset'[l] = asset[l] /\ held'[l] = held[l]
    BY <1>2 DEF CacheInv, CacheTypes
  <2>2. pc'[l] = at
    BY <1>4 DEF Moves
  <2>3. CacheFits(l)
    BY DEF CacheInv
  <2> QED
    BY <2>1, <2>2, <2>3 DEF CacheFits, LeaseFits, MaskFits
<1>12. \A k \in Leaves \ {l} : asset'[k] = asset[k] /\ held'[k] = held[k] /\ leased'[k] = leased[k]
  BY <1>2 DEF CacheInv, CacheTypes
<1> QED
  BY <1>4, <1>8, <1>9, <1>10, <1>11, <1>12, CacheKept

\* A loader that fails says so in the entry.
LEMMA LoaderFailsKeepsCache ==
  ASSUME MatchingInv, CacheInv, NEW l \in Leaves, LoaderFails(l)
  PROVE  CacheInv'
<1>1. asset[l] \in Assets /\ LeafTypes
  BY DEF MatchingInv, LeafTypes
<1>2. UNCHANGED <<leased, asset, held>> /\ SetEntry(l, "error") /\ Goto(l, "unwind")
  BY DEF LoaderFails
<1>3. Moves(l, "unwind")
  BY <1>1, <1>2, GoesAlone DEF Locations
<1>4. /\ entry' \in [Services -> [Assets -> EntryStates]]
      /\ entry'[ServiceOf[l]][asset[l]] = "error"
      /\ \A s \in Services, a \in Assets :
           s # ServiceOf[l] \/ a # asset[l] => entry'[s][a] = entry[s][a]
  <2>1. "error" \in EntryStates
    BY DEF EntryStates
  <2> QED
    BY <1>1, <1>2, <2>1, EntrySet DEF CacheInv
<1>5. CacheTypes'
  BY <1>2, <1>4 DEF CacheInv, CacheTypes
<1>6. NothingBegins
  BY <1>4 DEF NothingBegins
<1>7. StillLoads(l)
  BY <1>4 DEF StillLoads
<1>8. CacheFits(l)'
  BY <1>2, <1>3 DEF Moves, CacheInv, CacheFits, LeaseFits, MaskFits
<1> QED
  BY <1>2, <1>3, <1>5, <1>6, <1>7, <1>8, CacheKept

\* A load that ends without a change of the cache.
LEMMA OtherLoadsKeepCache ==
  ASSUME MatchingInv, CacheInv, NEW l \in Leaves,
         LoadCancelled(l) \/ DecodeFails(l) \/ DecoderDone(l)
  PROVE  CacheInv'
<1>1. LeafTypes
  BY DEF MatchingInv
<1>2. CASE LoadCancelled(l)
  <2>1. Moves(l, "unwind")
    BY <1>1, <1>2, GoesAlone DEF LoadCancelled, Locations
  <2> QED
    BY <1>2, <2>1, OnlyGoesInCache DEF LoadCancelled, LoaderPlaces
<1>3. CASE DecodeFails(l)
  <2>1. Moves(l, "fault")
    BY <1>1, <1>3, GoesAlone, GoesAndNotifies DEF DecodeFails, LeaveScope, Locations
  <2> QED
    BY <1>3, <2>1, OnlyGoesInCache DEF DecodeFails, LoaderPlaces
<1>4. CASE DecoderDone(l)
  <2>1. Moves(l, Loaded(l))
    BY <1>1, <1>4, LoadedIsAPlace, GoesAndNotifies DEF DecoderDone, LeaveScope
  <2>2. Loaded(l) \notin {"idle", "load", "granted"}
    BY DEF Loaded
  <2>3. UNCHANGED <<entry, leased, asset, held>> /\ pc[l] \notin LoaderPlaces
    BY <1>4 DEF DecoderDone, LoaderPlaces
  <2> QED
    BY <2>1, <2>2, <2>3, OnlyGoesInCache
<1> QED
  BY <1>2, <1>3, <1>4

\* A leaf begins without a lease.
LEMMA BeginKeepsCache ==
  ASSUME MatchingInv, CacheInv, NEW l \in Leaves, Begin(l)
  PROVE  CacheInv'
<1>1. LeafTypes
  BY DEF MatchingInv
<1>2. /\ UNCHANGED <<entry, held, leased>> /\ asset' = [asset EXCEPT ![l] = "image"]
      /\ Goto(l, "load") /\ pc[l] = "idle"
  BY DEF Begin
<1>3. Moves(l, "load")
  BY <1>1, <1>2, GoesAlone DEF Locations
<1>4. CacheFits(l)'
  <2>1. leased'[l] = {} /\ asset'[l] = "image"
    BY <1>1, <1>2 DEF LeafTypes, CacheInv, CacheFits, LeaseFits
  <2> QED
    BY <1>3, <2>1 DEF Moves, CacheFits, LeaseFits, MaskFits
<1>5. CacheTypes' /\ NothingBegins /\ StillLoads(l)
  BY <1>2 DEF CacheInv, CacheTypes, NothingBegins, StillLoads, Loading, LoaderPlaces
<1>6. \A k \in Leaves \ {l} : asset'[k] = asset[k] /\ held'[k] = held[k] /\ leased'[k] = leased[k]
  BY <1>1, <1>2 DEF LeafTypes
<1> QED
  BY <1>3, <1>4, <1>5, <1>6, CacheKept

\* A mask is loaded after the image, under the ticket.
LEMMA UseTicketKeepsCache ==
  ASSUME MatchingInv, CacheInv, NEW l \in Leaves, UseTicket(l)
  PROVE  CacheInv'
<1>1. LeafTypes
  BY DEF MatchingInv
<1>2. UNCHANGED <<entry, held, leased>> /\ pc[l] = "granted"
  BY DEF UseTicket
<1>3. CASE Goto(l, "match") /\ UNCHANGED asset
  <2>1. Moves(l, "match")
    BY <1>1, <1>3, GoesAlone DEF Locations
  <2> QED
    BY <1>2, <1>3, <2>1, OnlyGoesInCache DEF LoaderPlaces
<1>4. CASE Goto(l, "load") /\ asset' = [asset EXCEPT ![l] = "mask"]
  <2>1. Moves(l, "load")
    BY <1>1, <1>4, GoesAlone DEF Locations
  <2>2. CacheFits(l)'
    <3>1. asset'[l] = "mask" /\ leased'[l] = leased[l] /\ held'[l] = held[l]
      BY <1>1, <1>2, <1>4 DEF LeafTypes
    <3>2. "mask" \notin leased[l] /\ held[l] > 0
      BY <1>2 DEF CacheInv, CacheFits, LeaseFits, MaskFits
    <3> QED
      BY <2>1, <3>1, <3>2 DEF Moves, CacheFits, LeaseFits, MaskFits
  <2>3. CacheTypes' /\ NothingBegins /\ StillLoads(l)
    BY <1>2 DEF CacheInv, CacheTypes, NothingBegins, StillLoads, Loading, LoaderPlaces
  <2>4. \A k \in Leaves \ {l} : asset'[k] = asset[k] /\ held'[k] = held[k] /\ leased'[k] = leased[k]
    BY <1>1, <1>2, <1>4 DEF LeafTypes
  <2> QED
    BY <2>1, <2>2, <2>3, <2>4, CacheKept
<1> QED
  BY <1>3, <1>4 DEF UseTicket

\* At its end a leaf gives its leases back.
LEMMA FinishKeepsCache ==
  ASSUME MatchingInv, CacheInv, NEW l \in Leaves, Finish(l)
  PROVE  CacheInv'
<1>1. LeafTypes /\ TicketTypes /\ ServiceOf[l] \in Services
  BY MatchingAssumption DEF MatchingInv
<1>2. /\ held' = [held EXCEPT ![l] = 0] /\ leased' = [leased EXCEPT ![l] = {}]
      /\ asset' = [asset EXCEPT ![l] = "image"] /\ pc[l] \in {"match", "unwind"}
  BY DEF Finish
<1>3. Moves(l, "idle")
  BY <1>1, GoesAlone, GoesAndNotifies DEF Finish, Locations
<1>4. PICK gone \in SUBSET Unwanted(ServiceOf[l], Leaves \ {l}) :
        entry' = Trimmed(ServiceOf[l], gone)
  BY DEF Finish
<1>5. CacheTypes' /\ NothingBegins
  <2>1. /\ entry' \in [Services -> [Assets -> EntryStates]]
        /\ \A t \in Services, a \in Assets : entry'[t][a] = "loading" => entry[t][a] = "loading"
    BY <1>1, <1>4, TrimTakesReady DEF CacheInv
  <2>2. leased' \in [Leaves -> SUBSET Assets]
    BY <1>2 DEF CacheInv, CacheTypes
  <2> QED
    BY <2>1, <2>2 DEF CacheTypes, NothingBegins
<1>6. CacheFits(l)'
  <2>1. leased'[l] = {} /\ asset'[l] = "image"
    BY <1>1, <1>2 DEF LeafTypes, CacheInv, CacheTypes
  <2> QED
    BY <1>3, <2>1 DEF Moves, CacheFits, LeaseFits, MaskFits
<1>7. StillLoads(l)
  BY <1>2 DEF StillLoads, Loading, LoaderPlaces
<1>8. \A k \in Leaves \ {l} : asset'[k] = asset[k] /\ held'[k] = held[k] /\ leased'[k] = leased[k]
  BY <1>1, <1>2 DEF LeafTypes, TicketTypes, CacheInv, CacheTypes
<1> QED
  BY <1>3, <1>5, <1>6, <1>7, <1>8, CacheKept

\* A stop touches no asset.
LEMMA CancelKeepsCache ==
  ASSUME MatchingInv, CacheInv, NEW s \in Services, Cancel(s)
  PROVE  CacheInv'
<1>1. UNCHANGED <<entry, leased, asset, held>>
  BY DEF Cancel
<1>2. \A k \in Leaves : pc'[k] = pc[k] \/ (pc[k] = "asleep" /\ pc'[k] = "check")
  BY DEF Cancel, MatchingInv, LeafTypes
<1>3. CacheTypes'
  BY <1>1 DEF CacheInv, CacheTypes
<1>4. \A k \in Leaves : CacheFits(k)'
  BY <1>1, <1>2 DEF CacheInv, CacheFits, LeaseFits, MaskFits
<1>5. \A k \in Leaves : \A t, a : Loads(k, t, a) => Loads(k, t, a)'
  BY <1>1, <1>2 DEF Loads, Loading, LoaderPlaces
<1>6. LoaderInv'
  BY <1>1, <1>5 DEF CacheInv, LoaderInv
<1> QED
  BY <1>3, <1>4, <1>6 DEF CacheInv

\* At first nothing is loaded.
LEMMA CacheInit == Init => CacheInv
<1> SUFFICES ASSUME Init PROVE CacheInv
  OBVIOUS
<1>1. CacheTypes
  BY DEF Init, CacheTypes, EntryStates
<1>2. \A l \in Leaves : CacheFits(l)
  BY DEF Init, CacheFits, LeaseFits, MaskFits
<1>3. LoaderInv
  BY DEF Init, LoaderInv
<1> QED
  BY <1>1, <1>2, <1>3 DEF CacheInv

\* Every step keeps the cache.
LEMMA CacheSafe == MatchingInv /\ CacheInv /\ [Next]_vars => CacheInv'
<1> SUFFICES ASSUME MatchingInv, CacheInv, [Next]_vars PROVE CacheInv'
  OBVIOUS
<1>1. ASSUME NEW l \in Leaves, Begin(l) \/ Step(l) PROVE CacheInv'
  <2>1. CASE Begin(l)
    BY <2>1, BeginKeepsCache
  <2>2. CASE Acquire(l)
    BY <2>2, TicketsKeepCache
  <2>3. CASE Load(l)
    BY <2>3, LoadFirstKeepsCache, LoadSharedKeepsCache, DecodedKeepsCache, LoaderFailsKeepsCache,
       OtherLoadsKeepCache DEF Load
  <2>4. CASE UseTicket(l)
    BY <2>4, UseTicketKeepsCache
  <2>5. CASE Finish(l)
    BY <2>5, FinishKeepsCache
  <2> QED
    BY <1>1, <2>1, <2>2, <2>3, <2>4, <2>5 DEF Step
<1>2. ASSUME NEW s \in Services, Cancel(s) PROVE CacheInv'
  BY <1>2, CancelKeepsCache
<1>3. CASE UNCHANGED vars
  BY <1>3
  DEF vars, leafVars, CacheInv, CacheTypes, CacheFits, LeaseFits, MaskFits, LoaderInv, Loads,
      Loading
<1> QED
  BY <1>1, <1>2, <1>3 DEF Next

-----------------------------------------------------------------------------
(* What follows: no wait of all for all.                                   *)

\* Who holds a ticket does not wait: the mask it may wait for has a loader that holds a
\* ticket too, and that asks for no other.
LEMMA HoldersGoOn ==
  ASSUME MatchingInv, CacheInv, NEW l \in Leaves, held[l] > 0 \/ extra[l] > 0
  PROVE  \E k \in Leaves : pc[k] # "idle" /\ ~Waits(k)
<1>1. /\ held[l] \in Nat /\ extra[l] \in Nat /\ asset[l] \in Assets /\ TicketFits(l)
      /\ ServiceOf[l] \in Services
  BY MatchingAssumption DEF MatchingInv, LeafTypes, TicketTypes, TicketInv
<1>2. pc[l] \notin {"idle", "check", "asleep"}
  BY <1>1 DEF TicketFits, WithoutTickets
<1>3. CASE ~Waits(l)
  BY <1>2, <1>3
<1>4. CASE Waits(l)
  <2>1. pc[l] = "load" /\ EntryOf(l) = "loading"
    BY <1>2, <1>4 DEF Waits
  <2>2. asset[l] = "mask"
    BY <1>1, <2>1 DEF TicketFits, WithoutDecoder, ImageBeforeMatch, Assets
  <2>3. PICK k \in Leaves : Loads(k, ServiceOf[l], "mask")
    BY <1>1, <2>1, <2>2 DEF EntryOf, CacheInv, LoaderInv
  <2>4. asset[k] = "mask" /\ pc[k] \in LoaderPlaces
    BY <2>3 DEF Loads, Loading
  <2>5. held[k] > 0 /\ held[k] \in Nat /\ TicketFits(k)
    BY <2>4 DEF CacheInv, CacheFits, MaskFits, MatchingInv, TicketTypes, TicketInv
  <2>6. pc[k] \in {"decode", "fault"}
    BY <2>4, <2>5 DEF LoaderPlaces, TicketFits, WithoutTickets
  <2> QED
    BY <2>6 DEF Waits
<1> QED
  BY <1>3, <1>4

\* And where nobody holds one there is room for every ticket.
LEMMA SomeLeafGoesOn == MatchingInv /\ CacheInv => SomebodyGoesOn
<1> SUFFICES ASSUME MatchingInv, CacheInv, NEW l \in Leaves, pc[l] # "idle"
             PROVE  \E k \in Leaves : pc[k] # "idle" /\ ~Waits(k)
  BY DEF SomebodyGoesOn
<1>1. CASE \E k \in Leaves : held[k] > 0 \/ extra[k] > 0
  BY <1>1, HoldersGoOn
<1>2. CASE ~\E k \in Leaves : held[k] > 0 \/ extra[k] > 0
  <2>1. \A k \in Leaves : held[k] = 0 /\ extra[k] = 0
    BY <1>2 DEF MatchingInv, TicketTypes
  <2>2. Bytes(held) = 0 /\ Bytes(extra) = 0 /\ Holders(held) = 0 /\ Holders(extra) = 0
    BY <2>1, BytesOfNone, HoldersOfNone DEF MatchingInv, TicketTypes
  <2>3. used = 0 /\ active = 0
    BY <2>2 DEF MatchingInv, BudgetKept
  <2>4. ASSUME NEW k \in Leaves PROVE ~MustWait(k)
    <3>1. Wanted(k) \in Nat
      BY MatchingAssumption DEF Wanted
    <3> QED
      BY <2>3, <3>1, MatchingAssumption DEF MustWait, Room
  <2>5. CASE ~Waits(l)
    BY <2>5
  <2>6. CASE Waits(l)
    <3>1. EntryOf(l) = "loading" /\ asset[l] \in Assets /\ ServiceOf[l] \in Services
      BY <2>4, <2>6, MatchingAssumption DEF Waits, MatchingInv, LeafTypes
    <3>2. PICK k \in Leaves : Loads(k, ServiceOf[l], asset[l])
      BY <3>1 DEF EntryOf, CacheInv, LoaderInv
    <3>3. pc[k] \in LoaderPlaces
      BY <3>2 DEF Loads, Loading
    <3> QED
      BY <2>4, <3>3 DEF Waits, LoaderPlaces
  <2> QED
    BY <2>5, <2>6
<1> QED
  BY <1>1, <1>2

-----------------------------------------------------------------------------
(* The theorems.                                                           *)

(* Where a leaf has a ticket, and what the budget knows of it: in every        *)
(* interleaving of the threads of all services, with stops, refusals and       *)
(* decoders that fail.                                                         *)
THEOREM MatchingHolds == Spec => []MatchingInv
BY InitSafe, StepSafe, PTL DEF Spec

(* used_ and active_ are the bytes and the number of the tickets that exist,   *)
(* and a budget beyond its target belongs to one match alone.                  *)
THEOREM BudgetTheorem == Spec => []BudgetKept
<1>1. MatchingInv => BudgetKept
  BY DEF MatchingInv
<1> QED
  BY <1>1, MatchingHolds, PTL

(* The leaves never all wait for each other: as long as one is not at rest, one *)
(* waits neither for room in the budget nor for the decoder of another leaf.    *)
THEOREM DeadlockTheorem == Spec => []SomebodyGoesOn
<1>1. Spec => []CacheInv
  BY CacheInit, CacheSafe, MatchingHolds, PTL DEF Spec
<1> QED
  BY <1>1, MatchingHolds, SomeLeafGoesOn, PTL
=============================================================================
