------------------------------ MODULE Matching ------------------------------
(***************************************************************************)
(* The memory that recognitions share: MatchBudget, one for the service's  *)
(* process, hands out tickets for the work space of a match;               *)
(* DecodedAssetCache, one for each recognition service, decodes an asset   *)
(* once for all its leaves.  A leaf is one template match of a service,    *)
(* on one of its two threads: it loads the image, acquires its ticket, may *)
(* load a mask while it holds the ticket, matches and gives all back.      *)
(*                                                                         *)
(* Sizes are units of the budget; decoding and the headroom of the machine *)
(* are choices.                                                            *)
(***************************************************************************)
EXTENDS Naturals, FiniteSets

CONSTANTS
  Leaves, Services,
  ServiceOf,      \* [Leaves -> Services]
  SizeOf,         \* [Leaves -> Nat]: the estimated work space of a leaf's match
  Target,         \* target_
  DecodeSize      \* the 64 MiB of a decoder

ASSUME MatchingAssumption ==
  /\ IsFiniteSet(Leaves)      \* two threads for each service
  /\ ServiceOf \in [Leaves -> Services]
  /\ Target \in Nat \ {0} /\ SizeOf \in [Leaves -> Nat \ {0}] /\ DecodeSize \in 1..Target

Assets == {"image", "mask"}

VARIABLES
  (* MatchBudget. *)
  used, active,   \* used_, active_
  (* DecodedAssetCache. *)
  entry,          \* [Services -> [Assets -> "none", "loading", "ready" or "error"]]
  (* The services and their leaves. *)
  cancelled,      \* the services whose cancelled_ is set
  pc,
  asset,          \* the asset being loaded
  held,           \* bytes of the leaf's ticket
  extra,          \* bytes of the decoder's ticket
  leased          \* assets the leaf has on lease

budgetVars == <<used, active>>
leafVars   == <<pc, asset, held, extra, leased>>
vars == <<budgetVars, entry, cancelled, leafVars>>

Init ==
  /\ used = 0 /\ active = 0
  /\ entry = [s \in Services |-> [a \in Assets |-> "none"]]
  /\ cancelled = {}
  /\ pc = [l \in Leaves |-> "idle"] /\ asset = [l \in Leaves |-> "image"]
  /\ held = [l \in Leaves |-> 0] /\ extra = [l \in Leaves |-> 0]
  /\ leased = [l \in Leaves |-> {}]

Cancelled(l) == ServiceOf[l] \in cancelled
EntryOf(l)   == entry[ServiceOf[l]][asset[l]]
Goto(l, at)  == pc' = [pc EXCEPT ![l] = at]
SetEntry(l, state) == entry' = [entry EXCEPT ![ServiceOf[l]][asset[l]] = state]

-----------------------------------------------------------------------------
(* MatchBudget::acquire and release.                                       *)

\* The leaf wants its match's ticket, or one for its decoder.
ForMatch(l) == asset[l] = "image" /\ leased[l] # {}
Wanted(l)   == IF ForMatch(l) THEN SizeOf[l] ELSE DecodeSize

\* Slip: a match beyond the target waits for room like any other.
RoomForAny(n) == n > Target \/ used + n <= Target

Room(n) == IF n > Target THEN active = 0 ELSE used + n <= Target

\* Slip: a stop does not end the wait.
NoRoom(l) == ~Room(Wanted(l))

MustWait(l) == ~Room(Wanted(l)) /\ ~Cancelled(l)

\* wait_for.
Sleep(l) ==
  /\ pc[l] = "check" /\ MustWait(l)
  /\ Goto(l, "asleep")
  /\ UNCHANGED <<budgetVars, entry, cancelled, asset, held, extra, leased>>

\* After 50 milliseconds at the latest.
Poll(l) ==
  /\ pc[l] = "asleep" /\ Goto(l, "check")
  /\ UNCHANGED <<budgetVars, entry, cancelled, asset, held, extra, leased>>

\* notify_all, with a step of the leaf l.
Notified(l, at) ==
  pc' = [k \in Leaves |-> IF k = l THEN at ELSE IF pc[k] = "asleep" THEN "check" ELSE pc[k]]

Granted(l) ==
  /\ pc[l] = "check"
  /\ ~MustWait(l) /\ ~Cancelled(l)
  /\ used' = used + Wanted(l) /\ active' = active + 1
  /\ IF ForMatch(l)
     THEN held' = [held EXCEPT ![l] = Wanted(l)] /\ Goto(l, "granted") /\ UNCHANGED extra
     ELSE extra' = [extra EXCEPT ![l] = Wanted(l)] /\ Goto(l, "decode") /\ UNCHANGED held
  /\ UNCHANGED <<entry, cancelled, asset, leased>>

\* RECOGNITION_CANCELLED, or too little headroom (ResourcePressure).
Denied(l) ==
  /\ pc[l] = "check"
  /\ ~MustWait(l)
  /\ Goto(l, IF ForMatch(l) THEN "unwind" ELSE "fault")
  /\ UNCHANGED <<budgetVars, entry, cancelled, asset, held, extra, leased>>

-----------------------------------------------------------------------------
(* DecodedAssetCache::load.                                                *)

\* evaluate() of the service lets its leaves begin.
Begin(l) ==
  /\ pc[l] = "idle" /\ ~Cancelled(l)
  /\ asset' = [asset EXCEPT ![l] = "image"]
  /\ Goto(l, "load")
  /\ UNCHANGED <<budgetVars, entry, cancelled, held, extra, leased>>

\* Slip: every decoder has a ticket of its own.
AlwaysOwnTicket(l) == TRUE

\* The ticket of the match serves its mask's decoder too.
OwnTicket(l) == held[l] = 0

LoadFirst(l) ==
  /\ pc[l] = "load" /\ EntryOf(l) = "none"
  /\ SetEntry(l, "loading")
  /\ Goto(l, CASE Cancelled(l) -> "fault" [] ~Cancelled(l) /\ OwnTicket(l) -> "check" [] OTHER -> "decode")
  /\ UNCHANGED <<budgetVars, cancelled, asset, held, extra, leased>>

\* Behind the wait for another leaf's decoder, which looks at the flag every 50
\* milliseconds.
Loaded(l) == IF asset[l] = "image" THEN "check" ELSE "match"

LoadShared(l) ==
  /\ pc[l] = "load" /\ EntryOf(l) \in {"ready", "error"}
  /\ ~Cancelled(l)
  /\ IF EntryOf(l) = "ready"
     THEN leased' = [leased EXCEPT ![l] = @ \union {asset[l]}] /\ Goto(l, Loaded(l))
     ELSE Goto(l, "unwind") /\ UNCHANGED leased
  /\ UNCHANGED <<budgetVars, entry, cancelled, asset, held, extra>>

LoadCancelled(l) ==
  /\ pc[l] = "load" /\ EntryOf(l) # "none" /\ Cancelled(l)
  /\ Goto(l, "unwind")
  /\ UNCHANGED <<budgetVars, entry, cancelled, asset, held, extra, leased>>

\* None of them waits for it or has it on lease.
Unwanted(s, among) ==
  {a \in Assets :
     /\ entry[s][a] = "ready"
     /\ \A k \in among : ServiceOf[k] = s => a \notin leased[k] /\ ~(pc[k] = "load" /\ asset[k] = a)}

\* trim_locked, over any sizes of assets.
Trimmed(s, gone) == [entry EXCEPT ![s] = [a \in Assets |-> IF a \in gone THEN "none" ELSE @[a]]]

Decoded(l) ==
  /\ pc[l] = "decode"
  /\ \E gone \in SUBSET Unwanted(ServiceOf[l], Leaves) :
       entry' = [Trimmed(ServiceOf[l], gone) EXCEPT ![ServiceOf[l]][asset[l]] = "ready"]
  /\ leased' = [leased EXCEPT ![l] = @ \union {asset[l]}]
  /\ Goto(l, IF extra[l] = 0 THEN Loaded(l) ELSE "decoded")
  /\ UNCHANGED <<budgetVars, cancelled, asset, held, extra>>

\* The ticket of the decoder leaves with its scope.
LeaveScope(l, at) ==
  /\ used' = used - extra[l] /\ active' = active - 1
  /\ extra' = [extra EXCEPT ![l] = 0]
  /\ Notified(l, at)

DecoderDone(l) ==
  /\ pc[l] = "decoded"
  /\ LeaveScope(l, Loaded(l))
  /\ UNCHANGED <<entry, cancelled, asset, held, leased>>

\* The exception has left the scope when it is caught.
DecodeFails(l) ==
  /\ pc[l] = "decode"
  /\ IF extra[l] = 0 THEN Goto(l, "fault") /\ UNCHANGED <<budgetVars, extra>>
                     ELSE LeaveScope(l, "fault")
  /\ UNCHANGED <<entry, cancelled, asset, held, leased>>

\* Slip: the entry of a loader that failed stays in loading.
LoaderForgets(l) ==
  /\ pc[l] = "fault"
  /\ Goto(l, "unwind")
  /\ UNCHANGED <<budgetVars, entry, cancelled, asset, held, extra, leased>>

\* The error stays in the entry for all who wait for it or come later.
LoaderFails(l) ==
  /\ pc[l] = "fault"
  /\ SetEntry(l, "error")
  /\ Goto(l, "unwind")
  /\ UNCHANGED <<budgetVars, cancelled, asset, held, extra, leased>>

-----------------------------------------------------------------------------
(* The match.                                                              *)

\* With its ticket a leaf matches, or needs a mask first.
UseTicket(l) ==
  /\ pc[l] = "granted"
  /\ \/ Goto(l, "match") /\ UNCHANGED asset
     \/ Goto(l, "load") /\ asset' = [asset EXCEPT ![l] = "mask"]
  /\ UNCHANGED <<budgetVars, entry, cancelled, held, extra, leased>>

\* A match that is done and an exception give back everything: leases, which may
\* trim the cache, and the ticket.
Finish(l) ==
  /\ pc[l] \in {"match", "unwind"}
  /\ held' = [held EXCEPT ![l] = 0]
  /\ leased' = [leased EXCEPT ![l] = {}]
  /\ \E gone \in SUBSET Unwanted(ServiceOf[l], Leaves \ {l}) :
       entry' = Trimmed(ServiceOf[l], gone)
  /\ asset' = [asset EXCEPT ![l] = "image"]
  /\ IF held[l] = 0 THEN Goto(l, "idle") /\ UNCHANGED budgetVars
       ELSE used' = used - held[l] /\ active' = active - 1 /\ Notified(l, "idle")
  /\ UNCHANGED <<cancelled, extra>>

-----------------------------------------------------------------------------
\* Service::cancel: the flag, and wake(), both without the mutex.  Who has evaluated
\* its predicate and does not sleep yet misses the notification.
Cancel(s) ==
  /\ s \notin cancelled
  /\ cancelled' = cancelled \union {s}
  /\ \E woken \in SUBSET {l \in Leaves : pc[l] = "asleep"} :
       pc' = [l \in Leaves |-> IF l \in woken THEN "check" ELSE pc[l]]
  /\ UNCHANGED <<budgetVars, entry, asset, held, extra, leased>>

Acquire(l) == Sleep(l) \/ Poll(l) \/ Granted(l) \/ Denied(l)

Load(l) ==
  \/ LoadFirst(l) \/ LoadShared(l) \/ LoadCancelled(l)
  \/ Decoded(l) \/ DecodeFails(l) \/ DecoderDone(l) \/ LoaderFails(l)

Step(l) == Acquire(l) \/ Load(l) \/ UseTicket(l) \/ Finish(l)

Next == (\E l \in Leaves : Begin(l) \/ Step(l)) \/ (\E s \in Services : Cancel(s))

Spec == Init /\ [][Next]_vars

\* Every thread runs.
FairSpec == Spec /\ \A l \in Leaves : WF_vars(Step(l))

-----------------------------------------------------------------------------
(* Properties.                                                             *)

\* Every unit that a leaf has, and how many there are.
Units(tickets) == UNION {{l} \X (1 .. tickets[l]) : l \in Leaves}
Bytes(tickets) == Cardinality(Units(tickets))
HoldersOf(tickets) == {l \in Leaves : tickets[l] > 0}
Holders(tickets)   == Cardinality(HoldersOf(tickets))

(* The budget counts the tickets that exist, through refusals, failed decoders  *)
(* and stops, and it goes beyond its target only for a match that is alone.     *)
BudgetKept ==
  /\ used = Bytes(held) + Bytes(extra)
  /\ active = Holders(held) + Holders(extra)
  /\ used > Target => active = 1

\* A leaf waits for a ticket that has no room, or for the decoder of another leaf.
Waits(l) ==
  \/ pc[l] \in {"check", "asleep"} /\ MustWait(l)
  \/ pc[l] = "load" /\ EntryOf(l) = "loading" /\ ~Cancelled(l)

(* The two waits of a recognition never close to a circle, through the loaders *)
(* and the ticket holders of all services: as long as one leaf is not at rest, *)
(* one has nothing to wait for.                                                *)
SomebodyGoesOn ==
  (\E l \in Leaves : pc[l] # "idle") => (\E l \in Leaves : pc[l] # "idle" /\ ~Waits(l))

(* Whoever holds the ticket of a match gives it back: it never waits for a room *)
(* that other holders keep until it goes on (the mask of a bright match is      *)
(* decoded under the ticket of the match).                                      *)
HeldTicketReturns == \A l \in Leaves : (held[l] > 0) ~> (held[l] = 0)

(* A service that was cancelled comes out of its recognitions, though the other *)
(* services of the process may never leave the budget to it.                    *)
StopFreesRecognition ==
  \A s \in Services :
    (s \in cancelled) ~> (\A l \in Leaves : ServiceOf[l] = s => pc[l] = "idle")
=============================================================================
