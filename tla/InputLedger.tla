---------------------------- MODULE InputLedger ----------------------------
(***************************************************************************)
(* What FlowExecutor promises about the inputs it sends, with steps, calls *)
(* events and recoveries left out.  A receipt is open from the moment an   *)
(* input was handed to the device until its result is accounted for.  An   *)
(* open receipt is known (the device took the input) or unknown (nobody    *)
(* can tell); while one is unknown no input is sent at all, and it leaves  *)
(* the account only with positive evidence of its result.                  *)
(***************************************************************************)
EXTENDS Naturals

VARIABLES
  sent,     \* receipts issued so far: their identities are 1 .. sent
  known,    \* open receipts of delivered inputs
  unknown,  \* open receipts of inputs that may or may not have been delivered
  settled,  \* receipts closed by evidence of their result
  ended     \* "no", "clean" (a business outcome) or "cut"

vars == <<sent, known, unknown, settled, ended>>

Init == sent = 0 /\ known = {} /\ unknown = {} /\ settled = {} /\ ended = "no"

MayEnd == ended = "no" /\ ended' \in {"no", "cut"}

Send ==
  /\ MayEnd
  /\ unknown = {}
  /\ sent' = sent + 1
  /\ \/ known' = known \union {sent'} /\ UNCHANGED unknown
     \/ unknown' = {sent'} /\ UNCHANGED known
  /\ UNCHANGED settled

\* A declared retry hands the same input over again; it may get lost on the way.
Resend(r) ==
  /\ MayEnd
  /\ unknown = {}
  /\ r \in known
  /\ known' = known \ {r}
  /\ unknown' = {r}
  /\ UNCHANGED <<sent, settled>>

Confirm(rs) ==
  /\ MayEnd
  /\ rs # {} /\ rs \subseteq known \union unknown
  /\ known' = known \ rs /\ unknown' = unknown \ rs
  /\ settled' = settled \union rs
  /\ UNCHANGED sent

\* Known receipts may be given up: a menu whose page was left by a restart, or a
\* repeatable input that made no progress.
GiveUp(rs) ==
  /\ MayEnd
  /\ rs # {} /\ rs \subseteq known
  /\ known' = known \ rs
  /\ UNCHANGED <<sent, unknown, settled>>

End ==
  /\ ended = "no"
  /\ \/ ended' = "clean" /\ known = {} /\ unknown = {}
     \/ ended' = "cut"
  /\ UNCHANGED <<sent, known, unknown, settled>>

Next ==
  \/ Send \/ End
  \/ \E r \in known : Resend(r)
  \/ \E rs \in SUBSET (known \union unknown) : Confirm(rs) \/ GiveUp(rs)

Spec == Init /\ [][Next]_vars
=============================================================================
