---------------------------- MODULE RunContract ----------------------------
(***************************************************************************)
(* What NativeRunCoordinator promises the application, with threads, the   *)
(* device and sessions left out.  Runs follow one another; a run is open,  *)
(* then it is either closed with its verdict, or held: reported, while the *)
(* device keeps inputs nobody could confirm released and no other run can  *)
(* begin.                                                                  *)
(***************************************************************************)
EXTENDS Naturals

VARIABLES
  run,      \* runs begun so far
  phase,    \* "idle", "open", "closed" or "held"
  asked,    \* the current run has been told to stop
  verdict   \* the state it was reported with

vars == <<run, phase, asked, verdict>>

Init == run = 0 /\ phase = "idle" /\ asked = FALSE /\ verdict = "none"

Begin ==
  /\ phase \in {"idle", "closed"}
  /\ run' = run + 1
  /\ phase' = "open"
  /\ asked' = FALSE
  /\ verdict' = "none"

\* The user, or the worker that gives up, asks the open run to stop.
Ask ==
  /\ phase = "open"
  /\ asked' = TRUE
  /\ UNCHANGED <<run, phase, verdict>>

\* Success is for runs nobody stopped and UserStopped for the others; a stopped
\* run that aborts, or never had a worker, is reported as failed.
Close ==
  /\ phase = "open"
  /\ phase' = "closed"
  /\ verdict' \in IF asked THEN {"UserStopped", "Failed"}
                           ELSE {"Completed", "Failed", "Interrupted"}
  /\ UNCHANGED <<run, asked>>

\* The inputs could not be confirmed released: the device stays taken.
Hold ==
  /\ phase = "open"
  /\ phase' = "held"
  /\ verdict' \in {"Interrupted", "Failed"}
  /\ UNCHANGED <<run, asked>>

Next == Begin \/ Ask \/ Close \/ Hold

Spec == Init /\ [][Next]_vars
=============================================================================
