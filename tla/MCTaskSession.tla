---------------------------- MODULE MCTaskSession ----------------------------
(* Instances of TaskSession for TLC: a bounty that may be repeated and a workflow. *)
EXTENDS TaskSession

CONSTANTS bounty, flow
=============================================================================
