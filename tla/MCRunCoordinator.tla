-------------------------- MODULE MCRunCoordinator --------------------------
(* Instances of RunCoordinator for TLC: the .cfg files give every constant its *)
(* value; no definition is needed besides.                                     *)
EXTENDS RunCoordinatorInv
=============================================================================
