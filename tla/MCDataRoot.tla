----------------------------- MODULE MCDataRoot -----------------------------
(* The data root for TLC. *)
EXTENDS DataRoot, TLC

Symmetry == Permutations(Revisions)
=============================================================================
