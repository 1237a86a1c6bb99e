----------------------------- MODULE MCMatching -----------------------------
(* Two threads of a session's recognition and one of another service. *)
EXTENDS Matching

CONSTANTS one, two, other, session, preview

Threads == [l \in {one, two, other} |-> IF l = other THEN preview ELSE session]
\* Below the target, beyond it, and all of it.
Sizes == [l \in {one, two, other} |-> CASE l = one -> 1 [] l = two -> 3 [] OTHER -> 2]
=============================================================================
