--------------------------- MODULE MCFlowExecutor ---------------------------
(* Instances of FlowExecutor for TLC: a repeatable menu, a skill that must not be *)
(* interrupted, and a payment, which is retried only in its routed form.          *)
EXTENDS FlowExecutor

CONSTANTS menu, skill, pay, wheel

\* The menu may be submitted twice, the payment once, the routed one without limit.
Submissions == [input \in Inputs |-> CASE input = menu -> 2 [] input = pay -> 1 [] OTHER -> 0]
=============================================================================
