---------------------------- MODULE MCRunConsole ----------------------------
(* A page with two wishes, pressed twice in all, over two services. *)
EXTENDS RunConsole
=============================================================================
