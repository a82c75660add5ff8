---------------------------- MODULE MCNapiHandles ----------------------------
(* NapiHandles on a small instance. *)
EXTENDS NapiHandles
CONSTANT o1
MCObjects == {o1}
=============================================================================
