--------------------------- MODULE MCNapiExceptions ---------------------------
(* NapiExceptions on a small instance. *)
EXTENDS NapiExceptions
CONSTANTS w1, o1
MCWorks == {w1}
MCObjects == {o1}
MCHolders == <<1>>
\* argsOf, which only ReadsOwnArgs looks at, is left out.
MCView == <<stack, workVars, tsfnVars, finVars, pumpVars, excVars>>
=============================================================================
