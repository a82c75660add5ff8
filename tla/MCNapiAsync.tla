----------------------------- MODULE MCNapiAsync -----------------------------
(* NapiAsync on a small instance. *)
EXTENDS NapiAsync
CONSTANTS w1, o1, j1
MCWorks == {w1}
MCObjects == {o1}
MCJobs == {j1}
MCHolders == <<2>>
\* argsOf, which only ReadsOwnArgs looks at, is left out.
MCView == <<stack, workVars, tsfnVars, finVars, pumpVars>>
=============================================================================
