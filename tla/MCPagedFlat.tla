----------------------------- MODULE MCPagedFlat -----------------------------
(* The instance of PagedFlat that TLC checks. *)
EXTENDS PagedFlat, MCPagedMem

\* No step depends on ret or done, nor on asked and before outside of a bulk
\* operation: states that differ in nothing else are one.
MCView == <<mem, up, pages, scratch, bulk,
            IF bulk = Idle THEN <<>> ELSE <<asked, before>>>>
=============================================================================
