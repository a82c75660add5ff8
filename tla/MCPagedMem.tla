------------------------------ MODULE MCPagedMem ------------------------------
(* Values for the instances of PagedMem that TLC checks. *)
EXTENDS PagedMem

\* Three pages of two cells, of which the sparse seed samples the first.
MCSeeded == {[i \in 0 .. 5 |-> IF i \in {0, 1, 4} THEN 1 ELSE 0]}

MCBlocks == {<<0, 1, 0>>}
=============================================================================
