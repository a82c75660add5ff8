---------------------------- MODULE SchedulerOrder ----------------------------
(***************************************************************************)
(* The scheduler with a history variable that no code reads: whom each     *)
(* ready thread has seen run before it.  It states how fair the round      *)
(* robin is.                                                               *)
(***************************************************************************)
EXTENDS Scheduler

VARIABLE passedBy  \* passedBy[s]: the slots picked since s is READY

hvars == <<vars, passedBy>>

Picked == {r \in Slots : state[r] # "running" /\ state'[r] = "running"}

Record ==
  passedBy' = [s \in Slots |-> IF state'[s] = "ready"
                               THEN passedBy[s] \cup Picked ELSE {}]

HInit == Init /\ passedBy = [s \in Slots |-> {}]
HNext == Next /\ Record
HSpec == HInit /\ [][HNext]_hvars

\* Nobody is given a second slice while another thread stays ready: the
\* round robin passes a ready thread by at most once per slot, even when the
\* table grows or slots are reclaimed meanwhile.
NobodyTwice ==
  [][\A s \in Slots : state'[s] = "ready" => passedBy[s] \cap Picked = {}]_hvars
==============================================================================
