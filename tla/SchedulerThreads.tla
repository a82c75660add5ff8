--------------------------- MODULE SchedulerThreads ---------------------------
(***************************************************************************)
(* The scheduler implements Threads: every slot-table operation is one     *)
(* operation on the thread that owns the slot, or changes nothing that the *)
(* guest can tell.                                                         *)
(***************************************************************************)
EXTENDS Scheduler

\* The live slots of thread t; at most one (SlotsOwned).
LiveSlots(t) == {s \in Live : env[s] = t}

LifeOf(s) ==
  CASE state[s] = "ready"        -> "ready"
    [] state[s] = "running"      -> "running"
    [] state[s] = "blocked_wait" -> "waiting"
    [] state[s] = "blocked_io"   -> "sleeping"


lifeBar ==
  [t \in Tids |-> IF LiveSlots(t) # {}
                  THEN LifeOf(CHOOSE s \in LiveSlots(t) : TRUE)
                  ELSE IF t < nextTid THEN "done" ELSE "absent"]
onBar ==
  [t \in Tids |-> {waitAddr[s] : s \in {r \in LiveSlots(t) : state[r] = "blocked_wait"}}]
dueBar ==
  [t \in Tids |-> IF LiveSlots(t) # {}
                  THEN until[CHOOSE s \in LiveSlots(t) : TRUE] ELSE Never]

T == INSTANCE Threads WITH life <- lifeBar, on <- onBar, due <- dueBar,
                           time <- now

\* A guest sees exactly the threads it created: one at a time, each wait
\* ended by a matching notify, by its timeout or by a stall of the whole
\* guest, a notify that wakes as many as it asked for, no thread coming back
\* from the dead when its slot is reclaimed.
ImplementsThreads == T!Promise

=============================================================================
