------------------------------- MODULE Threads -------------------------------
(***************************************************************************)
(* What the scheduler promises the guest: threads that run one at a time,  *)
(* wait on addresses with futex semantics, sleep, and die together.  There *)
(* is no slot table, no round-robin index and no notify table here.        *)
(***************************************************************************)
EXTENDS Integers, FiniteSets

CONSTANTS Tids,      \* all threads there may ever be; thread 0 is main
          Addrs,     \* the addresses threads wait on
          Counts,    \* how many waiters a notify may ask for
          Delays,    \* timeouts and sleeps
          MaxTime    \* bound: the clock stops here

VARIABLES
  life,    \* life[t]: absent, ready, running, waiting, sleeping or done
  on,      \* on[t]: the addresses t waits on, a set of at most one
  due,     \* due[t]: when t's wait or sleep ends, Never if it need not
  time     \* the clock

tvars == <<life, on, due, time>>

Never    == -1
Blocked  == {"waiting", "sleeping"}
Alive    == {t \in Tids : life[t] \notin {"absent", "done"}}
Overdue  == {t \in Tids : life[t] \in Blocked /\ due[t] # Never /\ time >= due[t]}
Waiters(a) == {t \in Tids : life[t] = "waiting" /\ a \in on[t]}

\* f with the value v for every thread of S.
With(f, S, v) == [t \in Tids |-> IF t \in S THEN v ELSE f[t]]

Begin ==
  /\ life = [t \in Tids |-> IF t = 0 THEN "ready" ELSE "absent"]
  /\ on   = [t \in Tids |-> {}]
  /\ due  = [t \in Tids |-> Never]
  /\ time = 0

\* The threads of R become ready and none of them waits any more.
Release(R) ==
  /\ on'  = With(on, R, {})
  /\ due' = With(due, R, Never)

\* Thread t gets a slice.  Overdue threads are released; waiting threads may
\* be released early only when nobody could run otherwise.
StartSlice(t) ==
  /\ \A u \in Tids : life[u] # "running"
  /\ LET ready == With(life, Overdue, "ready")
         idle  == \A u \in Tids : ready[u] # "ready"
         R     == IF idle THEN Overdue \cup {u \in Tids : life[u] = "waiting"}
                  ELSE Overdue
     IN  /\ t \in R \/ life[t] = "ready"
         /\ life' = With(With(life, R, "ready"), {t}, "running")
         /\ Release(R)
  /\ UNCHANGED time

\* The running thread gives up its slice, waits on a, or sleeps.  A wait may
\* return at once: it is up to the guest to check its condition again.
GiveUp(t) ==
  /\ life[t] = "running"
  /\ life' = With(life, {t}, "ready")
  /\ UNCHANGED <<on, due, time>>

Block(t, a, d) ==
  /\ life[t] = "running"
  /\ life' = With(life, {t}, "waiting")
  /\ on'   = With(on, {t}, {a})
  /\ due'  = With(due, {t}, IF d = Never THEN Never ELSE time + d)
  /\ UNCHANGED time

Doze(t, d) ==
  /\ life[t] = "running"
  /\ life' = With(life, {t}, "sleeping")
  /\ due'  = With(due, {t}, time + d)
  /\ UNCHANGED <<on, time>>

\* A notify by the running thread releases n waiters of a, or all of them
\* when there are fewer, and no thread that waits elsewhere.
Wake(t, a, n) ==
  /\ life[t] = "running"
  /\ \E W \in SUBSET Waiters(a) :
       /\ Cardinality(W) = n \/ (W = Waiters(a) /\ Cardinality(W) <= n)
       /\ life' = With(life, W, "ready")
       /\ Release(W)
  /\ UNCHANGED time

\* The running thread creates a thread that never existed before.
Create(t, u) ==
  /\ life[t] = "running"
  /\ life[u] = "absent"
  /\ life' = With(life, {u}, "ready")
  /\ UNCHANGED <<on, due, time>>

Finish(t) ==
  /\ life[t] = "running"
  /\ life' = With(life, {t}, "done")
  /\ UNCHANGED <<on, due, time>>

\* Main returns, a thread traps or calls proc_exit, or the watchdog fires.
Die ==
  /\ Alive # {}
  /\ life' = With(life, Alive, "done")
  /\ Release(Alive)
  /\ UNCHANGED time

Pass == /\ time < MaxTime
        /\ time' \in time + 1 .. MaxTime
        /\ UNCHANGED <<life, on, due>>

Step ==
  \/ Die \/ Pass
  \/ \E t \in Tids :
       \/ StartSlice(t) \/ GiveUp(t) \/ Finish(t)
       \/ \E d \in Delays : Doze(t, d)
       \/ \E a \in Addrs, d \in Delays \cup {Never} : Block(t, a, d)
       \/ \E a \in Addrs, n \in Counts : Wake(t, a, n)
       \/ \E u \in Tids : Create(t, u)

Promise == Begin /\ [][Step]_tvars

=============================================================================
