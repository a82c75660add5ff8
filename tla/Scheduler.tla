------------------------------ MODULE Scheduler ------------------------------
(***************************************************************************)
(* The cooperative scheduler of wasmkernel (src/kernel/scheduler.c): the   *)
(* slot table of guest threads, the wait/notify table, the timers, and one *)
(* kernel_step of the host.                                                *)
(*                                                                         *)
(* A step of the scheduler is two kinds of action here.  The host enters   *)
(* the step and a thread is picked (Dispatch, or an early return); then    *)
(* the picked thread executes guest code, one action per host call it      *)
(* makes, until an action ends its slice and the step returns to the host. *)
(* The clock may advance between any two of these actions.                 *)
(*                                                                         *)
(* An exec_env is identified by the thread id given when it was            *)
(* registered; the main thread's is Main.                                  *)
(***************************************************************************)
EXTENDS Integers, Sequences, FiniteSets

CONSTANTS
  MaxThreads,      \* WASMKERNEL_MAX_THREADS, the length of the slot table
  MaxPending,      \* MAX_PENDING_NOTIFIES
  Addrs,           \* the guest addresses threads wait on
  NoAddr,          \* a NULL wait_address
  Counts,          \* the counts guests pass to memory.atomic.notify
  Delays,          \* finite wait timeouts and sleep durations
  Budgets,         \* what the host passes to kernel_set_watchdog_ms
  MaxTid,          \* bound: no thread id beyond this one is handed out
  MaxTime          \* bound: the clock stops here

ASSUME SchedulerAssumption ==
  /\ MaxThreads \in Nat \ {0}
  /\ MaxPending \in Nat
  /\ NoAddr \notin Addrs
  /\ Counts \subseteq Nat
  /\ Delays \subseteq Nat
  /\ Budgets \subseteq Nat \ {0}
  /\ MaxTid \in Nat
  /\ MaxTime \in Nat

VARIABLES
  state,       \* threads[s].state
  env,         \* threads[s].exec_env
  started,     \* threads[s].started
  unwound,     \* threads[s].asyncify_unwound
  frame,       \* how the exec_env of slot s left its guest frame suspended
  waitAddr,    \* threads[s].wait_address
  until,       \* of a blocked slot: wait_start_us + wait_timeout_us, or the
               \* io_deadline_us of its POLL_CLOCK; Never if there is none
  numThreads,  \* g_scheduler.num_threads
  current,     \* g_scheduler.current, the round-robin index
  nextTid,     \* g_scheduler.next_tid
  pending,     \* g_pending_notify_addrs[0 .. g_pending_notify_count-1]
  procExit,    \* g_scheduler.exited_via_proc_exit
  deadline,    \* g_scheduler.watchdog_deadline_us, 0 when disabled
  cur,         \* the slot whose slice is executing, NoSlot in the host
  ret,         \* what the last completed step returned
  now          \* the monotonic clock

table  == <<state, env, started, unwound, frame, waitAddr, until>>
vars   == <<state, env, started, unwound, frame, waitAddr, until,
            numThreads, current, nextTid, pending, procExit, deadline, cur,
            ret, now>>

Slots  == 0 .. MaxThreads - 1
Tids   == 0 .. MaxTid
Main   == 0
NoEnv  == -1
NoSlot == -1
Never  == -1

ThreadStates == {"unused", "ready", "running", "blocked_wait", "blocked_io",
                 "exited"}
Dead         == {"unused", "exited"}
Frames       == {"none", "yield", "asyncify"}

-----------------------------------------------------------------------------
(* Reading the slot table.                                                 *)

Used == 0 .. numThreads - 1
Live == {s \in Used : state[s] \notin Dead}

\* The slots the linear searches on exec_env find; they stop at the first.
Holding(e)   == {s \in Used : env[s] = e}
SlotOf(e)    == CHOOSE s \in Holding(e) : \A r \in Holding(e) : s <= r

\* f with the value v at every slot of S.
At(f, S, v) == [s \in Slots |-> IF s \in S THEN v ELSE f[s]]

\* check_wait_timeouts and check_io_completions at the top of a step.
ExpiredWhenIdle ==  \* a bug: timeouts are looked at only when nobody is ready
  {s \in Used : /\ state[s] = "blocked_wait" /\ until[s] # Never /\ now >= until[s]
                /\ \A r \in Used : state[r] # "ready"}
Expired == {s \in Used : /\ state[s] = "blocked_wait"
                         /\ until[s] # Never
                         /\ now >= until[s]}
IoDone  == {s \in Used : state[s] = "blocked_io" /\ now >= until[s]}
Polled  == At(state, Expired \cup IoDone, "ready")

\* pick_next_thread_ex: the first ready slot from the round-robin index on.
Candidates(st, skip) ==
  {s \in Used : st[s] = "ready" /\ (skip => s # 0)}
Distance(s) == IF s >= current THEN s - current ELSE s + numThreads - current
IsNextFromZero(st, skip, s) ==  \* a bug: no round robin
  s \in Candidates(st, skip) /\ \A r \in Candidates(st, skip) : s <= r
IsNext(st, skip, s) ==
  /\ s \in Candidates(st, skip)
  /\ \A r \in Candidates(st, skip) : Distance(s) <= Distance(r)
AfterUnwrapped(s) == s + 1  \* a bug: the index does not wrap around
After(s) == IF s + 1 >= numThreads THEN 0 ELSE s + 1

\* The waiters a step wakes when nothing else can run: all of them, or with
\* skip_main those of the workers.
StalledNever(skip) == {}  \* a bug: nothing breaks a stall
StalledAll(skip) ==  \* a bug: whoever cannot run is woken, the dead as well
  {s \in Used : Polled[s] \notin {"ready", "running"} /\ (skip => s # 0)}
Stalled(skip) == {s \in Used : /\ Polled[s] = "blocked_wait"
                               /\ skip => s # 0}

\* terminate_all_threads
KillAllRunnable(st) ==  \* a bug: blocked threads survive
  [s \in Slots |-> IF s \in Used /\ st[s] \in {"ready", "running"}
                   THEN "exited" ELSE st[s]]
KillAllFrees(st) ==  \* a bug: killed slots leave the table, which keeps its length
  [s \in Slots |-> IF s \in Used /\ st[s] \notin Dead THEN "unused" ELSE st[s]]
KillAll(st) == [s \in Slots |-> IF s \in Used /\ st[s] \notin Dead
                                THEN "exited" ELSE st[s]]

-----------------------------------------------------------------------------
(* The notify table.                                                       *)

\* Indices of the pending notifies recorded for address a.
PendingAt(a) == {i \in 1 .. Len(pending) : pending[i] = a}

\* The table after its first entry for a is overwritten by its last one.
Consume(a) ==
  LET k == CHOOSE i \in PendingAt(a) : \A j \in PendingAt(a) : i <= j
  IN  [i \in 1 .. Len(pending) - 1 |->
         IF i = k THEN pending[Len(pending)] ELSE pending[i]]

\* wake_waiters: the first n waiters of a in the order of the table.
WaitersOf(a) == {s \in Used : state[s] = "blocked_wait" /\ waitAddr[s] = a}
IsAllOf(W, S, n) == W = S  \* a bug: a notify wakes everybody
IsFirstOf(W, S, n) ==
  /\ W \subseteq S
  /\ \A s \in W, r \in S \ W : s < r
  /\ Cardinality(W) <= n
  /\ W # S => Cardinality(W) = n

\* block_on_wait: a pending notify for a is consumed instead of blocking;
\* an exec_env found in no slot blocks nothing.
Blocks(e, a) == PendingAt(a) = {} /\ Holding(e) # {}

BlockOnWait(e, a) ==
  /\ pending'  = IF PendingAt(a) # {} THEN Consume(a) ELSE pending
  /\ waitAddr' = IF Blocks(e, a) THEN At(waitAddr, {SlotOf(e)}, a) ELSE waitAddr

StateAfterWait(e, a) ==
  IF Blocks(e, a) THEN At(state, {SlotOf(e)}, "blocked_wait") ELSE state

UntilAfterWait(e, a, d) ==
  IF Blocks(e, a) /\ d # Never THEN At(until, {SlotOf(e)}, now + d) ELSE until

\* Two bugs: a woken thread stays registered on its address; a notify is
\* recorded as pending although it woke somebody.
WakeWaitersKeepAddr(a, n) ==
  \E W \in SUBSET Used :
    /\ IsFirstOf(W, WaitersOf(a), n)
    /\ state' = At(state, W, "ready")
    /\ until' = At(until, W, Never)
    /\ UNCHANGED <<waitAddr, pending>>
WakeWaitersAndPark(a, n) ==
  \E W \in SUBSET Used :
    /\ IsFirstOf(W, WaitersOf(a), n)
    /\ state'    = At(state, W, "ready")
    /\ waitAddr' = At(waitAddr, W, NoAddr)
    /\ until'    = At(until, W, Never)
    /\ pending'  = IF Len(pending) < MaxPending THEN Append(pending, a) ELSE pending

\* wake_waiters as a step: it leaves a pending notify when nobody was woken.
WakeWaiters(a, n) ==
  \E W \in SUBSET Used :
    /\ IsFirstOf(W, WaitersOf(a), n)
    /\ state'    = At(state, W, "ready")
    /\ waitAddr' = At(waitAddr, W, NoAddr)
    /\ until'    = At(until, W, Never)
    /\ pending'  = IF W = {} /\ Len(pending) < MaxPending
                   THEN Append(pending, a) ELSE pending

-----------------------------------------------------------------------------
(* register_thread: the first dead worker slot is reclaimed before the     *)
(* table is extended.                                                      *)

ReclaimableAll == {s \in Used : state[s] \in Dead}  \* a bug: slot 0 as well
Reclaimable == {s \in Used \ {0} : state[s] \in Dead}
NewSlot ==
  IF Reclaimable # {}
  THEN CHOOSE s \in Reclaimable : \A r \in Reclaimable : s <= r
  ELSE numThreads
TableFull == Reclaimable = {} /\ numThreads >= MaxThreads

RegisterThread ==
  /\ nextTid <= MaxTid
  /\ IF TableFull
     THEN UNCHANGED <<state, env, started, frame, waitAddr, until, numThreads,
                      nextTid>>
     ELSE /\ state'      = At(state, {NewSlot}, "ready")
          /\ env'        = At(env, {NewSlot}, nextTid)
          /\ started'    = At(started, {NewSlot}, FALSE)
          /\ frame'      = At(frame, {NewSlot}, "none")
          /\ waitAddr'   = At(waitAddr, {NewSlot}, NoAddr)
          /\ until'      = At(until, {NewSlot}, Never)
          /\ numThreads' = IF NewSlot = numThreads THEN numThreads + 1
                           ELSE numThreads
          /\ nextTid'    = nextTid + 1
  /\ UNCHANGED <<unwound, current, pending, procExit, deadline, cur, ret, now>>

-----------------------------------------------------------------------------
(* Entering a step: scheduler_step_internal up to the call of guest code.  *)

WatchdogExpired == deadline # 0 /\ now > deadline

\* kernel_step reports a proc_exit ever after; step_skip_main does not.
Report(skip, r) == IF procExit /\ ~skip THEN -2 ELSE r

NothingLive(skip) ==
  /\ cur = NoSlot
  /\ Live = {}
  /\ ret' = Report(skip, 1)
  /\ UNCHANGED <<table, numThreads, current, nextTid, pending, procExit,
                 deadline, cur, now>>

WatchdogFires(skip) ==
  /\ cur = NoSlot
  /\ Live # {}
  /\ WatchdogExpired
  /\ state' = KillAll(state)
  /\ ret'   = Report(skip, -1)
  /\ UNCHANGED <<env, started, unwound, frame, waitAddr, until,
                 numThreads, current, nextTid, pending, procExit, deadline,
                 cur, now>>

\* The threads of W were woken at the top of the step, or because nothing
\* else could run; thread s is given a slice.  A worker whose last yield
\* unwound through asyncify is rewound, any other one resumes its frame.
Run(s, st, W) ==
  /\ state'    = At(At(st, W, "ready"), {s}, "running")
  /\ waitAddr' = At(waitAddr, Expired \cup W, NoAddr)
  /\ until'    = At(until, Expired \cup IoDone \cup W, Never)
  /\ current'  = After(s)
  /\ started'  = At(started, {s}, TRUE)
  /\ unwound'  = IF s # 0 /\ started[s] THEN At(unwound, {s}, FALSE) ELSE unwound
  /\ frame'    = At(frame, {s}, "none")
  /\ cur'      = s
  /\ UNCHANGED <<env, numThreads, nextTid, pending, procExit, deadline, ret, now>>

Dispatch(skip) ==
  /\ cur = NoSlot
  /\ Live # {}
  /\ ~WatchdogExpired
  /\ \/ \E s \in Used : IsNext(Polled, skip, s) /\ Run(s, Polled, {})
     \/ /\ Candidates(Polled, skip) = {}
        /\ LET W == Stalled(skip)
           IN  \E s \in Used : /\ IsNext(At(Polled, W, "ready"), skip, s)
                               /\ Run(s, Polled, W)

\* Nothing can be run: every live thread sleeps, or with skip_main only the
\* main thread is left.
Stuck(skip) ==
  /\ cur = NoSlot
  /\ Live # {}
  /\ ~WatchdogExpired
  /\ Candidates(Polled, skip) = {}
  /\ Stalled(skip) = {}
  /\ state'    = Polled
  /\ waitAddr' = At(waitAddr, Expired, NoAddr)
  /\ until'    = At(until, Expired \cup IoDone, Never)
  /\ ret'      = IF skip THEN 2 ELSE Report(FALSE, 0)
  /\ UNCHANGED <<env, started, unwound, frame, numThreads, current, nextTid,
                 pending, procExit, deadline, cur, now>>

-----------------------------------------------------------------------------
(* The slice of the running thread.                                        *)

Me == env[cur]

\* The step returns r to the host, unless a proc_exit was recorded: then
\* every thread is terminated.
ReturnFromStep(st, r) ==
  /\ state' = IF procExit THEN KillAll(st) ELSE st
  /\ ret'   = IF procExit THEN -2 ELSE r
  /\ cur'   = NoSlot

\* A bug: a thread that yields while it runs is not made ready.
YieldRunning(st, how) ==
  /\ ReturnFromStep(st, 0)
  /\ frame' = At(frame, {cur}, how)

\* The step finds the YIELD flag set: a thread still running becomes ready.
Yield(st, how) ==
  /\ ReturnFromStep(IF st[cur] = "running" THEN At(st, {cur}, "ready") ELSE st, 0)
  /\ frame' = At(frame, {cur}, how)

\* The fuel of the slice is used up, or a spin loop made the interpreter
\* yield.
FuelOut ==
  /\ cur # NoSlot
  /\ Yield(state, "yield")
  /\ UNCHANGED <<env, started, unwound, waitAddr, until,
                 numThreads, current, nextTid, pending, procExit, deadline, now>>

\* A bug: the main thread's slot is marked as unwound as well.
SchedYieldMarksMain ==
  /\ cur # NoSlot
  /\ Yield(state, IF cur = 0 THEN "yield" ELSE "asyncify")
  /\ unwound' = At(unwound, {cur}, TRUE)
  /\ UNCHANGED <<env, started, waitAddr, until, numThreads,
                 current, nextTid, pending, procExit, deadline, now>>

\* sched_yield: a worker unwinds through asyncify, the main thread does not.
SchedYield ==
  /\ cur # NoSlot
  /\ Yield(state, IF cur = 0 THEN "yield" ELSE "asyncify")
  /\ unwound' = IF cur = 0 THEN unwound ELSE At(unwound, {cur}, TRUE)
  /\ UNCHANGED <<env, started, waitAddr, until, numThreads,
                 current, nextTid, pending, procExit, deadline, now>>

\* memory.atomic.wait whose comparison succeeded.
Wait(a, d) ==
  /\ cur # NoSlot
  /\ d # Never => now + d <= MaxTime
  /\ BlockOnWait(Me, a)
  /\ until' = UntilAfterWait(Me, a, d)
  /\ Yield(StateAfterWait(Me, a), "yield")
  /\ UNCHANGED <<env, started, unwound, numThreads, current, nextTid, procExit,
                 deadline, now>>

Notify(a, n) ==
  /\ cur # NoSlot
  /\ WakeWaiters(a, n)
  /\ UNCHANGED <<env, started, unwound, frame, numThreads, current, nextTid,
                 procExit, deadline, cur, ret, now>>

Spawn ==
  /\ cur # NoSlot
  /\ RegisterThread

\* poll_oneoff on a clock: a worker blocks until the deadline.
Sleep(d) ==
  /\ cur \notin {NoSlot, 0}
  /\ now + d <= MaxTime
  /\ until' = At(until, {cur}, now + d)
  /\ Yield(At(state, {cur}, "blocked_io"), "yield")
  /\ UNCHANGED <<env, started, unwound, waitAddr, numThreads, current, nextTid,
                 pending, procExit, deadline, now>>

\* poll_oneoff on a clock by the main thread outside kernel_call_indirect:
\* the kernel sleeps itself, and the slice goes on.
MainSleeps(d) ==
  /\ cur = 0
  /\ now + d <= MaxTime
  /\ now' = now + d
  /\ UNCHANGED <<table, numThreads, current, nextTid, pending, procExit,
                 deadline, cur, ret>>

\* The thread's function returns.  A worker's exec_env goes back to the
\* cluster; the main thread's return ends the process.
WorkerReturns ==
  /\ cur \notin {NoSlot, 0}
  /\ LET st == At(state, {cur}, "exited")
     IN  ReturnFromStep(st, IF \A s \in Used : st[s] \in Dead THEN 1 ELSE 0)
  /\ env' = IF procExit THEN env ELSE At(env, {cur}, NoEnv)
  /\ UNCHANGED <<started, unwound, frame, waitAddr, until,
                 numThreads, current, nextTid, pending, procExit, deadline, now>>

MainReturns ==
  /\ cur = 0
  /\ ReturnFromStep(KillAll(state), 1)
  /\ UNCHANGED <<env, started, unwound, frame, waitAddr, until,
                 numThreads, current, nextTid, pending, procExit, deadline, now>>

Trap ==
  /\ cur # NoSlot
  /\ ReturnFromStep(KillAll(state), -1)
  /\ UNCHANGED <<env, started, unwound, frame, waitAddr, until,
                 numThreads, current, nextTid, pending, procExit, deadline, now>>

ProcExit ==
  /\ cur # NoSlot
  /\ procExit' = TRUE
  /\ state'    = KillAll(state)
  /\ ret'      = -2
  /\ cur'      = NoSlot
  /\ UNCHANGED <<env, started, unwound, frame, waitAddr, until,
                 numThreads, current, nextTid, pending, deadline, now>>

-----------------------------------------------------------------------------
(* The host between two steps, and the clock.                              *)

SetWatchdog(d) ==
  /\ cur = NoSlot
  /\ deadline' = IF d = 0 THEN 0 ELSE now + d
  /\ UNCHANGED <<table, numThreads, current, nextTid, pending, procExit, cur,
                 ret, now>>

Tick ==
  /\ now < MaxTime
  /\ now' = now + 1
  /\ UNCHANGED <<table, numThreads, current, nextTid, pending, procExit,
                 deadline, cur, ret>>

-----------------------------------------------------------------------------
(* kernel_load leaves the table with the main thread ready in slot 0.      *)

Init ==
  /\ state      = [s \in Slots |-> IF s = 0 THEN "ready" ELSE "unused"]
  /\ env        = [s \in Slots |-> IF s = 0 THEN Main ELSE NoEnv]
  /\ started    = [s \in Slots |-> FALSE]
  /\ unwound    = [s \in Slots |-> FALSE]
  /\ frame      = [s \in Slots |-> "none"]
  /\ waitAddr   = [s \in Slots |-> NoAddr]
  /\ until      = [s \in Slots |-> Never]
  /\ numThreads = 1
  /\ current    = 0
  /\ nextTid    = 1
  /\ pending    = <<>>
  /\ procExit   = FALSE
  /\ deadline   = 0
  /\ cur        = NoSlot
  /\ ret        = 0
  /\ now        = 0

\* Stuck(FALSE) is left to KernelCalls: until the main thread has exited it
\* can be run, or woken by a stall.
KernelStep == \/ NothingLive(FALSE)
              \/ WatchdogFires(FALSE)
              \/ Dispatch(FALSE)

EndsSlice == \/ FuelOut \/ SchedYield
             \/ \E a \in Addrs, d \in Delays \cup {Never} : Wait(a, d)
             \/ \E d \in Delays : Sleep(d)
             \/ WorkerReturns \/ MainReturns \/ Trap \/ ProcExit

InSlice == \/ \E a \in Addrs, n \in Counts : Notify(a, n)
           \/ Spawn
           \/ \E d \in Delays : MainSleeps(d)

Next == \/ KernelStep
        \/ EndsSlice
        \/ InSlice
        \/ \E d \in Budgets \cup {0} : SetWatchdog(d)
        \/ Tick

Spec == Init /\ [][Next]_vars

\* The host keeps stepping, the fuel of a slice is finite (the interpreter
\* counts instructions_to_execute down), and time passes.
Fairness == WF_vars(KernelStep) /\ WF_vars(EndsSlice) /\ WF_vars(Tick)

FairSpec == Spec /\ Fairness

-----------------------------------------------------------------------------
(* Properties.                                                             *)

\* The fields of the scheduler keep their types; the round-robin index and
\* the notify table stay inside their arrays.
TypeOK ==
  /\ state \in [Slots -> ThreadStates]
  /\ env \in [Slots -> Tids \cup {NoEnv}]
  /\ started \in [Slots -> BOOLEAN]
  /\ unwound \in [Slots -> BOOLEAN]
  /\ frame \in [Slots -> Frames]
  /\ waitAddr \in [Slots -> Addrs \cup {NoAddr}]
  /\ until \in [Slots -> Nat \cup {Never}]
  /\ numThreads \in 1 .. MaxThreads
  /\ current \in 0 .. numThreads - 1
  /\ nextTid \in 1 .. MaxTid + 1
  /\ pending \in Seq(Addrs)
  /\ Len(pending) <= MaxPending
  /\ procExit \in BOOLEAN
  /\ deadline \in Nat
  /\ cur \in Slots \cup {NoSlot}
  /\ ret \in {0, 1, 2, -1, -2}
  /\ now \in 0 .. MaxTime

\* One host thread executes all guest threads: a slot is RUNNING exactly
\* while its slice executes, however threads block, exit or are killed.
OneRunner == \A s \in Slots : state[s] = "running" <=> s = cur

\* The linear searches on exec_env (block_on_wait, get_asyncify_buf) find
\* the slot of the thread that makes the call: slot 0 is the main thread's
\* for ever, a live slot has an exec_env and no two slots share one, however
\* slots are reclaimed.
SlotsOwned ==
  /\ env[0] = Main
  /\ \A s \in Used : state[s] \notin Dead => env[s] # NoEnv
  /\ \A s, r \in Used : env[s] = env[r] /\ env[s] # NoEnv => s = r
  /\ \A s \in Used : env[s] < nextTid
  /\ \A s \in Slots : state[s] = "unused" <=> s \notin Used

\* A blocked thread is on the address it waits for, and a thread that was
\* woken in any of the four ways (notify, timeout, stall, reuse of its slot)
\* is on none, so that a later notify cannot hit it.
WaitRegistered ==
  \A s \in Live : state[s] = "blocked_wait" <=> waitAddr[s] # NoAddr

\* A notify is pending on an address only while nobody waits there: a
\* wakeup is never parked in the table beside the thread it was meant for.
NoParkedWakeup ==
  \A s \in Used : state[s] = "blocked_wait" => PendingAt(waitAddr[s]) = {}

\* A step picks up a thread the way it was suspended: one that has started
\* has a suspended frame, and a worker is rewound exactly when its last
\* yield unwound through asyncify (scheduler.h:58).
ResumesAsSuspended ==
  \A s \in Live \ {cur} :
    /\ started[s] <=> frame[s] # "none"
    /\ unwound[s] <=> (s # 0 /\ frame[s] = "asyncify")

\* When a step reports the end of the guest (all done, trap or proc_exit)
\* no thread is left alive (SPEC.md 9.4).
EndMeansDead == cur = NoSlot /\ ret \in {1, -1, -2} => Live = {}

\* A thread that was killed or has returned never gets another slice, its
\* slot only serves a new thread.
DeadStaysDead ==
  [][\A s \in Used : state[s] = "exited" /\ state'[s] \notin Dead
                     => state'[s] = "ready" /\ env'[s] = nextTid]_vars

-----------------------------------------------------------------------------
(* Liveness, under Fairness.                                               *)

\* Round robin starves nobody: a ready thread gets a slice, or dies with the
\* guest, whatever the other threads do with theirs.
ReadyRuns == \A s \in Slots : state[s] = "ready" ~> state[s] # "ready"

\* The guest never hangs for good: even when every thread waits for another
\* one, some thread gets a slice again.
NoStall == Live # {} ~> (cur # NoSlot \/ Live = {})

\* A thread that sleeps or waits with a timeout is released, even if the
\* others run all the time and nobody notifies it.
TimersFire ==
  \A s \in Slots :
    (state[s] = "blocked_io" \/ (state[s] = "blocked_wait" /\ until[s] # Never))
      ~> state[s] \notin {"blocked_io", "blocked_wait"}

=============================================================================
