----------------------------- MODULE KernelCalls -----------------------------
(***************************************************************************)
(* The entry points of src/kernel/wasmkernel.c through which the host runs *)
(* guest code: kernel_step, kernel_call, kernel_call_indirect with its     *)
(* cooperative loop, and kernel_call_indirect_simple.                      *)
(*                                                                         *)
(* A call runs guest code on the main thread's exec_env.  The guest may    *)
(* call the host, which may call the guest again, so calls nest; a call    *)
(* made from a worker's slice suspends that slice.  The YIELD flag of the  *)
(* main exec_env is set exactly while frame[0] # "none": the interpreter   *)
(* clears it when it resumes the frame.                                    *)
(***************************************************************************)
EXTENDS Scheduler

CONSTANTS
  Kinds,      \* the entry points the host uses, of {"call", "simple", "indirect"}
  MaxDepth,   \* bound: calls nest no deeper
  MaxIters    \* the steps of its workers a cooperative loop may take

ASSUME KernelCallsAssumption ==
  /\ Kinds \subseteq {"call", "simple", "indirect"}
  /\ MaxDepth \in Nat
  /\ MaxIters \in Nat \ {0}

VARIABLES
  booted,      \* the host's start-up loop of kernel_steps has ended
  asyncifyOn,  \* g_main_thread_asyncify_enabled
  calls        \* the calls in progress, innermost last

kvars == <<vars, booted, asyncifyOn, calls>>

\* Of a call: kind, its entry point; from, the slot whose slice made it, NoSlot
\* for the host or an outer call; saved, was_enabled; phase: its function runs
\* ("guest"), its loop is about to step the workers ("step"), or has to look at
\* what the step returned ("check"); iters, the steps the loop may still take.
Depth   == Len(calls)
Top     == calls[Depth]
Idle    == calls = <<>> /\ cur = NoSlot
InGuest == calls # <<>> /\ cur = NoSlot /\ Top.phase = "guest"
InLoop(p) == calls # <<>> /\ cur = NoSlot /\ Top.phase = p

Popped == SubSeq(calls, 1, Depth - 1)
SetTop(p, n) == [calls EXCEPT ![Depth].phase = p, ![Depth].iters = n]

\* What none of the entry points below writes itself.
untouched == <<env, started, numThreads, current, nextTid, procExit, deadline>>

-----------------------------------------------------------------------------
(* Entering a call.  The callers are the idle host, the function of an     *)
(* outer call, and a worker's slice.                                       *)

\* wasmkernel_scheduler_reset_main_thread
ResetMain(st) == IF st[0] \in {"blocked_io", "blocked_wait"}
                 THEN [st EXCEPT ![0] = "ready"] ELSE st
NoTimer(un)   == [un EXCEPT ![0] = Never]

Enter(kind) ==
  /\ (Idle /\ booted) \/ InGuest \/ cur \notin {NoSlot, 0}
  /\ Depth < MaxDepth
  /\ calls' = Append(calls,
        [kind |-> kind, from |-> cur, saved |-> asyncifyOn,
         phase |-> "guest", iters |-> 0])
  /\ asyncifyOn' = CASE kind = "call"     -> asyncifyOn
                     [] kind = "simple"   -> FALSE
                     [] kind = "indirect" -> TRUE
  /\ state' = IF kind = "simple" THEN ResetMain(state) ELSE state
  /\ until' = IF kind = "simple" THEN NoTimer(until) ELSE until
  /\ frame' = [frame EXCEPT ![0] = "none"]
  /\ cur'   = NoSlot
  /\ ret'   = 0
  /\ UNCHANGED <<untouched, pending, now, unwound, waitAddr, booted>>

-----------------------------------------------------------------------------
(* The interpreter comes back to the entry point.                          *)

\* The main thread's slot and the asyncify flag after the call; an indirect
\* call leaves the slot EXITED, which hides it from kernel_step.
StateLeftRunning(st) == IF Top.kind = "simple" THEN ResetMain(st) ELSE st  \* a bug
StateLeft(st) ==
  CASE Top.kind = "call"     -> st
    [] Top.kind = "simple"   -> ResetMain(st)
    [] Top.kind = "indirect" -> [st EXCEPT ![0] = "exited"]
AsyncifyLeftOn ==  \* a bug: nobody switches it off
  IF Top.kind = "simple" THEN Top.saved ELSE asyncifyOn
AsyncifyLeft ==
  CASE Top.kind = "call"     -> asyncifyOn
    [] Top.kind = "simple"   -> Top.saved
    [] Top.kind = "indirect" -> FALSE

\* The call is over and control goes back to where it was made; st, un and
\* fr are what the call left in the main thread's slot.
Leave(st, un, fr) ==
  /\ calls' = Popped
  /\ cur'   = Top.from
  /\ ret'   = 0
  /\ state' = StateLeft(st)
  /\ until' = IF Top.kind = "call" THEN un ELSE NoTimer(un)
  /\ frame' = [frame EXCEPT ![0] = IF Top.kind = "simple" THEN "none" ELSE fr]
  /\ asyncifyOn' = AsyncifyLeft

\* The guest function was suspended.  Only the cooperative loop goes on with
\* it: kernel_call returns as if it had finished, and the simple call drops
\* the frame.
Suspended(st, un, fr) ==
  IF Top.kind # "indirect" THEN Leave(st, un, fr)
  ELSE /\ calls' = SetTop("step", MaxIters)
       /\ state' = st
       /\ until' = un
       /\ frame' = [frame EXCEPT ![0] = fr]
       /\ UNCHANGED <<cur, ret, asyncifyOn>>

\* Only with asyncify enabled does the main thread get an asyncify buffer.
Ways == IF asyncifyOn THEN {"yield", "asyncify"} ELSE {"yield"}
Mark(fr) == unwound' = IF fr = "asyncify" THEN [unwound EXCEPT ![0] = TRUE]
                       ELSE unwound

-----------------------------------------------------------------------------
(* What the function of a call does.                                       *)

\* It returns or traps.
CallReturns ==
  /\ InGuest
  /\ Leave(state, until, "none")
  /\ UNCHANGED <<untouched, pending, now, unwound, waitAddr, booted>>

\* It is out of fuel, or calls sched_yield.
CallYields ==
  /\ InGuest
  /\ \E fr \in Ways : Suspended(state, until, fr) /\ Mark(fr)
  /\ UNCHANGED <<untouched, pending, now, waitAddr, booted>>

CallWaits(a, d) ==
  /\ InGuest
  /\ d # Never => now + d <= MaxTime
  /\ BlockOnWait(Main, a)
  /\ \E fr \in Ways :
       /\ Suspended(StateAfterWait(Main, a), UntilAfterWait(Main, a, d), fr)
       /\ Mark(fr)
  /\ UNCHANGED <<untouched, now, booted>>

\* poll_oneoff on a clock blocks a cooperative call, and holds up the kernel
\* in any other.
CallSleeps(d) ==
  /\ InGuest
  /\ now + d <= MaxTime
  /\ \/ /\ asyncifyOn
        /\ Suspended([state EXCEPT ![0] = "blocked_io"],
                     [until EXCEPT ![0] = now + d], "yield")
        /\ UNCHANGED now
     \/ /\ ~asyncifyOn
        /\ now' = now + d
        /\ UNCHANGED <<state, until, frame, calls, cur, ret, asyncifyOn>>
  /\ UNCHANGED <<untouched, pending, unwound, waitAddr, booted>>

CallNotifies(a, n) ==
  /\ InGuest
  /\ WakeWaiters(a, n)
  /\ UNCHANGED <<untouched, now, unwound, frame, cur, ret, booted, asyncifyOn,
                 calls>>

CallSpawns ==
  /\ InGuest
  /\ RegisterThread
  /\ UNCHANGED <<booted, asyncifyOn, calls>>

CallExits ==
  /\ InGuest
  /\ procExit' = TRUE
  /\ Leave(state, until, "none")
  /\ UNCHANGED <<env, started, numThreads, current, nextTid, deadline, pending,
                 now, unwound, waitAddr, booted>>

-----------------------------------------------------------------------------
(* The cooperative loop of kernel_call_indirect.                           *)

StepWorkers == \/ NothingLive(TRUE)
               \/ WatchdogFires(TRUE)
               \/ Dispatch(TRUE)
               \/ Stuck(TRUE)

\* A worker's step ended the guest: the call fails and its frame is left.
LoopFails ==
  /\ InLoop("check")
  /\ ret < 0
  /\ Leave(state, until, frame[0])
  /\ UNCHANGED <<untouched, pending, now, unwound, waitAddr, booted>>

\* The main thread has been woken, no worker can run, or the loop has run
\* out of iterations: the frame is resumed.
Resume ==
  /\ InLoop("check")
  /\ ret >= 0
  /\ ret = 2 \/ state[0] # "blocked_wait" \/ Top.iters = 1
  /\ state'    = [state EXCEPT ![0] = "running"]
  /\ waitAddr' = IF state[0] = "blocked_wait"
                 THEN [waitAddr EXCEPT ![0] = NoAddr] ELSE waitAddr
  /\ until'    = NoTimer(until)
  /\ frame'    = [frame EXCEPT ![0] = "none"]
  /\ calls'    = SetTop("guest", 0)
  /\ ret'      = 0
  /\ UNCHANGED <<untouched, pending, now, unwound, cur, booted, asyncifyOn>>

ItersKept == Top.iters  \* a bug: the iterations are not counted
ItersLeft == Top.iters - 1

LoopAgain ==
  /\ InLoop("check")
  /\ ret \in {0, 1}
  /\ state[0] = "blocked_wait"
  /\ Top.iters > 1
  /\ calls' = SetTop("step", ItersLeft)
  /\ ret'   = 0
  /\ UNCHANGED <<untouched, pending, now, state, until, unwound, frame,
                 waitAddr, cur, booted, asyncifyOn>>

\* A scheduler action that ends a step of the loop hands over to the check.
StepOver ==
  calls' = IF calls # <<>> /\ Top.phase = "step" /\ cur' = NoSlot
           THEN SetTop("check", Top.iters) ELSE calls

-----------------------------------------------------------------------------
(* The whole kernel.                                                       *)

KInit == Init /\ booted = FALSE /\ asyncifyOn = FALSE /\ calls = <<>>

\* A thread that was terminated while its slice was suspended in a call can
\* only unwind: the TERMINATE flag makes the interpreter return.
SliceGoesOn ==
  /\ cur # NoSlot
  /\ \/ state[cur] = "running" /\ (EndsSlice \/ InSlice)
     \/ state[cur] # "running" /\ (WorkerReturns \/ MainReturns)

HostSteps == Idle /\ (KernelStep \/ Stuck(FALSE))

SchedulerMoves ==
  /\ \/ HostSteps
     \/ InLoop("step") /\ StepWorkers
     \/ SliceGoesOn
  /\ StepOver
  /\ booted' = (booted \/ (calls = <<>> /\ cur' = NoSlot /\ ret' # 0))
  /\ UNCHANGED asyncifyOn

Environment ==
  /\ \/ Tick
     \/ Idle /\ \E d \in Budgets \cup {0} : SetWatchdog(d)
  /\ UNCHANGED <<booted, asyncifyOn, calls>>

CallMoves ==
  \/ CallReturns \/ CallYields \/ CallSpawns \/ CallExits
  \/ \E a \in Addrs, d \in Delays \cup {Never} : CallWaits(a, d)
  \/ \E d \in Delays : CallSleeps(d)
  \/ \E a \in Addrs, n \in Counts : CallNotifies(a, n)

LoopMoves == LoopFails \/ Resume \/ LoopAgain

KNext == \/ SchedulerMoves
         \/ \E k \in Kinds : Enter(k)
         \/ CallMoves
         \/ LoopMoves
         \/ Environment

KSpec == KInit /\ [][KNext]_kvars

\* The cooperative loop is a C loop: it goes on as long as it can, and the
\* slices it starts end because their fuel does.
KFairness == /\ WF_kvars(InLoop("step") /\ SchedulerMoves)
             /\ WF_kvars(LoopMoves)
             /\ WF_kvars(cur # NoSlot /\ SchedulerMoves /\ cur' = NoSlot)

FairKSpec == KSpec /\ KFairness

-----------------------------------------------------------------------------
(* Properties.                                                             *)

\* Only slices and calls that are in progress run guest code: a RUNNING slot
\* is the one whose slice executes, one whose slice waits for a nested call,
\* or the main thread's during an indirect call.
RunnersInProgress ==
  \A s \in Slots : state[s] = "running" =>
    \/ s = cur
    \/ \E i \in 1 .. Depth : calls[i].from = s
    \/ s = 0 /\ \E i \in 1 .. Depth : calls[i].kind = "indirect"

\* asyncify is never left enabled for the main thread after the outermost
\* call: kernel_step resumes the main thread by its YIELD flag only, and its
\* sleeps have to be synchronous again.
AsyncifyOffWhenIdle == calls = <<>> => ~asyncifyOn

\* A thread that a call's function waits for can always be found: the main
\* exec_env keeps slot 0 while the host goes on calling the guest after its
\* main thread has exited (scheduler.c:89-98), and each thread keeps a slot
\* of its own.
CallerHasSlot ==
  /\ SlotsOwned
  /\ InGuest => SlotOf(Main) = 0
  /\ cur # NoSlot /\ state[cur] = "running" => SlotOf(env[cur]) = cur

\* The frame of a suspended call is always picked up again, or given up with
\* the call: no worker can hold the cooperative loop for ever.
CallResumes == (calls # <<>> /\ Top.phase # "guest" /\ cur = NoSlot)
                 ~> (calls = <<>> \/ Top.phase = "guest")

\* A worker is rewound only if its last yield used asyncify_start_unwind
\* ("true if last yield used asyncify_start_unwind", scheduler.h:58).
RewindsOnlyUnwound ==
  \A s \in Live \ {0} :
    state[s] # "running" /\ started[s] /\ unwound[s] => frame[s] = "asyncify"
=============================================================================
