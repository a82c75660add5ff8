--------------------------- MODULE KernelCallsProofs ---------------------------
(***************************************************************************)
(* Proofs about KernelCalls for every size of the slot table, every        *)
(* nesting depth and every set of entry points the host uses.              *)
(*                                                                         *)
(* What SchedulerProofs says of the scheduler alone is not available here: *)
(* a call may kill the thread whose slice made it, or leave two slots      *)
(* RUNNING.  The properties are inductive together with two facts about    *)
(* the stack of calls: only the cooperative loop of kernel_call_indirect   *)
(* suspends a call (LoopsIndirect), and asyncify is on, or is remembered   *)
(* to have been on, only below such a call (AsyncifyKnown).                *)
(***************************************************************************)
EXTENDS KernelCalls, SchedulerProofs

Call == [kind : {"call", "simple", "indirect"}, from : (Slots \ {0}) \cup {NoSlot},
         saved : BOOLEAN, phase : {"guest", "step", "check"}, iters : Nat]

CurUsed == cur \in Used \cup {NoSlot}

KTyped == /\ TypeOK
          /\ booted \in BOOLEAN /\ asyncifyOn \in BOOLEAN
          /\ calls \in Seq(Call)

\* Only an indirect call is suspended while workers run.
LoopsIndirect ==
  \A i \in 1 .. Depth : calls[i].phase # "guest" => calls[i].kind = "indirect"

\* asyncify is enabled by an indirect call in progress, and what a call saved
\* was enabled by one it is nested in.
AsyncifyKnown ==
  /\ asyncifyOn => \E i \in 1 .. Depth : calls[i].kind = "indirect"
  /\ \A i \in 1 .. Depth : calls[i].saved =>
       \E j \in 1 .. Depth : j < i /\ calls[j].kind = "indirect"

\* The slices in progress are those of slots in use.
SlicesUsed == \A i \in 1 .. Depth : calls[i].from \in Used \cup {NoSlot}

\* The inductive invariant.
KIInv == /\ KTyped
         /\ SlotsOwned /\ CurUsed
         /\ RunnersInProgress
         /\ SlicesUsed
         /\ LoopsIndirect
         /\ AsyncifyKnown

USE SchedulerAssumption DEF SchedulerAssumption
USE DEF Slots, Used, Live, Dead, NoSlot, NoEnv, Never, Main, Frames, ThreadStates,
        Tids, At, table

\* What holds of the slot table whoever runs.
Base == TypeOK /\ SlotsOwned /\ CurUsed

\* A step of the scheduler makes nobody RUNNING but the thread it runs, and
\* the thread whose slice it ends is RUNNING no longer.
RunnersFrom ==
  \A s \in Slots : state'[s] = "running" =>
    s = cur' \/ (s # cur /\ state[s] = "running")

\* Slots in use stay in use.
Goal == Base' /\ RunnersFrom /\ numThreads <= numThreads'

-----------------------------------------------------------------------------
(* The actions of the scheduler.                                           *)

LEMMA NothingLiveBase ==
  ASSUME Base, NEW skip \in BOOLEAN, NothingLive(skip)
  PROVE  Goal
<1> USE DEF Base, NothingLive, Report
<1>1. TypeOK'
  BY DEF TypeOK
<1>2. SlotsOwned'
  BY DEF TypeOK, SlotsOwned, CurUsed
<1>3. RunnersFrom
  BY DEF TypeOK, RunnersFrom, SlotsOwned
<1>4. CurUsed' /\ numThreads <= numThreads'
  BY DEF TypeOK, CurUsed
<1> QED
  BY <1>1, <1>2, <1>3, <1>4 DEF Goal

LEMMA WatchdogFiresBase ==
  ASSUME Base, NEW skip \in BOOLEAN, WatchdogFires(skip)
  PROVE  Goal
<1> USE DEF Base, WatchdogFires, Report, KillAll
<1>1. TypeOK'
  BY DEF TypeOK
<1>2. SlotsOwned'
  BY DEF TypeOK, SlotsOwned, CurUsed
<1>3. RunnersFrom
  BY DEF TypeOK, RunnersFrom, SlotsOwned
<1>4. CurUsed' /\ numThreads <= numThreads'
  BY DEF TypeOK, CurUsed
<1> QED
  BY <1>1, <1>2, <1>3, <1>4 DEF Goal

LEMMA StuckBase ==
  ASSUME Base, NEW skip \in BOOLEAN, Stuck(skip)
  PROVE  Goal
<1> USE DEF Base, Stuck, Report, Polled, Expired, IoDone
<1>1. TypeOK'
  BY DEF TypeOK
<1>2. SlotsOwned'
  BY DEF TypeOK, SlotsOwned, CurUsed
<1>3. RunnersFrom
  BY DEF TypeOK, RunnersFrom, SlotsOwned
<1>4. CurUsed' /\ numThreads <= numThreads'
  BY DEF TypeOK, CurUsed
<1> QED
  BY <1>1, <1>2, <1>3, <1>4 DEF Goal

LEMMA FuelOutBase ==
  ASSUME Base, FuelOut
  PROVE  Goal
<1> USE DEF Base, FuelOut, Yield, ReturnFromStep, KillAll
<1>1. TypeOK'
  BY DEF TypeOK
<1>2. SlotsOwned'
  BY DEF TypeOK, SlotsOwned, CurUsed
<1>3. RunnersFrom
  BY DEF TypeOK, RunnersFrom, SlotsOwned
<1>4. CurUsed' /\ numThreads <= numThreads'
  BY DEF TypeOK, CurUsed
<1> QED
  BY <1>1, <1>2, <1>3, <1>4 DEF Goal

LEMMA SchedYieldBase ==
  ASSUME Base, SchedYield
  PROVE  Goal
<1> USE DEF Base, SchedYield, Yield, ReturnFromStep, KillAll
<1>1. TypeOK'
  BY DEF TypeOK
<1>2. SlotsOwned'
  BY DEF TypeOK, SlotsOwned, CurUsed
<1>3. RunnersFrom
  BY DEF TypeOK, RunnersFrom, SlotsOwned
<1>4. CurUsed' /\ numThreads <= numThreads'
  BY DEF TypeOK, CurUsed
<1> QED
  BY <1>1, <1>2, <1>3, <1>4 DEF Goal

LEMMA WorkerReturnsBase ==
  ASSUME Base, WorkerReturns
  PROVE  Goal
<1> USE DEF Base, WorkerReturns, ReturnFromStep, KillAll
<1>1. TypeOK'
  BY DEF TypeOK
<1>2. SlotsOwned'
  BY DEF TypeOK, SlotsOwned, CurUsed
<1>3. RunnersFrom
  BY DEF TypeOK, RunnersFrom, SlotsOwned
<1>4. CurUsed' /\ numThreads <= numThreads'
  BY DEF TypeOK, CurUsed
<1> QED
  BY <1>1, <1>2, <1>3, <1>4 DEF Goal

LEMMA MainReturnsBase ==
  ASSUME Base, MainReturns
  PROVE  Goal
<1> USE DEF Base, MainReturns, ReturnFromStep, KillAll
<1>1. TypeOK'
  BY DEF TypeOK
<1>2. SlotsOwned'
  BY DEF TypeOK, SlotsOwned, CurUsed
<1>3. RunnersFrom
  BY DEF TypeOK, RunnersFrom, SlotsOwned
<1>4. CurUsed' /\ numThreads <= numThreads'
  BY DEF TypeOK, CurUsed
<1> QED
  BY <1>1, <1>2, <1>3, <1>4 DEF Goal

LEMMA TrapBase ==
  ASSUME Base, Trap
  PROVE  Goal
<1> USE DEF Base, Trap, ReturnFromStep, KillAll
<1>1. TypeOK'
  BY DEF TypeOK
<1>2. SlotsOwned'
  BY DEF TypeOK, SlotsOwned, CurUsed
<1>3. RunnersFrom
  BY DEF TypeOK, RunnersFrom, SlotsOwned
<1>4. CurUsed' /\ numThreads <= numThreads'
  BY DEF TypeOK, CurUsed
<1> QED
  BY <1>1, <1>2, <1>3, <1>4 DEF Goal

LEMMA ProcExitBase ==
  ASSUME Base, ProcExit
  PROVE  Goal
<1> USE DEF Base, ProcExit, KillAll
<1>1. TypeOK'
  BY DEF TypeOK
<1>2. SlotsOwned'
  BY DEF TypeOK, SlotsOwned, CurUsed
<1>3. RunnersFrom
  BY DEF TypeOK, RunnersFrom, SlotsOwned
<1>4. CurUsed' /\ numThreads <= numThreads'
  BY DEF TypeOK, CurUsed
<1> QED
  BY <1>1, <1>2, <1>3, <1>4 DEF Goal

LEMMA MainSleepsBase ==
  ASSUME Base, NEW d \in Delays, MainSleeps(d)
  PROVE  Goal
<1> USE DEF Base, MainSleeps
<1>1. TypeOK'
  BY DEF TypeOK
<1>2. SlotsOwned'
  BY DEF TypeOK, SlotsOwned, CurUsed
<1>3. RunnersFrom
  BY DEF TypeOK, RunnersFrom, SlotsOwned
<1>4. CurUsed' /\ numThreads <= numThreads'
  BY DEF TypeOK, CurUsed
<1> QED
  BY <1>1, <1>2, <1>3, <1>4 DEF Goal

LEMMA NotifyBase ==
  ASSUME Base, NEW a \in Addrs, NEW n \in Counts, Notify(a, n)
  PROVE  Goal
<1> USE DEF Base, Notify, WakeWaiters, WaitersOf, IsFirstOf
<1>1. TypeOK'
  BY DEF TypeOK
<1>2. SlotsOwned'
  BY DEF TypeOK, SlotsOwned, CurUsed
<1>3. RunnersFrom
  BY DEF TypeOK, RunnersFrom, SlotsOwned
<1>4. CurUsed' /\ numThreads <= numThreads'
  BY DEF TypeOK, CurUsed
<1> QED
  BY <1>1, <1>2, <1>3, <1>4 DEF Goal

\* The thread s is run, after the threads of W were woken.
LEMMA RunBase ==
  ASSUME Base, cur = NoSlot,
         NEW s \in Used, NEW W \in SUBSET Used,
         \A r \in W : state[r] = "blocked_wait",
         At(Polled, W, "ready")[s] = "ready",
         Run(s, Polled, W)
  PROVE  Goal
<1> USE DEF Base, Run, Polled, Expired, IoDone
<1>1. TypeOK'
  <2>1. state' \in [Slots -> ThreadStates]
    BY DEF TypeOK, Polled
  <2>2. /\ waitAddr' \in [Slots -> Addrs \cup {NoAddr}]
        /\ until' \in [Slots -> Nat \cup {Never}]
    BY DEF TypeOK
  <2>3. /\ started' \in [Slots -> BOOLEAN]
        /\ unwound' \in [Slots -> BOOLEAN]
        /\ frame' \in [Slots -> Frames]
    BY DEF TypeOK
  <2>4. current' \in 0 .. numThreads' - 1 /\ cur' \in Slots
    BY AfterType DEF TypeOK
  <2> QED
    BY <2>1, <2>2, <2>3, <2>4 DEF TypeOK
<1>2. SlotsOwned'
  BY DEF TypeOK, SlotsOwned
<1>3. RunnersFrom
  BY DEF TypeOK, RunnersFrom
<1>4. CurUsed' /\ numThreads <= numThreads'
  BY DEF TypeOK, CurUsed
<1> QED
  BY <1>1, <1>2, <1>3, <1>4 DEF Goal

LEMMA DispatchBase ==
  ASSUME Base, NEW skip \in BOOLEAN, Dispatch(skip)
  PROVE  Goal
<1>1. cur = NoSlot
  BY DEF Dispatch
<1>2. ASSUME NEW s \in Used, IsNext(Polled, skip, s), Run(s, Polled, {})
      PROVE  Goal
  <2>1. At(Polled, {}, "ready")[s] = "ready"
    BY <1>2 DEF IsNext, Candidates, Base, TypeOK
  <2>2. {} \in SUBSET Used /\ \A r \in {} : state[r] = "blocked_wait"
    OBVIOUS
  <2> HIDE DEF Used, At
  <2> QED
    BY <1>1, <1>2, <2>1, <2>2, RunBase
<1>3. ASSUME NEW s \in Used, IsNext(At(Polled, Stalled(skip), "ready"), skip, s),
             Run(s, Polled, Stalled(skip))
      PROVE  Goal
  <2>1. At(Polled, Stalled(skip), "ready")[s] = "ready"
    BY <1>3 DEF IsNext, Candidates
  <2>2. \A r \in Stalled(skip) : state[r] = "blocked_wait"
    BY DEF Stalled, Polled, Base, TypeOK
  <2>3. Stalled(skip) \in SUBSET Used
    BY DEF Stalled
  <2> QED
    BY <1>1, <1>3, <2>1, <2>2, <2>3, RunBase
<1> QED
  BY <1>2, <1>3 DEF Dispatch

\* A wait changes the notify table, and the slot it blocks.
LEMMA BlockingTables ==
  ASSUME Base, NEW e, NEW a \in Addrs, BlockOnWait(e, a)
  PROVE  /\ pending' \in Seq(Addrs) /\ Len(pending') <= MaxPending
         /\ waitAddr' \in [Slots -> Addrs \cup {NoAddr}]
<1>1. pending' \in Seq(Addrs) /\ Len(pending') <= MaxPending
  BY ConsumeIs, LenProperties DEF BlockOnWait, Base, TypeOK
<1>2. waitAddr' \in [Slots -> Addrs \cup {NoAddr}]
  BY DEF BlockOnWait, Base, TypeOK
<1> QED
  BY <1>1, <1>2

LEMMA BlockingUntil ==
  ASSUME Base, NEW e, NEW a \in Addrs, NEW d \in Delays \cup {Never}
  PROVE  UntilAfterWait(e, a, d) \in [Slots -> Nat \cup {Never}]
<1>1. until \in [Slots -> Nat \cup {Never}] /\ now \in Nat
  BY DEF Base, TypeOK
<1>2. d # Never => now + d \in Nat
  BY <1>1
<1> QED
  BY <1>1, <1>2 DEF UntilAfterWait

\* Some threads become blocked, no others change.
Blocked(st) ==
  /\ st \in [Slots -> ThreadStates]
  /\ \A s \in Slots : st[s] # state[s] =>
       /\ s \in Used /\ env[s] # NoEnv
       /\ st[s] \in {"blocked_wait", "blocked_io"}

LEMMA WaitBlocks ==
  ASSUME Base, NEW e \in Tids, NEW a \in Addrs
  PROVE  Blocked(StateAfterWait(e, a))
<1>1. state \in [Slots -> ThreadStates] /\ numThreads \in 1 .. MaxThreads
  BY DEF Base, TypeOK
<1>2. CASE Blocks(e, a)
  <2>1. Holding(e) \in SUBSET Nat /\ Holding(e) # {}
    BY <1>1, <1>2 DEF Holding, Blocks
  <2>2. SlotOf(e) \in Holding(e)
    BY <2>1, LeastOf DEF SlotOf
  <2>3. SlotOf(e) \in Used /\ env[SlotOf(e)] # NoEnv
    BY <2>2 DEF Holding
  <2> QED
    BY <1>1, <1>2, <2>3 DEF StateAfterWait, Blocked
<1>3. CASE ~Blocks(e, a)
  BY <1>1, <1>3 DEF StateAfterWait, Blocked
<1> QED
  BY <1>2, <1>3

\* A slice ends with its thread blocked or ready.
LEMMA YieldTable ==
  ASSUME Base, cur # NoSlot, NEW st, Blocked(st), NEW how \in Frames, Yield(st, how)
  PROVE  /\ state' \in [Slots -> ThreadStates] /\ frame' \in [Slots -> Frames]
         /\ ret' \in {0, -2} /\ cur' = NoSlot
         /\ \A s \in Slots : /\ state'[s] = "unused" <=> state[s] = "unused"
                             /\ state'[s] \notin Dead =>
                                  state[s] \notin Dead \/ env[s] # NoEnv
         /\ RunnersFrom
<1>1. /\ state \in [Slots -> ThreadStates] /\ numThreads \in 1 .. MaxThreads
      /\ frame \in [Slots -> Frames] /\ cur \in Used
      /\ \A s \in Slots : state[s] = "unused" <=> s \notin Used
  BY DEF Base, TypeOK, SlotsOwned, CurUsed
<1>2. frame' \in [Slots -> Frames] /\ ret' \in {0, -2} /\ cur' = NoSlot
  BY <1>1 DEF Yield, ReturnFromStep
<1> DEFINE yielded == IF st[cur] = "running" THEN At(st, {cur}, "ready") ELSE st
<1>3. /\ yielded \in [Slots -> ThreadStates] /\ yielded[cur] # "running"
      /\ \A s \in Slots : /\ yielded[s] = "unused" <=> state[s] = "unused"
                          /\ yielded[s] \notin Dead => state[s] \notin Dead \/ env[s] # NoEnv
                          /\ yielded[s] = "running" => s # cur /\ state[s] = "running"
  BY <1>1 DEF Blocked
<1>4. state' = IF procExit THEN KillAll(yielded) ELSE yielded
  BY DEF Yield, ReturnFromStep
<1> HIDE DEF yielded
<1>5. state' \in [Slots -> ThreadStates]
  BY <1>1, <1>3, <1>4 DEF KillAll
<1>6. \A s \in Slots : /\ state'[s] = "unused" <=> state[s] = "unused"
                       /\ state'[s] \notin Dead =>
                            state[s] \notin Dead \/ env[s] # NoEnv
                       /\ state'[s] = "running" => s # cur /\ state[s] = "running"
  BY <1>1, <1>3, <1>4 DEF KillAll
<1> QED
  BY <1>2, <1>5, <1>6 DEF RunnersFrom

LEMMA StatesKept ==
  ASSUME Base, UNCHANGED <<env, numThreads, nextTid>>,
         \A s \in Slots : /\ state'[s] = "unused" <=> state[s] = "unused"
                          /\ state'[s] \notin Dead =>
                               state[s] \notin Dead \/ env[s] # NoEnv
  PROVE  SlotsOwned'
  BY DEF Base, TypeOK, SlotsOwned

LEMMA WaitBase ==
  ASSUME Base, cur # NoSlot, state[cur] = "running",
         NEW a \in Addrs, NEW d \in Delays \cup {Never}, Wait(a, d)
  PROVE  Goal
<1>1. Me \in Tids
  BY DEF Me, Base, TypeOK, SlotsOwned, CurUsed
<1>2. /\ Yield(StateAfterWait(Me, a), "yield") /\ BlockOnWait(Me, a)
      /\ until' = UntilAfterWait(Me, a, d)
      /\ UNCHANGED <<env, started, unwound, numThreads, current, nextTid, procExit,
                     deadline, now>>
  BY DEF Wait
<1>3. /\ state' \in [Slots -> ThreadStates] /\ frame' \in [Slots -> Frames]
      /\ ret' \in {0, -2} /\ cur' = NoSlot
      /\ \A s \in Slots : /\ state'[s] = "unused" <=> state[s] = "unused"
                          /\ state'[s] \notin Dead =>
                               state[s] \notin Dead \/ env[s] # NoEnv
      /\ RunnersFrom
  BY <1>1, <1>2, WaitBlocks, YieldTable DEF Frames
<1>4. TypeOK'
  BY <1>2, <1>3, BlockingTables, BlockingUntil DEF Base, TypeOK
<1>5. SlotsOwned'
  BY <1>2, <1>3, StatesKept
<1> QED
  BY <1>2, <1>3, <1>4, <1>5 DEF Goal, Base, TypeOK, CurUsed

LEMMA SleepBase ==
  ASSUME Base, cur # NoSlot, state[cur] = "running", NEW d \in Delays, Sleep(d)
  PROVE  Goal
<1>1. cur \in Used /\ env[cur] # NoEnv
  BY DEF Base, TypeOK, SlotsOwned, CurUsed
<1>2. /\ Yield(At(state, {cur}, "blocked_io"), "yield")
      /\ until' = At(until, {cur}, now + d)
      /\ UNCHANGED <<env, started, unwound, waitAddr, numThreads, current, nextTid,
                     pending, procExit, deadline, now>>
  BY DEF Sleep
<1>3. Blocked(At(state, {cur}, "blocked_io"))
  BY <1>1 DEF Base, TypeOK, Blocked
<1>4. /\ state' \in [Slots -> ThreadStates] /\ frame' \in [Slots -> Frames]
      /\ ret' \in {0, -2} /\ cur' = NoSlot
      /\ \A s \in Slots : /\ state'[s] = "unused" <=> state[s] = "unused"
                          /\ state'[s] \notin Dead =>
                               state[s] \notin Dead \/ env[s] # NoEnv
      /\ RunnersFrom
  BY <1>2, <1>3, YieldTable DEF Frames
<1>5. until' \in [Slots -> Nat \cup {Never}]
  BY <1>2 DEF Base, TypeOK
<1>6. TypeOK'
  BY <1>2, <1>4, <1>5 DEF Base, TypeOK
<1>7. SlotsOwned'
  BY <1>2, <1>4, StatesKept
<1> QED
  BY <1>2, <1>4, <1>6, <1>7 DEF Goal, Base, TypeOK, CurUsed

\* register_thread, by whoever runs.
LEMMA RegisterBase ==
  ASSUME Base, RegisterThread
  PROVE  Goal
<1>1. CASE TableFull
  <2>1. UNCHANGED vars
    BY <1>1 DEF RegisterThread, vars
  <2> QED
    BY <2>1 DEF vars, Goal, Base, TypeOK, SlotsOwned, CurUsed, RunnersFrom
<1>2. CASE ~TableFull
  <2> DEFINE n == NewSlot
  <2>1. /\ n \in Slots \ {0} /\ n <= numThreads
        /\ n \in Used => state[n] \in Dead
    <3>1. CASE Reclaimable # {}
      <4>1. Reclaimable \in SUBSET Nat
        BY DEF Reclaimable, Base, TypeOK
      <4>2. NewSlot \in Reclaimable
        BY <3>1, <4>1, LeastOf DEF NewSlot
      <4> QED
        BY <4>2 DEF Reclaimable, Base, TypeOK
    <3>2. CASE Reclaimable = {}
      BY <1>2, <3>2 DEF NewSlot, TableFull, Base, TypeOK
    <3> QED
      BY <3>1, <3>2
  <2> HIDE DEF n
  <2>2. /\ nextTid <= MaxTid
        /\ state'      = At(state, {n}, "ready")
        /\ env'        = At(env, {n}, nextTid)
        /\ started'    = At(started, {n}, FALSE)
        /\ frame'      = At(frame, {n}, "none")
        /\ waitAddr'   = At(waitAddr, {n}, NoAddr)
        /\ until'      = At(until, {n}, Never)
        /\ numThreads' = IF n = numThreads THEN numThreads + 1 ELSE numThreads
        /\ nextTid'    = nextTid + 1
        /\ UNCHANGED <<unwound, current, pending, procExit, deadline, cur, ret, now>>
    BY <1>2 DEF RegisterThread, n
  <2>3. TypeOK'
    <3>1. state' \in [Slots -> ThreadStates] /\ env' \in [Slots -> Tids \cup {NoEnv}]
      BY <2>1, <2>2 DEF Base, TypeOK
    <3>2. /\ started' \in [Slots -> BOOLEAN]
          /\ frame' \in [Slots -> Frames]
          /\ waitAddr' \in [Slots -> Addrs \cup {NoAddr}]
          /\ until' \in [Slots -> Nat \cup {Never}]
      BY <2>1, <2>2 DEF Base, TypeOK
    <3>3. /\ numThreads' \in 1 .. MaxThreads
          /\ current' \in 0 .. numThreads' - 1
          /\ nextTid' \in 1 .. MaxTid + 1
      BY <2>1, <2>2 DEF Base, TypeOK
    <3> QED
      BY <2>2, <3>1, <3>2, <3>3 DEF Base, TypeOK
  <2>4. SlotsOwned'
    <3>1. /\ n \in Slots \ {0} /\ n <= numThreads /\ numThreads \in Nat
          /\ \A s \in Slots : /\ env'[s] = IF s = n THEN nextTid ELSE env[s]
                              /\ state'[s] = IF s = n THEN "ready" ELSE state[s]
          /\ nextTid' = nextTid + 1 /\ nextTid \in Nat \ {0}
          /\ numThreads' = IF n = numThreads THEN numThreads + 1 ELSE numThreads
          /\ \A s : s \in Used' <=> s \in Used \/ s = n
      BY <2>1, <2>2 DEF Base, TypeOK
    <3>2. Used \subseteq Slots /\ Used' \subseteq Slots /\ \A s \in Slots : env[s] \in Int
      BY <2>1, <2>2 DEF Base, TypeOK
    <3>3. /\ env[0] = Main
          /\ \A s \in Used : state[s] \notin Dead => env[s] # NoEnv
          /\ \A s, r \in Used : env[s] = env[r] /\ env[s] # NoEnv => s = r
          /\ \A s \in Used : env[s] < nextTid
          /\ \A s \in Slots : state[s] = "unused" <=> s \notin Used
      BY DEF Base, SlotsOwned
    <3> HIDE DEF Used, Slots
    <3>4. env'[0] = Main
      BY <3>1, <3>3, <2>1 DEF Slots
    <3>5. \A s \in Used' : state'[s] \notin Dead => env'[s] # NoEnv
      BY <3>1, <3>2, <3>3
    <3>6. \A s, r \in Used' : env'[s] = env'[r] /\ env'[s] # NoEnv => s = r
      BY <3>1, <3>2, <3>3
    <3>7. \A s \in Used' : env'[s] < nextTid'
      BY <3>1, <3>2, <3>3
    <3>8. \A s \in Slots : state'[s] = "unused" <=> s \notin Used'
      BY <3>1, <3>2, <3>3
    <3> QED
      BY <3>4, <3>5, <3>6, <3>7, <3>8 DEF SlotsOwned, Slots
  <2>5. RunnersFrom
    BY <2>1, <2>2 DEF Base, TypeOK, RunnersFrom, SlotsOwned
  <2>6. CurUsed' /\ numThreads <= numThreads'
    BY <2>1, <2>2 DEF Base, TypeOK, CurUsed
  <2> QED
    BY <2>3, <2>4, <2>5, <2>6 DEF Goal, Base
<1> QED
  BY <1>1, <1>2

LEMMA SetWatchdogBase ==
  ASSUME Base, NEW d \in Budgets \cup {0}, SetWatchdog(d)
  PROVE  Base'
<1> USE DEF Base, SetWatchdog
<1>1. TypeOK'
  BY DEF TypeOK
<1>2. SlotsOwned'
  BY DEF SlotsOwned
<1> QED
  BY <1>1, <1>2 DEF CurUsed

LEMMA TickBase ==
  ASSUME Base, Tick
  PROVE  Base'
<1> USE DEF Base, Tick
<1>1. TypeOK'
  BY DEF TypeOK
<1>2. SlotsOwned'
  BY DEF SlotsOwned
<1> QED
  BY <1>1, <1>2 DEF CurUsed

-----------------------------------------------------------------------------
(* The stack of calls.                                                     *)

LEMMA PushIs ==
  ASSUME NEW T, NEW q \in Seq(T), NEW c \in T
  PROVE  /\ Append(q, c) \in Seq(T)
         /\ Len(Append(q, c)) = Len(q) + 1
         /\ \A i \in 1 .. Len(q) : Append(q, c)[i] = q[i]
         /\ Append(q, c)[Len(q) + 1] = c
  BY AppendProperties

LEMMA PopIs ==
  ASSUME NEW T, NEW q \in Seq(T), q # <<>>
  PROVE  /\ Len(q) \in Nat \ {0}
         /\ q[Len(q)] \in T
         /\ SubSeq(q, 1, Len(q) - 1) \in Seq(T)
         /\ Len(SubSeq(q, 1, Len(q) - 1)) = Len(q) - 1
         /\ \A i \in 1 .. Len(q) - 1 : SubSeq(q, 1, Len(q) - 1)[i] = q[i]
<1>1. Len(q) \in Nat \ {0}
  BY EmptySeq, LenProperties
<1>2. q[Len(q)] \in T
  BY <1>1, ElementOfSeq
<1>3. \A i \in 1 .. Len(q) - 1 : q[i] \in T
  BY <1>1, ElementOfSeq
<1> DEFINE m == Len(q) - 1
           w == SubSeq(q, 1, m)
<1>4. m \in Nat /\ m = Len(q) - 1 /\ \A i \in 1 .. m : q[i] \in T
  BY <1>1, <1>3
<1> HIDE DEF m
<1>5. /\ w \in Seq(T)
      /\ Len(w) = IF 1 <= m THEN m - 1 + 1 ELSE 0
      /\ \A i \in 1 .. m - 1 + 1 : w[i] = q[1 + i - 1]
  BY <1>4, SubSeqProperties
<1> HIDE DEF w
<1>6. /\ w \in Seq(T) /\ Len(w) = Len(q) - 1
      /\ \A i \in 1 .. Len(q) - 1 : w[i] = q[i]
  BY <1>1, <1>4, <1>5
<1> QED
  BY <1>1, <1>2, <1>6 DEF w, m

LEMMA SetTopIs ==
  ASSUME calls \in Seq(Call), calls # <<>>,
         NEW p \in {"guest", "step", "check"}, NEW n \in Nat,
         calls' = SetTop(p, n)
  PROVE  /\ calls' \in Seq(Call)
         /\ Len(calls') = Len(calls)
         /\ \A i \in 1 .. Len(calls) :
              /\ calls'[i].kind = calls[i].kind /\ calls'[i].from = calls[i].from
              /\ calls'[i].saved = calls[i].saved
              /\ calls'[i].phase = IF i = Len(calls) THEN p ELSE calls[i].phase
<1>1. Len(calls) \in 1 .. Len(calls) /\ calls[Len(calls)] \in Call
  BY PopIs
<1> DEFINE c == calls[Len(calls)]
           v == [c EXCEPT !.phase = p]
           u == [v EXCEPT !.iters = n]
<1>2. calls' = [calls EXCEPT ![Len(calls)] = u]
  <2>1. calls' = [calls EXCEPT ![Len(calls)] = [calls[Len(calls)] EXCEPT !.phase = p, !.iters = n]]
    BY Zenon DEF SetTop, Depth
  <2>2. [calls[Len(calls)] EXCEPT !.phase = p, !.iters = n]
          = [[calls[Len(calls)] EXCEPT !.phase = p] EXCEPT !.iters = n]
    OBVIOUS
  <2>3. [calls[Len(calls)] EXCEPT !.phase = p, !.iters = n] = u
    BY <2>2
  <2> HIDE DEF u
  <2> DEFINE w == [calls[Len(calls)] EXCEPT !.phase = p, !.iters = n]
  <2>4. calls' = [calls EXCEPT ![Len(calls)] = w]
    BY <2>1, Zenon
  <2>5. w = u
    BY <2>3
  <2> HIDE DEF w
  <2> QED
    BY <2>4, <2>5
<1>3. c \in Call /\ v = [c EXCEPT !.phase = p] /\ u = [v EXCEPT !.iters = n]
  BY <1>1
<1> HIDE DEF u, v, c
<1>4. /\ u \in Call
      /\ u.kind = c.kind /\ u.from = c.from /\ u.saved = c.saved /\ u.phase = p
  <2>1. /\ v \in Call
        /\ v = [kind |-> c.kind, from |-> c.from, saved |-> c.saved,
                phase |-> p, iters |-> c.iters]
    BY <1>3 DEF Call
  <2>2. v.kind = c.kind /\ v.from = c.from /\ v.saved = c.saved /\ v.phase = p
    BY <2>1
  <2>3. /\ u \in Call
        /\ u = [kind |-> v.kind, from |-> v.from, saved |-> v.saved,
                phase |-> v.phase, iters |-> n]
    BY <1>3, <2>1 DEF Call
  <2> QED
    BY <2>2, <2>3
<1>5. /\ [calls EXCEPT ![Len(calls)] = u] \in Seq(Call)
      /\ Len([calls EXCEPT ![Len(calls)] = u]) = Len(calls)
      /\ \A j \in 1 .. Len(calls) :
           [calls EXCEPT ![Len(calls)] = u][j] = IF j = Len(calls) THEN u ELSE calls[j]
  BY <1>1, <1>4, ExceptSeq
<1>6. /\ calls' \in Seq(Call)
      /\ Len(calls') = Len(calls)
      /\ \A j \in 1 .. Len(calls) : calls'[j] = IF j = Len(calls) THEN u ELSE calls[j]
  BY <1>2, <1>5, Zenon
<1> QED
  BY <1>4, <1>6 DEF c

-----------------------------------------------------------------------------
(* What the entry points preserve.                                         *)

\* The stack keeps its calls; at most the phase and the counter of one change.
SameCalls ==
  /\ calls' \in Seq(Call) /\ Depth' = Depth
  /\ \A i \in 1 .. Depth :
       /\ calls'[i].kind = calls[i].kind /\ calls'[i].from = calls[i].from
       /\ calls'[i].saved = calls[i].saved
       /\ calls'[i].phase # "guest" => calls[i].kind = "indirect"

LEMMA SameCallsKeep ==
  ASSUME KIInv, Base', booted' \in BOOLEAN, asyncifyOn' = asyncifyOn,
         numThreads <= numThreads', SameCalls,
         \A s \in Slots : state'[s] = "running" =>
           \/ s = cur' \/ (s # cur /\ state[s] = "running")
           \/ s = 0 /\ \E i \in 1 .. Depth : calls[i].kind = "indirect"
  PROVE  KIInv'
<1>1. Depth \in Nat /\ Used \subseteq Used'
  <2>1. calls \in Seq(Call) /\ numThreads \in Nat /\ numThreads' \in Nat
    BY DEF KIInv, KTyped, Base, TypeOK
  <2>2. Depth \in Nat
    BY <2>1, LenProperties DEF Depth
  <2>3. \A m, n \in Nat : m <= n => 0 .. m - 1 \subseteq 0 .. n - 1
    OBVIOUS
  <2>4. Used \subseteq Used'
    <3> HIDE DEF Slots
    <3> QED
      BY <2>1, <2>3
  <2> QED
    BY <2>2, <2>4
<1>2. KTyped'
  BY DEF KIInv, KTyped, Base, SameCalls
<1>3. SlicesUsed'
  BY <1>1 DEF KIInv, SlicesUsed, SameCalls
<1>4. LoopsIndirect'
  BY <1>1 DEF LoopsIndirect, SameCalls
<1>5. AsyncifyKnown'
  <2>1. asyncifyOn' => \E i \in 1 .. Depth' : calls'[i].kind = "indirect"
    BY DEF KIInv, AsyncifyKnown, SameCalls
  <2>2. \A i \in 1 .. Depth' : calls'[i].saved =>
          \E j \in 1 .. Depth' : j < i /\ calls'[j].kind = "indirect"
    BY DEF KIInv, AsyncifyKnown, SameCalls
  <2> QED
    BY <2>1, <2>2 DEF AsyncifyKnown
<1>6. RunnersInProgress'
  BY <1>1 DEF KIInv, RunnersInProgress, SameCalls
<1> QED
  BY <1>2, <1>3, <1>4, <1>5, <1>6 DEF KIInv, Base

\* The innermost call goes to another phase.
LEMMA SetTopSame ==
  ASSUME KIInv, calls # <<>>, NEW p \in {"guest", "step", "check"}, NEW n \in Nat,
         p # "guest" => Top.kind = "indirect", calls' = SetTop(p, n)
  PROVE  SameCalls
<1>1. calls \in Seq(Call)
  BY DEF KIInv, KTyped
<1>2. /\ calls' \in Seq(Call)
      /\ Len(calls') = Len(calls)
      /\ \A i \in 1 .. Len(calls) :
           /\ calls'[i].kind = calls[i].kind /\ calls'[i].from = calls[i].from
           /\ calls'[i].saved = calls[i].saved
           /\ calls'[i].phase = IF i = Len(calls) THEN p ELSE calls[i].phase
  BY <1>1, SetTopIs
<1>3. \A i \in 1 .. Len(calls) : calls[i].phase # "guest" => calls[i].kind = "indirect"
  BY DEF KIInv, LoopsIndirect, Depth
<1>4. p # "guest" => calls[Len(calls)].kind = "indirect"
  BY DEF Top, Depth
<1> QED
  BY <1>2, <1>3, <1>4 DEF SameCalls, Depth

LEMMA CallsUntouched ==
  ASSUME KIInv, UNCHANGED calls
  PROVE  SameCalls
  BY DEF KIInv, KTyped, LoopsIndirect, SameCalls, Depth

\* What a suspension may have made of the slot table.
Settled(st) ==
  /\ st \in [Slots -> ThreadStates]
  /\ \A s \in Slots : /\ st[s] = "unused" <=> state[s] = "unused"
                      /\ st[s] \notin Dead => state[s] \notin Dead \/ env[s] # NoEnv
                      /\ st[s] = "running" => state[s] = "running"

\* What the calls leave alone, and the types of what they may change.
Around ==
  /\ UNCHANGED <<env, started, numThreads, current, nextTid, deadline>>
  /\ waitAddr' \in [Slots -> Addrs \cup {NoAddr}]
  /\ unwound' \in [Slots -> BOOLEAN]
  /\ pending' \in Seq(Addrs) /\ Len(pending') <= MaxPending
  /\ now' \in 0 .. MaxTime /\ procExit' \in BOOLEAN /\ booted' \in BOOLEAN

LEMMA LeaveKeeps ==
  ASSUME KIInv, calls # <<>>, cur = NoSlot, Around,
         NEW st, Settled(st), NEW un \in [Slots -> Nat \cup {Never}],
         NEW fr \in Frames, Leave(st, un, fr)
  PROVE  KIInv'
<1> DEFINE d == Depth
           top == Top
<1>1. /\ calls \in Seq(Call) /\ Depth \in Nat \ {0} /\ Top \in Call
      /\ calls' \in Seq(Call) /\ Depth' = Depth - 1
      /\ \A i \in 1 .. Depth - 1 : calls'[i] = calls[i]
  BY PopIs DEF KIInv, KTyped, Leave, Popped, Depth, Top
<1>2. Top = calls[Depth]
  BY DEF Top
<1>3. /\ TypeOK /\ SlotsOwned /\ 0 \in Slots /\ 0 \in Used
  BY DEF KIInv, KTyped, TypeOK
<1>4. cur' = Top.from /\ Top.from \in Used \cup {NoSlot} /\ Top.from \in Slots \cup {NoSlot}
  BY <1>1, <1>2 DEF Leave, KIInv, SlicesUsed, Call
<1>5. /\ state' \in [Slots -> ThreadStates]
      /\ \A s \in Slots : /\ state'[s] = "unused" <=> state[s] = "unused"
                          /\ state'[s] \notin Dead =>
                               state[s] \notin Dead \/ env[s] # NoEnv
                          /\ state'[s] = "running" => state[s] = "running"
      /\ Top.kind = "indirect" => state'[0] # "running"
  BY <1>1, <1>3 DEF Settled, Leave, StateLeft, ResetMain, Call, SlotsOwned
<1>6. /\ until' \in [Slots -> Nat \cup {Never}]
      /\ frame' \in [Slots -> Frames] /\ ret' \in {0}
  BY <1>3 DEF Leave, NoTimer, TypeOK
<1>7. TypeOK'
  BY <1>3, <1>4, <1>5, <1>6 DEF TypeOK, Around
<1>8. SlotsOwned'
  BY <1>3, <1>5 DEF TypeOK, Around, SlotsOwned
<1>9. CurUsed'
  BY <1>4 DEF CurUsed, Around
<1>10. SlicesUsed'
  BY <1>1 DEF KIInv, SlicesUsed, Around
<1>11. LoopsIndirect'
  BY <1>1 DEF KIInv, LoopsIndirect
<1>12. /\ asyncifyOn' \in BOOLEAN
       /\ asyncifyOn' => \E i \in 1 .. Depth - 1 : calls[i].kind = "indirect"
  <2>1. /\ asyncifyOn \in BOOLEAN
        /\ asyncifyOn => \E i \in 1 .. Depth : calls[i].kind = "indirect"
        /\ Top.saved => \E j \in 1 .. Depth : j < Depth /\ calls[j].kind = "indirect"
    BY <1>1, <1>2 DEF KIInv, KTyped, AsyncifyKnown
  <2>2. CASE Top.kind = "call"
    BY <1>1, <1>2, <2>1, <2>2 DEF Leave, AsyncifyLeft
  <2>3. CASE Top.kind = "simple"
    BY <1>1, <1>2, <2>1, <2>3 DEF Leave, AsyncifyLeft, Call
  <2>4. CASE Top.kind = "indirect"
    BY <2>4 DEF Leave, AsyncifyLeft
  <2> QED
    BY <1>1, <2>2, <2>3, <2>4 DEF Call
<1>13. AsyncifyKnown'
  <2>1. asyncifyOn' => \E i \in 1 .. Depth' : calls'[i].kind = "indirect"
    BY <1>1, <1>12
  <2>2. \A i \in 1 .. Depth' : calls'[i].saved =>
          \E j \in 1 .. Depth' : j < i /\ calls'[j].kind = "indirect"
    <3>1. \A i \in 1 .. Depth : calls[i].saved =>
            \E j \in 1 .. Depth : j < i /\ calls[j].kind = "indirect"
      BY DEF KIInv, AsyncifyKnown
    <3> SUFFICES ASSUME NEW i \in 1 .. Depth - 1, calls[i].saved
                 PROVE  \E j \in 1 .. Depth - 1 : j < i /\ calls'[j].kind = "indirect"
      BY <1>1
    <3>2. PICK j \in 1 .. Depth : j < i /\ calls[j].kind = "indirect"
      BY <1>1, <3>1
    <3>3. j \in 1 .. Depth - 1
      BY <1>1, <3>2
    <3> QED
      BY <1>1, <3>2, <3>3
  <2> QED
    BY <2>1, <2>2 DEF AsyncifyKnown
<1>14. RunnersInProgress'
  <2> SUFFICES ASSUME NEW s \in Slots, state'[s] = "running"
               PROVE  \/ s = cur'
                      \/ \E i \in 1 .. Depth' : calls'[i].from = s
                      \/ s = 0 /\ \E i \in 1 .. Depth' : calls'[i].kind = "indirect"
    BY DEF RunnersInProgress
  <2>1. \/ \E i \in 1 .. Depth : calls[i].from = s
        \/ s = 0 /\ \E i \in 1 .. Depth : calls[i].kind = "indirect"
    BY <1>5 DEF KIInv, RunnersInProgress
  <2>2. ASSUME NEW i \in 1 .. Depth, calls[i].from = s
        PROVE  s = cur' \/ \E j \in 1 .. Depth' : calls'[j].from = s
    <3>1. CASE i = Depth
      BY <1>2, <1>4, <2>2, <3>1
    <3>2. CASE i # Depth
      BY <1>1, <2>2, <3>2
    <3> QED
      BY <3>1, <3>2
  <2>3. ASSUME s = 0, NEW i \in 1 .. Depth, calls[i].kind = "indirect"
        PROVE  \E j \in 1 .. Depth' : calls'[j].kind = "indirect"
    <3>1. i # Depth
      BY <1>2, <1>5, <2>3
    <3> QED
      BY <1>1, <2>3, <3>1
  <2> QED
    BY <2>1, <2>2, <2>3
<1>15. KTyped'
  BY <1>1, <1>7, <1>12 DEF KTyped, Around
<1> QED
  BY <1>8, <1>9, <1>10, <1>11, <1>13, <1>14, <1>15 DEF KIInv

LEMMA SuspendedKeeps ==
  ASSUME KIInv, InGuest, Around,
         NEW st, Settled(st), NEW un \in [Slots -> Nat \cup {Never}],
         NEW fr \in Frames, Suspended(st, un, fr)
  PROVE  KIInv'
<1>1. calls # <<>> /\ cur = NoSlot
  BY DEF InGuest
<1>2. CASE Top.kind # "indirect"
  BY <1>1, <1>2, LeaveKeeps DEF Suspended
<1>3. CASE Top.kind = "indirect"
  <2>1. /\ calls' = SetTop("step", MaxIters)
        /\ state' = st /\ until' = un /\ frame' = [frame EXCEPT ![0] = fr]
        /\ UNCHANGED <<cur, ret, asyncifyOn>>
    BY <1>3 DEF Suspended
  <2>2. SameCalls
    BY <1>1, <1>3, <2>1, SetTopSame, KernelCallsAssumption
      DEF KernelCallsAssumption
  <2>3. TypeOK /\ SlotsOwned
    BY DEF KIInv, KTyped
  <2>4. TypeOK'
    BY <2>1, <2>3 DEF TypeOK, Around, Settled
  <2>5. SlotsOwned'
    BY <2>1, <2>3 DEF TypeOK, Around, Settled, SlotsOwned
  <2>6. CurUsed' /\ numThreads <= numThreads' /\ booted' \in BOOLEAN
    BY <2>1, <2>3 DEF KIInv, CurUsed, Around, TypeOK
  <2>7. \A s \in Slots : state'[s] = "running" => s # cur /\ state[s] = "running"
    BY <1>1, <2>1 DEF Settled
  <2> QED
    BY <2>1, <2>2, <2>4, <2>5, <2>6, <2>7, SameCallsKeep DEF Base
<1> QED
  BY <1>2, <1>3

-----------------------------------------------------------------------------
(* One lemma per kind of step.                                             *)

LEMMA EnterKeeps ==
  ASSUME KIInv, NEW kind \in Kinds, Enter(kind)
  PROVE  KIInv'
<1> DEFINE c == [kind |-> kind, from |-> cur, saved |-> asyncifyOn,
                 phase |-> "guest", iters |-> 0]
<1>1. /\ TypeOK /\ SlotsOwned /\ CurUsed /\ 0 \in Slots
      /\ calls \in Seq(Call) /\ asyncifyOn \in BOOLEAN
  BY DEF KIInv, KTyped, TypeOK
<1>2. cur \in (Slots \ {0}) \cup {NoSlot}
  BY <1>1 DEF Enter, Idle, InGuest, TypeOK
<1>3. kind \in {"call", "simple", "indirect"}
  BY KernelCallsAssumption DEF KernelCallsAssumption
<1>4. c \in Call
  BY <1>1, <1>2, <1>3 DEF Call
<1>5. calls' = Append(calls, c)
  BY DEF Enter
<1>6. c.kind = kind /\ c.from = cur /\ c.saved = asyncifyOn /\ c.phase = "guest"
  OBVIOUS
<1> HIDE DEF c
<1>7. /\ calls' \in Seq(Call) /\ Depth' = Depth + 1 /\ Depth \in Nat
      /\ \A i \in 1 .. Depth : calls'[i] = calls[i]
      /\ calls'[Depth + 1] = c
  BY <1>1, <1>4, <1>5, PushIs, LenProperties DEF Depth
<1>8. /\ state' \in [Slots -> ThreadStates]
      /\ \A s \in Slots : /\ state'[s] = "unused" <=> state[s] = "unused"
                          /\ state'[s] \notin Dead => state[s] \notin Dead
                          /\ state'[s] = "running" => state[s] = "running"
  BY <1>1 DEF Enter, ResetMain, TypeOK
<1>9. until' \in [Slots -> Nat \cup {Never}] /\ frame' \in [Slots -> Frames]
  BY <1>1 DEF Enter, NoTimer, TypeOK
<1>10. /\ UNCHANGED <<env, started, numThreads, current, nextTid, procExit,
                       deadline, pending, now, unwound, waitAddr, booted>>
       /\ cur' = NoSlot /\ ret' = 0 /\ asyncifyOn' \in BOOLEAN
  BY <1>1, <1>3 DEF Enter, untouched
<1>11. TypeOK'
  BY <1>1, <1>8, <1>9, <1>10 DEF TypeOK
<1>12. SlotsOwned' /\ CurUsed'
  BY <1>1, <1>8, <1>10 DEF TypeOK, SlotsOwned, CurUsed
<1>13. SlicesUsed'
  <2>1. \A i \in 1 .. Depth : calls[i].from \in Used \cup {NoSlot}
    BY DEF KIInv, SlicesUsed
  <2>2. Used' = Used /\ cur \in Used \cup {NoSlot}
    BY <1>1, <1>10 DEF CurUsed
  <2> SUFFICES ASSUME NEW i \in 1 .. Depth'
               PROVE  calls'[i].from \in Used \cup {NoSlot}
    BY <2>2 DEF SlicesUsed
  <2>3. CASE i = Depth + 1
    BY <1>6, <1>7, <2>2, <2>3
  <2>4. CASE i # Depth + 1
    BY <1>7, <2>1, <2>4
  <2> QED
    BY <2>3, <2>4
<1>14. LoopsIndirect'
  BY <1>6, <1>7 DEF KIInv, LoopsIndirect
<1>15. AsyncifyKnown'
  <2>1. /\ asyncifyOn => \E i \in 1 .. Depth : calls[i].kind = "indirect"
        /\ \A i \in 1 .. Depth : calls[i].saved =>
             \E j \in 1 .. Depth : j < i /\ calls[j].kind = "indirect"
    BY DEF KIInv, AsyncifyKnown
  <2>2. asyncifyOn' => asyncifyOn \/ kind = "indirect"
    BY <1>3 DEF Enter
  <2>3. asyncifyOn' => \E i \in 1 .. Depth' : calls'[i].kind = "indirect"
    BY <1>6, <1>7, <2>1, <2>2
  <2>4. ASSUME NEW i \in 1 .. Depth', calls'[i].saved
        PROVE  \E j \in 1 .. Depth' : j < i /\ calls'[j].kind = "indirect"
    <3>1. CASE i = Depth + 1
      <4>1. PICK j \in 1 .. Depth : calls[j].kind = "indirect"
        BY <1>6, <1>7, <2>1, <2>4, <3>1
      <4> QED
        BY <1>7, <3>1, <4>1
    <3>2. CASE i # Depth + 1
      <4>1. PICK j \in 1 .. Depth : j < i /\ calls[j].kind = "indirect"
        BY <1>7, <2>1, <2>4, <3>2
      <4> QED
        BY <1>7, <4>1
    <3> QED
      BY <3>1, <3>2
  <2> QED
    BY <2>3, <2>4 DEF AsyncifyKnown
<1>16. RunnersInProgress'
  <2> SUFFICES ASSUME NEW s \in Slots, state'[s] = "running"
               PROVE  \/ s = cur'
                      \/ \E i \in 1 .. Depth' : calls'[i].from = s
                      \/ s = 0 /\ \E i \in 1 .. Depth' : calls'[i].kind = "indirect"
    BY DEF RunnersInProgress
  <2>1. \/ s = cur
        \/ \E i \in 1 .. Depth : calls[i].from = s
        \/ s = 0 /\ \E i \in 1 .. Depth : calls[i].kind = "indirect"
    BY <1>8 DEF KIInv, RunnersInProgress
  <2>2. CASE s = cur
    BY <1>6, <1>7, <2>2
  <2>3. CASE \E i \in 1 .. Depth : calls[i].from = s
    BY <1>7, <2>3
  <2>4. CASE s = 0 /\ \E i \in 1 .. Depth : calls[i].kind = "indirect"
    BY <1>7, <2>4
  <2> QED
    BY <2>1, <2>2, <2>3, <2>4
<1>17. KTyped'
  BY <1>7, <1>10, <1>11 DEF KTyped, KIInv
<1> QED
  BY <1>12, <1>13, <1>14, <1>15, <1>16, <1>17 DEF KIInv

LEMMA NothingSettled ==
  ASSUME KIInv
  PROVE  Settled(state) /\ until \in [Slots -> Nat \cup {Never}]
  BY DEF KIInv, KTyped, TypeOK, Settled

\* The function returns or traps, or ends the process.
LEMMA ReturnsKeep ==
  ASSUME KIInv, CallReturns \/ CallExits
  PROVE  KIInv'
<1>1. /\ calls # <<>> /\ cur = NoSlot /\ Leave(state, until, "none")
  BY DEF CallReturns, CallExits, InGuest
<1>2. Around
  BY DEF CallReturns, CallExits, Around, untouched, KIInv, KTyped, TypeOK
<1> QED
  BY <1>1, <1>2, NothingSettled, LeaveKeeps

LEMMA FailsKeeps ==
  ASSUME KIInv, LoopFails
  PROVE  KIInv'
<1>1. /\ calls # <<>> /\ cur = NoSlot /\ Leave(state, until, frame[0])
  BY DEF LoopFails, InLoop
<1>2. Around
  BY DEF LoopFails, Around, untouched, KIInv, KTyped, TypeOK
<1>3. frame[0] \in Frames
  BY DEF KIInv, KTyped, TypeOK
<1> QED
  BY <1>1, <1>2, <1>3, NothingSettled, LeaveKeeps

LEMMA YieldsKeeps ==
  ASSUME KIInv, CallYields
  PROVE  KIInv'
<1>1. PICK fr \in Ways : Suspended(state, until, fr) /\ Mark(fr)
  BY DEF CallYields
<1>2. Around
  BY <1>1 DEF CallYields, Around, untouched, KIInv, KTyped, TypeOK, Mark
<1>3. fr \in Frames
  BY DEF Ways
<1>4. InGuest
  BY DEF CallYields
<1> QED
  BY <1>1, <1>2, <1>3, <1>4, NothingSettled, SuspendedKeeps

LEMMA WaitsKeeps ==
  ASSUME KIInv, NEW a \in Addrs, NEW d \in Delays \cup {Never}, CallWaits(a, d)
  PROVE  KIInv'
<1>1. PICK fr \in Ways :
        /\ Suspended(StateAfterWait(Main, a), UntilAfterWait(Main, a, d), fr)
        /\ Mark(fr)
  BY DEF CallWaits
<1>2. Base /\ Main \in Tids /\ InGuest /\ BlockOnWait(Main, a)
  BY DEF KIInv, KTyped, Base, CallWaits
<1>3. Settled(StateAfterWait(Main, a))
  <2>1. Blocked(StateAfterWait(Main, a))
    BY <1>2, WaitBlocks
  <2>2. /\ state \in [Slots -> ThreadStates] /\ numThreads \in 1 .. MaxThreads
        /\ \A s \in Slots : state[s] = "unused" <=> s \notin Used
    BY <1>2 DEF Base, TypeOK, SlotsOwned
  <2> QED
    BY <2>1, <2>2 DEF Blocked, Settled
<1>4. UntilAfterWait(Main, a, d) \in [Slots -> Nat \cup {Never}]
  BY <1>2, BlockingUntil
<1>5. Around
  <2>1. /\ pending' \in Seq(Addrs) /\ Len(pending') <= MaxPending
        /\ waitAddr' \in [Slots -> Addrs \cup {NoAddr}]
    BY <1>2, BlockingTables
  <2>2. unwound' \in [Slots -> BOOLEAN]
    BY <1>1 DEF KIInv, KTyped, TypeOK, Mark
  <2> QED
    BY <2>1, <2>2 DEF CallWaits, Around, untouched, KIInv, KTyped, TypeOK
<1>6. fr \in Frames
  BY DEF Ways
<1> QED
  BY <1>1, <1>2, <1>3, <1>4, <1>5, <1>6, SuspendedKeeps

LEMMA SleepsKeeps ==
  ASSUME KIInv, NEW d \in Delays, CallSleeps(d)
  PROVE  KIInv'
<1>1. TypeOK /\ SlotsOwned /\ CurUsed /\ InGuest /\ 0 \in Slots /\ 0 \in Used
  BY DEF KIInv, KTyped, TypeOK, CallSleeps
<1>2. now + d \in 0 .. MaxTime
  BY <1>1 DEF CallSleeps, TypeOK
<1>3. Around
  BY <1>1, <1>2 DEF CallSleeps, Around, untouched, KIInv, KTyped, TypeOK
<1>4. CASE asyncifyOn
  <2>1. Suspended([state EXCEPT ![0] = "blocked_io"],
                  [until EXCEPT ![0] = now + d], "yield")
    BY <1>4 DEF CallSleeps
  <2>2. Settled([state EXCEPT ![0] = "blocked_io"])
    BY <1>1 DEF Settled, TypeOK, SlotsOwned
  <2>3. [until EXCEPT ![0] = now + d] \in [Slots -> Nat \cup {Never}]
    BY <1>1, <1>2 DEF TypeOK
  <2> QED
    BY <1>1, <1>3, <2>1, <2>2, <2>3, SuspendedKeeps DEF Frames
<1>5. CASE ~asyncifyOn
  <2>1. UNCHANGED <<state, until, frame, calls, cur, ret, asyncifyOn>>
    BY <1>5 DEF CallSleeps
  <2>2. Base'
    BY <1>1, <1>3, <2>1 DEF Base, Around, TypeOK, SlotsOwned, CurUsed
  <2>3. numThreads <= numThreads' /\ booted' \in BOOLEAN
    BY <1>1, <1>3 DEF Around, TypeOK
  <2>4. \A s \in Slots : state'[s] = "running" => s # cur /\ state[s] = "running"
    BY <1>1, <2>1 DEF InGuest
  <2> QED
    BY <2>1, <2>2, <2>3, <2>4, CallsUntouched, SameCallsKeep
<1> QED
  BY <1>4, <1>5

LEMMA NotifiesKeeps ==
  ASSUME KIInv, NEW a \in Addrs, NEW n \in Counts, CallNotifies(a, n)
  PROVE  KIInv'
<1>1. Base /\ WakeWaiters(a, n) /\ InGuest
  BY DEF KIInv, KTyped, Base, CallNotifies
<1>2. UNCHANGED <<untouched, now, unwound, frame, cur, ret, booted, asyncifyOn, calls>>
  BY DEF CallNotifies
<1> USE DEF WakeWaiters, WaitersOf, IsFirstOf
<1>3. TypeOK'
  BY <1>1, <1>2 DEF Base, TypeOK, untouched
<1>4. SlotsOwned'
  BY <1>1, <1>2 DEF Base, TypeOK, SlotsOwned, untouched
<1>5. /\ \A s \in Slots : state'[s] = "running" => s # cur /\ state[s] = "running"
      /\ CurUsed' /\ numThreads <= numThreads'
  BY <1>1, <1>2 DEF Base, TypeOK, untouched, InGuest, CurUsed
<1>6. booted' \in BOOLEAN
  BY <1>2 DEF KIInv, KTyped
<1> QED
  BY <1>2, <1>3, <1>4, <1>5, <1>6, CallsUntouched, SameCallsKeep DEF Base

LEMMA SpawnsKeeps ==
  ASSUME KIInv, CallSpawns
  PROVE  KIInv'
<1>1. Base /\ RegisterThread /\ UNCHANGED <<booted, asyncifyOn, calls>>
  BY DEF KIInv, KTyped, Base, CallSpawns
<1>2. Goal
  BY <1>1, RegisterBase
<1>3. booted' \in BOOLEAN
  BY <1>1 DEF KIInv, KTyped
<1> QED
  BY <1>1, <1>2, <1>3, CallsUntouched, SameCallsKeep DEF Goal, RunnersFrom

LEMMA ResumeKeeps ==
  ASSUME KIInv, Resume
  PROVE  KIInv'
<1>1. TypeOK /\ SlotsOwned /\ CurUsed /\ 0 \in Slots /\ 0 \in Used
  BY DEF KIInv, KTyped, TypeOK
<1>2. calls # <<>> /\ cur = NoSlot /\ Top.phase = "check" /\ calls' = SetTop("guest", 0)
  BY DEF Resume, InLoop
<1>3. SameCalls
  BY <1>2, SetTopSame
<1>4. \E i \in 1 .. Depth : calls[i].kind = "indirect"
  <2>1. Depth \in 1 .. Depth /\ Top = calls[Depth]
    BY <1>2, PopIs DEF KIInv, KTyped, Depth, Top
  <2> QED
    BY <1>2, <2>1 DEF KIInv, LoopsIndirect
<1>5. TypeOK'
  BY <1>1 DEF Resume, untouched, NoTimer, TypeOK
<1>6. SlotsOwned'
  BY <1>1 DEF Resume, untouched, TypeOK, SlotsOwned
<1>7. CurUsed' /\ numThreads <= numThreads' /\ booted' \in BOOLEAN
      /\ asyncifyOn' = asyncifyOn
  BY <1>1 DEF Resume, untouched, CurUsed, TypeOK, KIInv, KTyped
<1>8. \A s \in Slots : state'[s] = "running" =>
        s = 0 \/ (s # cur /\ state[s] = "running")
  BY <1>1, <1>2 DEF Resume, TypeOK
<1> QED
  BY <1>3, <1>4, <1>5, <1>6, <1>7, <1>8, SameCallsKeep DEF Base

LEMMA AgainKeeps ==
  ASSUME KIInv, LoopAgain
  PROVE  KIInv'
<1>1. TypeOK /\ SlotsOwned /\ CurUsed
  BY DEF KIInv, KTyped
<1>2. calls # <<>> /\ cur = NoSlot /\ Top.phase = "check"
  BY DEF LoopAgain, InLoop
<1>3. Top.kind = "indirect" /\ Top.iters - 1 \in Nat
  <2>1. Depth \in 1 .. Depth /\ Top = calls[Depth] /\ Top \in Call
    BY <1>2, PopIs DEF KIInv, KTyped, Depth, Top
  <2>2. Top.iters \in Nat /\ Top.iters > 1
    BY <2>1 DEF LoopAgain, Call
  <2> QED
    BY <1>2, <2>1, <2>2 DEF KIInv, LoopsIndirect
<1>4. SameCalls
  <2>1. calls' = SetTop("step", Top.iters - 1)
    BY DEF LoopAgain, ItersLeft
  <2> QED
    BY <1>2, <1>3, <2>1, SetTopSame
<1>5. Base'
  <2>1. TypeOK'
    BY <1>1 DEF LoopAgain, untouched, TypeOK
  <2>2. SlotsOwned' /\ CurUsed'
    BY <1>1 DEF LoopAgain, untouched, SlotsOwned, CurUsed
  <2> QED
    BY <2>1, <2>2 DEF Base
<1>6. /\ numThreads <= numThreads' /\ booted' \in BOOLEAN /\ asyncifyOn' = asyncifyOn
      /\ \A s \in Slots : state'[s] = "running" => s # cur /\ state[s] = "running"
  BY <1>1, <1>2 DEF LoopAgain, untouched, TypeOK, KIInv, KTyped
<1> QED
  BY <1>4, <1>5, <1>6, SameCallsKeep

\* A step of the scheduler hands a cooperative loop over to its check.
LEMMA StepOverSame ==
  ASSUME KIInv, StepOver
  PROVE  SameCalls
<1>1. CASE calls # <<>> /\ Top.phase = "step" /\ cur' = NoSlot
  <2>1. calls' = SetTop("check", Top.iters)
    BY <1>1 DEF StepOver
  <2>2. Depth \in 1 .. Depth /\ Top = calls[Depth] /\ Top \in Call
    BY <1>1, PopIs DEF KIInv, KTyped, Depth, Top
  <2>3. Top.kind = "indirect" /\ Top.iters \in Nat
    BY <1>1, <2>2 DEF KIInv, LoopsIndirect, Call
  <2> QED
    BY <1>1, <2>1, <2>3, SetTopSame
<1>2. CASE ~(calls # <<>> /\ Top.phase = "step" /\ cur' = NoSlot)
  BY <1>2, CallsUntouched DEF StepOver
<1> QED
  BY <1>1, <1>2

LEMMA HostStepsGoal ==
  ASSUME Base, NEW skip \in BOOLEAN,
         \/ NothingLive(skip) \/ WatchdogFires(skip) \/ Dispatch(skip) \/ Stuck(skip)
  PROVE  Goal
  BY NothingLiveBase, WatchdogFiresBase, DispatchBase, StuckBase

LEMMA SliceGoal ==
  ASSUME Base, SliceGoesOn
  PROVE  Goal
<1>1. cur # NoSlot
  BY DEF SliceGoesOn
<1>2. CASE WorkerReturns \/ MainReturns
  BY <1>2, WorkerReturnsBase, MainReturnsBase
<1>3. CASE state[cur] = "running" /\ EndsSlice
  <2>1. ASSUME NEW a \in Addrs, NEW d \in Delays \cup {Never}, Wait(a, d)
        PROVE  Goal
    BY <1>1, <1>3, <2>1, WaitBase
  <2>2. ASSUME NEW d \in Delays, Sleep(d)
        PROVE  Goal
    BY <1>1, <1>3, <2>2, SleepBase
  <2> QED
    BY <1>2, <1>3, <2>1, <2>2, FuelOutBase, SchedYieldBase, TrapBase, ProcExitBase
      DEF EndsSlice
<1>4. CASE state[cur] = "running" /\ InSlice
  <2>1. ASSUME NEW a \in Addrs, NEW n \in Counts, Notify(a, n)
        PROVE  Goal
    BY <2>1, NotifyBase
  <2>2. ASSUME NEW d \in Delays, MainSleeps(d)
        PROVE  Goal
    BY <2>2, MainSleepsBase
  <2>3. CASE Spawn
    BY <2>3, RegisterBase DEF Spawn
  <2> QED
    BY <1>4, <2>1, <2>2, <2>3 DEF InSlice
<1> QED
  BY <1>2, <1>3, <1>4 DEF SliceGoesOn

LEMMA SchedulerMovesKeep ==
  ASSUME KIInv, SchedulerMoves
  PROVE  KIInv'
<1>1. Base
  BY DEF KIInv, KTyped, Base
<1>2. ASSUME HostSteps PROVE Goal
  BY <1>1, <1>2, HostStepsGoal DEF HostSteps, KernelStep
<1>3. ASSUME StepWorkers PROVE Goal
  BY <1>1, <1>3, HostStepsGoal DEF StepWorkers
<1>4. ASSUME SliceGoesOn PROVE Goal
  BY <1>1, <1>4, SliceGoal
<1>5. Goal
  BY <1>2, <1>3, <1>4 DEF SchedulerMoves
<1>6. SameCalls
  BY StepOverSame DEF SchedulerMoves
<1>7. booted' \in BOOLEAN /\ asyncifyOn' = asyncifyOn
  BY DEF SchedulerMoves, KIInv, KTyped
<1> QED
  BY <1>5, <1>6, <1>7, SameCallsKeep DEF Goal, RunnersFrom

LEMMA EnvironmentKeeps ==
  ASSUME KIInv, Environment
  PROVE  KIInv'
<1>1. Base
  BY DEF KIInv, KTyped, Base
<1>2. Base'
  BY <1>1, SetWatchdogBase, TickBase DEF Environment
<1>3. UNCHANGED <<state, numThreads, cur, booted, asyncifyOn, calls>>
  BY DEF Environment, Tick, SetWatchdog
<1>4. numThreads <= numThreads' /\ booted' \in BOOLEAN
  BY <1>1, <1>3 DEF Base, TypeOK, KIInv, KTyped
<1>5. \A s \in Slots : state'[s] = "running" =>
        s = cur' \/ (s # cur /\ state[s] = "running")
  BY <1>3
<1> QED
  BY <1>2, <1>3, <1>4, <1>5, CallsUntouched, SameCallsKeep

LEMMA NothingKeeps ==
  ASSUME KIInv, UNCHANGED kvars
  PROVE  KIInv'
<1>1. UNCHANGED <<vars, booted, asyncifyOn, calls>>
  BY DEF kvars
<1>2. Base'
  BY <1>1 DEF vars, KIInv, KTyped, Base, TypeOK, SlotsOwned, CurUsed
<1>3. UNCHANGED <<state, numThreads, cur, booted, asyncifyOn, calls>>
  BY <1>1 DEF vars
<1>4. numThreads <= numThreads' /\ booted' \in BOOLEAN
  BY <1>3 DEF TypeOK, KIInv, KTyped
<1>5. \A s \in Slots : state'[s] = "running" =>
        s = cur' \/ (s # cur /\ state[s] = "running")
  BY <1>3
<1> QED
  BY <1>2, <1>3, <1>4, <1>5, CallsUntouched, SameCallsKeep

LEMMA InitKeeps == KInit => KIInv
<1> SUFFICES ASSUME KInit PROVE KIInv
  OBVIOUS
<1>1. TypeOK /\ SlotsOwned
  BY InitIInv DEF KInit, IInv
<1>2. calls = <<>> /\ calls \in Seq(Call) /\ Len(calls) = 0 /\ asyncifyOn = FALSE /\ booted = FALSE
  BY EmptySeq DEF KInit
<1>3. CurUsed /\ \A s \in Slots : state[s] # "running"
  BY DEF KInit, Init, CurUsed
<1>4. KTyped
  BY <1>1, <1>2 DEF KTyped
<1>5. RunnersInProgress
  BY <1>3 DEF RunnersInProgress
<1>6. Depth = 0
  BY <1>2 DEF Depth
<1>7. SlicesUsed /\ LoopsIndirect /\ AsyncifyKnown
  BY <1>2, <1>6 DEF SlicesUsed, LoopsIndirect, AsyncifyKnown
<1> QED
  BY <1>1, <1>3, <1>4, <1>5, <1>7 DEF KIInv

LEMMA NextKeeps == KIInv /\ [KNext]_kvars => KIInv'
<1> SUFFICES ASSUME KIInv, [KNext]_kvars PROVE KIInv'
  OBVIOUS
<1>1. CASE SchedulerMoves
  BY <1>1, SchedulerMovesKeep
<1>2. ASSUME NEW k \in Kinds, Enter(k) PROVE KIInv'
  BY <1>2, EnterKeeps
<1>3. CASE CallMoves
  <2>1. ASSUME NEW a \in Addrs, NEW d \in Delays \cup {Never}, CallWaits(a, d)
        PROVE  KIInv'
    BY <2>1, WaitsKeeps
  <2>2. ASSUME NEW d \in Delays, CallSleeps(d)
        PROVE  KIInv'
    BY <2>2, SleepsKeeps
  <2>3. ASSUME NEW a \in Addrs, NEW n \in Counts, CallNotifies(a, n)
        PROVE  KIInv'
    BY <2>3, NotifiesKeeps
  <2> QED
    BY <1>3, <2>1, <2>2, <2>3, ReturnsKeep, YieldsKeeps, SpawnsKeeps DEF CallMoves
<1>4. CASE LoopMoves
  BY <1>4, FailsKeeps, ResumeKeeps, AgainKeeps DEF LoopMoves
<1>5. CASE Environment
  BY <1>5, EnvironmentKeeps
<1>6. CASE UNCHANGED kvars
  BY <1>6, NothingKeeps
<1> QED
  BY <1>1, <1>2, <1>3, <1>4, <1>5, <1>6 DEF KNext

-----------------------------------------------------------------------------
(* The theorems.                                                           *)

\* The inductive invariant holds in every state of the kernel.
THEOREM CallInvariance == KSpec => []KIInv
<1> QED
  BY InitKeeps, NextKeeps, PTL DEF KSpec

\* The scheduler's fields keep their types whatever the entry points do to
\* the main thread's slot (TypeOK of Scheduler, under KSpec).
THEOREM CallsKeepTypes == KSpec => []TypeOK
<1>1. KIInv => TypeOK
  BY DEF KIInv, KTyped
<1> QED
  BY <1>1, CallInvariance, PTL

\* Guest code runs only in slices and calls that are in progress, however
\* deep calls nest and whatever the host calls from a worker's slice.
THEOREM OnlyProgressRuns == KSpec => []RunnersInProgress
<1>1. KIInv => RunnersInProgress
  BY DEF KIInv
<1> QED
  BY <1>1, CallInvariance, PTL

\* Once the outermost call is over asyncify is off again for the main thread.
THEOREM AsyncifyIsSwitchedOff == KSpec => []AsyncifyOffWhenIdle
<1>1. KIInv => AsyncifyOffWhenIdle
  <2> SUFFICES ASSUME KIInv, calls = <<>> PROVE ~asyncifyOn
    BY DEF AsyncifyOffWhenIdle
  <2>1. Depth = 0
    BY EmptySeq DEF Depth
  <2> QED
    BY <2>1 DEF KIInv, AsyncifyKnown
<1> QED
  BY <1>1, CallInvariance, PTL

\* The search for the slot of the thread that makes a blocking call finds
\* that thread's own slot, also during nested calls.
THEOREM CallersAreFound == KSpec => []CallerHasSlot
<1>1. KIInv => CallerHasSlot
  <2> SUFFICES ASSUME KIInv
               PROVE  /\ SlotOf(Main) = 0
                      /\ cur # NoSlot /\ state[cur] = "running" => SlotOf(env[cur]) = cur
    BY DEF CallerHasSlot, KIInv
  <2>1. TypeOK /\ SlotsOwned /\ CurUsed
    BY DEF KIInv, KTyped
  <2>2. ASSUME NEW s \in Used, env[s] # NoEnv
        PROVE  SlotOf(env[s]) = s
    <3>1. Holding(env[s]) = {s}
      BY <2>1, <2>2 DEF Holding, SlotsOwned
    <3> QED
      BY <3>1 DEF SlotOf
  <2>3. SlotOf(Main) = 0
    <3>1. 0 \in Used /\ env[0] = Main /\ env[0] # NoEnv
      BY <2>1 DEF TypeOK, SlotsOwned
    <3> QED
      BY <2>2, <3>1
  <2>4. ASSUME cur # NoSlot, state[cur] = "running"
        PROVE  SlotOf(env[cur]) = cur
    <3>1. cur \in Used /\ env[cur] # NoEnv
      BY <2>1, <2>4 DEF TypeOK, SlotsOwned, CurUsed
    <3> QED
      BY <2>2, <3>1
  <2> QED
    BY <2>3, <2>4
<1> QED
  BY <1>1, CallInvariance, PTL

=============================================================================
