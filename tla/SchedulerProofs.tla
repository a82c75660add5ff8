--------------------------- MODULE SchedulerProofs ---------------------------
(***************************************************************************)
(* Proofs about Scheduler for every size of the slot table, every bound    *)
(* and every set of addresses, counts, delays and budgets.                 *)
(*                                                                         *)
(* The safety properties of Scheduler are inductive together with three    *)
(* facts about the slots outside a property's reach: what the slot of the  *)
(* executing thread looks like (RunnerFresh), that a dead slot a step may  *)
(* reclaim carries no asyncify_unwound of its last thread (DeadRewound),   *)
(* and that nothing lives on after a proc_exit (ExitIsFinal).              *)
(***************************************************************************)
EXTENDS Scheduler, TLAPS, FiniteSetTheorems, SequenceTheorems

\* The slot whose slice executes has started and is not to be rewound.
RunnerFresh == cur # NoSlot => started[cur] /\ ~unwound[cur]

\* While the guest lives, no dead slot keeps the asyncify_unwound of the
\* thread it belonged to: register_thread does not reset it.
DeadRewound == \A s \in Live, r \in Slots \ Live : ~unwound[r]

\* A recorded proc_exit has terminated every thread.
ExitIsFinal == procExit => Live = {}

\* The inductive invariant.
IInv == /\ TypeOK
        /\ OneRunner
        /\ SlotsOwned
        /\ WaitRegistered
        /\ ResumesAsSuspended
        /\ EndMeansDead
        /\ RunnerFresh
        /\ DeadRewound
        /\ ExitIsFinal

USE SchedulerAssumption DEF SchedulerAssumption
USE DEF Slots, Used, Live, Dead, NoSlot, NoEnv, Never, Main, Frames, ThreadStates,
        Tids, At, table

-----------------------------------------------------------------------------
(* Facts about the operators.                                              *)

\* Every nonempty set of naturals has a least element: the linear searches
\* of the code, written with CHOOSE, find what they look for.
LEMMA LeastOf ==
  ASSUME NEW S \in SUBSET Nat, S # {}
  PROVE  \E m \in S : \A k \in S : m <= k
<1>1. PICK m \in S : \A k \in S : ~ (<<k, m>> \in OpToRel(<, Nat))
  BY NatLessThanWellFounded, WFMin
<1>2. \A k \in S : ~ (k < m)
  BY <1>1 DEF OpToRel
<1> QED
  BY <1>2

\* The round-robin index stays inside the table.
LEMMA AfterType ==
  ASSUME TypeOK, NEW s \in Used
  PROVE  After(s) \in 0 .. numThreads - 1
  BY DEF TypeOK, After

\* Consuming a notify shortens the table and adds nothing to it.
LEMMA ConsumeIs ==
  ASSUME TypeOK, NEW a, PendingAt(a) # {}
  PROVE  /\ Consume(a) \in Seq(Addrs)
         /\ Len(Consume(a)) = Len(pending) - 1
         /\ \A i \in 1 .. Len(Consume(a)) :
              \E j \in 1 .. Len(pending) : Consume(a)[i] = pending[j]
<1> DEFINE k == CHOOSE i \in PendingAt(a) : \A j \in PendingAt(a) : i <= j
           n == Len(pending)
<1>1. n \in Nat \ {0} /\ \A i \in 1 .. n : pending[i] \in Addrs
  BY DEF TypeOK, PendingAt
<1>2. Consume(a) = [i \in 1 .. n - 1 |-> IF i = k THEN pending[n] ELSE pending[i]]
  BY DEF Consume
<1> HIDE DEF k, n
<1>3. Consume(a) \in [1 .. n - 1 -> Addrs]
  BY <1>1, <1>2
<1>4. Consume(a) \in Seq(Addrs) /\ Len(Consume(a)) = n - 1
  BY <1>1, <1>3
<1>5. \A i \in 1 .. n - 1 : \E j \in 1 .. n : Consume(a)[i] = pending[j]
  BY <1>1, <1>2
<1> QED
  BY <1>4, <1>5 DEF n

-----------------------------------------------------------------------------
(* The slot of the executing thread, and the slot a new thread gets.       *)

\* During a slice no proc_exit is recorded, and the search on exec_env finds
\* the slot that executes and no other.
LEMMA OwnSlot ==
  ASSUME IInv, cur # NoSlot
  PROVE  /\ cur \in Live
         /\ state[cur] = "running"
         /\ ~procExit
         /\ Holding(Me) = {cur}
         /\ SlotOf(Me) = cur
<1>1. cur \in Live /\ state[cur] = "running"
  BY DEF IInv, TypeOK, OneRunner, SlotsOwned
<1>2. ~procExit
  BY <1>1 DEF IInv, ExitIsFinal
<1>3. Holding(Me) = {cur}
  BY <1>1 DEF IInv, SlotsOwned, Holding, Me
<1>4. SlotOf(Me) = cur
  BY <1>1, <1>3 DEF SlotOf, IInv, TypeOK
<1> QED
  BY <1>1, <1>2, <1>3, <1>4

\* register_thread takes a dead worker slot or the next unused one.
LEMMA NewSlotIs ==
  ASSUME IInv, ~TableFull
  PROVE  /\ NewSlot \in Slots \ {0}
         /\ NewSlot \in 1 .. numThreads
         /\ NewSlot = numThreads \/ state[NewSlot] \in Dead
         /\ NewSlot = numThreads => NewSlot \notin Used
<1>1. CASE Reclaimable # {}
  <2>1. Reclaimable \in SUBSET Nat
    BY DEF Reclaimable, IInv, TypeOK
  <2>2. NewSlot \in Reclaimable
    BY <1>1, <2>1, LeastOf DEF NewSlot
  <2> QED
    BY <2>2 DEF Reclaimable, IInv, TypeOK
<1>2. CASE Reclaimable = {}
  BY <1>2 DEF NewSlot, TableFull, IInv, TypeOK
<1> QED
  BY <1>1, <1>2

-----------------------------------------------------------------------------
(* The actions, one by one.                                                *)

LEMMA StutterInv ==
  ASSUME IInv, UNCHANGED vars
  PROVE  IInv'
<1> USE DEF IInv, vars
<1>1. TypeOK'
  BY DEF TypeOK
<1>2. OneRunner'
  BY DEF OneRunner
<1>3. SlotsOwned'
  BY DEF SlotsOwned
<1>4. WaitRegistered'
  BY DEF WaitRegistered
<1>5. ResumesAsSuspended'
  BY DEF ResumesAsSuspended
<1>6. EndMeansDead'
  BY DEF EndMeansDead
<1>7. RunnerFresh'
  BY DEF RunnerFresh
<1>8. DeadRewound'
  BY DEF DeadRewound
<1>9. ExitIsFinal'
  BY DEF ExitIsFinal
<1> QED
  BY <1>1, <1>2, <1>3, <1>4, <1>5, <1>6, <1>7, <1>8, <1>9

LEMMA InitIInv == Init => IInv
<1> SUFFICES ASSUME Init PROVE IInv
  OBVIOUS
<1> USE DEF Init
<1>1. TypeOK
  BY EmptySeq DEF TypeOK
<1>2. OneRunner /\ SlotsOwned
  BY DEF OneRunner, SlotsOwned
<1>3. WaitRegistered /\ ResumesAsSuspended
  BY DEF WaitRegistered, ResumesAsSuspended
<1>4. EndMeansDead /\ RunnerFresh /\ DeadRewound /\ ExitIsFinal
  BY DEF EndMeansDead, RunnerFresh, DeadRewound, ExitIsFinal
<1> QED
  BY <1>1, <1>2, <1>3, <1>4 DEF IInv

LEMMA NothingLiveInv ==
  ASSUME IInv, NEW skip \in BOOLEAN,
         NothingLive(skip)
  PROVE  IInv'
<1> USE DEF IInv, NothingLive, Report
<1>1. TypeOK'
  BY DEF TypeOK
<1>2. OneRunner'
  BY DEF OneRunner
<1>3. SlotsOwned'
  BY DEF SlotsOwned
<1>4. WaitRegistered'
  BY DEF WaitRegistered
<1>5. ResumesAsSuspended'
  BY DEF ResumesAsSuspended
<1>6. EndMeansDead'
  BY DEF EndMeansDead
<1>7. RunnerFresh'
  BY DEF RunnerFresh
<1>8. DeadRewound'
  BY DEF DeadRewound
<1>9. ExitIsFinal'
  BY DEF ExitIsFinal
<1> QED
  BY <1>1, <1>2, <1>3, <1>4, <1>5, <1>6, <1>7, <1>8, <1>9

LEMMA WatchdogFiresInv ==
  ASSUME IInv, NEW skip \in BOOLEAN,
         WatchdogFires(skip)
  PROVE  IInv'
<1> USE DEF IInv, WatchdogFires, Report, KillAll
<1>1. TypeOK'
  BY DEF TypeOK
<1>2. OneRunner'
  BY DEF OneRunner
<1>3. SlotsOwned'
  BY DEF TypeOK, SlotsOwned
<1>4. WaitRegistered'
  BY DEF TypeOK, WaitRegistered
<1>5. ResumesAsSuspended'
  BY DEF TypeOK, ResumesAsSuspended
<1>6. EndMeansDead'
  BY DEF TypeOK, EndMeansDead
<1>7. RunnerFresh'
  BY DEF RunnerFresh
<1>8. DeadRewound'
  BY DEF TypeOK, DeadRewound
<1>9. ExitIsFinal'
  BY DEF ExitIsFinal
<1> QED
  BY <1>1, <1>2, <1>3, <1>4, <1>5, <1>6, <1>7, <1>8, <1>9

\* Not a step of Scheduler!Next: the steps that KernelCalls adds keep IInv too.
LEMMA StuckInv ==
  ASSUME IInv, NEW skip \in BOOLEAN,
         Stuck(skip)
  PROVE  IInv'
<1> USE DEF IInv, Stuck, Report, Polled, Expired, IoDone
<1>1. TypeOK'
  BY DEF TypeOK
<1>2. OneRunner'
  BY DEF OneRunner
<1>3. SlotsOwned'
  BY DEF TypeOK, SlotsOwned
<1>4. WaitRegistered'
  BY DEF TypeOK, WaitRegistered
<1>5. ResumesAsSuspended'
  BY DEF TypeOK, ResumesAsSuspended
<1>6. EndMeansDead'
  BY DEF TypeOK, EndMeansDead, ExitIsFinal
<1>7. RunnerFresh'
  BY DEF RunnerFresh
<1>8. DeadRewound'
  BY DEF DeadRewound
<1>9. ExitIsFinal'
  BY DEF ExitIsFinal
<1> QED
  BY <1>1, <1>2, <1>3, <1>4, <1>5, <1>6, <1>7, <1>8, <1>9

\* A slice is given to a ready thread, W being waiters woken before.
LEMMA RunInv ==
  ASSUME IInv, cur = NoSlot, Live # {},
         NEW s \in Used, NEW W \in SUBSET Used,
         \A r \in W : state[r] = "blocked_wait",
         At(Polled, W, "ready")[s] = "ready",
         Run(s, Polled, W)
  PROVE  IInv'
<1> USE DEF IInv, Run, Polled, Expired, IoDone
<1>1. TypeOK'
  <2>1. state' \in [Slots -> ThreadStates]
    BY DEF TypeOK, Polled
  <2>2. /\ waitAddr' \in [Slots -> Addrs \cup {NoAddr}]
        /\ until' \in [Slots -> Nat \cup {Never}]
    BY DEF TypeOK
  <2>3. /\ started' \in [Slots -> BOOLEAN]
        /\ unwound' \in [Slots -> BOOLEAN]
        /\ frame' \in [Slots -> Frames]
    BY DEF TypeOK
  <2>4. current' \in 0 .. numThreads' - 1 /\ cur' \in Slots
    BY AfterType DEF TypeOK
  <2> QED
    BY <2>1, <2>2, <2>3, <2>4 DEF TypeOK
<1>2. OneRunner'
  BY DEF OneRunner
<1>3. SlotsOwned'
  BY DEF TypeOK, SlotsOwned
<1>4. WaitRegistered'
  BY DEF TypeOK, WaitRegistered
<1>5. ResumesAsSuspended'
  BY DEF TypeOK, ResumesAsSuspended
<1>6. EndMeansDead'
  BY DEF EndMeansDead
<1>7. RunnerFresh'
  <2>1. s \in Live /\ s # cur
    BY DEF TypeOK
  <2>2. s = 0 \/ ~started[s] => ~unwound[s]
    BY <2>1 DEF ResumesAsSuspended
  <2>3. cur' = s /\ started'[s] /\ ~unwound'[s]
    BY <2>2 DEF TypeOK
  <2> QED
    BY <2>3 DEF RunnerFresh
<1>8. DeadRewound'
  BY DEF DeadRewound
<1>9. ExitIsFinal'
  BY DEF ExitIsFinal
<1> QED
  BY <1>1, <1>2, <1>3, <1>4, <1>5, <1>6, <1>7, <1>8, <1>9

LEMMA DispatchInv ==
  ASSUME IInv, NEW skip \in BOOLEAN, Dispatch(skip)
  PROVE  IInv'
<1>1. cur = NoSlot /\ Live # {}
  BY DEF Dispatch
<1>2. ASSUME NEW s \in Used, IsNext(Polled, skip, s), Run(s, Polled, {})
      PROVE  IInv'
  <2>1. At(Polled, {}, "ready")[s] = "ready"
    BY <1>2 DEF IsNext, Candidates, IInv, TypeOK
  <2>2. {} \in SUBSET Used /\ \A r \in {} : state[r] = "blocked_wait"
    OBVIOUS
  <2> HIDE DEF Used, At
  <2> QED
    BY <1>1, <1>2, <2>1, <2>2, RunInv
<1>3. ASSUME NEW s \in Used, IsNext(At(Polled, Stalled(skip), "ready"), skip, s),
             Run(s, Polled, Stalled(skip))
      PROVE  IInv'
  <2>1. At(Polled, Stalled(skip), "ready")[s] = "ready"
    BY <1>3 DEF IsNext, Candidates
  <2>2. \A r \in Stalled(skip) : state[r] = "blocked_wait"
    BY DEF Stalled, Polled, IInv, TypeOK
  <2>3. Stalled(skip) \in SUBSET Used
    BY DEF Stalled
  <2> QED
    BY <1>1, <1>3, <2>1, <2>2, <2>3, RunInv
<1> QED
  BY <1>2, <1>3 DEF Dispatch

LEMMA FuelOutInv ==
  ASSUME IInv, FuelOut
  PROVE  IInv'
<1> USE OwnSlot DEF IInv, FuelOut, Yield, ReturnFromStep
<1>1. TypeOK'
  BY DEF TypeOK
<1>2. OneRunner'
  BY DEF OneRunner
<1>3. SlotsOwned'
  BY DEF TypeOK, SlotsOwned
<1>4. WaitRegistered'
  BY DEF TypeOK, WaitRegistered
<1>5. ResumesAsSuspended'
  BY DEF TypeOK, OneRunner, ResumesAsSuspended, RunnerFresh
<1>6. EndMeansDead'
  BY DEF EndMeansDead
<1>7. RunnerFresh'
  BY DEF RunnerFresh
<1>8. DeadRewound'
  BY DEF DeadRewound
<1>9. ExitIsFinal'
  BY DEF ExitIsFinal
<1> QED
  BY <1>1, <1>2, <1>3, <1>4, <1>5, <1>6, <1>7, <1>8, <1>9

LEMMA SchedYieldInv ==
  ASSUME IInv, SchedYield
  PROVE  IInv'
<1> USE OwnSlot DEF IInv, SchedYield, Yield, ReturnFromStep
<1>1. TypeOK'
  BY DEF TypeOK
<1>2. OneRunner'
  BY DEF OneRunner
<1>3. SlotsOwned'
  BY DEF TypeOK, SlotsOwned
<1>4. WaitRegistered'
  BY DEF TypeOK, WaitRegistered
<1>5. ResumesAsSuspended'
  BY DEF TypeOK, OneRunner, ResumesAsSuspended, RunnerFresh
<1>6. EndMeansDead'
  BY DEF EndMeansDead
<1>7. RunnerFresh'
  BY DEF RunnerFresh
<1>8. DeadRewound'
  BY DEF DeadRewound
<1>9. ExitIsFinal'
  BY DEF ExitIsFinal
<1> QED
  BY <1>1, <1>2, <1>3, <1>4, <1>5, <1>6, <1>7, <1>8, <1>9

\* Wait(a, d) seen from the caller's slot: it becomes a waiter or stays ready.
SuspendsAt(a) ==
  /\ cur # NoSlot
  /\ state'    = At(state, {cur},
                    IF Blocks(Me, a) THEN "blocked_wait" ELSE "ready")
  /\ waitAddr' = IF Blocks(Me, a) THEN At(waitAddr, {cur}, a) ELSE waitAddr
  /\ until' \in [Slots -> Nat \cup {Never}]
  /\ pending' \in Seq(Addrs) /\ Len(pending') <= MaxPending
  /\ frame'    = At(frame, {cur}, "yield")
  /\ cur'      = NoSlot
  /\ ret'      = 0
  /\ UNCHANGED <<env, started, unwound, numThreads, current, nextTid, procExit,
                 deadline, now>>

LEMMA WaitIs ==
  ASSUME IInv, NEW a \in Addrs, NEW d \in Delays \cup {Never}, Wait(a, d)
  PROVE  SuspendsAt(a)
<1>1. /\ ~procExit
      /\ cur \in Slots
      /\ cur # NoSlot
      /\ state[cur] = "running"
      /\ SlotOf(Me) = cur
  BY OwnSlot DEF Wait, IInv, TypeOK
<1>2. state' = At(state, {cur}, IF Blocks(Me, a) THEN "blocked_wait" ELSE "ready")
  BY <1>1 DEF Wait, StateAfterWait, Yield, ReturnFromStep, IInv, TypeOK
<1>3. until' \in [Slots -> Nat \cup {Never}]
  BY <1>1 DEF Wait, UntilAfterWait, IInv, TypeOK
<1>4. pending' \in Seq(Addrs) /\ Len(pending') <= MaxPending
  BY ConsumeIs, LenProperties DEF Wait, BlockOnWait, IInv, TypeOK
<1> QED
  BY <1>1, <1>2, <1>3, <1>4 DEF Wait, BlockOnWait, Yield, ReturnFromStep,
     SuspendsAt

LEMMA SuspendInv ==
  ASSUME IInv, NEW a \in Addrs, SuspendsAt(a)
  PROVE  IInv'
<1> USE OwnSlot DEF IInv, SuspendsAt
<1>1. TypeOK'
  BY DEF TypeOK
<1>2. OneRunner'
  BY DEF OneRunner
<1>3. SlotsOwned'
  BY DEF TypeOK, SlotsOwned
<1>4. WaitRegistered'
  BY DEF TypeOK, OneRunner, WaitRegistered
<1>5. ResumesAsSuspended'
  BY DEF TypeOK, OneRunner, ResumesAsSuspended, RunnerFresh
<1>6. EndMeansDead'
  BY DEF EndMeansDead
<1>7. RunnerFresh'
  BY DEF RunnerFresh
<1>8. DeadRewound'
  BY DEF TypeOK, OneRunner, DeadRewound, RunnerFresh
<1>9. ExitIsFinal'
  BY DEF ExitIsFinal
<1> QED
  BY <1>1, <1>2, <1>3, <1>4, <1>5, <1>6, <1>7, <1>8, <1>9

LEMMA WaitInv ==
  ASSUME IInv, NEW a \in Addrs, NEW d \in Delays \cup {Never}, Wait(a, d)
  PROVE  IInv'
  BY WaitIs, SuspendInv

LEMMA SleepInv ==
  ASSUME IInv, NEW d \in Delays, Sleep(d)
  PROVE  IInv'
<1> USE OwnSlot DEF IInv, Sleep, Yield, ReturnFromStep
<1>1. TypeOK'
  BY DEF TypeOK
<1>2. OneRunner'
  BY DEF OneRunner
<1>3. SlotsOwned'
  BY DEF TypeOK, SlotsOwned
<1>4. WaitRegistered'
  BY DEF TypeOK, WaitRegistered
<1>5. ResumesAsSuspended'
  BY DEF TypeOK, OneRunner, ResumesAsSuspended, RunnerFresh
<1>6. EndMeansDead'
  BY DEF EndMeansDead
<1>7. RunnerFresh'
  BY DEF RunnerFresh
<1>8. DeadRewound'
  BY DEF DeadRewound
<1>9. ExitIsFinal'
  BY DEF ExitIsFinal
<1> QED
  BY <1>1, <1>2, <1>3, <1>4, <1>5, <1>6, <1>7, <1>8, <1>9

LEMMA MainSleepsInv ==
  ASSUME IInv, NEW d \in Delays, MainSleeps(d)
  PROVE  IInv'
<1> USE OwnSlot DEF IInv, MainSleeps
<1>1. TypeOK'
  BY DEF TypeOK
<1>2. OneRunner'
  BY DEF OneRunner
<1>3. SlotsOwned'
  BY DEF SlotsOwned
<1>4. WaitRegistered'
  BY DEF WaitRegistered
<1>5. ResumesAsSuspended'
  BY DEF ResumesAsSuspended
<1>6. EndMeansDead'
  BY DEF EndMeansDead
<1>7. RunnerFresh'
  BY DEF RunnerFresh
<1>8. DeadRewound'
  BY DEF DeadRewound
<1>9. ExitIsFinal'
  BY DEF ExitIsFinal
<1> QED
  BY <1>1, <1>2, <1>3, <1>4, <1>5, <1>6, <1>7, <1>8, <1>9

\* WorkerReturns when no proc_exit is recorded, as in every slice.
WorkerExits ==
  /\ cur \notin {NoSlot, 0}
  /\ state' = At(state, {cur}, "exited")
  /\ env'   = At(env, {cur}, NoEnv)
  /\ cur'   = NoSlot
  /\ ret'   = IF \A s \in Used : state'[s] \in Dead THEN 1 ELSE 0
  /\ UNCHANGED <<started, unwound, frame, waitAddr, until, numThreads,
                 current, nextTid, pending, procExit, deadline, now>>

LEMMA WorkerReturnsIs ==
  ASSUME IInv, WorkerReturns
  PROVE  WorkerExits
  BY OwnSlot DEF WorkerReturns, WorkerExits, ReturnFromStep

LEMMA WorkerExitsInv ==
  ASSUME IInv, WorkerExits
  PROVE  IInv'
<1> USE OwnSlot DEF IInv, WorkerExits
<1>1. TypeOK'
  BY DEF TypeOK
<1>2. OneRunner'
  BY DEF OneRunner
<1>3. SlotsOwned'
  <2> USE DEF TypeOK, SlotsOwned
  <2>1. env'[0] = Main
    OBVIOUS
  <2>2. \A s \in Used' : state'[s] \notin Dead => env'[s] # NoEnv
    OBVIOUS
  <2>3. \A s, r \in Used' : env'[s] = env'[r] /\ env'[s] # NoEnv => s = r
    <3>1. \A s \in Used' : env'[s] # NoEnv => env'[s] = env[s] /\ s \in Used
      OBVIOUS
    <3>2. \A s, r \in Used : env[s] = env[r] /\ env[s] # NoEnv => s = r
      OBVIOUS
    <3> QED
      BY <3>1, <3>2
  <2>4. \A s \in Used' : env'[s] < nextTid'
    OBVIOUS
  <2>5. \A s \in Slots : state'[s] = "unused" <=> s \notin Used'
    OBVIOUS
  <2> QED
    BY <2>1, <2>2, <2>3, <2>4, <2>5
<1>4. WaitRegistered'
  BY DEF TypeOK, WaitRegistered
<1>5. ResumesAsSuspended'
  BY DEF TypeOK, ResumesAsSuspended
<1>6. EndMeansDead'
  <2>1. ret' \in {1, -1, -2} => \A s \in Used : state'[s] \in Dead
    OBVIOUS
  <2>2. numThreads' = numThreads
    OBVIOUS
  <2> QED
    BY <2>1, <2>2 DEF EndMeansDead
<1>7. RunnerFresh'
  BY DEF RunnerFresh
<1>8. DeadRewound'
  BY DEF TypeOK, DeadRewound, RunnerFresh
<1>9. ExitIsFinal'
  BY DEF ExitIsFinal
<1> QED
  BY <1>1, <1>2, <1>3, <1>4, <1>5, <1>6, <1>7, <1>8, <1>9

LEMMA WorkerReturnsInv ==
  ASSUME IInv, WorkerReturns
  PROVE  IInv'
  BY WorkerReturnsIs, WorkerExitsInv

LEMMA MainReturnsInv ==
  ASSUME IInv, MainReturns
  PROVE  IInv'
<1> USE OwnSlot DEF IInv, MainReturns, ReturnFromStep, KillAll
<1>1. TypeOK'
  BY DEF TypeOK
<1>2. OneRunner'
  BY DEF OneRunner
<1>3. SlotsOwned'
  BY DEF TypeOK, SlotsOwned
<1>4. WaitRegistered'
  BY DEF TypeOK, WaitRegistered
<1>5. ResumesAsSuspended'
  BY DEF TypeOK, ResumesAsSuspended
<1>6. EndMeansDead'
  BY DEF TypeOK, EndMeansDead
<1>7. RunnerFresh'
  BY DEF RunnerFresh
<1>8. DeadRewound'
  BY DEF TypeOK, DeadRewound
<1>9. ExitIsFinal'
  BY DEF ExitIsFinal
<1> QED
  BY <1>1, <1>2, <1>3, <1>4, <1>5, <1>6, <1>7, <1>8, <1>9

LEMMA TrapInv ==
  ASSUME IInv, Trap
  PROVE  IInv'
<1> USE OwnSlot DEF IInv, Trap, ReturnFromStep, KillAll
<1>1. TypeOK'
  BY DEF TypeOK
<1>2. OneRunner'
  BY DEF OneRunner
<1>3. SlotsOwned'
  BY DEF TypeOK, SlotsOwned
<1>4. WaitRegistered'
  BY DEF TypeOK, WaitRegistered
<1>5. ResumesAsSuspended'
  BY DEF TypeOK, ResumesAsSuspended
<1>6. EndMeansDead'
  BY DEF TypeOK, EndMeansDead
<1>7. RunnerFresh'
  BY DEF RunnerFresh
<1>8. DeadRewound'
  BY DEF TypeOK, DeadRewound
<1>9. ExitIsFinal'
  BY DEF ExitIsFinal
<1> QED
  BY <1>1, <1>2, <1>3, <1>4, <1>5, <1>6, <1>7, <1>8, <1>9

LEMMA ProcExitInv ==
  ASSUME IInv, ProcExit
  PROVE  IInv'
<1> USE OwnSlot DEF IInv, ProcExit, KillAll
<1>1. TypeOK'
  BY DEF TypeOK
<1>2. OneRunner'
  BY DEF OneRunner
<1>3. SlotsOwned'
  BY DEF TypeOK, SlotsOwned
<1>4. WaitRegistered'
  BY DEF TypeOK, WaitRegistered
<1>5. ResumesAsSuspended'
  BY DEF TypeOK, ResumesAsSuspended
<1>6. EndMeansDead'
  BY DEF TypeOK, EndMeansDead
<1>7. RunnerFresh'
  BY DEF RunnerFresh
<1>8. DeadRewound'
  BY DEF TypeOK, DeadRewound
<1>9. ExitIsFinal'
  BY DEF TypeOK, ExitIsFinal
<1> QED
  BY <1>1, <1>2, <1>3, <1>4, <1>5, <1>6, <1>7, <1>8, <1>9

LEMMA NotifyInv ==
  ASSUME IInv, NEW a \in Addrs, NEW n \in Counts,
         Notify(a, n)
  PROVE  IInv'
<1> USE OwnSlot DEF IInv, Notify, WakeWaiters, WaitersOf, IsFirstOf
<1>1. TypeOK'
  BY DEF TypeOK
<1>2. OneRunner'
  BY DEF OneRunner
<1>3. SlotsOwned'
  BY DEF TypeOK, SlotsOwned
<1>4. WaitRegistered'
  BY DEF TypeOK, WaitRegistered
<1>5. ResumesAsSuspended'
  BY DEF TypeOK, ResumesAsSuspended
<1>6. EndMeansDead'
  BY DEF EndMeansDead
<1>7. RunnerFresh'
  BY DEF RunnerFresh
<1>8. DeadRewound'
  BY DEF DeadRewound
<1>9. ExitIsFinal'
  BY DEF ExitIsFinal
<1> QED
  BY <1>1, <1>2, <1>3, <1>4, <1>5, <1>6, <1>7, <1>8, <1>9

\* RegisterThread with n for the slot it picks.
RegistersIn(n) ==
  /\ n \in Slots \ {0, cur}
  /\ n <= numThreads
  /\ n \in Used => state[n] \in Dead
  /\ nextTid <= MaxTid
  /\ state'      = At(state, {n}, "ready")
  /\ env'        = At(env, {n}, nextTid)
  /\ started'    = At(started, {n}, FALSE)
  /\ frame'      = At(frame, {n}, "none")
  /\ waitAddr'   = At(waitAddr, {n}, NoAddr)
  /\ until'      = At(until, {n}, Never)
  /\ numThreads' = IF n = numThreads THEN numThreads + 1 ELSE numThreads
  /\ nextTid'    = nextTid + 1
  /\ UNCHANGED <<unwound, current, pending, procExit, deadline, cur, ret, now>>

LEMMA SpawnIs ==
  ASSUME IInv, Spawn, ~TableFull
  PROVE  RegistersIn(NewSlot)
<1>1. /\ NewSlot \in Slots \ {0}
      /\ NewSlot <= numThreads
      /\ NewSlot \in Used => state[NewSlot] \in Dead
  BY NewSlotIs DEF IInv, TypeOK
<1>2. NewSlot # cur
  BY OwnSlot, <1>1 DEF IInv, TypeOK, Spawn
<1> HIDE DEF At
<1> QED
  BY <1>1, <1>2 DEF Spawn, RegisterThread, RegistersIn

LEMMA RegisterInv ==
  ASSUME IInv, cur # NoSlot, NEW n, RegistersIn(n)
  PROVE  IInv'
<1> USE OwnSlot DEF IInv, RegistersIn
<1>1. TypeOK'
  <2> USE DEF TypeOK
  <2>1. state' \in [Slots -> ThreadStates] /\ env' \in [Slots -> Tids \cup {NoEnv}]
    OBVIOUS
  <2>2. /\ started' \in [Slots -> BOOLEAN]
        /\ frame' \in [Slots -> Frames]
        /\ waitAddr' \in [Slots -> Addrs \cup {NoAddr}]
        /\ until' \in [Slots -> Nat \cup {Never}]
    OBVIOUS
  <2>3. /\ numThreads' \in 1 .. MaxThreads
        /\ current' \in 0 .. numThreads' - 1
        /\ nextTid' \in 1 .. MaxTid + 1
    OBVIOUS
  <2> QED
    BY <2>1, <2>2, <2>3
<1>2. OneRunner'
  BY DEF TypeOK, OneRunner
<1>3. SlotsOwned'
  <2> USE DEF TypeOK, SlotsOwned
  <2>1. env'[0] = Main
    OBVIOUS
  <2>2. \A s \in Used' : state'[s] \notin Dead => env'[s] # NoEnv
    OBVIOUS
  <2>3. \A s, r \in Used' : env'[s] = env'[r] /\ env'[s] # NoEnv => s = r
    OBVIOUS
  <2>4. \A s \in Used' : env'[s] < nextTid'
    <3>1. \A s \in Used' \ {n} : s \in Used /\ env'[s] = env[s]
      OBVIOUS
    <3>2. env'[n] = nextTid
      OBVIOUS
    <3>3. \A s \in Used : env[s] \in Int /\ env[s] < nextTid
      OBVIOUS
    <3>4. nextTid' = nextTid + 1 /\ nextTid \in Int
      OBVIOUS
    <3> HIDE DEF At, RegistersIn, SlotsOwned, IInv, TypeOK
    <3> QED
      BY <3>1, <3>2, <3>3, <3>4
  <2>5. \A s \in Slots : state'[s] = "unused" <=> s \notin Used'
    OBVIOUS
  <2> QED
    BY <2>1, <2>2, <2>3, <2>4, <2>5
<1>4. WaitRegistered'
  BY DEF TypeOK, WaitRegistered
<1>5. ResumesAsSuspended'
  BY DEF TypeOK, SlotsOwned, ResumesAsSuspended, DeadRewound
<1>6. EndMeansDead'
  BY DEF EndMeansDead
<1>7. RunnerFresh'
  BY DEF TypeOK, RunnerFresh
<1>8. DeadRewound'
  BY DEF TypeOK, DeadRewound
<1>9. ExitIsFinal'
  BY DEF ExitIsFinal
<1> QED
  BY <1>1, <1>2, <1>3, <1>4, <1>5, <1>6, <1>7, <1>8, <1>9

LEMMA SpawnInv ==
  ASSUME IInv, Spawn
  PROVE  IInv'
<1>1. CASE TableFull
  <2>1. UNCHANGED vars
    BY <1>1 DEF Spawn, RegisterThread, vars
  <2> QED
    BY <2>1, StutterInv
<1>2. CASE ~TableFull
  BY <1>2, SpawnIs, RegisterInv DEF Spawn
<1> QED
  BY <1>1, <1>2

LEMMA SetWatchdogInv ==
  ASSUME IInv, NEW d \in Budgets \cup {0}, SetWatchdog(d)
  PROVE  IInv'
<1> USE DEF IInv, SetWatchdog
<1>1. TypeOK'
  BY DEF TypeOK
<1>2. OneRunner'
  BY DEF OneRunner
<1>3. SlotsOwned'
  BY DEF SlotsOwned
<1>4. WaitRegistered'
  BY DEF WaitRegistered
<1>5. ResumesAsSuspended'
  BY DEF ResumesAsSuspended
<1>6. EndMeansDead'
  BY DEF EndMeansDead
<1>7. RunnerFresh'
  BY DEF RunnerFresh
<1>8. DeadRewound'
  BY DEF DeadRewound
<1>9. ExitIsFinal'
  BY DEF ExitIsFinal
<1> QED
  BY <1>1, <1>2, <1>3, <1>4, <1>5, <1>6, <1>7, <1>8, <1>9

LEMMA TickInv ==
  ASSUME IInv, Tick
  PROVE  IInv'
<1> USE DEF IInv, Tick
<1>1. TypeOK'
  BY DEF TypeOK
<1>2. OneRunner'
  BY DEF OneRunner
<1>3. SlotsOwned'
  BY DEF SlotsOwned
<1>4. WaitRegistered'
  BY DEF WaitRegistered
<1>5. ResumesAsSuspended'
  BY DEF ResumesAsSuspended
<1>6. EndMeansDead'
  BY DEF EndMeansDead
<1>7. RunnerFresh'
  BY DEF RunnerFresh
<1>8. DeadRewound'
  BY DEF DeadRewound
<1>9. ExitIsFinal'
  BY DEF ExitIsFinal
<1> QED
  BY <1>1, <1>2, <1>3, <1>4, <1>5, <1>6, <1>7, <1>8, <1>9

-----------------------------------------------------------------------------
LEMMA NextInv == IInv /\ [Next]_vars => IInv'
<1> SUFFICES ASSUME IInv, [Next]_vars PROVE IInv'
  OBVIOUS
<1>1. CASE KernelStep
  BY <1>1, NothingLiveInv, WatchdogFiresInv, DispatchInv
     DEF KernelStep
<1>2. CASE EndsSlice
  BY <1>2, FuelOutInv, SchedYieldInv, WaitInv, SleepInv, WorkerReturnsInv,
     MainReturnsInv, TrapInv, ProcExitInv
     DEF EndsSlice
<1>3. CASE InSlice
  BY <1>3, NotifyInv, SpawnInv, MainSleepsInv DEF InSlice
<1>4. CASE \E d \in Budgets \cup {0} : SetWatchdog(d)
  BY <1>4, SetWatchdogInv
<1>5. CASE Tick
  BY <1>5, TickInv
<1>6. CASE UNCHANGED vars
  BY <1>6, StutterInv
<1> QED
  BY <1>1, <1>2, <1>3, <1>4, <1>5, <1>6 DEF Next

\* IInv is an invariant of the scheduler.
THEOREM Invariance == Spec => []IInv
  BY InitIInv, NextInv, PTL DEF Spec

-----------------------------------------------------------------------------
(* A wakeup is never parked beside its waiter, when guests notify at least *)
(* one waiter at a time.                                                   *)

\* Actions that record no notify and let no thread begin to wait.
KeepsWaiters ==
  /\ pending' = pending
  /\ \A s \in Used' : state'[s] = "blocked_wait" =>
       s \in Used /\ state[s] = "blocked_wait" /\ waitAddr'[s] = waitAddr[s]

LEMMA KeepsWaitersNoPark ==
  ASSUME NoParkedWakeup, KeepsWaiters
  PROVE  NoParkedWakeup'
  BY DEF NoParkedWakeup, KeepsWaiters, PendingAt

LEMMA WaitNoPark ==
  ASSUME IInv, NoParkedWakeup,
         NEW a \in Addrs, NEW d \in Delays \cup {Never}, Wait(a, d)
  PROVE  NoParkedWakeup'
<1> SUFFICES ASSUME NEW s \in Used', state'[s] = "blocked_wait",
                    NEW i \in 1 .. Len(pending'), pending'[i] = waitAddr'[s]
             PROVE  FALSE
  BY DEF NoParkedWakeup, PendingAt
<1>1. SuspendsAt(a) /\ cur \in Used /\ state \in [Slots -> ThreadStates]
  BY WaitIs, OwnSlot DEF IInv, TypeOK, SuspendsAt
<1>2. \E j \in 1 .. Len(pending) : pending'[i] = pending[j]
  BY ConsumeIs DEF Wait, BlockOnWait, IInv
<1>3. CASE s = cur
  <2>1. Blocks(Me, a) /\ waitAddr'[s] = a
    BY <1>1, <1>3 DEF SuspendsAt, IInv, TypeOK
  <2> QED
    BY <1>2, <2>1 DEF Blocks, PendingAt
<1>4. CASE s # cur
  <2>1. s \in Used /\ state[s] = "blocked_wait" /\ waitAddr'[s] = waitAddr[s]
    BY <1>1, <1>4 DEF SuspendsAt, IInv, TypeOK
  <2> QED
    BY <1>2, <2>1 DEF NoParkedWakeup, PendingAt
<1> QED
  BY <1>3, <1>4

LEMMA NotifyNoPark ==
  ASSUME IInv, NoParkedWakeup,
         NEW a \in Addrs, NEW n \in Counts, n # 0, Notify(a, n)
  PROVE  NoParkedWakeup'
<1>1. PICK W \in SUBSET Used :
        /\ IsFirstOf(W, WaitersOf(a), n)
        /\ state'    = At(state, W, "ready")
        /\ waitAddr' = At(waitAddr, W, NoAddr)
        /\ pending'  = IF W = {} /\ Len(pending) < MaxPending
                       THEN Append(pending, a) ELSE pending
  BY DEF Notify, WakeWaiters
<1>2. numThreads' = numThreads
  BY DEF Notify
<1>3. \A s \in Used' : state'[s] = "blocked_wait" =>
        s \in Used /\ state[s] = "blocked_wait" /\ waitAddr'[s] = waitAddr[s]
  BY <1>1, <1>2 DEF IInv, TypeOK
<1>4. CASE pending' = pending
  BY <1>3, <1>4, KeepsWaitersNoPark DEF KeepsWaiters
<1>5. CASE pending' # pending
  <2>1. W = {} /\ pending' = Append(pending, a)
    BY <1>1, <1>5
  <2>2. WaitersOf(a) = {}
    BY <1>1, <2>1, FS_EmptySet DEF IsFirstOf
  <2>3. \A s \in Used' : state'[s] = "blocked_wait" => waitAddr'[s] # a
    BY <1>3, <2>2 DEF WaitersOf
  <2>4. \A i \in 1 .. Len(pending') :
          pending'[i] = a \/ \E j \in 1 .. Len(pending) : pending'[i] = pending[j]
    BY <2>1 DEF IInv, TypeOK
  <2> QED
    BY <1>3, <2>3, <2>4 DEF NoParkedWakeup, PendingAt
<1> QED
  BY <1>4, <1>5

LEMMA NextNoPark ==
  ASSUME IInv, NoParkedWakeup, 0 \notin Counts, [Next]_vars
  PROVE  NoParkedWakeup'
<1> USE DEF IInv, TypeOK
<1>1. ASSUME NEW skip \in BOOLEAN, NothingLive(skip)
      PROVE  KeepsWaiters
  BY <1>1 DEF NothingLive, KeepsWaiters
<1>2. ASSUME NEW skip \in BOOLEAN, WatchdogFires(skip)
      PROVE  KeepsWaiters
  BY <1>2 DEF WatchdogFires, KillAll, KeepsWaiters
<1>3. ASSUME NEW s \in Used, NEW W \in SUBSET Used, Run(s, Polled, W)
      PROVE  KeepsWaiters
  BY <1>3 DEF Run, Polled, KeepsWaiters
<1>4. ASSUME NEW skip \in BOOLEAN, Dispatch(skip)
      PROVE  KeepsWaiters
  <2>1. Stalled(skip) \in SUBSET Used /\ {} \in SUBSET Used
    BY DEF Stalled
  <2> HIDE DEF Used
  <2> QED
    BY <1>3, <1>4, <2>1 DEF Dispatch
<1>5. ASSUME FuelOut \/ SchedYield \/ \E d \in Delays : Sleep(d)
      PROVE  KeepsWaiters
  <2>1. CASE FuelOut
    BY <2>1, OwnSlot DEF FuelOut, Yield, ReturnFromStep, KeepsWaiters
  <2>2. CASE SchedYield
    BY <2>2, OwnSlot DEF SchedYield, Yield, ReturnFromStep, KeepsWaiters
  <2>3. ASSUME NEW d \in Delays, Sleep(d)
        PROVE  KeepsWaiters
    BY <2>3, OwnSlot DEF Sleep, Yield, ReturnFromStep, KeepsWaiters
  <2> QED
    BY <1>5, <2>1, <2>2, <2>3
<1>6. ASSUME WorkerReturns \/ MainReturns \/ Trap \/ ProcExit
      PROVE  KeepsWaiters
  BY <1>6, OwnSlot DEF WorkerReturns, MainReturns, Trap, ProcExit,
     ReturnFromStep, KillAll, KeepsWaiters
<1>7. ASSUME Spawn
      PROVE  KeepsWaiters
  <2>1. CASE TableFull
    BY <1>7, <2>1 DEF Spawn, RegisterThread, KeepsWaiters
  <2>2. CASE ~TableFull
    <3>1. RegistersIn(NewSlot)
      BY <1>7, <2>2, SpawnIs
    <3> QED
      BY <3>1 DEF RegistersIn, KeepsWaiters
  <2> QED
    BY <2>1, <2>2
<1>8. ASSUME \/ \E d \in Delays : MainSleeps(d)
             \/ \E d \in Budgets \cup {0} : SetWatchdog(d)
             \/ Tick
             \/ UNCHANGED vars
      PROVE  KeepsWaiters
  BY <1>8 DEF MainSleeps, SetWatchdog, Tick, vars, KeepsWaiters
<1> HIDE DEF IInv, TypeOK
<1>9. CASE KernelStep
  BY <1>9, <1>1, <1>2, <1>4, KeepsWaitersNoPark DEF KernelStep
<1>10. CASE EndsSlice
  BY <1>10, <1>5, <1>6, WaitNoPark, KeepsWaitersNoPark DEF EndsSlice
<1>11. CASE InSlice
  BY <1>11, <1>7, <1>8, NotifyNoPark, KeepsWaitersNoPark DEF InSlice
<1> QED
  BY <1>8, <1>9, <1>10, <1>11, KeepsWaitersNoPark DEF Next

\* While every notify asks for at least one waiter, wake_waiters and
\* block_on_wait never leave a notify pending on an address a thread
\* waits on.  A notify of count 0 does, beside the threads it did not wake.
THEOREM WakeupsReachWaiters ==
  ASSUME 0 \notin Counts
  PROVE  Spec => []NoParkedWakeup
<1>1. Init => NoParkedWakeup
  BY DEF Init, NoParkedWakeup
<1>2. IInv /\ NoParkedWakeup /\ [Next]_vars => NoParkedWakeup'
  BY NextNoPark
<1> QED
  BY <1>1, <1>2, Invariance, PTL DEF Spec

-----------------------------------------------------------------------------
(* The dead stay dead.                                                     *)

\* The step brings no exited slot back, unless for a new thread.
RevivesNobody ==
  \A s \in Used : state[s] = "exited" /\ state'[s] \notin Dead
                  => state'[s] = "ready" /\ env'[s] = nextTid

LEMMA NextRevivesNobody ==
  ASSUME IInv, [Next]_vars
  PROVE  RevivesNobody
<1> USE DEF IInv, TypeOK
<1>1. ASSUME NEW skip \in BOOLEAN,
             NothingLive(skip) \/ WatchdogFires(skip)
      PROVE  RevivesNobody
  <2>1. CASE NothingLive(skip)
    BY <2>1 DEF NothingLive, RevivesNobody
  <2>2. CASE WatchdogFires(skip)
    BY <2>2 DEF WatchdogFires, KillAll, RevivesNobody
  <2> QED
    BY <1>1, <2>1, <2>2
<1>2. ASSUME NEW s \in Used, NEW W \in SUBSET Used, Run(s, Polled, W),
             \A r \in W : state[r] = "blocked_wait",
             At(Polled, W, "ready")[s] = "ready"
      PROVE  RevivesNobody
  BY <1>2 DEF Run, Polled, Expired, IoDone, RevivesNobody
<1>3. ASSUME NEW skip \in BOOLEAN, Dispatch(skip)
      PROVE  RevivesNobody
  <2>1. ASSUME NEW W \in SUBSET Used, NEW s \in Used,
               IsNext(At(Polled, W, "ready"), skip, s)
        PROVE  At(Polled, W, "ready")[s] = "ready"
    BY <2>1 DEF IsNext, Candidates
  <2>2. Stalled(skip) \in SUBSET Used /\ {} \in SUBSET Used
    BY DEF Stalled
  <2>3. \A r \in Stalled(skip) : state[r] = "blocked_wait"
    BY DEF Stalled, Polled
  <2>4. Polled = At(Polled, {}, "ready")
    BY DEF Polled
  <2> HIDE DEF Used, At, IInv, TypeOK
  <2>5. ASSUME NEW s \in Used, IsNext(Polled, skip, s), Run(s, Polled, {})
        PROVE  RevivesNobody
    <3>1. At(Polled, {}, "ready")[s] = "ready"
      BY <2>1, <2>2, <2>4, <2>5
    <3>2. \A r \in {} : state[r] = "blocked_wait"
      OBVIOUS
    <3> QED
      BY <1>2, <2>2, <2>5, <3>1, <3>2
  <2>6. ASSUME NEW s \in Used,
               IsNext(At(Polled, Stalled(skip), "ready"), skip, s),
               Run(s, Polled, Stalled(skip))
        PROVE  RevivesNobody
    BY <1>2, <2>1, <2>2, <2>3, <2>6
  <2> QED
    BY <1>3, <2>5, <2>6 DEF Dispatch
<1>4. ASSUME FuelOut \/ SchedYield
      PROVE  RevivesNobody
  <2>1. CASE FuelOut
    BY <2>1, OwnSlot DEF FuelOut, Yield, ReturnFromStep, RevivesNobody
  <2>2. CASE SchedYield
    BY <2>2, OwnSlot DEF SchedYield, Yield, ReturnFromStep, RevivesNobody
  <2> QED
    BY <1>4, <2>1, <2>2
<1>5. ASSUME NEW d \in Delays, Sleep(d)
      PROVE  RevivesNobody
  BY <1>5, OwnSlot DEF Sleep, Yield, ReturnFromStep, RevivesNobody
<1>6. ASSUME NEW a \in Addrs, NEW d \in Delays \cup {Never}, Wait(a, d)
      PROVE  RevivesNobody
  <2>1. SuspendsAt(a) /\ state[cur] = "running"
    BY <1>6, WaitIs, OwnSlot DEF SuspendsAt
  <2> QED
    BY <2>1 DEF SuspendsAt, RevivesNobody
<1>7. ASSUME WorkerReturns \/ MainReturns \/ Trap \/ ProcExit
      PROVE  RevivesNobody
  BY <1>7, OwnSlot DEF WorkerReturns, MainReturns, Trap, ProcExit,
     ReturnFromStep, KillAll, RevivesNobody
<1>8. ASSUME NEW a \in Addrs, NEW n \in Counts, Notify(a, n)
      PROVE  RevivesNobody
  BY <1>8 DEF Notify, WakeWaiters, IsFirstOf, WaitersOf, RevivesNobody
<1>9. ASSUME Spawn
      PROVE  RevivesNobody
  <2>1. CASE TableFull
    BY <1>9, <2>1 DEF Spawn, RegisterThread, RevivesNobody
  <2>2. CASE ~TableFull
    <3>1. RegistersIn(NewSlot)
      BY <1>9, <2>2, SpawnIs
    <3> QED
      BY <3>1 DEF RegistersIn, RevivesNobody
  <2> QED
    BY <2>1, <2>2
<1>10. ASSUME \/ \E d \in Delays : MainSleeps(d)
              \/ \E d \in Budgets \cup {0} : SetWatchdog(d)
              \/ Tick
              \/ UNCHANGED vars
       PROVE  RevivesNobody
  BY <1>10 DEF MainSleeps, SetWatchdog, Tick, vars, RevivesNobody
<1> HIDE DEF IInv, TypeOK
<1> QED
  BY <1>1, <1>3, <1>4, <1>5, <1>6, <1>7, <1>8, <1>9, <1>10
     DEF Next, KernelStep, EndsSlice, InSlice

\* A killed or returned thread gets no further slice, whatever wakes, stalls
\* or timers come: its slot only serves a new thread id.
THEOREM NoResurrection == Spec => DeadStaysDead
<1>1. IInv /\ [Next]_vars => [RevivesNobody]_vars
  BY NextRevivesNobody
<1>2. DeadStaysDead <=> [][RevivesNobody]_vars
  BY DEF DeadStaysDead, RevivesNobody
<1> QED
  BY <1>1, <1>2, Invariance, PTL DEF Spec

-----------------------------------------------------------------------------
(* The safety properties of Scheduler.                                     *)

\* The fields of the scheduler keep their types and stay in their arrays.
THEOREM TypeCorrect == Spec => []TypeOK
  BY Invariance, PTL DEF IInv

\* A slot is RUNNING exactly while its slice executes.
THEOREM OneThreadRuns == Spec => []OneRunner
  BY Invariance, PTL DEF IInv

\* A search on exec_env finds the slot of the thread that makes the call,
\* however the slots of dead threads are reclaimed.
THEOREM SearchesFindTheirOwner == Spec => []SlotsOwned
  BY Invariance, PTL DEF IInv

\* A live thread is registered on an address exactly while it waits there.
THEOREM WaitersAreRegistered == Spec => []WaitRegistered
  BY Invariance, PTL DEF IInv

\* A thread is resumed the way it was suspended, also one in a slot whose
\* last thread had unwound through asyncify.
THEOREM ResumeMatchesSuspend == Spec => []ResumesAsSuspended
  BY Invariance, PTL DEF IInv

\* When a step reports the end of the guest, no thread is left alive.
THEOREM EndIsReported == Spec => []EndMeansDead
  BY Invariance, PTL DEF IInv

=============================================================================
