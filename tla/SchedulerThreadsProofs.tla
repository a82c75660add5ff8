------------------------ MODULE SchedulerThreadsProofs ------------------------
(***************************************************************************)
(* The scheduler implements Threads and its round robin is fair, for every *)
(* size of the slot table and every bound.                                 *)
(*                                                                         *)
(* Each step of Scheduler is a step of Threads on the thread that owns the *)
(* slot, or one the guest cannot tell.  The proof looks at the threads     *)
(* through View: what Threads sees of a thread is read off its one live    *)
(* slot, and a thread without one is done or was never created.            *)
(*                                                                         *)
(* The round robin is fair because whoever passed a ready thread is        *)
(* farther ahead of the index than that thread (PassedAhead).              *)
(***************************************************************************)
EXTENDS SchedulerThreads, SchedulerOrder, SchedulerProofs

USE SchedulerAssumption DEF SchedulerAssumption
USE DEF Slots, Used, Live, Dead, NoSlot, NoEnv, Never, Main, Frames, ThreadStates,
        Tids, At, table

\* A sleeper has a time to wake, and a thread that is not blocked has none.
TimersKept ==
  \A s \in Live : /\ state[s] = "blocked_io" => until[s] # Never
                  /\ state[s] \in {"ready", "running"} => until[s] = Never

LiveStates == {"ready", "running", "blocked_wait", "blocked_io"}

\* LifeOf and onBar of one slot.
Shown(st) == CASE st = "ready"        -> "ready"
               [] st = "running"      -> "running"
               [] st = "blocked_wait" -> "waiting"
               [] st = "blocked_io"   -> "sleeping"
OnOf(st, a) == IF st = "blocked_wait" THEN {a} ELSE {}

\* What a live slot tells about its thread, and what there is to know of a
\* thread without a live slot.
View ==
  /\ lifeBar = [t \in Tids |-> lifeBar[t]]
  /\ onBar = [t \in Tids |-> onBar[t]]
  /\ dueBar = [t \in Tids |-> dueBar[t]]
  /\ \A s \in Live :
       /\ env[s] \in Tids
       /\ state[s] \in LiveStates
       /\ lifeBar[env[s]] = Shown(state[s])
       /\ onBar[env[s]] = OnOf(state[s], waitAddr[s])
       /\ dueBar[env[s]] = until[s]
  /\ \A s, r \in Live : env[s] = env[r] => s = r
  /\ \A t \in Tids : (\A s \in Live : env[s] # t) =>
       /\ lifeBar[t] = IF t < nextTid THEN "done" ELSE "absent"
       /\ onBar[t] = {}
       /\ dueBar[t] = Never

-----------------------------------------------------------------------------
LEMMA Viewed == IInv => View
<1> SUFFICES ASSUME IInv PROVE View
  OBVIOUS
<1>1. /\ lifeBar = [t \in Tids |-> lifeBar[t]]
      /\ onBar = [t \in Tids |-> onBar[t]]
      /\ dueBar = [t \in Tids |-> dueBar[t]]
  BY DEF lifeBar, onBar, dueBar
<1>2. \A s, r \in Live : env[s] = env[r] => s = r
  BY DEF IInv, SlotsOwned
<1>3. ASSUME NEW s \in Live
      PROVE  /\ env[s] \in Tids
             /\ state[s] \in LiveStates
             /\ lifeBar[env[s]] = Shown(state[s])
             /\ onBar[env[s]] = OnOf(state[s], waitAddr[s])
             /\ dueBar[env[s]] = until[s]
  <2>1. env[s] \in Tids
    BY DEF IInv, TypeOK, SlotsOwned
  <2>2. LiveSlots(env[s]) = {s}
    BY <1>2 DEF LiveSlots
  <2>3. (CHOOSE r \in LiveSlots(env[s]) : TRUE) = s
    BY <2>2
  <2>4. lifeBar[env[s]] = LifeOf(s) /\ dueBar[env[s]] = until[s]
    <3> HIDE DEF Live, Tids
    <3> QED
      BY <2>1, <2>2, <2>3 DEF lifeBar, dueBar
  <2>5. onBar[env[s]] = {waitAddr[q] : q \in {r \in {s} : state[r] = "blocked_wait"}}
    <3> HIDE DEF Live, Tids
    <3> QED
      BY <2>1, <2>2 DEF onBar
  <2>6. state[s] \in LiveStates
    BY DEF IInv, TypeOK, LiveStates
  <2> QED
    BY <2>1, <2>4, <2>5, <2>6 DEF LifeOf, Shown, OnOf
<1>4. ASSUME NEW t \in Tids, \A s \in Live : env[s] # t
      PROVE  /\ lifeBar[t] = IF t < nextTid THEN "done" ELSE "absent"
             /\ onBar[t] = {}
             /\ dueBar[t] = Never
  <2>1. LiveSlots(t) = {}
    BY <1>4 DEF LiveSlots
  <2> HIDE DEF Live, Tids
  <2> QED
    BY <2>1 DEF lifeBar, onBar, dueBar
<1> QED
  BY <1>1, <1>2, <1>3, <1>4 DEF View

-----------------------------------------------------------------------------
(* Timers.                                                                 *)

\* Run with W for the waiters it wakes: what it does to the table.
LEMMA RunTimers ==
  ASSUME IInv, TimersKept, cur = NoSlot,
         NEW s \in Used, NEW W \in SUBSET Used,
         \A r \in W : state[r] = "blocked_wait",
         At(Polled, W, "ready")[s] = "ready",
         Run(s, Polled, W)
  PROVE  TimersKept'
  BY DEF IInv, TypeOK, TimersKept, Run, Polled, Expired, IoDone

\* Every dispatch is a Run of a slot that is ready or was just woken; and
\* waiters wake without a cause only when nobody is ready.
Starts(s, W) ==
  /\ cur = NoSlot /\ Live # {}
  /\ s \in Used /\ W \in SUBSET Used
  /\ \A r \in W : state[r] = "blocked_wait"
  /\ At(Polled, W, "ready")[s] = "ready"
  /\ IF Candidates(Polled, FALSE) = {} THEN W = Stalled(FALSE) ELSE W = {}
  /\ Run(s, Polled, W)

LEMMA DispatchStarts ==
  ASSUME IInv, Dispatch(FALSE)
  PROVE  \E s \in Used, W \in SUBSET Used : Starts(s, W)
<1>1. CASE \E s \in Used : IsNext(Polled, FALSE, s) /\ Run(s, Polled, {})
  <2>1. PICK s \in Used : IsNext(Polled, FALSE, s) /\ Run(s, Polled, {})
    BY <1>1
  <2>2. s \in Candidates(Polled, FALSE)
    BY <2>1 DEF IsNext
  <2>3. At(Polled, {}, "ready")[s] = "ready"
    BY <2>2 DEF Candidates, IInv, TypeOK
  <2>4. cur = NoSlot /\ Live # {}
    BY DEF Dispatch
  <2> QED
    BY <2>1, <2>2, <2>3, <2>4 DEF Starts
<1>2. CASE /\ Candidates(Polled, FALSE) = {}
           /\ \E s \in Used : /\ IsNext(At(Polled, Stalled(FALSE), "ready"), FALSE, s)
                              /\ Run(s, Polled, Stalled(FALSE))
  <2>1. PICK s \in Used : /\ IsNext(At(Polled, Stalled(FALSE), "ready"), FALSE, s)
                          /\ Run(s, Polled, Stalled(FALSE))
    BY <1>2
  <2>2. At(Polled, Stalled(FALSE), "ready")[s] = "ready"
    BY <2>1 DEF IsNext, Candidates
  <2>3. Stalled(FALSE) \in SUBSET Used
    BY DEF Stalled
  <2>4. \A r \in Stalled(FALSE) : state[r] = "blocked_wait"
    BY DEF Stalled, Polled, IInv, TypeOK
  <2>5. cur = NoSlot /\ Live # {}
    BY DEF Dispatch
  <2> QED
    BY <1>2, <2>1, <2>2, <2>3, <2>4, <2>5 DEF Starts
<1> QED
  BY <1>1, <1>2 DEF Dispatch

LEMMA NextTimers ==
  ASSUME IInv, TimersKept, [Next]_vars
  PROVE  TimersKept'
<1> USE DEF IInv, TypeOK, TimersKept
<1>1. CASE NothingLive(FALSE) \/ WatchdogFires(FALSE)
  <2>1. CASE NothingLive(FALSE)
    BY <2>1 DEF NothingLive
  <2>2. CASE WatchdogFires(FALSE)
    BY <2>2 DEF WatchdogFires, KillAll
  <2> QED
    BY <1>1, <2>1, <2>2
<1>2. CASE Dispatch(FALSE)
  <2> HIDE DEF IInv, TypeOK, TimersKept
  <2> QED
    BY <1>2, DispatchStarts, RunTimers DEF Starts
<1>3. CASE FuelOut \/ SchedYield
  <2>1. CASE FuelOut
    BY <2>1, OwnSlot DEF FuelOut, Yield, ReturnFromStep
  <2>2. CASE SchedYield
    BY <2>2, OwnSlot DEF SchedYield, Yield, ReturnFromStep
  <2> QED
    BY <1>3, <2>1, <2>2
<1>4. ASSUME NEW d \in Delays, Sleep(d)
      PROVE  TimersKept'
  BY <1>4, OwnSlot DEF Sleep, Yield, ReturnFromStep
<1>5. ASSUME NEW a \in Addrs, NEW d \in Delays \cup {Never}, Wait(a, d)
      PROVE  TimersKept'
  <2>1. SuspendsAt(a) /\ cur \in Used /\ SlotOf(Me) = cur
    BY <1>5, WaitIs, OwnSlot DEF SuspendsAt
  <2>2. until' = IF Blocks(Me, a) /\ d # Never THEN At(until, {cur}, now + d)
                 ELSE until
    BY <1>5, <2>1 DEF Wait, UntilAfterWait
  <2> QED
    BY <2>1, <2>2, OwnSlot DEF SuspendsAt
<1>6. CASE WorkerReturns \/ MainReturns \/ Trap \/ ProcExit
  BY <1>6, OwnSlot DEF WorkerReturns, MainReturns, Trap, ProcExit,
     ReturnFromStep, KillAll
<1>7. ASSUME NEW a \in Addrs, NEW n \in Counts, Notify(a, n)
      PROVE  TimersKept'
  BY <1>7 DEF Notify, WakeWaiters, IsFirstOf, WaitersOf
<1>8. CASE Spawn
  <2>1. CASE TableFull
    BY <1>8, <2>1 DEF Spawn, RegisterThread
  <2>2. CASE ~TableFull
    <3>1. RegistersIn(NewSlot)
      BY <1>8, <2>2, SpawnIs
    <3> QED
      BY <3>1 DEF RegistersIn
  <2> QED
    BY <2>1, <2>2
<1>9. CASE \/ \E d \in Delays : MainSleeps(d)
           \/ \E d \in Budgets \cup {0} : SetWatchdog(d)
           \/ Tick
           \/ UNCHANGED vars
  BY <1>9 DEF MainSleeps, SetWatchdog, Tick, vars
<1> HIDE DEF IInv, TypeOK, TimersKept
<1> QED
  BY <1>1, <1>2, <1>3, <1>4, <1>5, <1>6, <1>7, <1>8, <1>9
     DEF Next, KernelStep, EndsSlice, InSlice

-----------------------------------------------------------------------------
(* A slice starts.                                                         *)

\* The steps on threads that are there already leave the others as they are.
SameThreads ==
  /\ numThreads' = numThreads
  /\ nextTid' = nextTid
  /\ Live' = Live
  /\ \A s \in Live : env'[s] = env[s]


\* What the life of a thread says of its slot.
LEMMA LifeTells ==
  ASSUME View
  PROVE  /\ \A s \in Live :
              /\ lifeBar[env[s]] = "ready"    <=> state[s] = "ready"
              /\ lifeBar[env[s]] = "running"  <=> state[s] = "running"
              /\ lifeBar[env[s]] = "waiting"  <=> state[s] = "blocked_wait"
              /\ lifeBar[env[s]] = "sleeping" <=> state[s] = "blocked_io"
              /\ lifeBar[env[s]] \notin {"absent", "done"}
         /\ \A t \in Tids : lifeBar[t] \in {"ready", "running", "waiting", "sleeping"}
                              => \E s \in Live : env[s] = t
         /\ \A t \in Tids : lifeBar[t] \notin {"absent", "done"}
                              => \E s \in Live : env[s] = t
<1>1. ASSUME NEW s \in Live
      PROVE  /\ lifeBar[env[s]] = "ready"    <=> state[s] = "ready"
             /\ lifeBar[env[s]] = "running"  <=> state[s] = "running"
             /\ lifeBar[env[s]] = "waiting"  <=> state[s] = "blocked_wait"
             /\ lifeBar[env[s]] = "sleeping" <=> state[s] = "blocked_io"
             /\ lifeBar[env[s]] \notin {"absent", "done"}
  <2>1. lifeBar[env[s]] = Shown(state[s]) /\ state[s] \in LiveStates
    BY DEF View
  <2> QED
    BY <2>1 DEF Shown, LiveStates
<1>2. ASSUME NEW t \in Tids, \A s \in Live : env[s] # t
      PROVE  lifeBar[t] \in {"absent", "done"}
  BY <1>2 DEF View
<1> HIDE DEF Live, Tids
<1> QED
  BY <1>1, <1>2

\* A thread without a slot is not touched.
LEMMA OthersKeep ==
  ASSUME View, View', SameThreads,
         NEW t \in Tids, \A r \in Live : env[r] # t
  PROVE  lifeBar'[t] = lifeBar[t] /\ onBar'[t] = onBar[t] /\ dueBar'[t] = dueBar[t]
<1>1. \A r \in Live' : env'[r] # t
  BY DEF SameThreads
<1>2. /\ lifeBar'[t] = IF t < nextTid THEN "done" ELSE "absent"
      /\ onBar'[t] = {}
      /\ dueBar'[t] = Never
  BY <1>1 DEF View, SameThreads
<1>3. /\ lifeBar[t] = IF t < nextTid THEN "done" ELSE "absent"
      /\ onBar[t] = {}
      /\ dueBar[t] = Never
  BY DEF View
<1> QED
  BY <1>2, <1>3

\* When slots of S change alike, so do their threads, and no other thread.
LEMMA ChangesLife ==
  ASSUME View, View', SameThreads,
         NEW S \in SUBSET Live, NEW v,
         \A r \in Live : state'[r] = IF r \in S THEN v ELSE state[r]
  PROVE  lifeBar' = T!With(lifeBar, {env[r] : r \in S}, Shown(v))
<1>1. /\ lifeBar' = [t \in Tids |-> lifeBar'[t]]
      /\ \A q, r \in Live : env[q] = env[r] => q = r
      /\ \A r \in Live : env[r] \in Tids
  BY DEF View
<1>2. \A r \in Live : lifeBar[env[r]] = Shown(state[r]) /\ lifeBar'[env[r]] = Shown(state'[r])
  BY DEF View, SameThreads
<1>3. \A t \in Tids : (\A r \in Live : env[r] # t) => lifeBar'[t] = lifeBar[t]
  BY OthersKeep
<1> HIDE DEF Live, Tids
<1> QED
  BY <1>1, <1>2, <1>3 DEF T!With

LEMMA ChangesOn ==
  ASSUME View, View', SameThreads,
         NEW S \in SUBSET Live, NEW v,
         \A r \in Live : OnOf(state'[r], waitAddr'[r]) = IF r \in S THEN v ELSE OnOf(state[r], waitAddr[r])
  PROVE  onBar' = T!With(onBar, {env[r] : r \in S}, v)
<1>1. /\ onBar' = [t \in Tids |-> onBar'[t]]
      /\ \A q, r \in Live : env[q] = env[r] => q = r
      /\ \A r \in Live : env[r] \in Tids
  BY DEF View
<1>2. \A r \in Live : onBar[env[r]] = OnOf(state[r], waitAddr[r]) /\ onBar'[env[r]] = OnOf(state'[r], waitAddr'[r])
  BY DEF View, SameThreads
<1>3. \A t \in Tids : (\A r \in Live : env[r] # t) => onBar'[t] = onBar[t]
  BY OthersKeep
<1> HIDE DEF Live, Tids
<1> QED
  BY <1>1, <1>2, <1>3 DEF T!With

LEMMA ChangesDue ==
  ASSUME View, View', SameThreads,
         NEW S \in SUBSET Live, NEW v,
         \A r \in Live : until'[r] = IF r \in S THEN v ELSE until[r]
  PROVE  dueBar' = T!With(dueBar, {env[r] : r \in S}, v)
<1>1. /\ dueBar' = [t \in Tids |-> dueBar'[t]]
      /\ \A q, r \in Live : env[q] = env[r] => q = r
      /\ \A r \in Live : env[r] \in Tids
  BY DEF View
<1>2. \A r \in Live : dueBar[env[r]] = until[r] /\ dueBar'[env[r]] = until'[r]
  BY DEF View, SameThreads
<1>3. \A t \in Tids : (\A r \in Live : env[r] # t) => dueBar'[t] = dueBar[t]
  BY OthersKeep
<1> HIDE DEF Live, Tids
<1> QED
  BY <1>1, <1>2, <1>3 DEF T!With

LEMMA StartsSlice ==
  ASSUME IInv, View, View', TimersKept,
         NEW s \in Used, NEW W \in SUBSET Used, Starts(s, W)
  PROVE  T!StartSlice(env[s])
<1> DEFINE Up == Expired \cup IoDone
           Woken == {env[r] : r \in Up \cup W}
<1>1. SameThreads /\ s \in Live
  <2>1. numThreads' = numThreads /\ nextTid' = nextTid /\ env' = env
    BY DEF Starts, Run
  <2>2. \A r \in Used : state'[r] \notin Dead <=> state[r] \notin Dead
    BY DEF Starts, Run, Polled, Expired, IoDone, IInv, TypeOK
  <2>4. Live' = Live
    BY <2>1, <2>2
  <2>3. s \in Live
    BY DEF Starts, Polled, Expired, IoDone, IInv, TypeOK
  <2> QED
    BY <2>1, <2>3, <2>4 DEF SameThreads
<1>2. /\ state' = [r \in Slots |-> IF r = s THEN "running"
                                    ELSE IF r \in Up \cup W THEN "ready" ELSE state[r]]
      /\ waitAddr' = At(waitAddr, Expired \cup W, NoAddr)
      /\ until' = At(until, Up \cup W, Never)
  BY DEF Starts, Run, Polled
<1>3. Up \in SUBSET Live /\ W \in SUBSET Live /\ Live \in SUBSET Slots
  <2>1. Up \in SUBSET Live
    BY DEF Expired, IoDone
  <2>2. W \in SUBSET Live
    BY DEF Starts
  <2>3. Live \in SUBSET Slots
    BY DEF IInv, TypeOK
  <2> QED
    BY <2>1, <2>2, <2>3
<1>4. \A r \in Live : state[r] # "running"
  BY DEF Starts, OneRunner, IInv, TypeOK
<1>5. \A t \in Tids : lifeBar[t] # "running"
  BY <1>4, LifeTells
<1>6. T!Overdue = {env[r] : r \in Up}
  <2>1. ASSUME NEW t \in T!Overdue PROVE t \in {env[r] : r \in Up}
    <3>1. PICK r \in Live : env[r] = t
      BY LifeTells DEF T!Overdue, T!Blocked
    <3>2. state[r] \in {"blocked_wait", "blocked_io"} /\ until[r] # Never /\ now >= until[r]
      BY <3>1, LifeTells DEF T!Overdue, T!Blocked, T!Never, View
    <3> QED
      BY <3>1, <3>2 DEF Expired, IoDone
  <2>2. ASSUME NEW r \in Up PROVE env[r] \in T!Overdue
    <3>1. r \in Live /\ state[r] \in {"blocked_wait", "blocked_io"}
          /\ until[r] # Never /\ now >= until[r]
      BY DEF Expired, IoDone, TimersKept
    <3>2. env[r] \in Tids /\ lifeBar[env[r]] \in {"waiting", "sleeping"}
          /\ dueBar[env[r]] = until[r]
      BY <3>1, LifeTells DEF View
    <3> QED
      BY <3>1, <3>2 DEF T!Overdue, T!Blocked, T!Never
  <2> QED
    BY <2>1, <2>2
<1>7. (\A t \in Tids : T!With(lifeBar, T!Overdue, "ready")[t] # "ready")
        <=> Candidates(Polled, FALSE) = {}
  <2>1. \A r \in Live : env[r] \in T!Overdue <=> r \in Up
    <3>1. \A q, r \in Live : env[q] = env[r] => q = r
      BY DEF View
    <3> HIDE DEF Live, Up
    <3> QED
      BY <3>1, <1>3, <1>6
  <2>2. \A r \in Used : Polled[r] = IF r \in Up THEN "ready" ELSE state[r]
    BY DEF Polled, IInv, TypeOK
  <2>3. Candidates(Polled, FALSE) = {r \in Live : r \in Up \/ state[r] = "ready"}
    <3> HIDE DEF Up
    <3> QED
      BY <2>2, <1>3 DEF Candidates
  <2>4. \A r \in Live : env[r] \in Tids
    BY DEF View
  <2>5. \A t \in Tids : T!With(lifeBar, T!Overdue, "ready")[t]
                          = IF t \in T!Overdue THEN "ready" ELSE lifeBar[t]
    BY DEF T!With
  <2>6. \A t \in T!Overdue : \E r \in Live : env[r] = t
    <3> HIDE DEF Up
    <3> QED
      BY <1>3, <1>6
  <2>7. \A r \in Live : T!With(lifeBar, T!Overdue, "ready")[env[r]] = "ready"
                         <=> r \in Candidates(Polled, FALSE)
    <3> HIDE DEF Live, Tids, Up
    <3> QED
      BY <2>1, <2>3, <2>4, <2>5, LifeTells
  <2>8. \A t \in Tids : T!With(lifeBar, T!Overdue, "ready")[t] = "ready"
                          => \E r \in Live : env[r] = t
    <3> HIDE DEF Live, Tids, Up
    <3> QED
      BY <2>5, <2>6, LifeTells
  <2> HIDE DEF Live, Tids, Up
  <2> QED
    BY <2>3, <2>4, <2>7, <2>8
<1>8. (IF \A t \in Tids : T!With(lifeBar, T!Overdue, "ready")[t] # "ready"
       THEN T!Overdue \cup {t \in Tids : lifeBar[t] = "waiting"} ELSE T!Overdue) = Woken
  <2>1. CASE Candidates(Polled, FALSE) # {}
    <3>1. W = {}
      BY <2>1 DEF Starts
    <3> HIDE DEF Up, Tids
    <3> QED
      BY <2>1, <3>1, <1>6, <1>7
  <2>2. CASE Candidates(Polled, FALSE) = {}
    <3>1. W = Stalled(FALSE)
      BY <2>2 DEF Starts
    <3>2. Up \cup W = Up \cup {r \in Live : state[r] = "blocked_wait"}
      <4>1. \A r \in Used : Polled[r] = "blocked_wait"
                             <=> state[r] = "blocked_wait" /\ r \notin Up
        BY DEF Polled, IInv, TypeOK
      <4>2. W = {r \in Used : state[r] = "blocked_wait" /\ r \notin Up}
        BY <3>1, <4>1 DEF Stalled
      <4> HIDE DEF Up
      <4> QED
        BY <4>2
    <3>3. {t \in Tids : lifeBar[t] = "waiting"}
            = {env[r] : r \in {q \in Live : state[q] = "blocked_wait"}}
      <4>1. \A r \in Live : env[r] \in Tids
        BY DEF View
      <4> HIDE DEF Tids, Live
      <4> QED
        BY <4>1, LifeTells
    <3> HIDE DEF Up, Tids, Live
    <3> QED
      BY <2>2, <3>2, <3>3, <1>6, <1>7
  <2> QED
    BY <2>1, <2>2
<1>0. s \in Up \cup W \/ state[s] = "ready"
  <2>1. At(Polled, W, "ready")[s] = "ready"
    BY DEF Starts
  <2> QED
    BY <2>1 DEF Polled, IInv, TypeOK
<1>9. env[s] \in Woken \/ lifeBar[env[s]] = "ready"
  <2> HIDE DEF Up
  <2> QED
    BY <1>1, <1>0, LifeTells
<1>10. lifeBar' = T!With(T!With(lifeBar, Woken, "ready"), {env[s]}, "running")
  <2>1. \A r \in Live : /\ r = s => lifeBar'[env[r]] = "running"
                        /\ r # s /\ r \in Up \cup W => lifeBar'[env[r]] = "ready"
                        /\ r # s /\ r \notin Up \cup W => lifeBar'[env[r]] = lifeBar[env[r]]
    <3>1. \A r \in Live : /\ lifeBar'[env[r]] = Shown(state'[r])
                          /\ lifeBar[env[r]] = Shown(state[r])
      BY <1>1 DEF View, SameThreads
    <3>2. Shown("running") = "running" /\ Shown("ready") = "ready"
      BY DEF Shown
    <3> HIDE DEF Up, Tids
    <3> QED
      BY <1>2, <1>3, <3>1, <3>2
  <2>2. \A t \in Tids : (\A r \in Live : env[r] # t) => lifeBar'[t] = lifeBar[t]
    BY <1>1, OthersKeep
  <2>3. /\ \A q, r \in Live : env[q] = env[r] => q = r
        /\ lifeBar' = [t \in Tids |-> lifeBar'[t]]
    BY DEF View
  <2> HIDE DEF Live, Tids, Up
  <2> QED
    BY <2>1, <2>2, <2>3, <1>1, <1>3 DEF T!With
<1>11. onBar' = T!With(onBar, Woken, {})
  <2>1. \A r \in Live : OnOf(state'[r], waitAddr'[r]) = IF r \in Up \cup W THEN {} ELSE OnOf(state[r], waitAddr[r])
    <3>1. \A r \in Live : r \notin Up \cup W => waitAddr'[r] = waitAddr[r]
      BY <1>2, <1>3
    <3> HIDE DEF Up, Live
    <3> QED
      BY <1>0, <1>2, <1>3, <3>1 DEF OnOf
  <2> HIDE DEF Live, Up
  <2> QED
    BY <2>1, <1>1, <1>3, ChangesOn
<1>12. dueBar' = T!With(dueBar, Woken, Never)
  <2>1. \A r \in Live : until'[r] = IF r \in Up \cup W THEN Never ELSE until[r]
    BY <1>2, <1>3 DEF IInv, TypeOK
  <2> HIDE DEF Live, Up
  <2> QED
    BY <2>1, <1>1, <1>3, ChangesDue
<1>13. now' = now
  BY DEF Starts, Run
<1> HIDE DEF Woken
<1> QED
  BY <1>5, <1>8, <1>9, <1>10, <1>11, <1>12, <1>13
     DEF T!StartSlice, T!Release, T!Never

-----------------------------------------------------------------------------
(* The running thread gives up its slice, one way or another.              *)

\* The slot that executes becomes st and no other changes.
Leaves(st) ==
  /\ cur # NoSlot
  /\ state' = At(state, {cur}, st)
  /\ UNCHANGED <<env, numThreads, nextTid, now>>

LEMMA LeavesLife ==
  ASSUME IInv, View, View', NEW st \in LiveStates, Leaves(st)
  PROVE  /\ SameThreads
         /\ Me \in Tids /\ lifeBar[Me] = "running"
         /\ lifeBar' = T!With(lifeBar, {Me}, Shown(st))
<1>1. cur \in Live /\ state[cur] = "running" /\ cur \in Slots
  BY OwnSlot DEF Leaves, IInv, TypeOK
<1>2. \A r \in Used : r # cur => state'[r] = state[r]
  BY DEF Leaves, IInv, TypeOK
<1>3. state'[cur] = st
  BY <1>1 DEF Leaves
<1>4. Live' = Live
  BY <1>1, <1>2, <1>3 DEF Leaves, LiveStates
<1>5. SameThreads
  BY <1>4 DEF SameThreads, Leaves
<1>6. \A r \in Live : state'[r] = IF r \in {cur} THEN st ELSE state[r]
  BY <1>2, <1>3
<1>7. lifeBar' = T!With(lifeBar, {env[r] : r \in {cur}}, Shown(st))
  <2> HIDE DEF Live
  <2> QED
    BY <1>1, <1>5, <1>6, ChangesLife
<1>8. {env[r] : r \in {cur}} = {Me}
  BY DEF Me
<1>9. Me \in Tids /\ lifeBar[Me] = "running"
  BY <1>1, LifeTells DEF View, Me
<1> QED
  BY <1>5, <1>7, <1>8, <1>9

\* Where the thread waits, and until when, follows from the slot's fields.
LEMMA LeavesOn ==
  ASSUME IInv, View, View', SameThreads, cur # NoSlot, NEW v,
         \A r \in Live \ {cur} : OnOf(state'[r], waitAddr'[r]) = OnOf(state[r], waitAddr[r]),
         OnOf(state'[cur], waitAddr'[cur]) = v
  PROVE  onBar' = T!With(onBar, {Me}, v)
<1>1. cur \in Live
  BY OwnSlot
<1>2. onBar' = T!With(onBar, {env[r] : r \in {cur}}, v)
  <2> HIDE DEF Live
  <2>1. \A r \in Live : OnOf(state'[r], waitAddr'[r]) = IF r \in {cur} THEN v ELSE OnOf(state[r], waitAddr[r])
    BY <1>1
  <2> QED
    BY <1>1, <2>1, ChangesOn
<1>3. {env[r] : r \in {cur}} = {Me}
  BY DEF Me
<1> QED
  BY <1>2, <1>3

LEMMA LeavesDue ==
  ASSUME IInv, View, View', SameThreads, cur # NoSlot, NEW v,
         \A r \in Live \ {cur} : until'[r] = until[r],
         until'[cur] = v
  PROVE  dueBar' = T!With(dueBar, {Me}, v)
<1>1. cur \in Live
  BY OwnSlot
<1>2. dueBar' = T!With(dueBar, {env[r] : r \in {cur}}, v)
  <2> HIDE DEF Live
  <2>1. \A r \in Live : until'[r] = IF r \in {cur} THEN v ELSE until[r]
    BY <1>1
  <2> QED
    BY <1>1, <2>1, ChangesDue
<1>3. {env[r] : r \in {cur}} = {Me}
  BY DEF Me
<1> QED
  BY <1>2, <1>3

\* A running thread waits nowhere and has no timer.
LEMMA RunnerFree ==
  ASSUME IInv, View, TimersKept, cur # NoSlot
  PROVE  /\ Me \in Tids /\ onBar[Me] = {} /\ dueBar[Me] = Never
         /\ T!With(onBar, {Me}, {}) = onBar
         /\ T!With(dueBar, {Me}, Never) = dueBar
<1>1. cur \in Live /\ state[cur] = "running" /\ until[cur] = Never
  BY OwnSlot DEF TimersKept
<1>2. Me \in Tids /\ onBar[Me] = {} /\ dueBar[Me] = Never
  BY <1>1 DEF View, OnOf, Me
<1>3. onBar = [t \in Tids |-> onBar[t]] /\ dueBar = [t \in Tids |-> dueBar[t]]
  BY DEF View
<1> QED
  BY <1>2, <1>3 DEF T!With

LEMMA GivesUp ==
  ASSUME IInv, View, View', TimersKept, Leaves("ready"),
         UNCHANGED <<waitAddr, until>>
  PROVE  T!GiveUp(Me)
<1>1. cur # NoSlot /\ cur \in Live /\ state[cur] = "running" /\ until[cur] = Never
  BY OwnSlot DEF Leaves, TimersKept
<1>2. SameThreads /\ lifeBar[Me] = "running"
      /\ lifeBar' = T!With(lifeBar, {Me}, Shown("ready"))
  BY LeavesLife DEF LiveStates
<1>3. \A r \in Live : r # cur => state'[r] = state[r]
  BY DEF Leaves, IInv, TypeOK
<1>4. state'[cur] = "ready"
  BY <1>1 DEF Leaves, IInv, TypeOK
<1>5. onBar' = T!With(onBar, {Me}, {})
  BY <1>1, <1>2, <1>3, <1>4, LeavesOn DEF OnOf
<1>6. dueBar' = T!With(dueBar, {Me}, Never)
  BY <1>1, <1>2, LeavesDue
<1>7. Shown("ready") = "ready" /\ now' = now
  BY DEF Shown, Leaves
<1> QED
  BY <1>1, <1>2, <1>5, <1>6, <1>7, RunnerFree DEF T!GiveUp

LEMMA FuelOutGivesUp ==
  ASSUME IInv, View, View', TimersKept, FuelOut
  PROVE  T!GiveUp(Me)
<1>1. Leaves("ready") /\ UNCHANGED <<waitAddr, until>>
  BY OwnSlot DEF FuelOut, Yield, ReturnFromStep, Leaves
<1> QED
  BY <1>1, GivesUp

LEMMA SchedYieldGivesUp ==
  ASSUME IInv, View, View', TimersKept, SchedYield
  PROVE  T!GiveUp(Me)
<1>1. Leaves("ready") /\ UNCHANGED <<waitAddr, until>>
  BY OwnSlot DEF SchedYield, Yield, ReturnFromStep, Leaves
<1> QED
  BY <1>1, GivesUp

LEMMA SleepDozes ==
  ASSUME IInv, View, View', TimersKept, NEW d \in Delays, Sleep(d)
  PROVE  T!Doze(Me, d)
<1>1. Leaves("blocked_io") /\ waitAddr' = waitAddr /\ until' = At(until, {cur}, now + d)
  BY OwnSlot DEF Sleep, Yield, ReturnFromStep, Leaves, IInv, TypeOK
<1>2. cur # NoSlot /\ cur \in Live /\ cur \in Slots /\ state[cur] = "running"
  BY OwnSlot DEF Sleep, IInv, TypeOK
<1>3. SameThreads /\ lifeBar[Me] = "running"
      /\ lifeBar' = T!With(lifeBar, {Me}, Shown("blocked_io"))
  BY <1>1, LeavesLife DEF LiveStates
<1>4. /\ \A r \in Live : r # cur => state'[r] = state[r] /\ until'[r] = until[r]
      /\ state'[cur] = "blocked_io" /\ until'[cur] = now + d
  BY <1>1, <1>2 DEF Leaves, IInv, TypeOK
<1>5. onBar' = T!With(onBar, {Me}, {})
  BY <1>1, <1>2, <1>3, <1>4, LeavesOn DEF OnOf
<1>6. dueBar' = T!With(dueBar, {Me}, now + d)
  <2> HIDE DEF Live
  <2> QED
    BY <1>2, <1>3, <1>4, LeavesDue
<1>7. Shown("blocked_io") = "sleeping" /\ now' = now
  BY <1>1 DEF Shown, Leaves
<1> QED
  BY <1>2, <1>3, <1>5, <1>6, <1>7, RunnerFree DEF T!Doze

LEMMA WaitBlocks ==
  ASSUME IInv, View, View', TimersKept,
         NEW a \in Addrs, NEW d \in Delays \cup {Never}, Wait(a, d)
  PROVE  T!GiveUp(Me) \/ T!Block(Me, a, d)
<1>1. SuspendsAt(a) /\ SlotOf(Me) = cur
  BY WaitIs, OwnSlot DEF SuspendsAt
<1>2. cur # NoSlot /\ cur \in Live /\ cur \in Slots /\ state[cur] = "running"
      /\ until[cur] = Never
  BY <1>1, OwnSlot DEF SuspendsAt, IInv, TypeOK, TimersKept
<1>3. until' = IF Blocks(Me, a) /\ d # Never THEN At(until, {cur}, now + d) ELSE until
  BY <1>1 DEF Wait, UntilAfterWait
<1>4. CASE ~Blocks(Me, a)
  <2>1. Leaves("ready") /\ UNCHANGED <<waitAddr, until>>
    BY <1>1, <1>3, <1>4 DEF SuspendsAt, Leaves
  <2> QED
    BY <2>1, GivesUp
<1>5. CASE Blocks(Me, a)
  <2>1. Leaves("blocked_wait") /\ waitAddr' = At(waitAddr, {cur}, a)
    BY <1>1, <1>5 DEF SuspendsAt, Leaves
  <2>2. SameThreads /\ lifeBar[Me] = "running"
        /\ lifeBar' = T!With(lifeBar, {Me}, Shown("blocked_wait"))
    BY <2>1, LeavesLife DEF LiveStates
  <2>3. /\ \A r \in Live : r # cur => /\ state'[r] = state[r]
                                      /\ waitAddr'[r] = waitAddr[r]
                                      /\ until'[r] = until[r]
        /\ state'[cur] = "blocked_wait"
        /\ waitAddr'[cur] = a
        /\ until'[cur] = IF d = Never THEN Never ELSE now + d
    BY <2>1, <1>2, <1>3, <1>5 DEF Leaves, IInv, TypeOK
  <2>4. onBar' = T!With(onBar, {Me}, {a})
    <3> HIDE DEF Live
    <3> QED
      BY <1>2, <2>2, <2>3, LeavesOn DEF OnOf
  <2>5. dueBar' = T!With(dueBar, {Me}, IF d = Never THEN Never ELSE now + d)
    <3> HIDE DEF Live
    <3> QED
      BY <1>2, <2>2, <2>3, LeavesDue
  <2>6. Shown("blocked_wait") = "waiting" /\ now' = now
    BY <2>1 DEF Shown, Leaves
  <2> QED
    BY <2>2, <2>4, <2>5, <2>6 DEF T!Block, T!Never
<1> QED
  BY <1>4, <1>5

-----------------------------------------------------------------------------
(* Threads end.                                                            *)

\* The slots of S leave the table of the living, no other thread changes.
EndAt(S) ==
  /\ S \in SUBSET Live
  /\ Live' = Live \ S
  /\ UNCHANGED <<waitAddr, until, numThreads, nextTid, now>>
  /\ \A r \in Live \ S : state'[r] = state[r] /\ env'[r] = env[r]

LEMMA EndsThreads ==
  ASSUME IInv, View, View', NEW S, EndAt(S)
  PROVE  /\ lifeBar' = T!With(lifeBar, {env[r] : r \in S}, "done")
         /\ onBar' = T!With(onBar, {env[r] : r \in S}, {})
         /\ dueBar' = T!With(dueBar, {env[r] : r \in S}, Never)
<1> DEFINE E == {env[r] : r \in S}
<1>1. /\ lifeBar' = [t \in Tids |-> lifeBar'[t]]
      /\ onBar' = [t \in Tids |-> onBar'[t]]
      /\ dueBar' = [t \in Tids |-> dueBar'[t]]
      /\ \A q, r \in Live : env[q] = env[r] => q = r
  BY DEF View
<1>2. ASSUME NEW r \in S
      PROVE  lifeBar'[env[r]] = "done" /\ onBar'[env[r]] = {} /\ dueBar'[env[r]] = Never
  <2>1. env[r] \in Tids /\ env[r] < nextTid'
    BY DEF EndAt, View, IInv, SlotsOwned
  <2>2. \A q \in Live' : env'[q] # env[r]
    <3> HIDE DEF Live
    <3> QED
      BY <1>1 DEF EndAt
  <2> QED
    BY <2>1, <2>2 DEF View
<1>3. ASSUME NEW r \in Live \ S
      PROVE  /\ lifeBar'[env[r]] = lifeBar[env[r]]
             /\ onBar'[env[r]] = onBar[env[r]]
             /\ dueBar'[env[r]] = dueBar[env[r]]
             /\ env[r] \notin E
  <2>1. r \in Live' /\ env'[r] = env[r] /\ state'[r] = state[r]
        /\ waitAddr' = waitAddr /\ until' = until
    <3> HIDE DEF Live
    <3> QED
      BY DEF EndAt
  <2>2. env[r] \notin E
    <3> HIDE DEF Live
    <3> QED
      BY <1>1 DEF EndAt
  <2>3. /\ lifeBar'[env'[r]] = Shown(state'[r])
        /\ onBar'[env'[r]] = OnOf(state'[r], waitAddr'[r])
        /\ dueBar'[env'[r]] = until'[r]
    BY <2>1 DEF View
  <2>4. /\ lifeBar[env[r]] = Shown(state[r])
        /\ onBar[env[r]] = OnOf(state[r], waitAddr[r])
        /\ dueBar[env[r]] = until[r]
    BY DEF View
  <2> QED
    BY <2>1, <2>2, <2>3, <2>4
<1>4. ASSUME NEW t \in Tids, \A r \in Live : env[r] # t
      PROVE  lifeBar'[t] = lifeBar[t] /\ onBar'[t] = onBar[t] /\ dueBar'[t] = dueBar[t]
  <2>1. \A r \in Live' : env'[r] # t
    <3> HIDE DEF Live
    <3> QED
      BY <1>4 DEF EndAt
  <2>2. nextTid' = nextTid
    BY DEF EndAt
  <2> QED
    BY <1>4, <2>1, <2>2 DEF View
<1>5. S \in SUBSET Live
  BY DEF EndAt
<1> HIDE DEF Live, Tids
<1> QED
  BY <1>1, <1>2, <1>3, <1>4, <1>5 DEF T!With

LEMMA AllDie ==
  ASSUME IInv, View, View', EndAt(Live), Live # {}
  PROVE  T!Die
<1>1. T!Alive = {env[r] : r \in Live}
  <2>1. \A r \in Live : env[r] \in Tids
    BY DEF View
  <2> HIDE DEF Live, Tids
  <2> QED
    BY <2>1, LifeTells DEF T!Alive
<1>2. now' = now
  BY DEF EndAt
<1>3. T!Alive # {}
  <2> HIDE DEF Live
  <2> QED
    BY <1>1
<1> HIDE DEF Live
<1> QED
  BY <1>1, <1>2, <1>3, EndsThreads DEF T!Die, T!Release, T!Never

\* A step that terminates every thread.
LEMMA KillDies ==
  ASSUME IInv, View, View', Live # {}, state' = KillAll(state),
         UNCHANGED <<env, waitAddr, until, numThreads, nextTid, now>>
  PROVE  T!Die
<1>1. \A s \in Used : state'[s] \in Dead
  BY DEF KillAll, IInv, TypeOK
<1>2. Live' = {}
  BY <1>1
<1>3. EndAt(Live)
  BY <1>2 DEF EndAt
<1> QED
  BY <1>3, AllDie

LEMMA WatchdogDies ==
  ASSUME IInv, View, View', WatchdogFires(FALSE)
  PROVE  T!Die
  BY KillDies DEF WatchdogFires

LEMMA GuestDies ==
  ASSUME IInv, View, View', MainReturns \/ Trap \/ ProcExit
  PROVE  T!Die
<1>1. cur # NoSlot
  BY DEF MainReturns, Trap, ProcExit
<1>2. Live # {}
  BY <1>1, OwnSlot
<1>3. state' = KillAll(state)
  BY <1>1, OwnSlot DEF MainReturns, Trap, ProcExit, ReturnFromStep
<1>4. UNCHANGED <<env, waitAddr, until, numThreads, nextTid, now>>
  BY DEF MainReturns, Trap, ProcExit
<1> QED
  BY <1>2, <1>3, <1>4, KillDies

LEMMA WorkerFinishes ==
  ASSUME IInv, View, View', TimersKept, WorkerReturns
  PROVE  T!Finish(Me)
<1>1. WorkerExits /\ cur # NoSlot /\ cur \in Live /\ state[cur] = "running"
  BY WorkerReturnsIs, OwnSlot DEF WorkerExits
<1>2. /\ state'[cur] = "exited"
      /\ \A r \in Used : r # cur => state'[r] = state[r] /\ env'[r] = env[r]
  BY <1>1 DEF WorkerExits, IInv, TypeOK
<1>3. Live' = Live \ {cur}
  BY <1>1, <1>2 DEF WorkerExits
<1>4. PICK c : c = cur
  OBVIOUS
<1>5. EndAt({c})
  BY <1>1, <1>2, <1>3, <1>4 DEF EndAt, WorkerExits
<1>6. /\ lifeBar' = T!With(lifeBar, {Me}, "done")
      /\ onBar' = T!With(onBar, {Me}, {})
      /\ dueBar' = T!With(dueBar, {Me}, Never)
  <2>1. {env[r] : r \in {c}} = {Me}
    BY <1>4 DEF Me
  <2>2. /\ lifeBar' = T!With(lifeBar, {env[r] : r \in {c}}, "done")
        /\ onBar' = T!With(onBar, {env[r] : r \in {c}}, {})
        /\ dueBar' = T!With(dueBar, {env[r] : r \in {c}}, Never)
    BY <1>5, EndsThreads
  <2> QED
    BY <2>1, <2>2
<1>7. lifeBar[Me] = "running"
  BY <1>1, LifeTells DEF Me
<1>8. now' = now
  BY <1>1 DEF WorkerExits
<1> QED
  BY <1>1, <1>6, <1>7, <1>8, RunnerFree DEF T!Finish

-----------------------------------------------------------------------------
(* What a thread does during its slice.                                    *)

\* Slots with distinct owners are as many as their owners.
LEMMA OwnersCounted ==
  ASSUME View, NEW S \in SUBSET Live, IsFiniteSet(S)
  PROVE  Cardinality({env[r] : r \in S}) = Cardinality(S)
<1> DEFINE E == {env[r] : r \in S}
           f == [r \in S |-> env[r]]
<1>1. \A q, r \in S : env[q] = env[r] => q = r
  BY DEF View
<1>2. f \in [S -> E] /\ \A t \in E : \E r \in S : f[r] = t
  OBVIOUS
<1>3. f \in Bijection(S, E)
  BY <1>1, <1>2 DEF Bijection, Injection, Surjection, IsInjective
<1>4. ExistsBijection(S, E)
  BY <1>3 DEF ExistsBijection
<1> QED
  BY <1>4, FS_Bijection

LEMMA NotifyWakes ==
  ASSUME IInv, View, View', NEW a \in Addrs, NEW n \in Counts, Notify(a, n)
  PROVE  T!Wake(Me, a, n)
<1>1. PICK W \in SUBSET Used :
        /\ IsFirstOf(W, WaitersOf(a), n)
        /\ state'    = At(state, W, "ready")
        /\ waitAddr' = At(waitAddr, W, NoAddr)
        /\ until'    = At(until, W, Never)
  BY DEF Notify, WakeWaiters
<1> DEFINE R == {env[r] : r \in W}
<1>2. W \in SUBSET Live /\ \A r \in W : state[r] = "blocked_wait" /\ waitAddr[r] = a
  BY <1>1 DEF IsFirstOf, WaitersOf
<1>3. \A r \in Used : /\ state'[r] = IF r \in W THEN "ready" ELSE state[r]
                      /\ waitAddr'[r] = IF r \in W THEN NoAddr ELSE waitAddr[r]
                      /\ until'[r] = IF r \in W THEN Never ELSE until[r]
  BY <1>1 DEF IInv, TypeOK
<1>4. Live' = Live
  BY <1>2, <1>3 DEF Notify
<1>5. SameThreads
  BY <1>4 DEF SameThreads, Notify
<1>6. lifeBar' = T!With(lifeBar, R, "ready")
  <2>1. \A r \in Live : state'[r] = IF r \in W THEN "ready" ELSE state[r]
    BY <1>3
  <2>2. Shown("ready") = "ready"
    BY DEF Shown
  <2> HIDE DEF Live
  <2> QED
    BY <1>2, <1>5, <2>1, <2>2, ChangesLife
<1>7. onBar' = T!With(onBar, R, {})
  <2>1. \A r \in Live : OnOf(state'[r], waitAddr'[r])
                          = IF r \in W THEN {} ELSE OnOf(state[r], waitAddr[r])
    BY <1>3 DEF OnOf
  <2> HIDE DEF Live
  <2> QED
    BY <1>2, <1>5, <2>1, ChangesOn
<1>8. dueBar' = T!With(dueBar, R, Never)
  <2>1. \A r \in Live : until'[r] = IF r \in W THEN Never ELSE until[r]
    BY <1>3
  <2> HIDE DEF Live
  <2> QED
    BY <1>2, <1>5, <2>1, ChangesDue
<1>9. T!Waiters(a) = {env[r] : r \in WaitersOf(a)}
  <2>1. ASSUME NEW t \in T!Waiters(a) PROVE t \in {env[r] : r \in WaitersOf(a)}
    <3>1. PICK r \in Live : env[r] = t
      BY LifeTells DEF T!Waiters
    <3>2. state[r] = "blocked_wait" /\ a \in onBar[env[r]]
      BY <3>1, LifeTells DEF T!Waiters
    <3>3. onBar[env[r]] = OnOf(state[r], waitAddr[r])
      BY DEF View
    <3> QED
      BY <3>1, <3>2, <3>3 DEF WaitersOf, OnOf
  <2>2. ASSUME NEW r \in WaitersOf(a) PROVE env[r] \in T!Waiters(a)
    <3>1. r \in Live /\ state[r] = "blocked_wait" /\ waitAddr[r] = a
      BY DEF WaitersOf
    <3>2. env[r] \in Tids /\ lifeBar[env[r]] = "waiting" /\ onBar[env[r]] = {a}
      BY <3>1, LifeTells DEF View, OnOf
    <3> QED
      BY <3>2 DEF T!Waiters
  <2> QED
    BY <2>1, <2>2
<1>10. IsFiniteSet(W) /\ Cardinality(R) = Cardinality(W)
  <2>1. IsFiniteSet(Used)
    BY FS_Interval DEF IInv, TypeOK
  <2>2. IsFiniteSet(W)
    BY <2>1, FS_Subset
  <2> HIDE DEF Live
  <2> QED
    BY <1>2, <2>2, OwnersCounted
<1>11. R \in SUBSET T!Waiters(a)
       /\ (Cardinality(R) = n \/ (R = T!Waiters(a) /\ Cardinality(R) <= n))
  BY <1>1, <1>9, <1>10 DEF IsFirstOf
<1>12. lifeBar[Me] = "running" /\ now' = now
  BY OwnSlot, LifeTells DEF Notify, Me
<1> HIDE DEF R
<1>13. \E X \in SUBSET T!Waiters(a) :
         /\ Cardinality(X) = n \/ (X = T!Waiters(a) /\ Cardinality(X) <= n)
         /\ lifeBar' = T!With(lifeBar, X, "ready")
         /\ onBar' = T!With(onBar, X, {})
         /\ dueBar' = T!With(dueBar, X, Never)
  <2>1. R \in SUBSET T!Waiters(a)
    BY <1>11
  <2> USE <2>1
  <2> WITNESS R \in SUBSET T!Waiters(a)
  <2> QED
    BY <1>6, <1>7, <1>8, <1>11
<1>14. \A X : T!Cardinality(X) = Cardinality(X)
  BY DEF T!Cardinality, Cardinality
<1> QED
  BY <1>12, <1>13, <1>14 DEF T!Wake, T!Release, T!Never

LEMMA SpawnCreates ==
  ASSUME IInv, View, View', cur # NoSlot, NEW n, RegistersIn(n)
  PROVE  nextTid \in Tids /\ T!Create(Me, nextTid)
<1>1. cur \in Live /\ state[cur] = "running"
  BY OwnSlot
<1>2. nextTid \in Tids /\ nextTid' = nextTid + 1
  BY DEF RegistersIn, IInv, TypeOK
<1>3. \A r \in Live : env[r] < nextTid /\ env[r] # nextTid /\ r # n
  BY DEF IInv, SlotsOwned, TypeOK, RegistersIn
<1>4. lifeBar[nextTid] = "absent" /\ onBar[nextTid] = {} /\ dueBar[nextTid] = Never
  BY <1>2, <1>3 DEF View
<1>5. /\ \A r \in Slots : r # n => /\ state'[r] = state[r] /\ env'[r] = env[r]
                                   /\ waitAddr'[r] = waitAddr[r] /\ until'[r] = until[r]
      /\ n \in Slots /\ n \in Used'
      /\ state'[n] = "ready" /\ env'[n] = nextTid /\ until'[n] = Never
      /\ \A r \in Used' : r \in Used \/ r = n
      /\ Used \in SUBSET Used' /\ Used \in SUBSET Slots
  BY DEF RegistersIn, IInv, TypeOK
<1>6. Live' = Live \cup {n}
  <2>1. ASSUME NEW r \in Live' PROVE r \in Live \cup {n}
    BY <1>5
  <2>2. ASSUME NEW r \in Live \cup {n} PROVE r \in Live'
    BY <1>3, <1>5
  <2> QED
    BY <2>1, <2>2
<1>7. lifeBar'[nextTid] = "ready" /\ onBar'[nextTid] = {} /\ dueBar'[nextTid] = Never
  <2>1. n \in Live'
    BY <1>5
  <2> QED
    BY <1>5, <2>1 DEF View, Shown, OnOf
<1>8. ASSUME NEW r \in Live
      PROVE  /\ lifeBar'[env[r]] = lifeBar[env[r]]
             /\ onBar'[env[r]] = onBar[env[r]]
             /\ dueBar'[env[r]] = dueBar[env[r]]
             /\ env[r] # nextTid
  <2>1. r \in Live' /\ r \in Slots /\ r # n
    BY <1>3, <1>5
  <2>2. /\ lifeBar'[env'[r]] = Shown(state'[r])
        /\ onBar'[env'[r]] = OnOf(state'[r], waitAddr'[r])
        /\ dueBar'[env'[r]] = until'[r]
    BY <2>1 DEF View
  <2>3. /\ lifeBar[env[r]] = Shown(state[r])
        /\ onBar[env[r]] = OnOf(state[r], waitAddr[r])
        /\ dueBar[env[r]] = until[r]
    BY DEF View
  <2> HIDE DEF Live
  <2> QED
    BY <1>3, <1>5, <2>1, <2>2, <2>3
<1>9. ASSUME NEW t \in Tids, \A r \in Live : env[r] # t, t # nextTid
      PROVE  lifeBar'[t] = lifeBar[t] /\ onBar'[t] = onBar[t] /\ dueBar'[t] = dueBar[t]
  <2>1. \A r \in Live' : env'[r] # t
    <3>1. \A r \in Live : env'[r] = env[r]
      BY <1>3, <1>5
    <3> HIDE DEF Live
    <3> QED
      BY <1>5, <1>6, <1>9, <3>1
  <2>2. t < nextTid <=> t < nextTid'
    BY <1>2, <1>9
  <2> QED
    BY <1>9, <2>1, <2>2 DEF View
<1>10. /\ lifeBar' = [t \in Tids |-> lifeBar'[t]]
       /\ onBar' = [t \in Tids |-> onBar'[t]]
       /\ dueBar' = [t \in Tids |-> dueBar'[t]]
       /\ onBar = [t \in Tids |-> onBar[t]]
       /\ dueBar = [t \in Tids |-> dueBar[t]]
  BY DEF View
<1>11. /\ lifeBar' = T!With(lifeBar, {nextTid}, "ready")
       /\ onBar' = onBar
       /\ dueBar' = dueBar
  <2> HIDE DEF Live, Tids
  <2> QED
    BY <1>2, <1>4, <1>7, <1>8, <1>9, <1>10 DEF T!With
<1>12. lifeBar[Me] = "running" /\ now' = now
  BY <1>1, LifeTells DEF RegistersIn, Me
<1> QED
  BY <1>2, <1>4, <1>11, <1>12 DEF T!Create

-----------------------------------------------------------------------------
(* Every step is one of Threads.                                           *)

LEMMA SeenSame ==
  ASSUME View, View',
         UNCHANGED <<state, env, waitAddr, until, numThreads, nextTid>>
  PROVE  UNCHANGED <<lifeBar, onBar, dueBar>>
<1>1. SameThreads
  BY DEF SameThreads
<1>2. lifeBar' = T!With(lifeBar, {}, Shown("ready"))
      /\ onBar' = T!With(onBar, {}, {}) /\ dueBar' = T!With(dueBar, {}, Never)
  <2>1. {env[r] : r \in {}} = {}
    OBVIOUS
  <2> HIDE DEF Live
  <2> QED
    BY <1>1, <2>1, ChangesLife, ChangesOn, ChangesDue
<1> QED
  BY <1>2 DEF View, T!With

LEMMA NextSteps ==
  ASSUME IInv, TimersKept, View, View', [Next]_vars
  PROVE  [T!Step]_T!tvars
<1>1. CASE NothingLive(FALSE)
  BY <1>1, SeenSame DEF NothingLive, T!tvars
<1>2. CASE WatchdogFires(FALSE)
  BY <1>2, WatchdogDies DEF T!Step
<1>3. CASE Dispatch(FALSE)
  <2>1. PICK s \in Used, W \in SUBSET Used : Starts(s, W)
    BY <1>3, DispatchStarts
  <2>2. T!StartSlice(env[s])
    BY <2>1, StartsSlice
  <2>3. env[s] \in Tids
    BY <2>1 DEF Starts, Polled, Expired, IoDone, IInv, TypeOK, SlotsOwned
  <2> QED
    BY <2>2, <2>3 DEF T!Step
<1>4. CASE FuelOut \/ SchedYield \/ WorkerReturns
  <2>1. cur # NoSlot
    BY <1>4 DEF FuelOut, SchedYield, WorkerReturns
  <2>2. Me \in Tids
    BY <2>1, RunnerFree
  <2> QED
    BY <1>4, <2>2, FuelOutGivesUp, SchedYieldGivesUp, WorkerFinishes DEF T!Step
<1>5. ASSUME NEW d \in Delays, Sleep(d)
      PROVE  T!Step
  <2>1. Me \in Tids
    BY <1>5, RunnerFree DEF Sleep
  <2> QED
    BY <1>5, <2>1, SleepDozes DEF T!Step
<1>6. ASSUME NEW a \in Addrs, NEW d \in Delays \cup {Never}, Wait(a, d)
      PROVE  T!Step
  <2>1. Me \in Tids
    BY <1>6, RunnerFree DEF Wait
  <2> QED
    BY <1>6, <2>1, WaitBlocks DEF T!Step, T!Never
<1>7. CASE MainReturns \/ Trap \/ ProcExit
  BY <1>7, GuestDies DEF T!Step
<1>8. ASSUME NEW a \in Addrs, NEW n \in Counts, Notify(a, n)
      PROVE  T!Step
  <2>1. Me \in Tids
    BY <1>8, RunnerFree DEF Notify
  <2> QED
    BY <1>8, <2>1, NotifyWakes DEF T!Step
<1>9. CASE Spawn
  <2>1. CASE TableFull
    BY <1>9, <2>1, SeenSame DEF Spawn, RegisterThread, T!tvars
  <2>2. CASE ~TableFull
    <3>1. RegistersIn(NewSlot) /\ cur # NoSlot
      BY <1>9, <2>2, SpawnIs DEF Spawn
    <3>2. nextTid \in Tids /\ T!Create(Me, nextTid) /\ Me \in Tids
      BY <3>1, SpawnCreates, RunnerFree
    <3> QED
      BY <3>2 DEF T!Step
  <2> QED
    BY <2>1, <2>2
<1>10. ASSUME NEW d \in Delays, MainSleeps(d)
       PROVE  [T!Step]_T!tvars
  <2>1. UNCHANGED <<lifeBar, onBar, dueBar>>
    BY <1>10, SeenSame DEF MainSleeps
  <2>2. now' = now + d /\ now + d <= MaxTime /\ now \in Nat /\ d \in Nat
    BY <1>10 DEF MainSleeps, IInv, TypeOK
  <2>3. CASE d = 0
    BY <2>1, <2>2, <2>3 DEF T!tvars
  <2>4. CASE d # 0
    BY <2>1, <2>2, <2>4 DEF T!Step, T!Pass
  <2> QED
    BY <2>3, <2>4
<1>11. ASSUME NEW d \in Budgets \cup {0}, SetWatchdog(d)
       PROVE  UNCHANGED T!tvars
  BY <1>11, SeenSame DEF SetWatchdog, T!tvars
<1>12. CASE Tick
  <2>1. UNCHANGED <<lifeBar, onBar, dueBar>>
    BY <1>12, SeenSame DEF Tick
  <2>2. now' = now + 1 /\ now < MaxTime /\ now \in Nat
    BY <1>12 DEF Tick, IInv, TypeOK
  <2> QED
    BY <2>1, <2>2 DEF T!Step, T!Pass
<1>13. CASE UNCHANGED vars
  BY <1>13, SeenSame DEF vars, T!tvars
<1> QED
  BY <1>1, <1>2, <1>3, <1>4, <1>5, <1>6, <1>7, <1>8, <1>9, <1>10, <1>11, <1>12,
     <1>13 DEF Next, KernelStep, EndsSlice, InSlice

LEMMA InitBegins ==
  ASSUME Init
  PROVE  T!Begin /\ TimersKept
<1>1. View /\ Live = {0} /\ env[0] = 0
  BY InitIInv, Viewed DEF Init
<1>2. \A t \in Tids : t # 0 => \A s \in Live : env[s] # t
  BY <1>1
<1>3. /\ lifeBar[0] = Shown(state[0])
      /\ onBar[0] = OnOf(state[0], waitAddr[0])
      /\ dueBar[0] = until[0]
  <2>1. \A s \in Live : /\ lifeBar[env[s]] = Shown(state[s])
                        /\ onBar[env[s]] = OnOf(state[s], waitAddr[s])
                        /\ dueBar[env[s]] = until[s]
    BY <1>1 DEF View
  <2> HIDE DEF Live
  <2> QED
    BY <1>1, <2>1
<1>4. state[0] = "ready" /\ until[0] = Never /\ nextTid = 1
  BY DEF Init
<1>5. \A t \in Tids : t # 0 => lifeBar[t] = "absent" /\ onBar[t] = {} /\ dueBar[t] = Never
  <2>1. \A t \in Tids : t # 0 => ~ (t < nextTid)
    BY <1>4
  <2> QED
    BY <1>1, <1>2, <2>1 DEF View
<1>6. /\ lifeBar = [t \in Tids |-> lifeBar[t]]
      /\ onBar = [t \in Tids |-> onBar[t]]
      /\ dueBar = [t \in Tids |-> dueBar[t]]
  BY <1>1 DEF View
<1>7. lifeBar[0] = "ready" /\ onBar[0] = {} /\ dueBar[0] = Never
  BY <1>3, <1>4 DEF Shown, OnOf
<1>8. /\ lifeBar = [t \in Tids |-> IF t = 0 THEN "ready" ELSE "absent"]
      /\ onBar = [t \in Tids |-> {}]
      /\ dueBar = [t \in Tids |-> Never]
  <2> HIDE DEF Tids
  <2> QED
    BY <1>5, <1>6, <1>7
<1> QED
  BY <1>8 DEF Init, T!Begin, T!Never, TimersKept

\* Every behaviour of the scheduler is one of Threads: the guest sees threads
\* that run one at a time, are woken by whoever may wake them and by nobody
\* else, and never come back, for any size of the slot table and however its
\* slots are reclaimed.
THEOREM SchedulerIsThreads == Spec => ImplementsThreads
<1>1. Init => T!Begin /\ TimersKept
  BY InitBegins
<1>2. IInv /\ TimersKept /\ [Next]_vars => TimersKept'
  BY NextTimers
<1>3. IInv => View
  BY Viewed
<1>4. IInv /\ TimersKept /\ View /\ View' /\ [Next]_vars => [T!Step]_T!tvars
  BY NextSteps
<1> QED
  BY <1>1, <1>2, <1>3, <1>4, Invariance, PTL
     DEF Spec, ImplementsThreads, T!Promise

-----------------------------------------------------------------------------
(* The round robin.                                                        *)

\* What passed a ready thread lies farther ahead of the index than it.
PassedAhead ==
  /\ passedBy \in [Slots -> SUBSET Slots]
  /\ \A s \in Slots : state[s] # "ready" => passedBy[s] = {}
  /\ \A s \in Slots, p \in Slots : p \in passedBy[s] =>
       p \in Used /\ s \in Used /\ Distance(s) < Distance(p)

\* A pick: thread q goes next, and everybody who is ready stays so.
Picks(q) ==
  /\ q \in Used
  /\ Picked = {q}
  /\ current' = After(q)
  /\ numThreads' = numThreads
  /\ \A s \in Used \ {q} : state[s] = "ready" => state'[s] = "ready"
  /\ \A s \in Used : state[s] = "ready" => Distance(q) <= Distance(s)
  /\ \A s \in Slots : state'[s] = "ready" => s \in Used \ {q}

LEMMA DispatchPicks ==
  ASSUME IInv, Dispatch(FALSE)
  PROVE  \E q \in Used : Picks(q)
<1> USE DEF IInv, TypeOK
<1>1. ASSUME NEW q \in Used, NEW W \in SUBSET Used,
             \A r \in W : state[r] = "blocked_wait",
             IsNext(At(Polled, W, "ready"), FALSE, q), Run(q, Polled, W)
      PROVE  Picks(q)
  <2>1. At(Polled, W, "ready")[q] = "ready"
        /\ \A s \in Used : At(Polled, W, "ready")[s] = "ready" => Distance(q) <= Distance(s)
    BY <1>1 DEF IsNext, Candidates
  <2>2. \A s \in Slots : state[s] = "ready" => At(Polled, W, "ready")[s] = "ready"
    BY DEF Polled
  <2>3. /\ state' = At(At(Polled, W, "ready"), {q}, "running")
        /\ current' = After(q)
        /\ numThreads' = numThreads
    BY <1>1 DEF Run
  <2>4. \A s \in Slots : At(Polled, W, "ready")[s] # "ready"
          => At(Polled, W, "ready")[s] = state[s]
    BY DEF Polled
  <2>5. state[q] # "running"
    BY <1>1, <2>1 DEF Polled, Expired, IoDone
  <2>6. \A s \in Slots : state[s] = "unused" <=> s \notin Used
    BY DEF SlotsOwned
  <2>7. \A s \in Slots : At(Polled, W, "ready")[s] = "ready" => s \in Used
    BY <2>6 DEF Polled, Expired, IoDone
  <2> DEFINE st == At(Polled, W, "ready")
  <2>8. Picked = {q}
    <3>1. \A s \in Slots : state'[s] = IF s = q THEN "running" ELSE st[s]
      BY <2>3
    <3>2. \A s \in Slots : st[s] = "ready" \/ st[s] = state[s]
      BY <2>4
    <3>3. q \in Slots
      OBVIOUS
    <3> HIDE DEF st
    <3> QED
      BY <2>5, <3>1, <3>2, <3>3 DEF Picked
  <2>9. \A s \in Slots : state'[s] = IF s = q THEN "running" ELSE st[s]
    BY <2>3
  <2>10. Used \in SUBSET Slots
    OBVIOUS
  <2> HIDE DEF st, Used
  <2> QED
    BY <2>1, <2>2, <2>3, <2>7, <2>8, <2>9, <2>10 DEF Picks
<1>2. CASE \E q \in Used : IsNext(Polled, FALSE, q) /\ Run(q, Polled, {})
  <2>1. Polled = At(Polled, {}, "ready")
    BY DEF Polled
  <2>2. {} \in SUBSET Used /\ \A r \in {} : state[r] = "blocked_wait"
    OBVIOUS
  <2>3. PICK q \in Used : IsNext(Polled, FALSE, q) /\ Run(q, Polled, {})
    BY <1>2
  <2>4. IsNext(At(Polled, {}, "ready"), FALSE, q)
    BY <2>1, <2>3
  <2> HIDE DEF At, Used
  <2> QED
    BY <1>1, <2>2, <2>3, <2>4
<1>3. CASE \E q \in Used : /\ IsNext(At(Polled, Stalled(FALSE), "ready"), FALSE, q)
                           /\ Run(q, Polled, Stalled(FALSE))
  <2>1. Stalled(FALSE) \in SUBSET Used
        /\ \A r \in Stalled(FALSE) : state[r] = "blocked_wait"
    BY DEF Stalled, Polled
  <2> HIDE DEF At, Used
  <2> QED
    BY <1>1, <1>3, <2>1
<1> QED
  BY <1>2, <1>3 DEF Dispatch

\* Every other step picks nobody and leaves the index where it is; the table
\* may grow by a slot.
PicksNobody ==
  /\ Picked = {}
  /\ current' = current
  /\ numThreads' \in {numThreads, numThreads + 1}
  /\ numThreads' <= MaxThreads

LEMMA NextPicks ==
  ASSUME IInv, [Next]_vars
  PROVE  PicksNobody \/ \E q \in Used : Picks(q)
<1> USE DEF IInv, TypeOK
<1>1. CASE NothingLive(FALSE)
  BY <1>1 DEF NothingLive, PicksNobody, Picked
<1>2. CASE WatchdogFires(FALSE)
  BY <1>2 DEF WatchdogFires, KillAll, PicksNobody, Picked
<1>3. CASE Dispatch(FALSE)
  BY <1>3, DispatchPicks
<1>4. ASSUME NEW st \in LiveStates, st # "running", Leaves(st), current' = current
      PROVE  PicksNobody
  BY <1>4, OwnSlot DEF Leaves, PicksNobody, Picked
<1>5. CASE FuelOut
  <2>1. Leaves("ready") /\ current' = current
    BY <1>5, OwnSlot DEF FuelOut, Yield, ReturnFromStep, Leaves
  <2> QED
    BY <1>4, <2>1 DEF LiveStates
<1>6. CASE SchedYield
  <2>1. Leaves("ready") /\ current' = current
    BY <1>6, OwnSlot DEF SchedYield, Yield, ReturnFromStep, Leaves
  <2> QED
    BY <1>4, <2>1 DEF LiveStates
<1>7. ASSUME NEW d \in Delays, Sleep(d)
      PROVE  PicksNobody
  <2>1. Leaves("blocked_io") /\ current' = current
    BY <1>7, OwnSlot DEF Sleep, Yield, ReturnFromStep, Leaves
  <2> QED
    BY <1>4, <2>1 DEF LiveStates
<1>8. ASSUME NEW a \in Addrs, NEW d \in Delays \cup {Never}, Wait(a, d)
      PROVE  PicksNobody
  <2>1. SuspendsAt(a)
    BY <1>8, WaitIs
  <2>2. CASE Blocks(Me, a)
    <3>1. Leaves("blocked_wait") /\ current' = current
      BY <2>1, <2>2 DEF SuspendsAt, Leaves
    <3> QED
      BY <1>4, <3>1 DEF LiveStates
  <2>3. CASE ~Blocks(Me, a)
    <3>1. Leaves("ready") /\ current' = current
      BY <2>1, <2>3 DEF SuspendsAt, Leaves
    <3> QED
      BY <1>4, <3>1 DEF LiveStates
  <2> QED
    BY <2>2, <2>3
<1>9. CASE WorkerReturns
  <2>1. WorkerExits
    BY <1>9, WorkerReturnsIs
  <2> QED
    BY <2>1 DEF WorkerExits, PicksNobody, Picked
<1>10. CASE MainReturns \/ Trap \/ ProcExit
  <2>1. /\ state' = KillAll(state) /\ current' = current /\ numThreads' = numThreads
    BY <1>10, OwnSlot DEF MainReturns, Trap, ProcExit, ReturnFromStep
  <2> QED
    BY <2>1 DEF KillAll, PicksNobody, Picked
<1>11. ASSUME NEW a \in Addrs, NEW n \in Counts, Notify(a, n)
       PROVE  PicksNobody
  BY <1>11 DEF Notify, WakeWaiters, PicksNobody, Picked
<1>12. CASE Spawn
  <2>1. CASE TableFull
    BY <1>12, <2>1 DEF Spawn, RegisterThread, PicksNobody, Picked
  <2>2. CASE ~TableFull
    <3>1. RegistersIn(NewSlot)
      BY <1>12, <2>2, SpawnIs
    <3> QED
      BY <3>1 DEF RegistersIn, PicksNobody, Picked
  <2> QED
    BY <2>1, <2>2
<1>13. CASE \/ \E d \in Delays : MainSleeps(d)
            \/ \E d \in Budgets \cup {0} : SetWatchdog(d)
            \/ Tick
            \/ UNCHANGED vars
  BY <1>13 DEF MainSleeps, SetWatchdog, Tick, vars, PicksNobody, Picked
<1> HIDE DEF IInv, TypeOK
<1> QED
  BY <1>1, <1>2, <1>3, <1>5, <1>6, <1>7, <1>8, <1>9, <1>10, <1>11, <1>12, <1>13
     DEF Next, KernelStep, EndsSlice, InSlice

\* A pick takes the index past its slot: that one is now the farthest, and
\* the others come nearer by the same amount.
LEMMA PickMovesOn ==
  ASSUME IInv, NEW q \in Used, current' = After(q), numThreads' = numThreads
  PROVE  /\ \A s \in Used : s # q => Distance(s)' < Distance(q)'
         /\ \A s, p \in Used : Distance(q) < Distance(s) /\ Distance(s) < Distance(p)
                                 => Distance(s)' < Distance(p)'
         /\ \A s \in Used : s # q => Distance(s) # Distance(q)
<1>1. /\ numThreads \in Nat \ {0} /\ current \in 0 .. numThreads - 1
      /\ q \in 0 .. numThreads - 1
  BY DEF IInv, TypeOK
<1>2. ASSUME NEW s \in 0 .. numThreads - 1
      PROVE  Distance(s) = (IF s >= current THEN s - current ELSE s + numThreads - current)
             /\ Distance(s)' = (IF s >= After(q) THEN s - After(q)
                                ELSE s + numThreads - After(q))
  BY DEF Distance
<1>3. After(q) = IF q + 1 >= numThreads THEN 0 ELSE q + 1
  BY DEF After
<1> HIDE DEF Used
<1> QED
  BY <1>1, <1>2, <1>3 DEF Used

\* When the table grows, the slots before the index move away together.
LEMMA GrowthKeepsOrder ==
  ASSUME IInv, PicksNobody, NEW s \in Used, NEW p \in Used,
         Distance(s) < Distance(p)
  PROVE  s \in Used' /\ p \in Used' /\ Distance(s)' < Distance(p)'
<1>1. /\ numThreads \in Nat /\ numThreads' \in Nat /\ numThreads <= numThreads'
      /\ current \in Nat /\ current' = current
      /\ s \in Nat /\ s < numThreads /\ p \in Nat /\ p < numThreads
  <2>1. numThreads \in Nat /\ current \in Nat
    BY DEF IInv, TypeOK
  <2>2. current' = current /\ (numThreads' = numThreads \/ numThreads' = numThreads + 1)
    BY DEF PicksNobody
  <2> QED
    BY <2>1, <2>2
<1>2. s \in 0 .. numThreads' - 1 /\ p \in 0 .. numThreads' - 1
  <2>1. ASSUME NEW n \in Nat, s < n, p < n
        PROVE  s \in 0 .. n - 1 /\ p \in 0 .. n - 1
    BY <1>1, <2>1
  <2>2. s < numThreads' /\ p < numThreads'
    BY <1>1
  <2> QED
    BY <1>1, <2>1, <2>2
<1>3. ASSUME NEW r \in Nat
      PROVE  /\ Distance(r) = IF r >= current THEN r - current
                               ELSE r + numThreads - current
             /\ Distance(r)' = IF r >= current THEN r - current
                                ELSE r + numThreads' - current
  BY <1>1 DEF Distance
<1>4. Distance(s)' < Distance(p)'
  BY <1>1, <1>3
<1> QED
  BY <1>2, <1>4 DEF Used

LEMMA OrderKept ==
  ASSUME IInv, PassedAhead, [Next]_vars, Record
  PROVE  /\ PassedAhead'
         /\ \A s \in Slots : state'[s] = "ready" => passedBy[s] \cap Picked = {}
<1>1. \A s \in Slots : passedBy'[s] = IF state'[s] = "ready"
                                      THEN passedBy[s] \cup Picked ELSE {}
  BY DEF Record
<1>2. passedBy' \in [Slots -> SUBSET Slots]
  BY DEF Record, Picked, PassedAhead
<1>3. \A s \in Slots : state'[s] # "ready" => passedBy'[s] = {}
  BY <1>1
<1>4. CASE PicksNobody
  <2>1. \A s \in Slots : passedBy'[s] \in SUBSET passedBy[s]
    BY <1>1, <1>4 DEF PicksNobody
  <2>2. \A s \in Slots, p \in Slots : p \in passedBy'[s] =>
          p \in Used' /\ s \in Used' /\ Distance(s)' < Distance(p)'
    <3> HIDE DEF Used, Slots
    <3> QED
      BY <1>4, <2>1, GrowthKeepsOrder DEF PassedAhead
  <2>3. Picked = {}
    BY <1>4 DEF PicksNobody
  <2> QED
    BY <1>2, <1>3, <2>2, <2>3 DEF PassedAhead
<1>5. ASSUME NEW q \in Used, Picks(q)
      PROVE  /\ PassedAhead'
             /\ \A s \in Slots : state'[s] = "ready" => passedBy[s] \cap Picked = {}
  <2>1. /\ Picked = {q} /\ Used' = Used
        /\ current' = After(q) /\ numThreads' = numThreads
    BY <1>5 DEF Picks
  <2>2. \A s \in Slots, p \in Slots : p \in passedBy[s] =>
          /\ p \in Used /\ s \in Used /\ Distance(s) < Distance(p)
          /\ state[s] = "ready"
    BY DEF PassedAhead
  <2>3. \A s \in Slots, p \in Slots : p \in passedBy[s] /\ s # q =>
          /\ Distance(q) < Distance(s) /\ p # q
    <3>1. \A s \in Used : Distance(s) \in Int
      BY DEF Distance, IInv, TypeOK
    <3>2. \A s \in Used : state[s] = "ready" => Distance(q) <= Distance(s)
      BY <1>5 DEF Picks
    <3>3. \A s \in Used : s # q => Distance(s) # Distance(q)
      BY <2>1, PickMovesOn
    <3> HIDE DEF Used, Slots
    <3> QED
      BY <2>2, <3>1, <3>2, <3>3
  <2>4. \A s \in Slots : state'[s] = "ready" => s \in Used /\ s # q
    BY <1>5 DEF Picks
  <2>5. \A s \in Slots, p \in Slots : p \in passedBy'[s] =>
          p \in Used' /\ s \in Used' /\ Distance(s)' < Distance(p)'
    <3> SUFFICES ASSUME NEW s \in Slots, NEW p \in Slots, p \in passedBy'[s]
                 PROVE  p \in Used' /\ s \in Used' /\ Distance(s)' < Distance(p)'
      OBVIOUS
    <3>1. s \in Used /\ s # q /\ (p = q \/ p \in passedBy[s])
      <4> HIDE DEF Used, Slots
      <4> QED
        BY <1>1, <2>1, <2>4
    <3>2. CASE p = q
      BY <2>1, <3>1, <3>2, PickMovesOn
    <3>3. CASE p \in passedBy[s]
      <4>1. p \in Used /\ Distance(q) < Distance(s) /\ Distance(s) < Distance(p)
        BY <2>2, <2>3, <3>1, <3>3
      <4> QED
        BY <2>1, <3>1, <4>1, PickMovesOn
    <3> QED
      BY <3>1, <3>2, <3>3
  <2>6. \A s \in Slots : state'[s] = "ready" => passedBy[s] \cap Picked = {}
    <3> SUFFICES ASSUME NEW s \in Slots, state'[s] = "ready", q \in passedBy[s]
                 PROVE  FALSE
      BY <2>1
    <3>1. q \in Slots
      BY DEF IInv, TypeOK
    <3> QED
      BY <2>3, <2>4, <3>1
  <2> QED
    BY <1>2, <1>3, <2>5, <2>6 DEF PassedAhead
<1> QED
  BY <1>4, <1>5, NextPicks

\* No thread gets a second slice while another one stays ready, however the
\* table grows and whichever slots are reclaimed in between.
THEOREM RoundRobin == HSpec => NobodyTwice
<1> DEFINE Passes == \A s \in Slots : state'[s] = "ready" => passedBy[s] \cap Picked = {}
<1>1. HInit => Init /\ PassedAhead
  BY DEF HInit, PassedAhead
<1>2. [HNext]_hvars => [Next]_vars
  BY DEF HNext, hvars
<1>3. IInv /\ PassedAhead /\ [HNext]_hvars => PassedAhead' /\ [Passes]_hvars
  <2> SUFFICES ASSUME IInv, PassedAhead, [HNext]_hvars
               PROVE  PassedAhead' /\ [Passes]_hvars
    OBVIOUS
  <2>1. CASE HNext
    BY <2>1, OrderKept DEF HNext
  <2>2. CASE UNCHANGED hvars
    BY <2>2 DEF hvars, vars, PassedAhead, Distance
  <2> QED
    BY <2>1, <2>2
<1>4. NobodyTwice <=> [][Passes]_hvars
  BY DEF NobodyTwice
<1>5. Init => IInv
  BY InitIInv
<1>6. IInv /\ [Next]_vars => IInv'
  BY NextInv
<1> HIDE DEF Passes
<1> QED
  BY <1>1, <1>2, <1>3, <1>4, <1>5, <1>6, PTL DEF HSpec

=============================================================================
