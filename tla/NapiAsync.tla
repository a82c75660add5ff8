------------------------------ MODULE NapiAsync ------------------------------
(***************************************************************************)
(* The part of packages/wasmkernel/src/napi_runtime.js that runs guest     *)
(* code later than it was asked for: async work, thread-safe functions,    *)
(* finalizers and the promise pump, with dispatch, which serves every      *)
(* N-API call of the guest and drains the queues around it.                *)
(*                                                                         *)
(* There is one host thread.  What it is in the middle of is a stack:      *)
(* guest functions call dispatch, whose drains call guest functions again. *)
(* When the stack is empty the event loop takes a microtask or a task.     *)
(***************************************************************************)
EXTENDS Integers, Sequences, FiniteSets

CONSTANTS
  Works,        \* the async works the guest has created
  NumTsfns,     \* the thread-safe functions it has created
  Holders,      \* their initialThreadCount; bound: no more threads hold one
  Objects,      \* objects it can register a finalizer for
  Jobs,         \* finalizers it can post by itself
  MaxDepth,     \* bound: frames on the stack
  MaxCalls,     \* bound: N-API calls of one run of a guest function
  MaxSteps,     \* MAX_STEPS_PER_TICK, as far as a step runs guest code
  MaxWorkers,   \* worker threads of the guest
  MaxAsks,      \* bound: requests to queue or cancel one work
  MaxData,      \* bound: calls of one thread-safe function
  MaxPromises   \* bound: unsettled promises at a time

Tsfns == 1 .. NumTsfns
Finalizers == Objects \cup Jobs

ASSUME NapiAsyncAssumption ==
  /\ NumTsfns \in Nat
  /\ Holders \in [Tsfns -> Nat \ {0}]
  /\ {MaxDepth, MaxCalls, MaxSteps, MaxWorkers, MaxAsks, MaxData,
      MaxPromises} \subseteq Nat

VARIABLES
  stack,           \* the frames in progress, innermost last
  asyncQueue,      \* _pendingAsyncQueue
  asked, done,     \* history: per work, requests made and completions begun
  tsfn,            \* the thread-safe functions; js: one without a call_js_cb
  sent, got,       \* history: per function, data accepted, last one delivered
  fin,             \* what became of each finalizer
  posted,          \* _postedFinalizers
  postedPending,   \* _postedFinalizersPending
  draining,        \* _drainingFinalizers
  drainScheduled,  \* _drainScheduled: the microtask that drains is queued
  outstanding,     \* _outstandingPromises
  deferreds,       \* the unsettled ones among them
  reactions,       \* microtasks queued that will call _endPromisePump
  pumpScheduled,   \* _pumpScheduled
  pumpsQueued,     \* pumps handed to setImmediate
  argsOf           \* _currentArgsPtr: the depth of the dispatch it belongs to

workVars == <<asyncQueue, asked, done>>
tsfnVars == <<tsfn, sent, got>>
finVars  == <<fin, posted, postedPending, draining, drainScheduled>>
pumpVars == <<outstanding, deferreds, reactions, pumpScheduled, pumpsQueued>>
vars == <<stack, workVars, tsfnVars, finVars, pumpVars, argsOf>>

-----------------------------------------------------------------------------
(* Frames.                                                                 *)

HostKinds == {"dispatch", "pump", "task"}
\* callback and finalizer run under kernel_call_indirect, which steps the
\* workers; worker is a slice of a worker; jsfn is a JavaScript function.
Indirect   == {"callback", "finalizer"}
GuestKinds == Indirect \cup
              {"worker", "execute", "complete", "call_js", "jsfn", "tsfn_end"}

\* n: of a guest function, the calls it may still make; of a pump, the steps;
\* of a frame that drains thread-safe functions, the one its loop has reached.
Frame(kind, arg, phase, n) ==
  [kind |-> kind, op |-> "", arg |-> arg, phase |-> phase, n |-> n]
Guest(kind, arg) == Frame(kind, arg, "run", MaxCalls)

Depth == Len(stack)
Top   == stack[Depth]
Idle  == stack = <<>>
InGuest(kinds) == stack # <<>> /\ Top.kind \in kinds
InHost(phase)  == stack # <<>> /\ Top.kind \in HostKinds /\ Top.phase = phase
InMethod(op)   == InHost("method") /\ Top.op = op

Popped     == SubSeq(stack, 1, Depth - 1)
Push(f)    == stack' = Append(stack, f)
GoTo(p, n) == stack' = [stack EXCEPT ![Depth].phase = p, ![Depth].n = n]
FramesOf(kind) == {i \in 1 .. Depth : stack[i].kind = kind}

\* The guest function at the top spends one of its calls to enter f.
Spend(f) == /\ Top.n > 0
            /\ Depth < MaxDepth
            /\ stack' = Append([stack EXCEPT ![Depth].n = @ - 1], f)

-----------------------------------------------------------------------------
(* The guest calls an N-API function, and dispatch begins.                 *)

Ops == [op : {"queue", "cancel"}, arg : Works]
       \cup [op : {"call", "acquire", "release", "abort"}, arg : Tsfns]
       \cup [op : {"post"}, arg : Jobs]
       \cup [op : {"wrap", "unwrap"}, arg : Objects]
       \cup [op : {"promise", "settle", "call_function", "other", "no_env"},
             arg : {0}]

\* The bounds on what the guest asks for; a finalizer is registered once.
MayAsk(o) ==
  CASE o.op \in {"queue", "cancel"} -> asked[o.arg] < MaxAsks
    [] o.op = "call"    -> sent[o.arg] < MaxData
    [] o.op = "acquire" -> tsfn[o.arg].threads < Holders[o.arg]
    [] o.op \in {"post", "wrap"} -> fin[o.arg] = "unused"
    [] o.op = "unwrap"  -> fin[o.arg] \in {"live", "collected"}
    [] o.op = "promise" -> outstanding < MaxPromises
    [] o.op = "settle"  -> deferreds > 0
    [] OTHER -> TRUE

\* _drainFinalizers is called when something is posted, by the microtask in
\* any case, and returns at once when a drain is in progress.
MayDrainNested(kind) == kind = "task" \/ postedPending  \* a bug: re-enters
MayDrain(kind) == ~draining /\ (kind = "task" \/ postedPending)
FirstPhase(kind, next) == IF MayDrain(kind) THEN "drain" ELSE next
BeginDrain(kind) == draining' = (draining \/ MayDrain(kind))

Call(o) ==
  /\ InGuest(GuestKinds \ {"jsfn"})
  /\ MayAsk(o)
  /\ Spend([kind |-> "dispatch", op |-> o.op, arg |-> o.arg,
            phase |-> FirstPhase("dispatch", "method"), n |-> 0])
  /\ BeginDrain("dispatch")
  /\ argsOf' = Depth + 1
  /\ UNCHANGED <<fin, posted, postedPending, drainScheduled, workVars, tsfnVars,
                 pumpVars>>

-----------------------------------------------------------------------------
(* The loop of _drainFinalizers, in dispatch, the pump and the microtask.  *)

AfterDrain == CASE Top.kind = "dispatch" -> GoTo("method", 0)
                [] Top.kind = "pump"     -> GoTo("async", 0)
                [] Top.kind = "task"     -> stack' = Popped

CancelledRuns(f) == FALSE  \* a bug: the token is not looked at
IsCancelled(f) == fin[f] = "cancelled"

DrainNext ==
  /\ InHost("drain") /\ posted # <<>>
  /\ posted' = Tail(posted)
  /\ IF IsCancelled(Head(posted)) THEN UNCHANGED <<stack, fin>>
     ELSE /\ fin' = [fin EXCEPT ![Head(posted)] = "done"]
          /\ Push(Guest("finalizer", Head(posted)))
  /\ UNCHANGED <<workVars, tsfnVars, postedPending, draining, drainScheduled,
                 pumpVars, argsOf>>

EndDrain ==
  /\ InHost("drain") /\ posted = <<>>
  /\ postedPending' = FALSE
  /\ draining' = FALSE
  /\ AfterDrain
  /\ UNCHANGED <<workVars, tsfnVars, fin, posted, drainScheduled, pumpVars,
                 argsOf>>

-----------------------------------------------------------------------------
(* The methods.  A call then returns if they left nothing to drain.        *)

HasPendingTsfn == \E t \in Tsfns : \/ tsfn[t].queue # <<>>
                                   \/ tsfn[t].closing /\ ~tsfn[t].finalized
ReturnAtOnce == stack' = Popped  \* a bug: dispatch does not drain
ThenDrain == IF asyncQueue' = <<>> /\ ~HasPendingTsfn' THEN stack' = Popped
             ELSE GoTo("async", 0)

QueueWork ==
  /\ InMethod("queue")
  /\ asyncQueue' = Append(asyncQueue, [type |-> "execute", work |-> Top.arg])
  /\ asked' = [asked EXCEPT ![Top.arg] = @ + 1]
  /\ UNCHANGED <<done, tsfnVars, finVars, pumpVars, argsOf>>
  /\ ThenDrain

\* What is left of the queue q when w is not to begin.
NotBegun(q, w) ==
  LET kept[i \in 0 .. Len(q)] ==
        IF i = 0 THEN <<>>
        ELSE IF q[i] = [type |-> "execute", work |-> w] THEN kept[i - 1]
        ELSE Append(kept[i - 1], q[i])
  IN kept[Len(q)]
CancelWork ==
  /\ InMethod("cancel")
  /\ asyncQueue' = Append(NotBegun(asyncQueue, Top.arg),
                          [type |-> "complete", work |-> Top.arg])
  /\ asked' = [asked EXCEPT ![Top.arg] = @ + 1]
  /\ UNCHANGED <<done, tsfnVars, finVars, pumpVars, argsOf>>
  /\ ThenDrain

AcceptAlways(t) == TRUE  \* a bug: napi_closing is never returned
Accepts(t) == ~tsfn[t].closing
CallTsfn ==
  /\ InMethod("call")
  /\ IF Accepts(Top.arg)
     THEN /\ sent' = [sent EXCEPT ![Top.arg] = @ + 1]
          /\ tsfn' = [tsfn EXCEPT ![Top.arg].queue = Append(@, sent'[Top.arg])]
     ELSE UNCHANGED <<sent, tsfn>>
  /\ UNCHANGED <<got, workVars, finVars, pumpVars, argsOf>>
  /\ ThenDrain

AcquireTsfn ==
  /\ InMethod("acquire")
  /\ tsfn' = IF tsfn[Top.arg].closing THEN tsfn
             ELSE [tsfn EXCEPT ![Top.arg].threads = @ + 1]
  /\ UNCHANGED <<sent, got, workVars, finVars, pumpVars, argsOf>>
  /\ ThenDrain

\* With napi_tsfn_abort or without.
ReleasedBelowZero(n) == n - 1  \* a bug: released more often than held
Released(n) == IF n > 0 THEN n - 1 ELSE 0
ReleaseTsfn ==
  /\ InMethod("release") \/ InMethod("abort")
  /\ LET left == Released(tsfn[Top.arg].threads)
     IN tsfn' = [tsfn EXCEPT ![Top.arg].threads = left,
                   ![Top.arg].closing = @ \/ Top.op = "abort" \/ left <= 0]
  /\ UNCHANGED <<sent, got, workVars, finVars, pumpVars, argsOf>>
  /\ ThenDrain

\* node_api_post_finalizer; such a finalizer has no token.
PostFinalizer ==
  /\ InMethod("post")
  /\ IF fin[Top.arg] = "unused"
     THEN /\ fin' = [fin EXCEPT ![Top.arg] = "posted"]
          /\ posted' = Append(posted, Top.arg)
          /\ postedPending' = TRUE
     ELSE UNCHANGED <<fin, posted, postedPending>>
  /\ UNCHANGED <<draining, drainScheduled, workVars, tsfnVars, pumpVars, argsOf>>
  /\ ThenDrain

\* napi_wrap, napi_add_finalizer and the like register a finalizer; deleting
\* the reference cancels it, also when it is posted already.
RegisterFinalizer ==
  /\ InMethod("wrap")
  /\ fin' = IF fin[Top.arg] = "unused" THEN [fin EXCEPT ![Top.arg] = "live"]
            ELSE fin
  /\ UNCHANGED <<posted, postedPending, draining, drainScheduled, workVars,
                 tsfnVars, pumpVars, argsOf>>
  /\ ThenDrain

CancelFinalizer ==
  /\ InMethod("unwrap")
  /\ fin' = IF fin[Top.arg] \in {"live", "collected"}
            THEN [fin EXCEPT ![Top.arg] = "cancelled"] ELSE fin
  /\ UNCHANGED <<posted, postedPending, draining, drainScheduled, workVars,
                 tsfnVars, pumpVars, argsOf>>
  /\ ThenDrain

\* napi_create_promise starts the pump unless it is scheduled already.
CreatePromise ==
  /\ InMethod("promise")
  /\ outstanding' = outstanding + 1
  /\ deferreds' = deferreds + 1
  /\ pumpScheduled' = TRUE
  /\ pumpsQueued' = IF pumpScheduled THEN pumpsQueued ELSE pumpsQueued + 1
  /\ UNCHANGED <<reactions, workVars, tsfnVars, finVars, argsOf>>
  /\ ThenDrain

\* napi_resolve_deferred and napi_reject_deferred.
SettleDeferred ==
  /\ InMethod("settle")
  /\ IF deferreds > 0
     THEN deferreds' = deferreds - 1 /\ reactions' = reactions + 1
     ELSE UNCHANGED <<deferreds, reactions>>
  /\ UNCHANGED <<outstanding, pumpScheduled, pumpsQueued, workVars, tsfnVars,
                 finVars, argsOf>>
  /\ ThenDrain

\* napi_call_function, of a function that is a callback of the guest.
CallFunction ==
  /\ InMethod("call_function")
  /\ stack' = Append([stack EXCEPT ![Depth].phase = "async"],
                     Guest("callback", 0))
  /\ UNCHANGED <<workVars, tsfnVars, finVars, pumpVars, argsOf>>

\* Any other method, and one that throws.
OtherCall ==
  /\ InMethod("other")
  /\ UNCHANGED <<workVars, tsfnVars, finVars, pumpVars, argsOf>>
  /\ ThenDrain

\* env is NULL: dispatch returns without a drain.
NoEnv ==
  /\ InMethod("no_env")
  /\ stack' = Popped
  /\ UNCHANGED <<workVars, tsfnVars, finVars, pumpVars, argsOf>>

Method ==
  \/ QueueWork \/ CancelWork \/ CallTsfn \/ AcquireTsfn \/ ReleaseTsfn
  \/ PostFinalizer \/ RegisterFinalizer \/ CancelFinalizer
  \/ CreatePromise \/ SettleDeferred \/ CallFunction \/ OtherCall \/ NoEnv

-----------------------------------------------------------------------------
(* drainAsyncQueue, then drainTsfnQueue, in dispatch and in the pump.      *)

\* executeCb and completeCb run under kernel_call_indirect_simple.
RunWork ==
  /\ InHost("async") /\ asyncQueue # <<>>
  /\ LET item == Head(asyncQueue)
     IN /\ Push(Guest(item.type, item.work))
        /\ done' = IF item.type = "complete"
                   THEN [done EXCEPT ![item.work] = @ + 1] ELSE done
  /\ asyncQueue' = Tail(asyncQueue)
  /\ UNCHANGED <<asked, tsfnVars, finVars, pumpVars, argsOf>>

MayFinalize(t) == tsfn[t].closing /\ tsfn[t].threads = 0 /\ ~tsfn[t].finalized

\* dispatch returns to the guest; the pump hands itself to setImmediate.
End == /\ stack' = Popped
       /\ pumpsQueued' = IF Top.kind = "pump" THEN pumpsQueued + 1 ELSE pumpsQueued

EndAsync == IF HasPendingTsfn THEN GoTo("tsfn", 1) /\ UNCHANGED pumpsQueued
            ELSE End

AfterAsync ==
  /\ InHost("async") /\ asyncQueue = <<>>
  /\ EndAsync
  /\ UNCHANGED <<outstanding, deferreds, reactions, pumpScheduled, workVars,
                 tsfnVars, finVars, argsOf>>

DeliverTsfn ==
  /\ InHost("tsfn") /\ Top.n \in Tsfns /\ tsfn[Top.n].queue # <<>>
  /\ got' = [got EXCEPT ![Top.n] = Head(tsfn[Top.n].queue)]
  /\ tsfn' = [tsfn EXCEPT ![Top.n].queue = Tail(@)]
  /\ Push(Guest(IF tsfn[Top.n].js THEN "jsfn" ELSE "call_js", Top.n))
  /\ UNCHANGED <<sent, workVars, finVars, pumpVars, argsOf>>

\* The handle, which is deleted afterwards, answers as a closing one does.
FinalizeTsfn ==
  /\ InHost("tsfn") /\ Top.n \in Tsfns
  /\ tsfn[Top.n].queue = <<>> /\ MayFinalize(Top.n)
  /\ tsfn' = [tsfn EXCEPT ![Top.n].finalized = TRUE]
  /\ Push(Guest("tsfn_end", Top.n))
  /\ UNCHANGED <<sent, got, workVars, finVars, pumpVars, argsOf>>

NextTsfn ==
  /\ InHost("tsfn") /\ Top.n \in Tsfns
  /\ tsfn[Top.n].queue = <<>> /\ ~MayFinalize(Top.n)
  /\ IF Top.n = NumTsfns THEN End
     ELSE GoTo("tsfn", Top.n + 1) /\ UNCHANGED pumpsQueued
  /\ UNCHANGED <<outstanding, deferreds, reactions, pumpScheduled, workVars,
                 tsfnVars, finVars, argsOf>>

-----------------------------------------------------------------------------
(* Guest and JavaScript functions.                                         *)

\* A work that has executed is queued for completion.
ExecutedOnly(q, w) == q  \* a bug: nobody completes it
Executed(q, w) == Append(q, [type |-> "complete", work |-> w])
Return ==
  /\ InGuest(GuestKinds)
  /\ stack' = Popped
  /\ asyncQueue' = IF Top.kind = "execute" THEN Executed(asyncQueue, Top.arg)
                   ELSE asyncQueue
  /\ UNCHANGED <<asked, done, tsfnVars, finVars, pumpVars, argsOf>>

\* Its exception leaves drainTsfnQueue and dispatch or the pump as well;
\* host_func_call catches it in the one case, nothing in the other.
JsThrows ==
  /\ InGuest({"jsfn"})
  /\ stack' = SubSeq(stack, 1, Depth - 2)
  /\ UNCHANGED <<workVars, tsfnVars, finVars, pumpVars, argsOf>>

\* A JavaScript function calls a callback of the guest.
JsCalls ==
  /\ InGuest({"jsfn"})
  /\ Spend(Guest("callback", 0))
  /\ UNCHANGED <<workVars, tsfnVars, finVars, pumpVars, argsOf>>

\* kernel_call_indirect steps a worker while its function is suspended.
IndirectSteps ==
  /\ InGuest(Indirect)
  /\ Cardinality(FramesOf("worker")) < MaxWorkers
  /\ Spend(Guest("worker", 0))
  /\ UNCHANGED <<workVars, tsfnVars, finVars, pumpVars, argsOf>>

-----------------------------------------------------------------------------
(* The event loop.  A task waits until the microtasks are done.            *)

Quiet == Idle /\ ~drainScheduled /\ reactions = 0

HostCalls ==
  /\ Quiet
  /\ Push(Guest("callback", 0))
  /\ UNCHANGED <<workVars, tsfnVars, finVars, pumpVars, argsOf>>

\* The collector found the object of f dead; a microtask is to drain, unless
\* it is queued already.
DrainOnCall == drainScheduled  \* a bug: left to the next dispatch
DrainSoon == TRUE
Collect(f) ==
  /\ Idle /\ reactions = 0 /\ fin[f] = "live"
  /\ fin' = [fin EXCEPT ![f] = "collected"]
  /\ posted' = Append(posted, f)
  /\ postedPending' = TRUE
  /\ drainScheduled' = DrainSoon
  /\ UNCHANGED <<stack, draining, workVars, tsfnVars, pumpVars, argsOf>>

DrainTask ==
  /\ Idle /\ drainScheduled
  /\ drainScheduled' = FALSE
  /\ IF MayDrain("task") THEN Push(Frame("task", 0, "drain", 0))
                         ELSE UNCHANGED stack
  /\ BeginDrain("task")
  /\ UNCHANGED <<fin, posted, postedPending, workVars, tsfnVars, pumpVars,
                 argsOf>>

\* _endPromisePump.
PromiseEnds ==
  /\ Idle /\ reactions > 0
  /\ reactions' = reactions - 1
  /\ outstanding' = IF outstanding > 0 THEN outstanding - 1 ELSE 0
  /\ UNCHANGED <<stack, deferreds, pumpScheduled, pumpsQueued, workVars,
                 tsfnVars, finVars, argsOf>>

StillScheduled == TRUE  \* a bug: the flag is not reset
AfterLastPump == FALSE
PumpStops ==
  /\ Quiet /\ pumpsQueued > 0 /\ outstanding = 0
  /\ pumpsQueued' = pumpsQueued - 1
  /\ pumpScheduled' = AfterLastPump
  /\ UNCHANGED <<stack, outstanding, deferreds, reactions, workVars, tsfnVars,
                 finVars, argsOf>>

PumpRuns ==
  /\ Quiet /\ pumpsQueued > 0 /\ outstanding > 0
  /\ pumpsQueued' = pumpsQueued - 1
  /\ Push(Frame("pump", 0, "steps", MaxSteps))
  /\ UNCHANGED <<outstanding, deferreds, reactions, pumpScheduled, workVars,
                 tsfnVars, finVars, argsOf>>

\* A kernel_step in which a worker's slice runs guest code.
PumpSteps ==
  /\ InHost("steps") /\ Cardinality(FramesOf("worker")) < MaxWorkers
  /\ Spend(Guest("worker", 0))
  /\ UNCHANGED <<workVars, tsfnVars, finVars, pumpVars, argsOf>>

EndSteps ==
  /\ InHost("steps")
  /\ GoTo(FirstPhase("pump", "async"), 0)
  /\ BeginDrain("pump")
  /\ UNCHANGED <<fin, posted, postedPending, drainScheduled, workVars, tsfnVars,
                 pumpVars, argsOf>>

-----------------------------------------------------------------------------
Init ==
  /\ stack = <<>>
  /\ asyncQueue = <<>>
  /\ asked = [w \in Works |-> 0] /\ done = asked
  /\ \E js \in [Tsfns -> BOOLEAN] :
       tsfn = [t \in Tsfns |-> [queue |-> <<>>, threads |-> Holders[t], js |-> js[t],
                                closing |-> FALSE, finalized |-> FALSE]]
  /\ sent = [t \in Tsfns |-> 0] /\ got = sent
  /\ fin = [f \in Finalizers |-> "unused"]
  /\ posted = <<>>
  /\ postedPending = FALSE /\ draining = FALSE /\ drainScheduled = FALSE
  /\ outstanding = 0 /\ deferreds = 0 /\ reactions = 0
  /\ pumpScheduled = FALSE /\ pumpsQueued = 0
  /\ argsOf = 0

HostStep == \/ DrainNext \/ EndDrain
            \/ Method
            \/ RunWork \/ AfterAsync \/ DeliverTsfn \/ FinalizeTsfn \/ NextTsfn
            \/ EndSteps
Microtask == DrainTask \/ PromiseEnds
GuestMoves == \/ \E o \in Ops : Call(o)
              \/ JsThrows \/ JsCalls \/ IndirectSteps \/ PumpSteps
Pump == PumpStops \/ PumpRuns

Next == HostStep \/ Return \/ GuestMoves \/ Microtask \/ Pump \/ HostCalls
        \/ \E f \in Objects : Collect(f)

Spec == Init /\ [][Next]_vars

-----------------------------------------------------------------------------
(* Properties.                                                             *)

\* Every variable has its type.
TypeOK ==
  /\ \A i \in 1 .. Depth :
       stack[i].kind \in HostKinds \cup GuestKinds /\ stack[i].n \in Nat
  /\ asyncQueue \in Seq([type : {"execute", "complete"}, work : Works])
  /\ asked \in [Works -> Nat] /\ done \in [Works -> Nat]
  /\ tsfn \in [Tsfns -> [queue : Seq(Nat), threads : Nat, js : BOOLEAN,
                         closing : BOOLEAN, finalized : BOOLEAN]]
  /\ sent \in [Tsfns -> Nat] /\ got \in [Tsfns -> Nat]
  /\ fin \in [Finalizers -> {"unused", "live", "posted", "collected",
                             "cancelled", "done"}]
  /\ posted \in Seq(Finalizers)
  /\ {postedPending, draining, drainScheduled, pumpScheduled} \subseteq BOOLEAN
  /\ {outstanding, deferreds, reactions, pumpsQueued, argsOf} \subseteq Nat

\* Whatever calls dispatch and whatever throws: when guest or JavaScript code
\* runs, or nothing does, no work, completion or call of a thread-safe
\* function is waiting and no released function waits for its finalizer.
\* This is why the pump's own drains and the filter in napi_cancel_async_work
\* never find anything.
NothingWaits ==
  Idle \/ InGuest(GuestKinds) =>
    /\ asyncQueue = <<>>
    /\ \A t \in Tsfns : tsfn[t].queue = <<>> /\ ~MayFinalize(t)

\* A work completes once for each request to queue or to cancel it.
\* What has not completed is in the queue or executing.
WorkIsConserved ==
  \A w \in Works :
    asked[w] = done[w]
      + Cardinality({i \in DOMAIN asyncQueue : asyncQueue[i].work = w})
      + Cardinality({i \in FramesOf("execute") : stack[i].arg = w})

\* A thread-safe function delivers what it accepted, in order and once, and
\* when it is finalized it has delivered all of it and accepts no more.
TsfnDelivers ==
  \A t \in Tsfns :
    /\ Len(tsfn[t].queue) = sent[t] - got[t]
    /\ \A i \in DOMAIN tsfn[t].queue : tsfn[t].queue[i] = got[t] + i
    /\ tsfn[t].finalized => tsfn[t].queue = <<>>

\* Finalizers run one after the other, whatever they call (_drainFinalizers
\* is entered once), and what waits for a drain is announced.
FinalizersInTurn ==
  /\ Cardinality(FramesOf("finalizer")) <= 1
  /\ posted # <<>> => postedPending

\* A finalizer that was entered, or that was cancelled, is not entered (again).
Enters(kind, arg) == Depth' > Depth /\ Top'.kind = kind /\ Top'.arg = arg
FinalizedOnce ==
  [][\A f \in Finalizers : fin[f] \in {"done", "cancelled"} =>
       fin'[f] = fin[f] /\ ~Enters("finalizer", f)]_vars

\* Exactly one pump is running or queued while one is said to be scheduled,
\* which is so while a promise of the guest is unsettled.
OnePump ==
  /\ pumpsQueued + Cardinality(FramesOf("pump")) = (IF pumpScheduled THEN 1 ELSE 0)
  /\ outstanding = deferreds + reactions
  /\ outstanding > 0 => pumpScheduled

\* A finalizer whose object was collected does not wait until the addon is
\* called again: the idle thread has the microtask that runs it before it.
CollectedAreDrained ==
  Idle /\ (\E f \in Objects : fin[f] = "collected") => drainScheduled

\* napi_create_int64 and its like read the raw arguments of their own call
\* (napi_runtime.js:738).
ReadsOwnArgs == InMethod("other") => argsOf = Depth
=============================================================================
