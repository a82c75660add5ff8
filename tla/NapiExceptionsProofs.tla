------------------------- MODULE NapiExceptionsProofs -------------------------
(***************************************************************************)
(* Proofs about NapiExceptions.  Each of its steps is one of NapiAsync, so *)
(* that what NapiAsyncProofs shows of the stack and the queues holds here. *)
(* Of the stack this much is needed: a frame that takes the exception with *)
(* it leaves the stack only when its function returns, and a dispatch is   *)
(* entered from another frame and has a callback above it only while it    *)
(* drains.                                                                 *)
(***************************************************************************)
EXTENDS NapiExceptions, NapiAsyncProofs

-----------------------------------------------------------------------------
(* NapiExceptions adds to NapiAsync and takes nothing away.                *)

\* Whatever becomes of exceptions and statuses, the stack and the queues
\* behave as NapiAsync says.
THEOREM ExceptionsAddOnly == ExcSpec => Spec
<1>1. ExcInit => Init
  BY DEF ExcInit
<1>2. ExcNext => Next
  <2>1. Simple \/ OfTsfn \/ WithoutEnv => Method
    BY DEF Simple, OfTsfn, WithoutEnv, Method
  <2>2. ByTable \/ GetAndClear \/ OpenHandleScope => Method
    BY DEF ByTable, GetAndClear, OpenHandleScope, Method
  <2>3. CallbackReturns \/ CalledReturns \/ ReportingReturns \/ LeavingReturns => Return
    BY DEF CallbackReturns, CalledReturns, ReportingReturns, LeavingReturns
  <2>4. Others => Next
    BY DEF Others, Next, HostStep, Method
  <2> QED
    BY <2>1, <2>2, <2>3, <2>4 DEF ExcNext, Next, HostStep
<1>3. [ExcNext]_allVars => [Next]_vars
  BY <1>2 DEF allVars
<1> QED
  BY <1>1, <1>3, PTL DEF ExcSpec, Spec

-----------------------------------------------------------------------------
(* Frames that take the exception stay where they are.                     *)

TakingStay ==
  \A i \in 1 .. Depth : stack[i].kind \in Taking =>
    i \in 1 .. Depth' /\ stack'[i].kind = stack[i].kind

\* The stack r, with the kinds of the stack there was, and g on top.
LEMMA StayUnder ==
  ASSUME IInv, NEW S, NEW r \in Seq(S), Len(r) = Len(stack),
         \A i \in 1 .. Len(stack) : r[i].kind = stack[i].kind,
         NEW g, stack' = Append(r, g)
  PROVE  TakingStay
<1>1. PICK T : T = S \cup {g}
  OBVIOUS
<1>2. g \in T /\ r \in Seq(T)
  BY <1>1
<1>3. /\ Len(Append(r, g)) = Len(r) + 1
      /\ \A i \in 1 .. Len(r) : Append(r, g)[i] = r[i]
  BY <1>2, AppendProperties
<1>4. Len(stack) \in Nat
  BY StackFacts DEF Depth
<1> QED
  BY <1>3, <1>4 DEF TakingStay, Depth

LEMMA StayPush ==
  ASSUME IInv, NEW g, Push(g)
  PROVE  TakingStay
  BY StackFacts, StayUnder DEF Push

LEMMA StayWhole ==
  ASSUME UNCHANGED stack
  PROVE  TakingStay
  BY DEF TakingStay, Depth

LEMMA SameKinds ==
  ASSUME NEW s \in Seq(Frames), s # <<>>, NEW f, f.kind = s[Len(s)].kind
  PROVE  /\ [s EXCEPT ![Len(s)] = f] \in Seq(Frames \cup {f})
         /\ Len([s EXCEPT ![Len(s)] = f]) = Len(s)
         /\ \A i \in 1 .. Len(s) : [s EXCEPT ![Len(s)] = f][i].kind = s[i].kind
<1>1. PICK S : S = Frames \cup {f}
  OBVIOUS
<1>2. f \in S /\ s \in Seq(S)
  BY <1>1
<1>3. /\ [s EXCEPT ![Len(s)] = f] \in Seq(S)
      /\ Len([s EXCEPT ![Len(s)] = f]) = Len(s)
  BY <1>2
<1>4. \A i \in 1 .. Len(s) : [s EXCEPT ![Len(s)] = f][i].kind = s[i].kind
  OBVIOUS
<1> QED
  BY <1>1, <1>3, <1>4

LEMMA StayGo ==
  ASSUME IInv, stack # <<>>, NEW p, NEW n, GoTo(p, n)
  PROVE  TakingStay
<1>1. stack \in Seq(Frames) /\ Depth \in Nat
  BY StackFacts
<1>2. stack' = GoneTo(stack, p, n)
  BY Zenon DEF GoTo, Depth, GoneTo
<1>3. PICK t \in Frames : t = stack[Len(stack)]
  BY <1>1
<1>4. PICK h : h = [t EXCEPT !.phase = p]
  OBVIOUS
<1>5. PICK f : f = [h EXCEPT !.n = n]
  OBVIOUS
<1>6. f.kind = stack[Len(stack)].kind
  BY <1>3, <1>4, <1>5 DEF Frames
<1>7. f = At(stack[Len(stack)], p, n)
  BY <1>3, <1>4, <1>5, Zenon DEF At
<1>8. stack' = [stack EXCEPT ![Len(stack)] = f]
  BY <1>1, <1>2, <1>7, GoTwice, Zenon
<1> QED
  BY <1>1, <1>6, <1>8, SameKinds DEF TakingStay, Depth

LEMMA StaySpend ==
  ASSUME IInv, stack # <<>>, NEW g, Spend(g)
  PROVE  TakingStay
<1>1. stack \in Seq(Frames)
  BY StackFacts
<1>2. PICK t \in Frames : t = stack[Len(stack)]
  BY <1>1
<1>3. PICK n : n = t.n - 1
  OBVIOUS
<1>4. PICK f : f = [t EXCEPT !.n = n]
  OBVIOUS
<1>5. f.kind = stack[Len(stack)].kind
  BY <1>2, <1>4 DEF Frames
<1>6. PICK r : r = [stack EXCEPT ![Len(stack)] = f]
  OBVIOUS
<1>7. /\ r \in Seq(Frames \cup {f}) /\ Len(r) = Len(stack)
      /\ \A i \in 1 .. Len(stack) : r[i].kind = stack[i].kind
  BY <1>1, <1>5, <1>6, SameKinds
<1>8. Len(stack) \in DOMAIN stack
  BY <1>1
<1>9. stack' = Append([stack EXCEPT ![Len(stack)].n = @ - 1], g)
  BY Zenon DEF Spend, Depth
<1>10. stack' = Append(r, g)
  BY <1>2, <1>3, <1>4, <1>6, <1>8, <1>9, Zenon
<1> QED
  BY <1>7, <1>10, StayUnder

LEMMA StayPopped ==
  ASSUME IInv, stack # <<>>, stack' = Popped, Top.kind \notin Taking
  PROVE  TakingStay
<1>1. stack \in Seq(Frames)
  BY StackFacts
<1>2. /\ stack' = Below(stack) /\ Len(stack) \in Nat \ {0}
      /\ Len(Below(stack)) = Len(stack) - 1
      /\ \A i \in 1 .. Len(stack) - 1 : Below(stack)[i] = stack[i]
  BY <1>1, BelowAndLast DEF Popped, Below, Depth
<1> QED
  BY <1>2 DEF TakingStay, Depth, Top

LEMMA StayMethod ==
  ASSUME IInv, InHost("method"), ThenDrain
  PROVE  TakingStay
<1>1. stack # <<>> /\ Top.kind \notin Taking
  BY DEF InHost, HostKinds, Taking
<1> QED
  BY <1>1, StayPopped, StayGo DEF ThenDrain

LEMMA StayLoop ==
  ASSUME IInv, NEW p, InHost(p), EndAsync \/ End \/ GoTo("tsfn", Top.n + 1)
  PROVE  TakingStay
<1>1. stack # <<>> /\ Top.kind \notin Taking
  BY DEF InHost, HostKinds, Taking
<1> QED
  BY <1>1, StayPopped, StayGo DEF EndAsync, End

\* The JavaScript function that throws was entered from a dispatch.
LEMMA StayJsThrows ==
  ASSUME IInv, JsThrows
  PROVE  TakingStay
<1>1. stack # <<>> /\ Top.kind = "jsfn" /\ stack' = SubSeq(stack, 1, Depth - 2)
  BY DEF JsThrows, InGuest
<1>2. stack \in Seq(Frames) /\ Stacked(stack) /\ Depth \in Nat \ {0}
  BY <1>1, StackFacts, TopIsFrame
<1>3. Depth # 1 /\ stack[Depth - 1].kind = "dispatch"
  <2>1. PICK d \in 1 .. Len(stack) : d = Depth
    BY <1>2 DEF Depth
  <2>2. /\ d = 1 => Outermost(stack[d])
        /\ d # 1 => Rests(stack[d - 1], stack[d])
    BY <1>2 DEF Stacked
  <2> QED
    BY <1>1, <2>1, <2>2 DEF Outermost, Rests, Top
<1>4. PICK k \in Nat : k = Depth - 2
  BY <1>2, <1>3
<1>5. \A i \in 1 .. k : stack[i] \in Frames
  BY <1>2, <1>4 DEF Depth
<1>6. /\ Len(SubSeq(stack, 1, k)) = IF 1 <= k THEN k - 1 + 1 ELSE 0
      /\ \A i \in 1 .. k - 1 + 1 : SubSeq(stack, 1, k)[i] = stack[1 + i - 1]
  BY <1>4, <1>5, SubSeqProperties
<1>7. Depth' = k /\ \A i \in 1 .. k : stack'[i] = stack[i]
  BY <1>1, <1>4, <1>6 DEF Depth
<1> QED
  BY <1>1, <1>2, <1>3, <1>4, <1>7 DEF TakingStay, Taking, Top

LEMMA StayOthers ==
  ASSUME IInv, Others
  PROVE  TakingStay
<1>1. CASE DrainNext
  BY <1>1, StayWhole, StayPush DEF DrainNext
<1>2. CASE EndDrain
  <2>1. stack # <<>> /\ Top.kind \in HostKinds /\ AfterDrain
    BY <1>2 DEF EndDrain, InHost
  <2>2. Top.kind \notin Taking
    BY <2>1 DEF HostKinds, Taking
  <2>3. GoTo("method", 0) \/ GoTo("async", 0) \/ stack' = Popped
    BY <2>1 DEF AfterDrain, HostKinds
  <2> QED
    BY <2>1, <2>2, <2>3, StayPopped, StayGo
<1>3. CASE CallFunction
  <2>1. stack \in Seq(Frames) /\ stack # <<>>
    BY <1>3, StackFacts DEF CallFunction, InMethod, InHost
  <2>2. PICK t \in Frames : t = stack[Len(stack)]
    BY <2>1
  <2>3. PICK f : f = [t EXCEPT !.phase = "async"]
    OBVIOUS
  <2>4. f.kind = stack[Len(stack)].kind
    BY <2>2, <2>3 DEF Frames
  <2>5. PICK r : r = [stack EXCEPT ![Len(stack)] = f]
    OBVIOUS
  <2>6. /\ r \in Seq(Frames \cup {f}) /\ Len(r) = Len(stack)
        /\ \A i \in 1 .. Len(stack) : r[i].kind = stack[i].kind
    BY <2>1, <2>4, <2>5, SameKinds
  <2>7. Len(stack) \in DOMAIN stack
    BY <2>1
  <2>8. stack' = Append([stack EXCEPT ![Len(stack)].phase = "async"], Guest("callback", 0))
    BY <1>3, Zenon DEF CallFunction, Depth
  <2>9. stack' = Append(r, Guest("callback", 0))
    BY <2>2, <2>3, <2>5, <2>7, <2>8, Zenon
  <2> QED
    BY <2>6, <2>9, StayUnder
<1>4. CASE RunWork \/ DeliverTsfn \/ FinalizeTsfn \/ HostCalls
  BY <1>4, StayPush DEF RunWork, DeliverTsfn, FinalizeTsfn, HostCalls
<1>5. CASE AfterAsync
  BY <1>5, StayLoop DEF AfterAsync
<1>6. CASE NextTsfn
  BY <1>6, StayLoop DEF NextTsfn
<1>7. CASE EndSteps
  BY <1>7, StayGo DEF EndSteps, InHost
<1>8. CASE GuestMoves
  <2>1. CASE JsThrows
    BY <2>1, StayJsThrows
  <2>2. CASE JsCalls \/ IndirectSteps \/ PumpSteps
    BY <2>2, StaySpend DEF JsCalls, IndirectSteps, PumpSteps, InGuest, InHost
  <2>3. ASSUME NEW o \in Ops, Call(o)
        PROVE  TakingStay
    BY <2>3, StaySpend DEF Call, InGuest
  <2> QED
    BY <1>8, <2>1, <2>2, <2>3 DEF GuestMoves
<1>9. CASE Microtask \/ Pump
  BY <1>9, StayPush, StayWhole
     DEF Microtask, Pump, DrainTask, PromiseEnds, PumpStops, PumpRuns
<1>10. ASSUME NEW f \in Objects, Collect(f)
       PROVE  TakingStay
  BY <1>10, StayWhole DEF Collect
<1> QED
  BY <1>1, <1>2, <1>3, <1>4, <1>5, <1>6, <1>7, <1>8, <1>9, <1>10 DEF Others

-----------------------------------------------------------------------------
(* An exception goes with the function that raised it.                     *)

LEMMA GoneStays ==
  ASSUME GoneWithItsFunction, TakingStay, UNCHANGED pending
  PROVE  GoneWithItsFunction'
  BY DEF GoneWithItsFunction, TakingStay

LEMMA GoneTaken ==
  ASSUME Taken
  PROVE  GoneWithItsFunction'
<1>1. pending'.raiser = ""
  BY DEF Taken, None
<1> QED
  BY <1>1 DEF GoneWithItsFunction, Taking

\* The exception is one of the function at depth d, which stays.
LEMMA GoneRaised ==
  ASSUME IInv, TakingStay, NEW d \in 1 .. Depth, pending' = Of(d)
  PROVE  GoneWithItsFunction'
<1>1. pending'.raiser = stack[d].kind /\ pending'.at = d
  BY DEF Of
<1> QED
  BY <1>1 DEF GoneWithItsFunction, TakingStay

\* The frame below a dispatch is there.
LEMMA DispatchRests ==
  ASSUME IInv, NEW i \in 1 .. Depth, stack[i].kind = "dispatch"
  PROVE  i - 1 \in 1 .. Depth
<1>1. Depth \in Nat /\ (i = 1 => Outermost(stack[i]))
  BY StackFacts DEF Stacked, Depth
<1> QED
  BY <1>1 DEF Outermost

\* While a method runs, its dispatch is at the top.
LEMMA InMethodFacts ==
  ASSUME IInv, InHost("method")
  PROVE  /\ Top.kind = "dispatch" /\ stack # <<>> /\ Settled
         /\ Depth \in Nat \ {0} /\ Depth - 1 \in 1 .. Depth
<1>1. Top.kind = "dispatch" /\ stack # <<>> /\ Settled
  BY InHostFacts DEF Fits
<1>2. Depth \in Nat \ {0}
  BY <1>1, TopIsFrame, StackFacts
<1> QED
  BY <1>1, <1>2, DispatchRests DEF Top

LEMMA GoneKept ==
  ASSUME IInv, GoneWithItsFunction, ExcNext
  PROVE  GoneWithItsFunction'
<1>1. CASE Simple \/ OfTsfn
  <2>1. InHost("method") /\ ThenDrain
    BY <1>1 DEF Simple, OfTsfn, QueueWork, CancelWork, PostFinalizer, RegisterFinalizer,
       CancelFinalizer, CreatePromise, SettleDeferred, CallTsfn, AcquireTsfn, ReleaseTsfn,
       InMethod
  <2>2. UNCHANGED pending
    BY <1>1 DEF Simple, OfTsfn
  <2> QED
    BY <2>1, <2>2, StayMethod, GoneStays
<1>2. CASE WithoutEnv
  <2>1. InHost("method") /\ stack' = Popped /\ UNCHANGED pending
    BY <1>2 DEF WithoutEnv, NoEnv, InMethod
  <2>2. stack # <<>> /\ Top.kind \notin Taking
    BY <2>1, InMethodFacts DEF Taking
  <2> QED
    BY <2>1, <2>2, StayPopped, GoneStays
<1>3. ASSUME OtherCall
      PROVE  InHost("method") /\ TakingStay
  <2>1. InHost("method") /\ ThenDrain
    BY <1>3 DEF OtherCall, InMethod
  <2> QED
    BY <2>1, StayMethod
<1>4. CASE ByTable
  <2>1. InHost("method") /\ TakingStay
    BY <1>3, <1>4 DEF ByTable
  <2>2. pending' = Of(Depth - 1) \/ UNCHANGED pending
    BY <1>4 DEF ByTable
  <2>3. Depth - 1 \in 1 .. Depth
    BY <2>1, InMethodFacts
  <2>4. PICK d \in 1 .. Depth : d = Depth - 1
    BY <2>3
  <2>5. pending' = Of(d) \/ UNCHANGED pending
    BY <2>2, <2>4
  <2> QED
    BY <2>1, <2>5, GoneStays, GoneRaised
<1>5. CASE GetAndClear
  BY <1>5, GoneTaken DEF GetAndClear
<1>6. CASE OpenHandleScope
  <2>1. TakingStay /\ UNCHANGED pending
    BY <1>3, <1>6 DEF OpenHandleScope
  <2> QED
    BY <2>1, GoneStays
<1>7. CASE CallbackReturns
  BY <1>7, GoneTaken DEF CallbackReturns
<1>8. CASE CalledReturns
  <2>1. InGuest({"callback"}) /\ Catching(Depth - 1) /\ stack' = Popped
    BY <1>8 DEF CalledReturns, Return
  <2>2. CASE Taken
    BY <2>2, GoneTaken
  <2>3. CASE ~Taken
    <3>1. pending' = Of(Depth - 2)
      BY <1>8, <2>3 DEF CalledReturns
    <3>2. PICK c \in 1 .. Depth : c = Depth - 1 /\ stack[c].kind = "dispatch"
      BY <2>1 DEF Catching
    <3>3. c - 1 \in 1 .. Depth
      BY <3>2, DispatchRests
    <3>4. PICK d \in 1 .. Depth : d = c - 1
      BY <3>3
    <3>5. Depth \in Nat /\ d = Depth - 2 /\ d < Depth
      BY <3>2, <3>4, StackFacts
    <3>6. pending'.raiser = stack[d].kind /\ pending'.at = d
      BY <3>1, <3>5 DEF Of
    <3>7. /\ stack \in Seq(Frames) /\ stack # <<>>
          /\ stack' = Below(stack)
      BY <2>1, StackFacts DEF InGuest, Popped, Below, Depth
    <3>8. Len(Below(stack)) = Len(stack) - 1
          /\ \A i \in 1 .. Len(stack) - 1 : Below(stack)[i] = stack[i]
      BY <3>7, BelowAndLast
    <3>9. d \in 1 .. Depth' /\ stack'[d] = stack[d]
      BY <3>5, <3>7, <3>8 DEF Depth
    <3> QED
      BY <3>6, <3>9 DEF GoneWithItsFunction
  <2> QED
    BY <2>2, <2>3
<1>9. CASE ReportingReturns
  BY <1>9, GoneTaken DEF ReportingReturns
<1>10. CASE LeavingReturns
  <2>1. stack # <<>> /\ stack' = Popped /\ Top.kind \notin Taking
    BY <1>10 DEF LeavingReturns, Return, InGuest
  <2>2. TakingStay
    BY <2>1, StayPopped
  <2>3. CASE pending.at = Depth
    <3>1. pending.raiser \notin Taking
      BY <2>1, <2>3 DEF GoneWithItsFunction, Top
    <3>2. pending' = [pending EXCEPT !.at = 0]
      BY <1>10, <2>3 DEF LeavingReturns
    <3>3. pending'.raiser = pending.raiser
      BY <3>2
    <3> QED
      BY <3>1, <3>3 DEF GoneWithItsFunction
  <2>4. CASE pending.at # Depth
    <3>1. UNCHANGED pending
      BY <1>10, <2>4 DEF LeavingReturns
    <3> QED
      BY <2>2, <3>1, GoneStays
  <2> QED
    BY <2>3, <2>4
<1>11. CASE Others /\ Nothing
  <2>1. UNCHANGED pending
    BY <1>11 DEF Nothing
  <2> QED
    BY <1>11, <2>1, StayOthers, GoneStays
<1> QED
  BY <1>1, <1>2, <1>4, <1>5, <1>6, <1>7, <1>8, <1>9, <1>10, <1>11 DEF ExcNext

\* An exception raised by a callback, a completion or a finalizer is gone when
\* that function has returned, however the calls nest (GoneWithItsFunction).
THEOREM ExceptionLeaves == ExcSpec => []GoneWithItsFunction
<1>1. ExcInit => GoneWithItsFunction
  <2> SUFFICES ASSUME ExcInit
               PROVE  GoneWithItsFunction
    OBVIOUS
  <2>1. pending.raiser = ""
    BY DEF ExcInit, None
  <2>2. "" \notin Taking
    BY DEF Taking
  <2> QED
    BY <2>1, <2>2, Zenon DEF GoneWithItsFunction
<1>2. IInv /\ GoneWithItsFunction /\ [ExcNext]_allVars => GoneWithItsFunction'
  <2>1. ASSUME IInv, GoneWithItsFunction, UNCHANGED allVars
        PROVE  GoneWithItsFunction'
    <3>1. UNCHANGED <<stack, pending>>
      BY <2>1 DEF allVars, vars, excVars
    <3> QED
      BY <2>1, <3>1 DEF GoneWithItsFunction, Depth
  <2> QED
    BY <2>1, GoneKept
<1>3. ExcSpec => []IInv
  BY ExceptionsAddOnly, AsyncInvariance, PTL
<1> QED
  BY <1>1, <1>2, <1>3, PTL DEF ExcSpec

-----------------------------------------------------------------------------
(* A method answers napi_pending_exception when it has raised one, and not *)
(* because of an argument.                                                 *)

NeverPretends(rows) == \A row \in rows : "napi_pending_exception" \notin row.refuses

LEMMA TableNeverPretends == NeverPretends(Table)
<1> USE DEF NeverPretends, Row, Rows, Infallible, Checked, Raising
<1>1. /\ NeverPretends(Basics) /\ NeverPretends(Functions)
      /\ NeverPretends(References) /\ NeverPretends(Classes)
      /\ NeverPretends(CallbackInfo) /\ NeverPretends(Wraps)
  BY DEF Basics, Functions, References, Classes, CallbackInfo, Wraps
<1>2. /\ NeverPretends(Errors) /\ NeverPretends(ErrorInfo)
      /\ NeverPretends(Numbers) /\ NeverPretends(Comparisons)
      /\ NeverPretends(SyntaxErrors) /\ NeverPretends(Buffers)
  BY DEF Errors, ErrorInfo, Numbers, Comparisons, SyntaxErrors, Buffers
<1>3. /\ NeverPretends(Hooks) /\ NeverPretends(ExternalStrings)
      /\ NeverPretends(ExternalBuffers) /\ NeverPretends(WideStrings)
      /\ NeverPretends(BigIntWords) /\ NeverPretends(Definitions)
  BY DEF Hooks, ExternalStrings, ExternalBuffers, WideStrings, BigIntWords, Definitions
<1>4. /\ NeverPretends(Coercions) /\ NeverPretends(Elements)
      /\ NeverPretends(Prototypes) /\ NeverPretends(Promises)
      /\ NeverPretends(Scopes)
  BY DEF Coercions, Elements, Prototypes, Promises, Scopes
<1>5. /\ NeverPretends(Dates) /\ NeverPretends(AsyncWork)
      /\ NeverPretends(ThreadsafeFunctions) /\ NeverPretends(Scripts)
      /\ NeverPretends(Views) /\ NeverPretends(BigInts)
  BY DEF Dates, AsyncWork, ThreadsafeFunctions, Scripts, Views, BigInts
<1> QED
  BY <1>1, <1>2, <1>3, <1>4, <1>5, Zenon DEF NeverPretends, Table

LEMMA PendingIsRaised ==
  ASSUME NEW o \in Outcomes, o.status = "napi_pending_exception"
  PROVE  o.raised
<1>1. PICK r \in UNION {OutcomesOf(row) : row \in Table} : o = [r EXCEPT !.status = Status(@)]
  BY DEF Outcomes
<1>2. PICK row \in Table : r \in OutcomesOf(row)
  OBVIOUS
<1>3. "napi_pending_exception" \notin row.refuses
  BY TableNeverPretends DEF NeverPretends
<1>4. /\ r = [status |-> r.status, raised |-> r.raised]
      /\ r.status = "napi_pending_exception" => r.raised
  BY <1>2, <1>3 DEF OutcomesOf, Outcome
<1>5. o.status = Status(r.status) /\ o.raised = r.raised
  BY <1>1, <1>4
<1>6. r.status = "napi_pending_exception"
  BY <1>5 DEF Status
<1> QED
  BY <1>4, <1>5, <1>6

-----------------------------------------------------------------------------
(* A failure is the last thing that happened.                              *)

ResultsFit == DOMAIN results = 1 .. Depth
\* The dispatch whose method failed drains for nothing.
Told ==
  \A i \in 1 .. Depth : results[i] \in Failures =>
    /\ i = Depth /\ Draining({"async", "tsfn"}) /\ Settled
    /\ lastStatus = results[i]
    /\ results[i] = "napi_pending_exception" => pending # None
EInv == ResultsFit /\ Told

NoneFailed == \A i : ResultAt(i) \notin Failures

LEMMA NoStatusIsNoFailure == NoStatus \notin Failures
  BY DEF NoStatus, Failures, Statuses

LEMMA FailedDrains ==
  ASSUME EInv, ~Draining({"async", "tsfn"}) \/ ~Settled
  PROVE  NoneFailed
  BY NoStatusIsNoFailure DEF EInv, ResultsFit, Told, NoneFailed, ResultAt

LEMMA NoNewFailure ==
  ASSUME IInv', NoneFailed, NoResult
  PROVE  EInv'
<1>1. DOMAIN stack' = 1 .. Depth'
  BY DEF IInv, Stacked, Depth
<1>2. results' = [i \in 1 .. Depth' |-> ResultAt(i)]
  BY <1>1, Zenon DEF NoResult
<1>3. ResultsFit' /\ \A i \in 1 .. Depth' : results'[i] \notin Failures
  BY <1>2 DEF ResultsFit, NoneFailed
<1> QED
  BY <1>3 DEF EInv, Told

\* The method of the dispatch at depth d answers s.
LEMMA OneAnswer ==
  ASSUME IInv', NoneFailed, NEW d, NEW s, Answers(d, s),
         s \in Failures /\ d \in 1 .. Depth' =>
           /\ d = Depth' /\ Draining({"async", "tsfn"})' /\ Settled'
           /\ s = "napi_pending_exception" => pending' # None
  PROVE  EInv'
<1>1. DOMAIN stack' = 1 .. Depth'
  BY DEF IInv, Stacked, Depth
<1>2. results' = [i \in 1 .. Depth' |-> IF i = d THEN s ELSE ResultAt(i)]
  BY <1>1, Zenon DEF Answers
<1>3. /\ ResultsFit' /\ \A i \in 1 .. Depth' : results'[i] \in Failures => i = d
      /\ d \in 1 .. Depth' => results'[d] = s
  BY <1>2 DEF ResultsFit, NoneFailed
<1>4. lastStatus' = s
  BY DEF Answers
<1> QED
  BY <1>3, <1>4 DEF EInv, Told

\* After its method a dispatch has returned, or drains.
LEMMA ReturnsOrDrains ==
  ASSUME IInv, InHost("method"), ThenDrain
  PROVE  \/ Depth' = Depth - 1
         \/ Depth' = Depth /\ Draining({"async", "tsfn"})'
<1>1. Top.kind = "dispatch" /\ stack # <<>> /\ Stacked(stack)
  BY InMethodFacts, StackFacts
<1>2. CASE stack' = Popped
  BY <1>1, <1>2, Leave DEF Left, Depth
<1>3. CASE stack' # Popped
  <2>1. GoTo("async", 0) /\ "async" \in Phases
    BY <1>3 DEF ThenDrain, Phases
  <2>2. PICK f \in Frames : Turned(f) /\ Same(f, Top) /\ f.phase = "async"
    BY <1>1, <2>1, Go
  <2> QED
    BY <1>1, <2>2 DEF Turned, Same, Draining, Depth
<1> QED
  BY <1>2, <1>3

\* Its answer, when it leaves nothing to drain if it fails.
LEMMA MethodAnswers ==
  ASSUME IInv, IInv', EInv, InHost("method"), ThenDrain, NEW s, Answers(Depth, s),
         s \in Failures =>
           /\ Settled'
           /\ s = "napi_pending_exception" => pending' # None
  PROVE  EInv'
<1>1. NoneFailed
  BY FailedDrains DEF InHost, Draining
<1>2. Depth \in Nat
  BY StackFacts
<1>3. Depth \in 1 .. Depth' => Depth = Depth' /\ Draining({"async", "tsfn"})'
  BY <1>2, ReturnsOrDrains
<1> QED
  BY <1>1, <1>3, OneAnswer

\* A released function that was finalized has nothing to finalize.
LEMMA ReleaseLeavesNothing ==
  ASSUME IInv, ReleaseTsfn, tsfn[Top.arg].finalized
  PROVE  Settled'
<1>1. Settled /\ TsfnTyped /\ UNCHANGED asyncQueue
  BY InMethodFacts DEF IInv, TsfnOK, ReleaseTsfn, InMethod, workVars
<1>2. PICK t \in Tsfns, r \in TsfnRecords :
        /\ t = Top.arg /\ tsfn' = [tsfn EXCEPT ![t] = r]
        /\ r.queue = tsfn[t].queue /\ r.finalized = tsfn[t].finalized
  BY ReleaseChanges
<1>3. tsfn'[t] = r /\ \A u \in Tsfns : u # t => tsfn'[u] = tsfn[u]
  BY <1>1, <1>2 DEF TsfnTyped
<1>4. r.finalized /\ r.queue = <<>>
  BY <1>1, <1>2 DEF Settled, WaitsFor
<1> QED
  BY <1>1, <1>3, <1>4 DEF Settled, WaitsFor, MayFinalize

LEMMA SomeIsPending ==
  ASSUME NEW d \in Nat, d # 0
  PROVE  Of(d) # None
<1>1. Of(d).at = d /\ None.at = 0
  BY DEF Of, None
<1> QED
  BY <1>1

LEMMA OfTsfnTells ==
  ASSUME IInv, IInv', EInv, OfTsfn
  PROVE  EInv'
<1>1. InHost("method") /\ ThenDrain /\ UNCHANGED asyncQueue
  BY DEF OfTsfn, CallTsfn, AcquireTsfn, ReleaseTsfn, InMethod, workVars
<1>2. Settled
  BY <1>1, InMethodFacts
<1>3. CASE CallTsfn /\ Answers(Depth, IF Accepts(Top.arg) THEN "napi_ok" ELSE "failed")
  <2>1. PICK s : s = IF Accepts(Top.arg) THEN "napi_ok" ELSE "failed"
    OBVIOUS
  <2>2. s \in Failures => Settled' /\ s # "napi_pending_exception"
    <3>1. ASSUME s \in Failures
          PROVE  ~Accepts(Top.arg) /\ s = "failed"
      BY <2>1, <3>1 DEF Failures, Statuses
    <3>2. ~Accepts(Top.arg) => UNCHANGED tsfn
      BY <1>3 DEF CallTsfn
    <3> QED
      BY <1>1, <1>2, <3>1, <3>2, SettledStays
  <2> QED
    BY <1>1, <1>3, <2>1, <2>2, MethodAnswers
<1>4. CASE AcquireTsfn /\ Answers(Depth, IF Accepts(Top.arg) THEN "napi_ok" ELSE "failed")
  <2>1. PICK s : s = IF Accepts(Top.arg) THEN "napi_ok" ELSE "failed"
    OBVIOUS
  <2>2. s \in Failures => Settled' /\ s # "napi_pending_exception"
    <3>1. ASSUME s \in Failures
          PROVE  ~Accepts(Top.arg) /\ s = "failed"
      BY <2>1, <3>1 DEF Failures, Statuses
    <3>2. ~Accepts(Top.arg) => UNCHANGED tsfn
      BY <1>4 DEF AcquireTsfn, Accepts
    <3> QED
      BY <1>1, <1>2, <3>1, <3>2, SettledStays
  <2> QED
    BY <1>1, <1>4, <2>1, <2>2, MethodAnswers
<1>5. CASE ReleaseTsfn /\ Answers(Depth, ReleaseStatus(Top.arg))
  <2>1. PICK s : s = ReleaseStatus(Top.arg)
    OBVIOUS
  <2>2. s \in Failures => tsfn[Top.arg].finalized /\ s # "napi_pending_exception"
    BY <2>1 DEF ReleaseStatus, Failures, Statuses
  <2> QED
    BY <1>1, <1>5, <2>1, <2>2, ReleaseLeavesNothing, MethodAnswers
<1> QED
  BY <1>3, <1>4, <1>5 DEF OfTsfn

LEMMA OtherCallTells ==
  ASSUME IInv, IInv', EInv, OtherCall, NEW s, Answers(Depth, s),
         s = "napi_pending_exception" => pending' # None
  PROVE  EInv'
<1>1. InHost("method") /\ ThenDrain
  BY DEF OtherCall, InMethod
<1>2. UNCHANGED <<asyncQueue, tsfn>>
  BY DEF OtherCall, workVars, tsfnVars
<1>3. Settled'
  BY <1>1, <1>2, InMethodFacts, SettledStays
<1> QED
  BY <1>1, <1>3, MethodAnswers

\* While a failure is told of, the queues have nothing, and only the loops
\* that find this out go on.
LEMMA OthersTell ==
  ASSUME IInv, IInv', EInv, Others, Nothing
  PROVE  EInv'
<1>1. NoResult /\ UNCHANGED <<pending, lastStatus>>
  BY DEF Nothing, NoResult
<1>2. CASE ~Draining({"async", "tsfn"}) \/ ~Settled
  BY <1>1, <1>2, FailedDrains, NoNewFailure
<1>3. CASE Draining({"async", "tsfn"}) /\ Settled
  <2>1. stack # <<>> /\ Top.kind = "dispatch" /\ Top.phase \in {"async", "tsfn"}
    BY <1>3 DEF Draining
  <2>2. AfterAsync \/ NextTsfn
    <3>1. ~(DrainNext \/ EndDrain \/ CallFunction \/ EndSteps)
      BY <2>1 DEF DrainNext, EndDrain, CallFunction, EndSteps, InMethod, InHost
    <3>2. ~(RunWork \/ DeliverTsfn \/ FinalizeTsfn)
      BY <1>3 DEF Settled, WaitsFor, RunWork, DeliverTsfn, FinalizeTsfn
    <3>3. ~GuestMoves
      BY <2>1 DEF GuestMoves, Call, JsThrows, JsCalls, IndirectSteps, PumpSteps, InGuest,
         InHost, GuestKinds, Indirect
    <3>4. ~(Microtask \/ Pump \/ HostCalls \/ \E f \in Objects : Collect(f))
      BY <2>1 DEF Microtask, DrainTask, PromiseEnds, Pump, PumpStops, PumpRuns, HostCalls,
         Collect, Quiet, Idle
    <3> QED
      BY <3>1, <3>2, <3>3, <3>4 DEF Others
  <2>3. UNCHANGED <<asyncQueue, tsfn>> /\ (stack' = Popped \/ \E n \in Nat : GoTo("tsfn", n))
    <3>1. UNCHANGED <<asyncQueue, tsfn>>
      BY <2>2 DEF AfterAsync, NextTsfn, workVars, tsfnVars
    <3>2. Top.n + 1 \in Nat
      BY <2>1, TopIsFrame, StackFacts DEF Frames
    <3> QED
      BY <2>2, <3>1, <3>2 DEF AfterAsync, NextTsfn, EndAsync, End
  <2>4. DOMAIN stack' = 1 .. Depth' /\ Stacked(stack) /\ Depth \in Nat
    BY StackFacts DEF IInv, Stacked, Depth
  <2>5. /\ results' = [i \in 1 .. Depth' |-> ResultAt(i)]
        /\ lastStatus' = lastStatus /\ pending' = pending
    BY <1>1, <2>4, Zenon DEF NoResult
  <2>6. ResultsFit'
    BY <2>5 DEF ResultsFit
  <2>7. CASE stack' = Popped
    <3>1. Depth' = Depth - 1
      BY <2>1, <2>4, <2>7, Leave DEF Left
    <3>2. \A i \in 1 .. Depth' : results'[i] = results[i] /\ results[i] \notin Failures
      BY <2>4, <2>5, <3>1 DEF EInv, Told, ResultsFit, ResultAt
    <3> QED
      BY <2>6, <3>2 DEF EInv, Told
  <2>8. CASE \E n \in Nat : GoTo("tsfn", n)
    <3>1. PICK n \in Nat : GoTo("tsfn", n)
      BY <2>8
    <3>2. PICK f \in Frames : Turned(f) /\ Same(f, Top) /\ f.phase = "tsfn"
      <4>1. "tsfn" \in Phases
        BY DEF Phases
      <4> QED
        BY <2>1, <2>4, <3>1, <4>1, Go
    <3>3. Depth' = Depth /\ Draining({"async", "tsfn"})'
      BY <2>1, <3>2 DEF Turned, Same, Draining
    <3>4. Settled'
      BY <1>3, <2>3, SettledStays
    <3>5. \A i \in 1 .. Depth : results'[i] = results[i]
      BY <2>5, <3>3 DEF EInv, ResultsFit, ResultAt
    <3> QED
      BY <2>5, <2>6, <3>3, <3>4, <3>5 DEF EInv, Told
  <2> QED
    BY <2>3, <2>7, <2>8
<1> QED
  BY <1>2, <1>3

\* The call that the callback was made by fails if it did.
LEMMA CalledReturnsTells ==
  ASSUME IInv, IInv', EInv, CalledReturns
  PROVE  EInv'
<1>1. /\ stack # <<>> /\ Top.kind = "callback" /\ Settled
      /\ Catching(Depth - 1) /\ stack' = Popped
      /\ UNCHANGED <<asyncQueue, tsfn>>
  BY InGuestFacts DEF CalledReturns, Return, InGuest, GuestKinds, Indirect, tsfnVars
<1>2. NoneFailed
  BY <1>1, FailedDrains DEF Draining
<1>3. PICK c \in 1 .. Depth : c = Depth - 1 /\ stack[c].kind = "dispatch"
  BY <1>1 DEF Catching
<1>4. /\ stack \in Seq(Frames) /\ Stacked(stack) /\ Depth \in Nat \ {0}
      /\ c - 1 \in 1 .. Depth
  BY <1>1, <1>3, StackFacts, TopIsFrame, DispatchRests
<1>5. stack[c].phase = "async"
  <2>1. PICK d \in 1 .. Len(stack) : d = Depth
    BY <1>4 DEF Depth
  <2>2. d # 1 /\ Rests(stack[d - 1], stack[d])
    BY <1>3, <1>4, <2>1 DEF Stacked
  <2> QED
    BY <1>1, <1>3, <2>1, <2>2 DEF Rests, Top
<1>6. /\ stack' = Below(stack) /\ Len(Below(stack)) = Len(stack) - 1
      /\ \A i \in 1 .. Len(stack) - 1 : Below(stack)[i] = stack[i]
  BY <1>1, <1>4, BelowAndLast DEF Popped, Below, Depth
<1>7. Depth' = c /\ Top' = stack[c]
  BY <1>3, <1>4, <1>6 DEF Depth, Top
<1>8. stack' # <<>>
  BY <1>4, <1>6, <1>7 DEF Depth
<1>9. Draining({"async", "tsfn"})' /\ Settled'
  BY <1>1, <1>3, <1>5, <1>7, <1>8, SettledStays DEF Draining
<1>10. PICK s : /\ Answers(c, s)
                /\ s = "napi_pending_exception" => pending' = Of(Depth - 2)
  <2>1. \/ Answers(c, "napi_ok")
        \/ Answers(c, "napi_pending_exception") /\ pending' = Of(Depth - 2)
    BY <1>3, Zenon DEF CalledReturns
  <2>2. "napi_ok" # "napi_pending_exception"
    OBVIOUS
  <2> QED
    BY <2>1, <2>2, Zenon
<1>11. Of(Depth - 2) # None
  <2>1. Depth - 2 \in Nat /\ Depth - 2 # 0
    BY <1>3, <1>4
  <2> QED
    BY <2>1, SomeIsPending
<1> QED
  BY <1>2, <1>7, <1>9, <1>10, <1>11, OneAnswer

LEMMA TellsNext ==
  ASSUME IInv, IInv', EInv, ExcNext
  PROVE  EInv'
<1>1. CASE Simple
  <2>1. InHost("method") /\ ThenDrain /\ Answers(Depth, "napi_ok")
    BY <1>1 DEF Simple, QueueWork, CancelWork, PostFinalizer, RegisterFinalizer,
       CancelFinalizer, CreatePromise, SettleDeferred, InMethod
  <2>2. "napi_ok" \notin Failures
    BY DEF Failures
  <2> QED
    BY <2>1, <2>2, MethodAnswers
<1>2. CASE OfTsfn
  BY <1>2, OfTsfnTells
<1>3. CASE WithoutEnv
  <2>1. InHost("method") /\ stack' = Popped /\ Answers(Depth, "failed")
    BY <1>3 DEF WithoutEnv, NoEnv, InMethod
  <2>2. NoneFailed
    BY <2>1, FailedDrains DEF InHost, Draining
  <2>3. stack # <<>> /\ Stacked(stack) /\ Depth \in Nat
    BY <2>1, InMethodFacts, StackFacts
  <2>4. Depth \notin 1 .. Depth'
    BY <2>1, <2>3, Leave DEF Left
  <2> QED
    BY <2>1, <2>2, <2>4, OneAnswer
<1>4. CASE ByTable
  <2>1. PICK o \in Outcomes :
          /\ Answers(Depth, o.status)
          /\ pending' = IF o.raised THEN Of(Depth - 1) ELSE pending
    BY <1>4 DEF ByTable
  <2>2. OtherCall
    BY <1>4 DEF ByTable
  <2>3. Depth - 1 \in 1 .. Depth /\ Depth \in Nat
    BY <2>2, InMethodFacts DEF OtherCall, InMethod
  <2>4. Of(Depth - 1) # None
    <3>1. Depth - 1 \in Nat /\ Depth - 1 # 0
      BY <2>3
    <3> QED
      BY <3>1, SomeIsPending
  <2>5. o.status = "napi_pending_exception" => pending' # None
    BY <2>1, <2>4, PendingIsRaised
  <2> QED
    BY <2>1, <2>2, <2>5, OtherCallTells
<1>5. CASE GetAndClear
  <2>1. OtherCall /\ Answers(Depth, "napi_ok")
    BY <1>5 DEF GetAndClear
  <2> QED
    BY <2>1, OtherCallTells
<1>6. CASE OpenHandleScope
  <2>1. PICK s : s = IF pending = None THEN "napi_ok" ELSE "napi_pending_exception"
    OBVIOUS
  <2>2. OtherCall /\ Answers(Depth, s) /\ UNCHANGED pending
    BY <1>6, <2>1 DEF OpenHandleScope
  <2>3. s = "napi_pending_exception" => pending' # None
    BY <2>1, <2>2
  <2> QED
    BY <2>2, <2>3, OtherCallTells
<1>7. CASE CallbackReturns \/ ReportingReturns \/ LeavingReturns
  <2>1. InGuest(GuestKinds) /\ NoResult
    BY <1>7 DEF CallbackReturns, ReportingReturns, LeavingReturns, Return
  <2>2. NoneFailed
    BY <2>1, InGuestFacts, FailedDrains DEF Draining
  <2> QED
    BY <2>1, <2>2, NoNewFailure
<1>8. CASE CalledReturns
  BY <1>8, CalledReturnsTells
<1>9. CASE Others /\ Nothing
  BY <1>9, OthersTell
<1> QED
  BY <1>1, <1>2, <1>3, <1>4, <1>5, <1>6, <1>7, <1>8, <1>9 DEF ExcNext

\* EInv is inductive, next to the invariant of NapiAsync.
THEOREM StatusInvariance == ExcSpec => []EInv
<1>1. ExcInit => EInv
  <2> SUFFICES ASSUME ExcInit
               PROVE  EInv
    OBVIOUS
  <2>1. Depth = 0 /\ DOMAIN results = 1 .. 0
    BY DEF ExcInit, Init, Depth
  <2> QED
    BY <2>1 DEF EInv, ResultsFit, Told
<1>2. IInv /\ IInv' /\ EInv /\ [ExcNext]_allVars => EInv'
  <2>1. ASSUME EInv, UNCHANGED allVars
        PROVE  EInv'
    BY <2>1 DEF allVars, vars, excVars, workVars, tsfnVars, EInv, ResultsFit, Told, Depth,
       Draining, Top, Settled, WaitsFor, MayFinalize
  <2> QED
    BY <2>1, TellsNext
<1>3. ExcSpec => []IInv
  BY ExceptionsAddOnly, AsyncInvariance, PTL
<1> QED
  BY <1>1, <1>2, <1>3, PTL DEF ExcSpec

\* While a failed call is on its way back to the guest no other function runs:
\* napi_get_last_error_info tells of this call, and if it is said to be due to
\* an exception, the exception is there (FailureIsTold).
THEOREM FailureReachesCaller == ExcSpec => []FailureIsTold
<1>1. EInv => FailureIsTold
  BY DEF EInv, Told, FailureIsTold
<1> QED
  BY <1>1, StatusInvariance, PTL
=============================================================================
