--------------------------- MODULE NapiAsyncProofs ---------------------------
(***************************************************************************)
(* Proofs about NapiAsync for every set of works, functions and            *)
(* finalizers and every bound.                                             *)
(*                                                                         *)
(* What waits is at most one thing, and it waits only while the dispatch   *)
(* that will run it is the innermost frame (OneWaits): each N-API call     *)
(* drains what it left behind before it returns.  From this follows that   *)
(* an exception of a JavaScript function can end no pump, that the pump's  *)
(* own drains are idle, and that the filter of napi_cancel_async_work has  *)
(* nothing to remove.                                                      *)
(***************************************************************************)
EXTENDS NapiAsync, TLAPS, SequenceTheorems, FiniteSetTheorems

Phases  == {"run", "drain", "method", "async", "tsfn", "steps"}
OpNames == {"", "queue", "cancel", "call", "acquire", "release", "abort",
            "post", "wrap", "unwrap", "promise", "settle", "call_function",
            "other", "no_env"}
Args    == {0} \cup Works \cup Tsfns \cup Finalizers
Frames  == [kind : HostKinds \cup GuestKinds, op : OpNames, arg : Args,
            phase : Phases, n : Nat]
Items   == [type : {"execute", "complete"}, work : Works]

\* What the fields of a frame have to do with each other.
Fits(f) ==
  /\ f.kind = "dispatch" => [op |-> f.op, arg |-> f.arg] \in Ops
  /\ f.phase = "method" => f.kind = "dispatch"
  /\ f.kind \in {"execute", "complete"} => f.arg \in Works
  /\ f.kind \in GuestKinds => f.phase = "run"
  /\ f.kind = "task" => f.phase = "drain"

\* Who enters whom: g is entered from f, or is the outermost frame.
Rests(f, g) ==
  /\ g.kind = "finalizer" => f.phase = "drain"
  /\ g.kind = "execute" => f.kind = "dispatch" /\ f.phase = "async"
  /\ g.kind = "jsfn" => f.kind = "dispatch" /\ f.phase = "tsfn"
  /\ g.kind = "callback" /\ f.kind = "dispatch" => f.phase = "async"
Outermost(f) == f.kind \notin {"finalizer", "execute", "jsfn", "dispatch"}
Placed(s, g) == IF s = <<>> THEN Outermost(g) ELSE Rests(s[Len(s)], g)
Stacked(s) ==
  /\ s \in Seq(Frames)
  /\ \A i \in 1 .. Len(s) : Fits(s[i])
  /\ \A i \in 1 .. Len(s) : IF i = 1 THEN Outermost(s[i])
                                     ELSE Rests(s[i - 1], s[i])

\* How many frames of s are in K.
Marked(s, K)  == {i \in 1 .. Len(s) : s[i] \in K}
CountIn(s, K) == Cardinality(Marked(s, K))
One(f, K)     == IF f \in K THEN 1 ELSE 0

PumpFrames       == {f \in Frames : f.kind = "pump"}
DrainFrames      == {f \in Frames : f.phase = "drain"}
ExecuteFrames(w) == {f \in Frames : f.kind = "execute" /\ f.arg = w}

\* The variables other than the stack have their types.
WorkTyped == /\ asyncQueue \in Seq(Items)
             /\ asked \in [Works -> Nat] /\ done \in [Works -> Nat]
TsfnTyped ==
  /\ tsfn \in [Tsfns -> [queue : Seq(Nat), threads : Nat, js : BOOLEAN,
                         closing : BOOLEAN, finalized : BOOLEAN]]
  /\ sent \in [Tsfns -> Nat] /\ got \in [Tsfns -> Nat]
FinTyped ==
  /\ fin \in [Finalizers -> {"unused", "live", "posted", "collected",
                             "cancelled", "done"}]
  /\ posted \in Seq(Finalizers)
  /\ {postedPending, draining, drainScheduled} \subseteq BOOLEAN
PumpTyped ==
  /\ pumpScheduled \in BOOLEAN
  /\ {outstanding, deferreds, reactions, pumpsQueued} \subseteq Nat

\* One drain of finalizers is in progress while _drainingFinalizers says so.
OneDrain == CountIn(stack, DrainFrames) = (IF draining THEN 1 ELSE 0)

\* One thing waits at most, for the dispatch at the top, and the loop over
\* the thread-safe functions has not passed it.
WaitsFor(t) == tsfn[t].queue # <<>> \/ MayFinalize(t)
Settled     == asyncQueue = <<>> /\ \A t \in Tsfns : ~WaitsFor(t)
Draining(p) == stack # <<>> /\ Top.kind = "dispatch" /\ Top.phase \in p
WorkWaits   == /\ Draining({"async"})
               /\ Len(asyncQueue) = 1 /\ \A t \in Tsfns : ~WaitsFor(t)
TsfnWaits(t) == /\ asyncQueue = <<>>
                /\ Draining({"async", "tsfn"})
                /\ Top.phase = "tsfn" => Top.n <= t
                /\ Len(tsfn[t].queue) <= 1
                /\ tsfn[t].queue # <<>> => ~MayFinalize(t)
                /\ \A u \in Tsfns : WaitsFor(u) => u = t
OneWaits == Settled \/ WorkWaits \/ \E t \in Tsfns : TsfnWaits(t)

\* A work asked for is done, or waiting, or executing.
Conserved ==
  \A w \in Works :
    asked[w] = done[w] + Cardinality({i \in DOMAIN asyncQueue : asyncQueue[i].work = w})
                       + CountIn(stack, ExecuteFrames(w))

\* A finalized function was closed.
Ended == \A t \in Tsfns : tsfn[t].finalized => tsfn[t].closing

\* What waits for a drain is posted once and has not run; what was collected
\* waits for one that will come.
PostedOnce ==
  /\ \A i \in 1 .. Len(posted) :
       fin[posted[i]] \in {"posted", "collected", "cancelled"}
  /\ \A i, j \in 1 .. Len(posted) : posted[i] = posted[j] => i = j
  /\ posted # <<>> => postedPending
DrainComes ==
  \A f \in Objects : fin[f] = "collected" =>
    /\ \E i \in 1 .. Len(posted) : posted[i] = f
    /\ drainScheduled \/ draining

\* The pumps that run or are queued.
PumpCounted ==
  /\ pumpsQueued + CountIn(stack, PumpFrames) = (IF pumpScheduled THEN 1 ELSE 0)
  /\ outstanding = deferreds + reactions
  /\ outstanding > 0 => pumpScheduled

WorkOK == WorkTyped /\ Conserved
TsfnOK == TsfnTyped /\ TsfnDelivers /\ Ended
FinOK  == FinTyped /\ OneDrain /\ PostedOnce /\ DrainComes
PumpOK == PumpTyped /\ PumpCounted
IInv == /\ Stacked(stack) /\ OneWaits /\ argsOf \in Nat
        /\ WorkOK /\ TsfnOK /\ FinOK /\ PumpOK

-----------------------------------------------------------------------------
(* Sequences of frames.                                                    *)

LEMMA FramesCounted ==
  ASSUME NEW s \in Seq(Frames), NEW K
  PROVE  IsFiniteSet(Marked(s, K)) /\ CountIn(s, K) \in Nat
<1>1. Len(s) \in Nat
  OBVIOUS
<1>2. IsFiniteSet(1 .. Len(s))
  BY <1>1, FS_Interval
<1>3. Marked(s, K) \in SUBSET (1 .. Len(s))
  BY DEF Marked
<1>4. IsFiniteSet(Marked(s, K))
  BY <1>2, <1>3, FS_Subset
<1> QED
  BY <1>4, FS_CardinalityType DEF CountIn

LEMMA EmptyCounted ==
  ASSUME NEW K
  PROVE  CountIn(<<>>, K) = 0
<1>1. Marked(<<>>, K) = {}
  BY DEF Marked
<1> QED
  BY <1>1, FS_EmptySet DEF CountIn

LEMMA AppendCounted ==
  ASSUME NEW s \in Seq(Frames), NEW g \in Frames, NEW K
  PROVE  CountIn(Append(s, g), K) = CountIn(s, K) + One(g, K)
<1> DEFINE a == Append(s, g)
<1>1. /\ Len(s) \in Nat /\ Len(a) = Len(s) + 1
      /\ \A i \in 1 .. Len(s) : a[i] = s[i]
      /\ a[Len(s) + 1] = g
  OBVIOUS
<1>2. IsFiniteSet(Marked(s, K)) /\ CountIn(s, K) \in Nat
  BY FramesCounted
<1>3. Len(s) + 1 \notin Marked(s, K)
  BY <1>1 DEF Marked
<1> HIDE DEF a
<1>4. CASE g \in K
  <2>1. Marked(a, K) = Marked(s, K) \cup {Len(s) + 1}
    BY <1>1, <1>4 DEF Marked
  <2>2. Cardinality(Marked(s, K) \cup {Len(s) + 1}) = Cardinality(Marked(s, K)) + 1
    BY <1>2, <1>3, FS_AddElement
  <2> QED
    BY <2>1, <2>2, <1>4 DEF CountIn, One, a
<1>5. CASE g \notin K
  <2>1. Marked(a, K) = Marked(s, K)
    BY <1>1, <1>5 DEF Marked
  <2> QED
    BY <2>1, <1>2, <1>5 DEF CountIn, One, a
<1> QED
  BY <1>4, <1>5

\* What is left of s without its last frame.
Below(s) == SubSeq(s, 1, Len(s) - 1)

LEMMA BelowAndLast ==
  ASSUME NEW s \in Seq(Frames), s # <<>>
  PROVE  /\ Len(s) \in Nat \ {0} /\ s[Len(s)] \in Frames
         /\ Below(s) \in Seq(Frames) /\ Len(Below(s)) = Len(s) - 1
         /\ \A i \in 1 .. Len(s) - 1 : Below(s)[i] = s[i]
         /\ s = Append(Below(s), s[Len(s)])
<1>1. Len(s) \in Nat \ {0} /\ s[Len(s)] \in Frames
  OBVIOUS
<1>2. \A i \in 1 .. Len(s) - 1 : s[i] \in Frames
  BY <1>1
<1>3. /\ Below(s) \in Seq(Frames) /\ Len(Below(s)) = Len(s) - 1
      /\ \A i \in 1 .. Len(s) - 1 : Below(s)[i] = s[i]
  <2> DEFINE k == Len(s) - 1
  <2>1. k \in Nat /\ Len(s) = k + 1 /\ \A i \in 1 .. k : s[i] \in Frames
    BY <1>1, <1>2
  <2> HIDE DEF k
  <2>2. /\ SubSeq(s, 1, k) \in Seq(Frames)
        /\ Len(SubSeq(s, 1, k)) = IF 1 <= k THEN k - 1 + 1 ELSE 0
        /\ \A i \in 1 .. k - 1 + 1 : SubSeq(s, 1, k)[i] = s[1 + i - 1]
    BY <2>1, SubSeqProperties
  <2>3. Below(s) = SubSeq(s, 1, k)
    BY DEF Below, k
  <2>4. Len(s) - 1 = k
    BY DEF k
  <2> QED
    BY <2>1, <2>2, <2>3, <2>4
<1> DEFINE b == Below(s)
           a == Append(b, s[Len(s)])
<1>4. /\ a \in Seq(Frames) /\ Len(a) = Len(s)
      /\ \A i \in 1 .. Len(s) - 1 : a[i] = s[i]
      /\ a[Len(s)] = s[Len(s)]
  <2> HIDE DEF b
  <2>1. b \in Seq(Frames) /\ Len(b) = Len(s) - 1 /\ Len(s) \in Nat
    BY <1>1, <1>3 DEF b
  <2>2. /\ a \in Seq(Frames) /\ Len(a) = Len(b) + 1
        /\ \A i \in 1 .. Len(b) : a[i] = b[i]
        /\ a[Len(b) + 1] = s[Len(s)]
    BY <1>1, <2>1, AppendProperties
  <2> QED
    BY <1>1, <1>3, <2>1, <2>2 DEF b
<1> HIDE DEF a
<1>5. \A i \in 1 .. Len(s) : a[i] = s[i]
  BY <1>1, <1>4
<1>6. s = a
  BY <1>4, <1>5, SeqEqual
<1> QED
  BY <1>1, <1>3, <1>6 DEF a

LEMMA BelowCounted ==
  ASSUME NEW s \in Seq(Frames), s # <<>>, NEW K
  PROVE  /\ CountIn(s, K) = CountIn(Below(s), K) + One(s[Len(s)], K)
         /\ CountIn(Below(s), K) \in Nat
<1>1. /\ s[Len(s)] \in Frames /\ Below(s) \in Seq(Frames)
      /\ s = Append(Below(s), s[Len(s)])
  BY BelowAndLast
<1>2. \A b \in Seq(Frames), g \in Frames : CountIn(Append(b, g), K) = CountIn(b, K) + One(g, K)
  BY AppendCounted
<1>3. CountIn(Append(Below(s), s[Len(s)]), K) = CountIn(Below(s), K) + One(s[Len(s)], K)
  BY <1>1, <1>2
<1> QED
  BY <1>1, <1>3, FramesCounted

LEMMA BelowIsStacked ==
  ASSUME NEW s, Stacked(s), s # <<>>
  PROVE  Stacked(Below(s)) /\ Placed(Below(s), s[Len(s)]) /\ Fits(s[Len(s)])
<1>1. s \in Seq(Frames)
  BY DEF Stacked
<1>2. /\ Len(s) \in Nat \ {0}
      /\ Below(s) \in Seq(Frames) /\ Len(Below(s)) = Len(s) - 1
      /\ \A i \in 1 .. Len(s) - 1 : Below(s)[i] = s[i]
  BY <1>1, BelowAndLast
<1>3. Fits(s[Len(s)])
  BY <1>2 DEF Stacked
<1>4. Placed(Below(s), s[Len(s)])
  <2>1. CASE Len(s) = 1
    BY <1>2, <2>1 DEF Stacked, Placed
  <2>2. CASE Len(s) # 1
    <3>1. Below(s) # <<>> /\ Below(s)[Len(Below(s))] = s[Len(s) - 1]
      BY <1>2, <2>2
    <3>2. Rests(s[Len(s) - 1], s[Len(s)])
      BY <1>2, <2>2 DEF Stacked
    <3> QED
      BY <3>1, <3>2 DEF Placed
  <2> QED
    BY <2>1, <2>2
<1>5. \A i \in 1 .. Len(Below(s)) : Fits(Below(s)[i])
  BY <1>2 DEF Stacked
<1>6. \A i \in 1 .. Len(Below(s)) : IF i = 1 THEN Outermost(Below(s)[i])
                                    ELSE Rests(Below(s)[i - 1], Below(s)[i])
  <2> TAKE i \in 1 .. Len(Below(s))
  <2>1. Below(s)[i] = s[i] /\ (i # 1 => Below(s)[i - 1] = s[i - 1])
    BY <1>2
  <2>2. IF i = 1 THEN Outermost(s[i]) ELSE Rests(s[i - 1], s[i])
    BY <1>2 DEF Stacked
  <2> QED
    BY <2>1, <2>2
<1> QED
  BY <1>2, <1>3, <1>4, <1>5, <1>6 DEF Stacked

LEMMA AppendIsStacked ==
  ASSUME NEW s, Stacked(s), NEW g \in Frames, Fits(g), Placed(s, g)
  PROVE  Stacked(Append(s, g))
<1> DEFINE a == Append(s, g)
<1>1. s \in Seq(Frames) /\ Len(s) \in Nat
  BY DEF Stacked
<1>2. /\ a \in Seq(Frames) /\ Len(a) = Len(s) + 1
      /\ \A i \in 1 .. Len(s) : a[i] = s[i]
      /\ a[Len(s) + 1] = g
  BY <1>1
<1> HIDE DEF a
<1>3. \A i \in 1 .. Len(a) : Fits(a[i])
  BY <1>1, <1>2 DEF Stacked
<1>4. \A i \in 1 .. Len(a) : IF i = 1 THEN Outermost(a[i]) ELSE Rests(a[i - 1], a[i])
  <2> TAKE i \in 1 .. Len(a)
  <2>1. CASE i = Len(s) + 1
    <3>1. CASE s = <<>>
      BY <1>1, <1>2, <2>1, <3>1 DEF Placed
    <3>2. CASE s # <<>>
      <4>1. Len(s) > 0 /\ i # 1 /\ a[i - 1] = s[Len(s)] /\ a[i] = g
        BY <1>1, <1>2, <2>1, <3>2
      <4> QED
        BY <4>1, <3>2 DEF Placed
    <3> QED
      BY <3>1, <3>2
  <2>2. CASE i # Len(s) + 1
    <3>1. i \in 1 .. Len(s) /\ a[i] = s[i] /\ (i # 1 => a[i - 1] = s[i - 1])
      BY <1>1, <1>2, <2>2
    <3>2. IF i = 1 THEN Outermost(s[i]) ELSE Rests(s[i - 1], s[i])
      BY <3>1 DEF Stacked
    <3> QED
      BY <3>1, <3>2
  <2> QED
    BY <2>1, <2>2
<1> QED
  BY <1>2, <1>3, <1>4 DEF Stacked, a

LEMMA TurnIsAppend ==
  ASSUME NEW s \in Seq(Frames), s # <<>>, NEW f \in Frames
  PROVE  [s EXCEPT ![Len(s)] = f] = Append(Below(s), f)
<1>1. /\ Len(s) \in Nat \ {0}
      /\ Below(s) \in Seq(Frames) /\ Len(Below(s)) = Len(s) - 1
      /\ \A i \in 1 .. Len(s) - 1 : Below(s)[i] = s[i]
  BY BelowAndLast
<1> DEFINE b == Below(s)
           a == Append(b, f)
           c == [s EXCEPT ![Len(s)] = f]
<1>2. /\ a \in Seq(Frames) /\ Len(a) = Len(s)
      /\ \A i \in 1 .. Len(s) - 1 : a[i] = s[i]
      /\ a[Len(s)] = f
  <2> HIDE DEF b
  <2>1. b \in Seq(Frames) /\ Len(b) = Len(s) - 1
    BY <1>1 DEF b
  <2>2. /\ a \in Seq(Frames) /\ Len(a) = Len(b) + 1
        /\ \A i \in 1 .. Len(b) : a[i] = b[i]
        /\ a[Len(b) + 1] = f
    BY <2>1, AppendProperties
  <2> QED
    BY <1>1, <2>1, <2>2 DEF b
<1>3. /\ c \in Seq(Frames) /\ Len(c) = Len(s)
      /\ \A i \in 1 .. Len(s) - 1 : c[i] = s[i]
      /\ c[Len(s)] = f
  BY <1>1
<1> HIDE DEF a, c
<1>4. \A i \in 1 .. Len(c) : c[i] = a[i]
  BY <1>1, <1>2, <1>3
<1>5. c = a
  BY <1>2, <1>3, <1>4, SeqEqual
<1> QED
  BY <1>5 DEF a, b, c

-----------------------------------------------------------------------------
(* How the stack moves.                                                    *)

Entered(g) ==
  /\ Stacked(stack') /\ stack' # <<>> /\ Top' = g /\ Depth' = Depth + 1
  /\ \A K \in SUBSET Frames : CountIn(stack', K) = CountIn(stack, K) + One(g, K)
Turned(f) ==
  /\ Stacked(stack') /\ stack' # <<>> /\ Top' = f /\ Depth' = Depth
  /\ \A K \in SUBSET Frames :
       CountIn(stack', K) = CountIn(stack, K) - One(Top, K) + One(f, K)
TurnedAndEntered(f, g) ==
  /\ Stacked(stack') /\ stack' # <<>> /\ Top' = g /\ Depth' = Depth + 1
  /\ \A K \in SUBSET Frames :
       CountIn(stack', K) = CountIn(stack, K) - One(Top, K) + One(f, K) + One(g, K)
Left ==
  /\ Stacked(stack') /\ Placed(stack', Top) /\ Depth' = Depth - 1
  /\ \A K \in SUBSET Frames : CountIn(stack', K) = CountIn(stack, K) - One(Top, K)

\* f differs from g in phase and n only.
Same(f, g) == f.kind = g.kind /\ f.op = g.op /\ f.arg = g.arg

LEMMA Enter ==
  ASSUME Stacked(stack), NEW g \in Frames, Fits(g), Placed(stack, g), Push(g)
  PROVE  Entered(g)
<1>1. stack \in Seq(Frames)
  BY DEF Stacked
<1>2. stack' = Append(stack, g)
  BY DEF Push
<1>3. Stacked(Append(stack, g))
  BY AppendIsStacked
<1>4. /\ Append(stack, g) # <<>> /\ Len(Append(stack, g)) = Len(stack) + 1
      /\ Append(stack, g)[Len(stack) + 1] = g
  BY <1>1
<1>5. \A K \in SUBSET Frames : CountIn(Append(stack, g), K) = CountIn(stack, K) + One(g, K)
  BY <1>1, AppendCounted
<1> QED
  BY <1>2, <1>3, <1>4, <1>5 DEF Entered, Top, Depth

LEMMA Leave ==
  ASSUME Stacked(stack), stack # <<>>, stack' = Popped
  PROVE  Left
<1>1. stack \in Seq(Frames)
  BY DEF Stacked
<1>2. stack' = Below(stack) /\ Top = stack[Len(stack)]
  BY DEF Popped, Below, Depth, Top
<1>3. Stacked(Below(stack)) /\ Placed(Below(stack), stack[Len(stack)])
  BY BelowIsStacked
<1>4. Len(Below(stack)) = Len(stack) - 1
  BY <1>1, BelowAndLast
<1>5. \A K \in SUBSET Frames :
        CountIn(Below(stack), K) = CountIn(stack, K) - One(stack[Len(stack)], K)
  <2> TAKE K \in SUBSET Frames
  <2>1. /\ CountIn(stack, K) = CountIn(Below(stack), K) + One(stack[Len(stack)], K)
        /\ CountIn(Below(stack), K) \in Nat
    BY <1>1, BelowCounted
  <2>2. One(stack[Len(stack)], K) \in {0, 1}
    BY DEF One
  <2> QED
    BY <2>1, <2>2
<1> QED
  BY <1>2, <1>3, <1>4, <1>5 DEF Left, Depth

\* The frame at the top is replaced by f, in the stack s.
LEMMA Replace ==
  ASSUME NEW s, Stacked(s), s # <<>>, NEW f \in Frames, Fits(f),
         f.kind = s[Len(s)].kind
  PROVE  /\ Stacked([s EXCEPT ![Len(s)] = f])
         /\ [s EXCEPT ![Len(s)] = f] # <<>>
         /\ Len([s EXCEPT ![Len(s)] = f]) = Len(s)
         /\ [s EXCEPT ![Len(s)] = f][Len(s)] = f
         /\ \A K \in SUBSET Frames :
              CountIn([s EXCEPT ![Len(s)] = f], K)
                = CountIn(s, K) - One(s[Len(s)], K) + One(f, K)
<1>1. s \in Seq(Frames)
  BY DEF Stacked
<1>2. [s EXCEPT ![Len(s)] = f] = Append(Below(s), f)
  BY <1>1, TurnIsAppend
<1>3. Stacked(Below(s)) /\ Placed(Below(s), s[Len(s)])
  BY BelowIsStacked
<1>4. Placed(Below(s), f)
  BY <1>3 DEF Placed, Outermost, Rests
<1>5. Stacked(Append(Below(s), f))
  BY <1>3, <1>4, AppendIsStacked
<1>6. Below(s) \in Seq(Frames) /\ Len(Below(s)) = Len(s) - 1 /\ Len(s) \in Nat
  BY <1>1, BelowAndLast
<1>7. /\ Append(Below(s), f) # <<>> /\ Len(Append(Below(s), f)) = Len(s)
      /\ Append(Below(s), f)[Len(s)] = f
  BY <1>6, AppendProperties
<1>8. \A K \in SUBSET Frames :
        CountIn(Append(Below(s), f), K) = CountIn(s, K) - One(s[Len(s)], K) + One(f, K)
  <2> TAKE K \in SUBSET Frames
  <2>1. /\ CountIn(s, K) = CountIn(Below(s), K) + One(s[Len(s)], K)
        /\ CountIn(Below(s), K) \in Nat
    BY <1>1, BelowCounted
  <2>2. One(s[Len(s)], K) \in {0, 1} /\ One(f, K) \in {0, 1}
    BY DEF One
  <2>3. CountIn(Append(Below(s), f), K) = CountIn(Below(s), K) + One(f, K)
    BY <1>6, AppendCounted
  <2> QED
    BY <2>1, <2>2, <2>3
<1> QED
  BY <1>2, <1>5, <1>7, <1>8

At(f, p, n) == [[f EXCEPT !.phase = p] EXCEPT !.n = n]

LEMMA FrameFields ==
  ASSUME NEW f \in Frames, NEW p \in Phases, NEW n \in Nat
  PROVE  \E g \in Frames : /\ g = At(f, p, n)
                           /\ Same(g, f) /\ g.phase = p /\ g.n = n
<1>1. PICK h : h = [f EXCEPT !.phase = p]
  OBVIOUS
<1>2. /\ h \in Frames /\ h.phase = p
      /\ h.kind = f.kind /\ h.op = f.op /\ h.arg = f.arg
  BY <1>1 DEF Frames
<1>3. PICK g : g = [h EXCEPT !.n = n]
  OBVIOUS
<1>4. /\ g \in Frames /\ g.phase = p /\ g.n = n
      /\ g.kind = f.kind /\ g.op = f.op /\ g.arg = f.arg
  BY <1>2, <1>3 DEF Frames
<1>5. g = At(f, p, n)
  BY <1>1, <1>3, Zenon DEF At
<1> QED
  BY <1>4, <1>5 DEF Same

LEMMA NField ==
  ASSUME NEW f \in Frames, NEW n \in Nat
  PROVE  \E g \in Frames : /\ g = [f EXCEPT !.n = n]
                           /\ Same(g, f) /\ g.phase = f.phase /\ g.n = n
<1>3. PICK g : g = [f EXCEPT !.n = n]
  OBVIOUS
<1>4. /\ g \in Frames /\ g.phase = f.phase /\ g.n = n
      /\ g.kind = f.kind /\ g.op = f.op /\ g.arg = f.arg
  BY <1>3 DEF Frames
<1> QED
  BY <1>3, <1>4 DEF Same

LEMMA PhaseField ==
  ASSUME NEW f \in Frames, NEW p \in Phases
  PROVE  \E g \in Frames : /\ g = [f EXCEPT !.phase = p]
                           /\ Same(g, f) /\ g.phase = p
<1>3. PICK g : g = [f EXCEPT !.phase = p]
  OBVIOUS
<1>4. /\ g \in Frames /\ g.phase = p
      /\ g.kind = f.kind /\ g.op = f.op /\ g.arg = f.arg
  BY <1>3 DEF Frames
<1> QED
  BY <1>3, <1>4 DEF Same

GoneTo(s, p, n) == [s EXCEPT ![Len(s)].phase = p, ![Len(s)].n = n]

LEMMA GoTwice ==
  ASSUME NEW s \in Seq(Frames), s # <<>>, NEW p, NEW n
  PROVE  GoneTo(s, p, n) = [s EXCEPT ![Len(s)] = At(s[Len(s)], p, n)]
<1>1. Len(s) \in DOMAIN s
  OBVIOUS
<1>2. PICK d : d = Len(s)
  OBVIOUS
<1>3. d \in DOMAIN s
  BY <1>1, <1>2
<1>4. [s EXCEPT ![d].phase = p, ![d].n = n] = [s EXCEPT ![d] = At(s[d], p, n)]
  BY <1>3, Zenon DEF At
<1> QED
  BY <1>2, <1>4, Zenon DEF GoneTo

LEMMA Go ==
  ASSUME Stacked(stack), stack # <<>>, NEW p \in Phases, NEW n \in Nat, GoTo(p, n),
         Top.kind \in {"dispatch", "pump"}, p = "method" => Top.kind = "dispatch"
  PROVE  \E f \in Frames : Turned(f) /\ Same(f, Top) /\ f.phase = p /\ f.n = n
<1>1. stack \in Seq(Frames)
  BY DEF Stacked
<1>2. Top \in Frames /\ Fits(Top) /\ Top = stack[Len(stack)]
  BY <1>1, BelowAndLast, BelowIsStacked DEF Top, Depth
<1>3. PICK f \in Frames : /\ f = At(Top, p, n)
                          /\ Same(f, Top) /\ f.phase = p /\ f.n = n
  BY <1>2, FrameFields
<1>4. stack' = [stack EXCEPT ![Len(stack)] = At(Top, p, n)]
  <2>1. stack' = GoneTo(stack, p, n)
    BY Zenon DEF GoTo, Depth, GoneTo
  <2>2. GoneTo(stack, p, n) = [stack EXCEPT ![Len(stack)] = At(stack[Len(stack)], p, n)]
    BY <1>1, GoTwice
  <2> QED
    BY <2>1, <2>2, <1>2, Zenon
<1>5. stack' = [stack EXCEPT ![Len(stack)] = f]
  BY <1>3, <1>4, Zenon
<1>6. Fits(f)
  BY <1>2, <1>3 DEF Fits, Same, GuestKinds, Indirect
<1>7. f.kind = stack[Len(stack)].kind
  BY <1>2, <1>3 DEF Same
<1>8. Turned(f)
  <2>1. /\ Stacked(stack') /\ stack' # <<>> /\ Len(stack') = Len(stack)
        /\ stack'[Len(stack)] = f
        /\ \A K \in SUBSET Frames :
             CountIn(stack', K) = CountIn(stack, K) - One(stack[Len(stack)], K) + One(f, K)
    BY <1>5, <1>6, <1>7, Replace
  <2> QED
    BY <2>1, <1>2 DEF Turned, Top, Depth
<1> QED
  BY <1>3, <1>8

\* The top becomes f, and g is entered from it.
LEMMA ReplaceAndEnter ==
  ASSUME Stacked(stack), stack # <<>>,
         NEW f \in Frames, Fits(f), f.kind = Top.kind,
         NEW g \in Frames, Fits(g), Rests(f, g),
         stack' = Append([stack EXCEPT ![Len(stack)] = f], g)
  PROVE  TurnedAndEntered(f, g)
<1>1. PICK r : r = [stack EXCEPT ![Len(stack)] = f]
  OBVIOUS
<1>2. f.kind = stack[Len(stack)].kind /\ Top = stack[Len(stack)]
  BY DEF Top, Depth
<1>3. /\ Stacked(r) /\ r # <<>> /\ Len(r) = Len(stack) /\ r[Len(stack)] = f
      /\ \A K \in SUBSET Frames :
           CountIn(r, K) = CountIn(stack, K) - One(stack[Len(stack)], K) + One(f, K)
  BY <1>1, <1>2, Replace
<1>4. Placed(r, g)
  BY <1>3 DEF Placed
<1>5. stack' = Append(r, g)
  BY <1>1
<1>6. Stacked(Append(r, g))
  BY <1>3, <1>4, AppendIsStacked
<1>7. r \in Seq(Frames)
  BY <1>3 DEF Stacked
<1>8. /\ Append(r, g) # <<>> /\ Len(Append(r, g)) = Len(stack) + 1
      /\ Append(r, g)[Len(stack) + 1] = g
  BY <1>3, <1>7
<1>9. \A K \in SUBSET Frames : CountIn(Append(r, g), K) = CountIn(r, K) + One(g, K)
  BY <1>7, AppendCounted
<1>10. \A K \in SUBSET Frames :
         CountIn(stack', K) = CountIn(stack, K) - One(Top, K) + One(f, K) + One(g, K)
  BY <1>2, <1>3, <1>5, <1>9
<1> QED
  BY <1>5, <1>6, <1>8, <1>10 DEF TurnedAndEntered, Top, Depth

LEMMA SpendToEnter ==
  ASSUME Stacked(stack), stack # <<>>, NEW g \in Frames, Fits(g), Rests(Top, g), Spend(g)
  PROVE  \E f \in Frames : TurnedAndEntered(f, g) /\ Same(f, Top) /\ f.phase = Top.phase
<1>1. stack \in Seq(Frames)
  BY DEF Stacked
<1>2. Top \in Frames /\ Fits(Top) /\ Top = stack[Len(stack)] /\ Len(stack) \in Nat \ {0}
  BY <1>1, BelowAndLast, BelowIsStacked DEF Top, Depth
<1>3. Top.n - 1 \in Nat
  BY <1>2 DEF Spend, Frames
<1>4. PICK f \in Frames : /\ f = [Top EXCEPT !.n = Top.n - 1]
                          /\ Same(f, Top) /\ f.phase = Top.phase
  <2>1. PICK t \in Frames : t = Top
    BY <1>2
  <2>2. PICK n \in Nat : n = Top.n - 1
    BY <1>3
  <2>3. \E f \in Frames : /\ f = [t EXCEPT !.n = n]
                          /\ Same(f, t) /\ f.phase = t.phase
    BY NField, Zenon
  <2> QED
    BY <2>1, <2>2, <2>3, Zenon
<1>5. stack' = Append([stack EXCEPT ![Len(stack)] = [Top EXCEPT !.n = Top.n - 1]], g)
  BY <1>2, Zenon DEF Spend, Depth
<1>6. stack' = Append([stack EXCEPT ![Len(stack)] = f], g)
  BY <1>4, <1>5, Zenon
<1>7. Fits(f) /\ Rests(f, g) /\ f.kind = Top.kind
  BY <1>2, <1>4 DEF Fits, Rests, Same
<1>8. TurnedAndEntered(f, g)
  BY <1>6, <1>7, ReplaceAndEnter
<1> QED
  BY <1>4, <1>8

-----------------------------------------------------------------------------
(* What the moves do to the counts.                                        *)

Kept(K) == CountIn(stack', K) = CountIn(stack, K)
ExecutesKept == \A w \in Works : Kept(ExecuteFrames(w))
\* The frames that are counted are the same.
Calm == /\ Stacked(stack') /\ Kept(DrainFrames) /\ Kept(PumpFrames)
        /\ ExecutesKept

LEMMA Weights ==
  ASSUME NEW f \in Frames
  PROVE  /\ One(f, PumpFrames) = IF f.kind = "pump" THEN 1 ELSE 0
         /\ One(f, DrainFrames) = IF f.phase = "drain" THEN 1 ELSE 0
         /\ \A w \in Works : One(f, ExecuteFrames(w))
                               = IF f.kind = "execute" /\ f.arg = w THEN 1 ELSE 0
  BY DEF One, PumpFrames, DrainFrames, ExecuteFrames

LEMMA Countable ==
  /\ PumpFrames \in SUBSET Frames /\ DrainFrames \in SUBSET Frames
  /\ \A w \in Works : ExecuteFrames(w) \in SUBSET Frames
  BY DEF PumpFrames, DrainFrames, ExecuteFrames

LEMMA CountsAreNat ==
  ASSUME Stacked(stack)
  PROVE  /\ CountIn(stack, PumpFrames) \in Nat /\ CountIn(stack, DrainFrames) \in Nat
         /\ \A w \in Works : CountIn(stack, ExecuteFrames(w)) \in Nat
<1>1. stack \in Seq(Frames)
  BY DEF Stacked
<1> QED
  BY <1>1, FramesCounted

LEMMA TopIsFrame ==
  ASSUME Stacked(stack), stack # <<>>
  PROVE  Top \in Frames /\ Fits(Top) /\ Depth \in Nat \ {0}
<1>1. stack \in Seq(Frames)
  BY DEF Stacked
<1> QED
  BY <1>1, BelowAndLast, BelowIsStacked DEF Top, Depth

LEMMA GuestFrame ==
  ASSUME NEW kind \in GuestKinds, NEW arg \in Args,
         kind \in {"execute", "complete"} => arg \in Works
  PROVE  /\ Guest(kind, arg) \in Frames /\ Fits(Guest(kind, arg))
         /\ Guest(kind, arg).kind = kind /\ Guest(kind, arg).arg = arg
         /\ Guest(kind, arg).phase = "run"
<1>1. MaxCalls \in Nat
  BY NapiAsyncAssumption
<1>2. PICK g : g = Guest(kind, arg)
  OBVIOUS
<1>3. /\ g.kind = kind /\ g.op = "" /\ g.arg = arg /\ g.phase = "run" /\ g.n = MaxCalls
      /\ g = [kind |-> kind, op |-> "", arg |-> arg, phase |-> "run", n |-> MaxCalls]
  BY <1>2 DEF Guest, Frame
<1>4. g \in Frames
  BY <1>1, <1>3 DEF Frames, OpNames, Phases
<1>5. Fits(g)
  BY <1>3 DEF Fits, GuestKinds, Indirect
<1> QED
  BY <1>2, <1>3, <1>4, <1>5

LEMMA HostFrame ==
  ASSUME NEW kind \in {"pump", "task"}, NEW phase \in {"drain", "steps"}, NEW n \in Nat,
         kind = "task" => phase = "drain"
  PROVE  /\ Frame(kind, 0, phase, n) \in Frames /\ Fits(Frame(kind, 0, phase, n))
         /\ Frame(kind, 0, phase, n).kind = kind
         /\ Frame(kind, 0, phase, n).phase = phase
<1>1. PICK g : g = Frame(kind, 0, phase, n)
  OBVIOUS
<1>2. /\ g.kind = kind /\ g.op = "" /\ g.arg = 0 /\ g.phase = phase /\ g.n = n
      /\ g = [kind |-> kind, op |-> "", arg |-> 0, phase |-> phase, n |-> n]
  BY <1>1 DEF Frame
<1>3. g \in Frames
  BY <1>2 DEF Frames, OpNames, Phases, Args, HostKinds
<1>4. Fits(g)
  BY <1>2 DEF Fits, GuestKinds, Indirect
<1> QED
  BY <1>1, <1>2, <1>3, <1>4

\* A frame that is not counted is entered.
LEMMA CalmEnter ==
  ASSUME Stacked(stack), NEW g, Entered(g), g \in Frames,
         g.kind \notin {"pump", "execute"}, g.phase # "drain"
  PROVE  Calm
<1>1. /\ One(g, PumpFrames) = 0 /\ One(g, DrainFrames) = 0
      /\ \A w \in Works : One(g, ExecuteFrames(w)) = 0
  BY Weights
<1>2. /\ CountIn(stack, PumpFrames) \in Nat /\ CountIn(stack, DrainFrames) \in Nat
      /\ \A w \in Works : CountIn(stack, ExecuteFrames(w)) \in Nat
  BY CountsAreNat
<1>3. /\ CountIn(stack', PumpFrames) = CountIn(stack, PumpFrames) + One(g, PumpFrames)
      /\ CountIn(stack', DrainFrames) = CountIn(stack, DrainFrames) + One(g, DrainFrames)
      /\ \A w \in Works : CountIn(stack', ExecuteFrames(w))
                            = CountIn(stack, ExecuteFrames(w)) + One(g, ExecuteFrames(w))
  BY Countable DEF Entered
<1>4. Stacked(stack')
  BY DEF Entered
<1> QED
  BY <1>1, <1>2, <1>3, <1>4 DEF Calm, ExecutesKept, Kept

\* The top frame changes its phase, outside of drains.
LEMMA CalmTurn ==
  ASSUME Stacked(stack), stack # <<>>, NEW f \in Frames, Turned(f), Same(f, Top),
         f.phase = "drain" <=> Top.phase = "drain"
  PROVE  Calm
<1>1. /\ One(f, PumpFrames) = One(Top, PumpFrames)
      /\ One(f, DrainFrames) = One(Top, DrainFrames)
      /\ \A w \in Works : One(f, ExecuteFrames(w)) = One(Top, ExecuteFrames(w))
  BY TopIsFrame, Weights DEF Same
<1>2. /\ CountIn(stack, PumpFrames) \in Nat /\ CountIn(stack, DrainFrames) \in Nat
      /\ \A w \in Works : CountIn(stack, ExecuteFrames(w)) \in Nat
  BY CountsAreNat
<1>3. /\ One(Top, PumpFrames) \in Nat /\ One(Top, DrainFrames) \in Nat
      /\ \A w \in Works : One(Top, ExecuteFrames(w)) \in Nat
  BY DEF One
<1>4. /\ CountIn(stack', PumpFrames)
           = CountIn(stack, PumpFrames) - One(Top, PumpFrames) + One(f, PumpFrames)
      /\ CountIn(stack', DrainFrames)
           = CountIn(stack, DrainFrames) - One(Top, DrainFrames) + One(f, DrainFrames)
      /\ \A w \in Works : CountIn(stack', ExecuteFrames(w))
           = CountIn(stack, ExecuteFrames(w)) - One(Top, ExecuteFrames(w))
               + One(f, ExecuteFrames(w))
  BY Countable DEF Turned
<1>5. Stacked(stack')
  BY DEF Turned
<1> QED
  BY <1>1, <1>2, <1>3, <1>4, <1>5 DEF Calm, ExecutesKept, Kept

LEMMA CalmTurnAndEnter ==
  ASSUME Stacked(stack), stack # <<>>, NEW f \in Frames, NEW g \in Frames,
         TurnedAndEntered(f, g), Same(f, Top),
         f.phase = "drain" <=> Top.phase = "drain",
         g.kind \notin {"pump", "execute"}, g.phase # "drain"
  PROVE  Calm
<1>1. /\ One(f, PumpFrames) = One(Top, PumpFrames)
      /\ One(f, DrainFrames) = One(Top, DrainFrames)
      /\ \A w \in Works : One(f, ExecuteFrames(w)) = One(Top, ExecuteFrames(w))
  BY TopIsFrame, Weights DEF Same
<1>2. /\ CountIn(stack, PumpFrames) \in Nat /\ CountIn(stack, DrainFrames) \in Nat
      /\ \A w \in Works : CountIn(stack, ExecuteFrames(w)) \in Nat
  BY CountsAreNat
<1>3. /\ One(Top, PumpFrames) \in Nat /\ One(Top, DrainFrames) \in Nat
      /\ \A w \in Works : One(Top, ExecuteFrames(w)) \in Nat
  BY DEF One
<1>4. /\ One(g, PumpFrames) = 0 /\ One(g, DrainFrames) = 0
      /\ \A w \in Works : One(g, ExecuteFrames(w)) = 0
  BY Weights
<1>5. /\ CountIn(stack', PumpFrames)
           = CountIn(stack, PumpFrames) - One(Top, PumpFrames) + One(f, PumpFrames)
               + One(g, PumpFrames)
      /\ CountIn(stack', DrainFrames)
           = CountIn(stack, DrainFrames) - One(Top, DrainFrames) + One(f, DrainFrames)
               + One(g, DrainFrames)
      /\ \A w \in Works : CountIn(stack', ExecuteFrames(w))
           = CountIn(stack, ExecuteFrames(w)) - One(Top, ExecuteFrames(w))
               + One(f, ExecuteFrames(w)) + One(g, ExecuteFrames(w))
  BY Countable DEF TurnedAndEntered
<1>6. Stacked(stack')
  BY DEF TurnedAndEntered
<1> QED
  BY <1>1, <1>2, <1>3, <1>4, <1>5, <1>6 DEF Calm, ExecutesKept, Kept

LEMMA CalmLeave ==
  ASSUME Stacked(stack), stack # <<>>, Left,
         Top.kind \notin {"pump", "execute"}, Top.phase # "drain"
  PROVE  Calm
<1>1. /\ One(Top, PumpFrames) = 0 /\ One(Top, DrainFrames) = 0
      /\ \A w \in Works : One(Top, ExecuteFrames(w)) = 0
  BY TopIsFrame, Weights
<1>2. /\ CountIn(stack, PumpFrames) \in Nat /\ CountIn(stack, DrainFrames) \in Nat
      /\ \A w \in Works : CountIn(stack, ExecuteFrames(w)) \in Nat
  BY CountsAreNat
<1>3. /\ CountIn(stack', PumpFrames) = CountIn(stack, PumpFrames) - One(Top, PumpFrames)
      /\ CountIn(stack', DrainFrames) = CountIn(stack, DrainFrames) - One(Top, DrainFrames)
      /\ \A w \in Works : CountIn(stack', ExecuteFrames(w))
                            = CountIn(stack, ExecuteFrames(w)) - One(Top, ExecuteFrames(w))
  BY Countable DEF Left
<1>4. Stacked(stack')
  BY DEF Left
<1> QED
  BY <1>1, <1>2, <1>3, <1>4 DEF Calm, ExecutesKept, Kept

LEMMA CalmStay ==
  ASSUME Stacked(stack), stack' = stack
  PROVE  Calm
  BY DEF Calm, ExecutesKept, Kept

-----------------------------------------------------------------------------
(* What an action leaves alone stays right.                                *)

LEMMA WorkStays ==
  ASSUME WorkOK, ExecutesKept, UNCHANGED workVars
  PROVE  WorkOK'
<1>1. asyncQueue' = asyncQueue /\ asked' = asked /\ done' = done
  BY DEF workVars
<1>2. \A w \in Works : CountIn(stack', ExecuteFrames(w)) = CountIn(stack, ExecuteFrames(w))
  BY DEF ExecutesKept, Kept
<1>3. WorkTyped'
  BY <1>1 DEF WorkOK, WorkTyped
<1>4. Conserved'
  BY <1>1, <1>2 DEF WorkOK, Conserved
<1> QED
  BY <1>3, <1>4 DEF WorkOK

LEMMA TsfnStays ==
  ASSUME TsfnOK, UNCHANGED tsfnVars
  PROVE  TsfnOK'
  BY DEF TsfnOK, TsfnTyped, TsfnDelivers, Ended, tsfnVars

LEMMA FinStays ==
  ASSUME FinOK, Kept(DrainFrames), UNCHANGED finVars
  PROVE  FinOK'
<1>1. /\ fin' = fin /\ posted' = posted /\ postedPending' = postedPending
      /\ draining' = draining /\ drainScheduled' = drainScheduled
  BY DEF finVars
<1>2. FinTyped'
  BY <1>1 DEF FinOK, FinTyped
<1>3. OneDrain'
  BY <1>1 DEF FinOK, OneDrain, Kept
<1>4. PostedOnce'
  BY <1>1 DEF FinOK, PostedOnce
<1>5. DrainComes'
  BY <1>1 DEF FinOK, DrainComes
<1> QED
  BY <1>2, <1>3, <1>4, <1>5 DEF FinOK

LEMMA PumpStays ==
  ASSUME PumpOK, Kept(PumpFrames), UNCHANGED pumpVars
  PROVE  PumpOK'
  BY DEF PumpOK, PumpTyped, PumpCounted, pumpVars, Kept

LEMMA SettledStays ==
  ASSUME Settled, UNCHANGED <<asyncQueue, tsfn>>
  PROVE  Settled'
  BY DEF Settled, WaitsFor, MayFinalize

LEMMA SettledOutside ==
  ASSUME OneWaits, ~Draining({"async", "tsfn"})
  PROVE  Settled
  BY DEF OneWaits, WorkWaits, TsfnWaits, Draining

\* An action that moves the stack only, or argsOf.
LEMMA OnlyMoves ==
  ASSUME IInv, Calm, argsOf' \in Nat,
         UNCHANGED <<workVars, tsfnVars, finVars, pumpVars>>, OneWaits'
  PROVE  IInv'
<1>1. WorkOK' /\ TsfnOK' /\ FinOK' /\ PumpOK'
  BY WorkStays, TsfnStays, FinStays, PumpStays DEF IInv, Calm
<1> QED
  BY <1>1 DEF IInv, Calm

LEMMA InGuestFacts ==
  ASSUME IInv, InGuest(GuestKinds)
  PROVE  /\ stack # <<>> /\ Top \in Frames /\ Fits(Top) /\ Top.phase = "run"
         /\ Top.kind \in GuestKinds /\ Settled
<1>1. stack # <<>> /\ Top.kind \in GuestKinds
  BY DEF InGuest
<1>2. Top \in Frames /\ Fits(Top)
  BY <1>1, TopIsFrame DEF IInv
<1>3. Top.phase = "run"
  BY <1>1, <1>2 DEF Fits
<1>4. Settled
  BY <1>3, SettledOutside DEF IInv, Draining
<1> QED
  BY <1>1, <1>2, <1>3, <1>4

LEMMA InHostFacts ==
  ASSUME IInv, NEW p, InHost(p)
  PROVE  /\ stack # <<>> /\ Top \in Frames /\ Fits(Top) /\ Top.phase = p
         /\ Top.kind \in HostKinds
         /\ p \notin {"async", "tsfn"} => Settled
<1>1. stack # <<>> /\ Top.kind \in HostKinds /\ Top.phase = p
  BY DEF InHost
<1>2. Top \in Frames /\ Fits(Top)
  BY <1>1, TopIsFrame DEF IInv
<1>3. p \notin {"async", "tsfn"} => Settled
  BY <1>1, SettledOutside DEF IInv, Draining
<1> QED
  BY <1>1, <1>2, <1>3

LEMMA IdleFacts ==
  ASSUME IInv, Idle
  PROVE  Settled /\ \A g : Outermost(g) => Placed(stack, g)
<1>1. Settled
  BY SettledOutside DEF IInv, Draining, Idle
<1> QED
  BY <1>1 DEF Placed, Idle

-----------------------------------------------------------------------------
(* Guest and JavaScript functions.                                         *)

LEMMA CallbackFrame ==
  /\ Guest("callback", 0) \in Frames /\ Fits(Guest("callback", 0))
  /\ Guest("callback", 0).kind = "callback" /\ Guest("callback", 0).phase = "run"
<1>1. "callback" \in GuestKinds /\ 0 \in Args
  BY DEF GuestKinds, Indirect, Args
<1> QED
  BY <1>1, GuestFrame

LEMMA WorkerFrame ==
  /\ Guest("worker", 0) \in Frames /\ Fits(Guest("worker", 0))
  /\ Guest("worker", 0).kind = "worker" /\ Guest("worker", 0).phase = "run"
<1>1. "worker" \in GuestKinds /\ 0 \in Args
  BY DEF GuestKinds, Args
<1> QED
  BY <1>1, GuestFrame

\* A callback or a worker is entered from a frame that makes a call.
LEMMA SpendKeeps ==
  ASSUME IInv, stack # <<>>, Settled, NEW g \in Frames, Fits(g),
         g.kind \in {"callback", "worker"}, g.phase = "run", Spend(g),
         g.kind = "callback" => Top.kind # "dispatch",
         UNCHANGED <<workVars, tsfnVars, finVars, pumpVars, argsOf>>
  PROVE  IInv'
<1>1. Rests(Top, g)
  BY DEF Rests
<1>2. PICK f \in Frames : TurnedAndEntered(f, g) /\ Same(f, Top) /\ f.phase = Top.phase
  BY <1>1, SpendToEnter DEF IInv
<1>3. Calm
  <2>1. g.kind \notin {"pump", "execute"} /\ g.phase # "drain"
    OBVIOUS
  <2>2. f.phase = "drain" <=> Top.phase = "drain"
    BY <1>2
  <2>3. Stacked(stack)
    BY DEF IInv
  <2> QED
    BY <1>2, <2>1, <2>2, <2>3, CalmTurnAndEnter
<1>4. OneWaits'
  BY SettledStays DEF OneWaits, workVars, tsfnVars
<1>5. argsOf' \in Nat
  BY DEF IInv
<1> QED
  BY <1>3, <1>4, <1>5, OnlyMoves

LEMMA JsCallsKeeps ==
  ASSUME IInv, JsCalls
  PROVE  IInv'
<1>1. InGuest(GuestKinds)
  BY DEF JsCalls, InGuest, GuestKinds
<1>2. stack # <<>> /\ Settled /\ Top.kind # "dispatch"
  BY <1>1, InGuestFacts DEF GuestKinds, Indirect
<1>3. /\ Spend(Guest("callback", 0))
      /\ UNCHANGED <<workVars, tsfnVars, finVars, pumpVars, argsOf>>
  BY DEF JsCalls
<1> QED
  BY <1>2, <1>3, CallbackFrame, SpendKeeps

LEMMA IndirectStepsKeeps ==
  ASSUME IInv, IndirectSteps
  PROVE  IInv'
<1>1. InGuest(GuestKinds)
  BY DEF IndirectSteps, InGuest, GuestKinds
<1>2. stack # <<>> /\ Settled
  BY <1>1, InGuestFacts
<1>3. /\ Spend(Guest("worker", 0))
      /\ UNCHANGED <<workVars, tsfnVars, finVars, pumpVars, argsOf>>
  BY DEF IndirectSteps
<1> QED
  BY <1>2, <1>3, WorkerFrame, SpendKeeps

LEMMA PumpStepsKeeps ==
  ASSUME IInv, PumpSteps
  PROVE  IInv'
<1>1. InHost("steps")
  BY DEF PumpSteps
<1>2. stack # <<>> /\ Settled
  BY <1>1, InHostFacts
<1>3. /\ Spend(Guest("worker", 0))
      /\ UNCHANGED <<workVars, tsfnVars, finVars, pumpVars, argsOf>>
  BY DEF PumpSteps
<1> QED
  BY <1>2, <1>3, WorkerFrame, SpendKeeps

LEMMA HostCallsKeeps ==
  ASSUME IInv, HostCalls
  PROVE  IInv'
<1>1. Idle
  BY DEF HostCalls, Quiet
<1>2. /\ Push(Guest("callback", 0))
      /\ UNCHANGED <<workVars, tsfnVars, finVars, pumpVars, argsOf>>
  BY DEF HostCalls
<1>3. Settled /\ Placed(stack, Guest("callback", 0))
  BY <1>1, IdleFacts, CallbackFrame DEF Outermost
<1>4. Entered(Guest("callback", 0))
  BY <1>2, <1>3, CallbackFrame, Enter DEF IInv
<1>5. Calm
  BY <1>4, CallbackFrame, CalmEnter DEF IInv
<1>6. OneWaits'
  BY <1>2, <1>3, SettledStays DEF OneWaits, workVars, tsfnVars
<1>7. argsOf' \in Nat
  BY <1>2 DEF IInv
<1> QED
  BY <1>2, <1>5, <1>6, <1>7, OnlyMoves


LEMMA JsThrowsKeeps ==
  ASSUME IInv, JsThrows
  PROVE  IInv'
<1>1. InGuest(GuestKinds) /\ Top.kind = "jsfn"
  BY DEF JsThrows, InGuest, GuestKinds
<1>2. stack # <<>> /\ Settled /\ Stacked(stack) /\ stack \in Seq(Frames)
  BY <1>1, InGuestFacts DEF IInv, Stacked
<1>3. PICK b : b = Below(stack)
  OBVIOUS
<1>4. /\ Stacked(b) /\ Placed(b, stack[Len(stack)])
      /\ Len(stack) \in Nat /\ Len(b) = Len(stack) - 1
      /\ \A i \in 1 .. Len(stack) - 1 : b[i] = stack[i]
  BY <1>2, <1>3, BelowIsStacked, BelowAndLast
<1>5. b # <<>> /\ b[Len(b)].kind = "dispatch" /\ b[Len(b)].phase = "tsfn"
  BY <1>1, <1>4 DEF Placed, Outermost, Rests, Top, Depth
<1>6. b \in Seq(Frames)
  BY <1>4 DEF Stacked
<1>7. PICK c : c = Below(b)
  OBVIOUS
<1>8. /\ Stacked(c) /\ c \in Seq(Frames)
      /\ b[Len(b)] \in Frames /\ Len(b) \in Nat \ {0} /\ Len(c) = Len(b) - 1
      /\ \A i \in 1 .. Len(b) - 1 : c[i] = b[i]
  BY <1>4, <1>5, <1>6, <1>7, BelowIsStacked, BelowAndLast
<1>9. stack' = c
  <2>1. stack' = SubSeq(stack, 1, Len(stack) - 2)
    BY DEF JsThrows, Depth
  <2>2. PICK k \in Nat : k = Len(stack) - 2
    BY <1>4, <1>8
  <2>3. \A i \in 1 .. k : stack[i] \in Frames
    BY <1>2, <1>4, <2>2
  <2>4. /\ SubSeq(stack, 1, k) \in Seq(Frames)
        /\ Len(SubSeq(stack, 1, k)) = IF 1 <= k THEN k - 1 + 1 ELSE 0
        /\ \A i \in 1 .. k - 1 + 1 : SubSeq(stack, 1, k)[i] = stack[1 + i - 1]
    BY <2>2, <2>3, SubSeqProperties
  <2>5. /\ Len(c) = k
        /\ \A i \in 1 .. k : c[i] = stack[i]
    BY <1>4, <1>8, <2>2
  <2>6. /\ Len(SubSeq(stack, 1, k)) = k
        /\ \A i \in 1 .. k : SubSeq(stack, 1, k)[i] = stack[i]
    BY <2>2, <2>4
  <2>7. SubSeq(stack, 1, k) = c
    BY <1>8, <2>4, <2>5, <2>6, SeqEqual
  <2> QED
    BY <2>1, <2>2, <2>7
<1>10. \A K : /\ CountIn(stack, K) = CountIn(b, K) + One(Top, K)
              /\ CountIn(b, K) = CountIn(c, K) + One(b[Len(b)], K)
              /\ CountIn(c, K) \in Nat
  BY <1>2, <1>3, <1>5, <1>6, <1>7, BelowCounted DEF Top, Depth
<1>11. /\ One(Top, PumpFrames) = 0 /\ One(Top, DrainFrames) = 0
       /\ \A w \in Works : One(Top, ExecuteFrames(w)) = 0
  <2>1. Top \in Frames /\ Top.phase = "run"
    BY <1>1, InGuestFacts
  <2> QED
    BY <1>1, <2>1, Weights
<1>12. /\ One(b[Len(b)], PumpFrames) = 0 /\ One(b[Len(b)], DrainFrames) = 0
       /\ \A w \in Works : One(b[Len(b)], ExecuteFrames(w)) = 0
  BY <1>5, <1>8, Weights
<1>13. /\ CountIn(c, PumpFrames) = CountIn(stack, PumpFrames)
       /\ CountIn(c, DrainFrames) = CountIn(stack, DrainFrames)
  BY <1>10, <1>11, <1>12
<1>14. \A w \in Works : CountIn(c, ExecuteFrames(w)) = CountIn(stack, ExecuteFrames(w))
  <2> TAKE w \in Works
  <2> QED
    BY <1>10, <1>11, <1>12
<1>15. Calm
  BY <1>8, <1>9, <1>13, <1>14 DEF Calm, ExecutesKept, Kept
<1>16. UNCHANGED <<workVars, tsfnVars, finVars, pumpVars, argsOf>>
  BY DEF JsThrows
<1>17. OneWaits'
  BY <1>2, <1>16, SettledStays DEF OneWaits, workVars, tsfnVars
<1>18. argsOf' \in Nat
  BY <1>16 DEF IInv
<1> QED
  BY <1>15, <1>16, <1>17, <1>18, OnlyMoves

\* A work that has executed waits for its completion.
LEMMA QueueOfOne ==
  ASSUME NEW x \in Items
  PROVE  /\ Append(<<>>, x) \in Seq(Items) /\ Append(<<>>, x) # <<>>
         /\ Len(Append(<<>>, x)) = 1
         /\ \A w \in Works :
              Cardinality({i \in DOMAIN Append(<<>>, x) : Append(<<>>, x)[i].work = w})
                = IF x.work = w THEN 1 ELSE 0
<1> DEFINE q == Append(<<>>, x)
<1>1. q \in Seq(Items) /\ q # <<>> /\ Len(q) = 1 /\ DOMAIN q = {1} /\ q[1] = x
  OBVIOUS
<1> HIDE DEF q
<1>2. \A w \in Works :
        Cardinality({i \in DOMAIN q : q[i].work = w}) = IF x.work = w THEN 1 ELSE 0
  <2> TAKE w \in Works
  <2>1. CASE x.work = w
    <3>1. {i \in DOMAIN q : q[i].work = w} = {1}
      BY <1>1, <2>1
    <3> QED
      BY <2>1, <3>1, FS_Singleton
  <2>2. CASE x.work # w
    <3>1. {i \in DOMAIN q : q[i].work = w} = {}
      BY <1>1, <2>2
    <3> QED
      BY <2>2, <3>1, FS_EmptySet
  <2> QED
    BY <2>1, <2>2
<1> QED
  BY <1>1, <1>2 DEF q

LEMMA QueueOfNone ==
  ASSUME NEW w
  PROVE  Cardinality({i \in DOMAIN <<>> : <<>>[i].work = w}) = 0
<1>1. {i \in DOMAIN <<>> : <<>>[i].work = w} = {}
  OBVIOUS
<1> QED
  BY <1>1, FS_EmptySet

LEMMA ReturnKeeps ==
  ASSUME IInv, Return
  PROVE  IInv'
<1>1. InGuest(GuestKinds) /\ stack' = Popped
  BY DEF Return
<1>2. /\ stack # <<>> /\ Top \in Frames /\ Fits(Top) /\ Top.phase = "run"
      /\ Top.kind \in GuestKinds /\ Settled
  BY <1>1, InGuestFacts
<1>3. UNCHANGED <<asked, done, tsfnVars, finVars, pumpVars, argsOf>>
  BY DEF Return
<1>4. Left
  BY <1>1, <1>2, Leave DEF IInv
<1>5. argsOf' \in Nat
  BY <1>3 DEF IInv
<1>6. Top.kind # "pump"
  BY <1>2 DEF GuestKinds, Indirect
<1>7. CASE Top.kind # "execute"
  <2>1. Calm
    BY <1>2, <1>4, <1>6, <1>7, CalmLeave DEF IInv
  <2>2. asyncQueue' = asyncQueue
    BY <1>7 DEF Return
  <2>3. UNCHANGED <<workVars, tsfnVars, finVars, pumpVars>>
    BY <1>3, <2>2 DEF workVars
  <2>4. OneWaits'
    BY <1>2, <2>3, SettledStays DEF OneWaits, workVars, tsfnVars
  <2> QED
    BY <1>5, <2>1, <2>3, <2>4, OnlyMoves
<1>8. CASE Top.kind = "execute"
  <2>1. Top.arg \in Works
    BY <1>2, <1>8 DEF Fits
  <2>2. PICK x \in Items : x = [type |-> "complete", work |-> Top.arg]
    BY <2>1 DEF Items
  <2>3. asyncQueue = <<>> /\ asyncQueue' = Append(<<>>, x) /\ x.work = Top.arg
    BY <1>2, <1>8, <2>2 DEF Settled, Return, Executed
  <2>4. /\ asyncQueue' \in Seq(Items) /\ Len(asyncQueue') = 1
        /\ \A w \in Works :
             Cardinality({i \in DOMAIN asyncQueue' : asyncQueue'[i].work = w})
               = IF x.work = w THEN 1 ELSE 0
    BY <2>3, QueueOfOne
  <2>5. /\ One(Top, PumpFrames) = 0 /\ One(Top, DrainFrames) = 0
        /\ \A w \in Works : One(Top, ExecuteFrames(w)) = IF Top.arg = w THEN 1 ELSE 0
    BY <1>2, <1>8, Weights
  <2>6. /\ CountIn(stack, PumpFrames) \in Nat /\ CountIn(stack, DrainFrames) \in Nat
        /\ \A w \in Works : CountIn(stack, ExecuteFrames(w)) \in Nat
    BY CountsAreNat DEF IInv
  <2>7. /\ CountIn(stack', PumpFrames) = CountIn(stack, PumpFrames) - One(Top, PumpFrames)
        /\ CountIn(stack', DrainFrames) = CountIn(stack, DrainFrames) - One(Top, DrainFrames)
        /\ \A w \in Works : CountIn(stack', ExecuteFrames(w))
                              = CountIn(stack, ExecuteFrames(w)) - One(Top, ExecuteFrames(w))
    BY <1>4, Countable DEF Left
  <2>8. Kept(PumpFrames) /\ Kept(DrainFrames)
    BY <2>5, <2>6, <2>7 DEF Kept
  <2>9. TsfnOK' /\ FinOK' /\ PumpOK'
    BY <1>3, <2>8, TsfnStays, FinStays, PumpStays DEF IInv
  <2>10. WorkTyped'
    BY <1>3, <2>4 DEF IInv, WorkOK, WorkTyped
  <2>11. Conserved'
    <3>1. ASSUME NEW w \in Works
          PROVE  asked'[w] = done'[w]
                   + Cardinality({i \in DOMAIN asyncQueue' : asyncQueue'[i].work = w})
                   + CountIn(stack', ExecuteFrames(w))
      <4>1. asked[w] = done[w] + 0 + CountIn(stack, ExecuteFrames(w))
        BY <2>3, QueueOfNone DEF IInv, WorkOK, Conserved
      <4>2. asked[w] \in Nat /\ done[w] \in Nat
        BY DEF IInv, WorkOK, WorkTyped
      <4>3. /\ Cardinality({i \in DOMAIN asyncQueue' : asyncQueue'[i].work = w})
                 = IF Top.arg = w THEN 1 ELSE 0
            /\ CountIn(stack', ExecuteFrames(w))
                 = CountIn(stack, ExecuteFrames(w)) - (IF Top.arg = w THEN 1 ELSE 0)
        BY <2>3, <2>4, <2>5, <2>7
      <4> QED
        BY <1>3, <2>6, <4>1, <4>2, <4>3
    <3> QED
      BY <3>1 DEF Conserved
  <2>12. OneWaits'
    <3>1. stack' # <<>> /\ Top'.kind = "dispatch" /\ Top'.phase = "async"
      BY <1>4, <1>8 DEF Left, Placed, Outermost, Rests, Top, Depth
    <3>2. \A t \in Tsfns : ~WaitsFor(t)'
      BY <1>2, <1>3 DEF Settled, WaitsFor, MayFinalize, tsfnVars
    <3> QED
      BY <2>4, <3>1, <3>2 DEF OneWaits, WorkWaits, Draining
  <2>13. Stacked(stack')
    BY <1>4 DEF Left
  <2> QED
    BY <1>5, <2>9, <2>10, <2>11, <2>12, <2>13 DEF IInv, WorkOK
<1> QED
  BY <1>7, <1>8

-----------------------------------------------------------------------------
(* N-API calls and finalizers.                                             *)

\* A step that leaves work, functions and promises alone, and no work begins
\* or ends.
LEMMA OnlyFinalizers ==
  ASSUME IInv, Stacked(stack'), Kept(PumpFrames), ExecutesKept, FinOK', Settled,
         UNCHANGED <<workVars, tsfnVars, pumpVars>>, argsOf' \in Nat
  PROVE  IInv'
<1>1. WorkOK' /\ TsfnOK' /\ PumpOK'
  BY WorkStays, TsfnStays, PumpStays DEF IInv
<1>2. OneWaits'
  BY SettledStays DEF OneWaits, workVars, tsfnVars
<1> QED
  BY <1>1, <1>2 DEF IInv

\* A drain begins, unless one is in progress.
LEMMA DrainBegins ==
  ASSUME FinOK, NEW kind, BeginDrain(kind),
         CountIn(stack', DrainFrames)
           = CountIn(stack, DrainFrames) + (IF MayDrain(kind) THEN 1 ELSE 0),
         UNCHANGED <<fin, posted, postedPending>>,
         \/ drainScheduled' = drainScheduled
         \/ drainScheduled' = FALSE /\ (MayDrain(kind) \/ draining)
  PROVE  FinOK'
<1>1. draining \in BOOLEAN /\ draining' \in BOOLEAN /\ drainScheduled' \in BOOLEAN
  BY DEF FinOK, FinTyped, BeginDrain
<1>2. draining' = (draining \/ MayDrain(kind))
  BY DEF BeginDrain
<1>3. FinTyped'
  BY <1>1 DEF FinOK, FinTyped
<1>4. OneDrain'
  <2>1. MayDrain(kind) => ~draining
    BY DEF MayDrain
  <2>2. CASE MayDrain(kind)
    <3>1. ~draining /\ draining'
      BY <1>2, <2>1, <2>2, Zenon
    <3>2. CountIn(stack, DrainFrames) = 0
      BY <3>1 DEF FinOK, OneDrain
    <3>3. CountIn(stack', DrainFrames) = 1
      BY <2>2, <3>2
    <3> QED
      BY <3>1, <3>3 DEF OneDrain
  <2>3. CASE ~MayDrain(kind)
    BY <1>1, <1>2, <2>3 DEF FinOK, OneDrain
  <2> QED
    BY <2>2, <2>3
<1>5. PostedOnce'
  BY DEF FinOK, PostedOnce
<1>6. DrainComes'
  <2>1. drainScheduled \/ draining => drainScheduled' \/ draining'
    BY <1>2, Zenon
  <2>2. DrainComes
    BY DEF FinOK
  <2>3. fin' = fin /\ posted' = posted
    OBVIOUS
  <2> QED
    BY <2>1, <2>2, <2>3 DEF DrainComes
<1> QED
  BY <1>3, <1>4, <1>5, <1>6 DEF FinOK

LEMMA OpFields ==
  ASSUME NEW o \in Ops
  PROVE  /\ o.op \in OpNames /\ o.arg \in Args
         /\ o = [op |-> o.op, arg |-> o.arg]
  BY DEF Ops, OpNames, Args, Finalizers

LEMMA CallKeeps ==
  ASSUME IInv, NEW o \in Ops, Call(o)
  PROVE  IInv'
<1>1. InGuest(GuestKinds)
  BY DEF Call, InGuest
<1>2. stack # <<>> /\ Settled /\ Stacked(stack) /\ Depth \in Nat /\ Top \in Frames
  BY <1>1, InGuestFacts, TopIsFrame DEF IInv
<1>3. PICK p \in {"drain", "method"} : p = FirstPhase("dispatch", "method")
  BY DEF FirstPhase
<1>4. PICK g : g = [kind |-> "dispatch", op |-> o.op, arg |-> o.arg, phase |-> p, n |-> 0]
  OBVIOUS
<1>5. Spend(g)
  BY <1>3, <1>4 DEF Call
<1>6. /\ g.kind = "dispatch" /\ g.op = o.op /\ g.arg = o.arg /\ g.phase = p
      /\ g \in Frames
  BY <1>4, OpFields DEF Frames, HostKinds, Phases
<1>7. Fits(g)
  BY <1>6, OpFields DEF Fits, GuestKinds, Indirect
<1>8. Rests(Top, g)
  BY <1>6 DEF Rests
<1>9. PICK f \in Frames : TurnedAndEntered(f, g) /\ Same(f, Top) /\ f.phase = Top.phase
  BY <1>2, <1>5, <1>6, <1>7, <1>8, SpendToEnter
<1>10. /\ One(f, PumpFrames) = One(Top, PumpFrames)
       /\ One(f, DrainFrames) = One(Top, DrainFrames)
       /\ \A w \in Works : One(f, ExecuteFrames(w)) = One(Top, ExecuteFrames(w))
  BY <1>2, <1>9, Weights DEF Same
<1>11. /\ One(g, PumpFrames) = 0
       /\ One(g, DrainFrames) = IF p = "drain" THEN 1 ELSE 0
       /\ \A w \in Works : One(g, ExecuteFrames(w)) = 0
  BY <1>6, Weights
<1>12. /\ One(Top, PumpFrames) \in Nat /\ One(Top, DrainFrames) \in Nat
       /\ \A w \in Works : One(Top, ExecuteFrames(w)) \in Nat
  BY DEF One
<1>13. /\ CountIn(stack, PumpFrames) \in Nat /\ CountIn(stack, DrainFrames) \in Nat
       /\ \A w \in Works : CountIn(stack, ExecuteFrames(w)) \in Nat
  BY <1>2, CountsAreNat
<1>14. /\ CountIn(stack', PumpFrames)
            = CountIn(stack, PumpFrames) - One(Top, PumpFrames) + One(f, PumpFrames)
                + One(g, PumpFrames)
       /\ CountIn(stack', DrainFrames)
            = CountIn(stack, DrainFrames) - One(Top, DrainFrames) + One(f, DrainFrames)
                + One(g, DrainFrames)
       /\ \A w \in Works : CountIn(stack', ExecuteFrames(w))
            = CountIn(stack, ExecuteFrames(w)) - One(Top, ExecuteFrames(w))
                + One(f, ExecuteFrames(w)) + One(g, ExecuteFrames(w))
  BY <1>9, Countable DEF TurnedAndEntered
<1>15. Kept(PumpFrames)
  BY <1>10, <1>11, <1>12, <1>13, <1>14 DEF Kept
<1>16. ExecutesKept
  BY <1>10, <1>11, <1>12, <1>13, <1>14 DEF ExecutesKept, Kept
<1>17. CountIn(stack', DrainFrames)
         = CountIn(stack, DrainFrames) + (IF MayDrain("dispatch") THEN 1 ELSE 0)
  <2>1. p = "drain" <=> MayDrain("dispatch")
    BY <1>3 DEF FirstPhase
  <2> QED
    BY <1>10, <1>11, <1>12, <1>13, <1>14, <2>1
<1>18. FinOK'
  <2> DEFINE kind == "dispatch"
  <2>1. BeginDrain(kind)
    BY DEF Call
  <2>2. UNCHANGED <<fin, posted, postedPending>>
    BY DEF Call
  <2>3. \/ drainScheduled' = drainScheduled
        \/ drainScheduled' = FALSE /\ (MayDrain(kind) \/ draining)
    BY DEF Call
  <2>4. FinOK
    BY DEF IInv
  <2>5. CountIn(stack', DrainFrames)
          = CountIn(stack, DrainFrames) + (IF MayDrain(kind) THEN 1 ELSE 0)
    BY <1>17
  <2> HIDE DEF kind
  <2> QED
    BY <2>1, <2>2, <2>3, <2>4, <2>5, DrainBegins
<1>19. argsOf' \in Nat
  BY <1>2 DEF Call
<1>20. UNCHANGED <<workVars, tsfnVars, pumpVars>>
  BY DEF Call
<1>21. Stacked(stack')
  BY <1>9 DEF TurnedAndEntered
<1> QED
  BY <1>2, <1>15, <1>16, <1>18, <1>19, <1>20, <1>21, OnlyFinalizers

\* The rest of a queue of finalizers.
LEMMA TailOfPosted ==
  ASSUME NEW q \in Seq(Finalizers), q # <<>>
  PROVE  /\ Head(q) = q[1] /\ Head(q) \in Finalizers /\ Tail(q) \in Seq(Finalizers)
         /\ Len(q) \in Nat \ {0} /\ Len(Tail(q)) = Len(q) - 1
         /\ \A i \in 1 .. Len(Tail(q)) : Tail(q)[i] = q[i + 1] /\ i + 1 \in 1 .. Len(q)
  OBVIOUS

LEMMA DrainNextKeeps ==
  ASSUME IInv, DrainNext
  PROVE  IInv'
<1>1. InHost("drain") /\ posted # <<>>
  BY DEF DrainNext
<1>2. /\ stack # <<>> /\ Settled /\ Stacked(stack) /\ Top \in Frames
      /\ Top.phase = "drain"
  BY <1>1, InHostFacts DEF IInv
<1>3. /\ UNCHANGED <<workVars, tsfnVars, pumpVars, argsOf>>
      /\ UNCHANGED <<postedPending, draining, drainScheduled>>
      /\ posted' = Tail(posted)
  BY DEF DrainNext
<1>4. FinTyped /\ PostedOnce /\ DrainComes /\ OneDrain
  BY DEF IInv, FinOK
<1>5. posted \in Seq(Finalizers)
  BY <1>4 DEF FinTyped
<1>6. PICK h \in Finalizers : h = Head(posted)
  BY <1>1, <1>5, TailOfPosted
<1>7. /\ h = posted[1] /\ posted' \in Seq(Finalizers)
      /\ Len(posted) \in Nat \ {0} /\ Len(posted') = Len(posted) - 1
      /\ \A i \in 1 .. Len(posted') : posted'[i] = posted[i + 1] /\ i + 1 \in 1 .. Len(posted)
  BY <1>1, <1>3, <1>5, <1>6, TailOfPosted
<1>8. /\ \/ fin[h] = "cancelled" /\ fin' = fin
         \/ fin' = [fin EXCEPT ![h] = "done"]
      /\ Calm
  <2>1. CASE IsCancelled(h)
    <3>1. stack' = stack /\ fin' = fin
      BY <1>6, <2>1 DEF DrainNext
    <3> QED
      BY <1>2, <2>1, <3>1, CalmStay DEF IsCancelled
  <2>2. CASE ~IsCancelled(h)
    <3>1. fin' = [fin EXCEPT ![h] = "done"] /\ Push(Guest("finalizer", h))
      BY <1>6, <2>2 DEF DrainNext
    <3>2. "finalizer" \in GuestKinds /\ h \in Args
      BY DEF GuestKinds, Indirect, Args
    <3>3. PICK g \in Frames : /\ g = Guest("finalizer", h) /\ Fits(g)
                              /\ g.kind = "finalizer" /\ g.phase = "run"
      BY <3>2, GuestFrame
    <3>4. Placed(stack, g)
      BY <1>2, <3>3 DEF Placed, Rests, Top, Depth
    <3>5. Entered(g)
      BY <1>2, <3>1, <3>3, <3>4, Enter
    <3>6. Calm
      BY <1>2, <3>3, <3>5, CalmEnter
    <3> QED
      BY <3>1, <3>6
  <2> QED
    BY <2>1, <2>2
<1>9. \A f \in Finalizers : f # h => fin'[f] = fin[f]
  BY <1>4, <1>8 DEF FinTyped
<1>10. FinTyped'
  BY <1>3, <1>4, <1>7, <1>8 DEF FinTyped
<1>11. \A i \in 1 .. Len(posted') : posted'[i] \in Finalizers /\ posted'[i] # h
  <2> TAKE i \in 1 .. Len(posted')
  <2>1. posted'[i] = posted[i + 1] /\ i + 1 \in 1 .. Len(posted) /\ i + 1 # 1
    BY <1>7
  <2>2. 1 \in 1 .. Len(posted)
    BY <1>7
  <2>3. posted[i + 1] # posted[1]
    BY <1>4, <2>1, <2>2 DEF PostedOnce
  <2> QED
    BY <1>5, <1>7, <2>1, <2>3
<1>12. PostedOnce'
  <2>1. \A i \in 1 .. Len(posted') : fin'[posted'[i]] \in {"posted", "collected", "cancelled"}
    BY <1>4, <1>7, <1>9, <1>11 DEF PostedOnce
  <2>2. \A i, j \in 1 .. Len(posted') : posted'[i] = posted'[j] => i = j
    BY <1>4, <1>7 DEF PostedOnce
  <2>3. posted' # <<>> => postedPending'
    BY <1>1, <1>3, <1>4 DEF PostedOnce
  <2> QED
    BY <2>1, <2>2, <2>3 DEF PostedOnce
<1>13. DrainComes'
  <2>1. ASSUME NEW f \in Objects, fin'[f] = "collected"
        PROVE  /\ \E i \in 1 .. Len(posted') : posted'[i] = f
               /\ drainScheduled' \/ draining'
    <3>1. f \in Finalizers /\ f # h /\ fin[f] = "collected"
      BY <1>4, <1>8, <1>9, <2>1 DEF Finalizers, FinTyped
    <3>2. PICK i \in 1 .. Len(posted) : posted[i] = f
      BY <1>4, <3>1 DEF DrainComes
    <3>3. i # 1
      BY <1>7, <3>1, <3>2
    <3>4. i - 1 \in 1 .. Len(posted') /\ posted'[i - 1] = posted[(i - 1) + 1] /\ (i - 1) + 1 = i
      BY <1>7, <3>3
    <3>5. drainScheduled \/ draining
      BY <1>4, <3>1 DEF DrainComes
    <3> QED
      BY <1>3, <3>2, <3>4, <3>5
  <2> QED
    BY <2>1 DEF DrainComes
<1>14. OneDrain'
  BY <1>3, <1>4, <1>8 DEF OneDrain, Calm, Kept
<1>15. argsOf' \in Nat
  BY <1>3 DEF IInv
<1> QED
  BY <1>2, <1>3, <1>8, <1>10, <1>12, <1>13, <1>14, <1>15, OnlyFinalizers DEF FinOK, Calm

LEMMA EndDrainKeeps ==
  ASSUME IInv, EndDrain
  PROVE  IInv'
<1>1. InHost("drain") /\ posted = <<>>
  BY DEF EndDrain
<1>2. /\ stack # <<>> /\ Settled /\ Stacked(stack) /\ Top \in Frames /\ Fits(Top)
      /\ Top.phase = "drain" /\ Top.kind \in HostKinds
  BY <1>1, InHostFacts DEF IInv
<1>3. /\ UNCHANGED <<workVars, tsfnVars, pumpVars, argsOf>>
      /\ UNCHANGED <<fin, posted, drainScheduled>>
      /\ postedPending' = FALSE /\ draining' = FALSE
  BY DEF EndDrain
<1>4. FinTyped /\ PostedOnce /\ DrainComes /\ OneDrain
  BY DEF IInv, FinOK
<1>5. /\ CountIn(stack, PumpFrames) \in Nat /\ CountIn(stack, DrainFrames) \in Nat
      /\ \A w \in Works : CountIn(stack, ExecuteFrames(w)) \in Nat
  BY <1>2, CountsAreNat
<1>6. /\ One(Top, PumpFrames) \in Nat /\ One(Top, DrainFrames) = 1
      /\ \A w \in Works : One(Top, ExecuteFrames(w)) = 0
  <2>1. Top.kind # "execute"
    BY <1>2 DEF HostKinds
  <2> QED
    BY <1>2, <2>1, Weights
<1>7. /\ Stacked(stack') /\ Kept(PumpFrames) /\ ExecutesKept
      /\ CountIn(stack', DrainFrames) = CountIn(stack, DrainFrames) - 1
  <2>1. ASSUME Top.kind \in {"dispatch", "pump"}, NEW p \in Phases \ {"drain"},
               p = "method" => Top.kind = "dispatch", GoTo(p, 0)
        PROVE  /\ Stacked(stack') /\ Kept(PumpFrames) /\ ExecutesKept
               /\ CountIn(stack', DrainFrames) = CountIn(stack, DrainFrames) - 1
    <3>1. PICK f \in Frames : Turned(f) /\ Same(f, Top) /\ f.phase = p
      BY <1>2, <2>1, Go
    <3>2. /\ One(f, PumpFrames) = One(Top, PumpFrames) /\ One(f, DrainFrames) = 0
          /\ \A w \in Works : One(f, ExecuteFrames(w)) = One(Top, ExecuteFrames(w))
      BY <1>2, <2>1, <3>1, Weights DEF Same
    <3>3. /\ CountIn(stack', PumpFrames)
               = CountIn(stack, PumpFrames) - One(Top, PumpFrames) + One(f, PumpFrames)
          /\ CountIn(stack', DrainFrames)
               = CountIn(stack, DrainFrames) - One(Top, DrainFrames) + One(f, DrainFrames)
          /\ \A w \in Works : CountIn(stack', ExecuteFrames(w))
               = CountIn(stack, ExecuteFrames(w)) - One(Top, ExecuteFrames(w))
                   + One(f, ExecuteFrames(w))
      BY <3>1, Countable DEF Turned
    <3>4. Kept(PumpFrames) /\ ExecutesKept
      BY <1>5, <1>6, <3>2, <3>3 DEF Kept, ExecutesKept
    <3>5. CountIn(stack', DrainFrames) = CountIn(stack, DrainFrames) - 1
      BY <1>5, <1>6, <3>2, <3>3
    <3> QED
      BY <3>1, <3>4, <3>5 DEF Turned
  <2>2. CASE Top.kind = "dispatch"
    <3>1. GoTo("method", 0) /\ "method" \in Phases \ {"drain"}
      BY <2>2 DEF EndDrain, AfterDrain, Phases
    <3> QED
      BY <2>1, <2>2, <3>1
  <2>3. CASE Top.kind = "pump"
    <3>1. GoTo("async", 0) /\ "async" \in Phases \ {"drain"}
      BY <2>3 DEF EndDrain, AfterDrain, Phases
    <3> QED
      BY <2>1, <2>3, <3>1
  <2>4. CASE Top.kind = "task"
    <3>1. stack' = Popped
      BY <2>4 DEF EndDrain, AfterDrain
    <3>2. Left
      BY <1>2, <3>1, Leave
    <3>3. One(Top, PumpFrames) = 0
      BY <1>2, <2>4, Weights
    <3>4. /\ CountIn(stack', PumpFrames) = CountIn(stack, PumpFrames) - One(Top, PumpFrames)
          /\ CountIn(stack', DrainFrames) = CountIn(stack, DrainFrames) - One(Top, DrainFrames)
          /\ \A w \in Works : CountIn(stack', ExecuteFrames(w))
                                = CountIn(stack, ExecuteFrames(w)) - One(Top, ExecuteFrames(w))
      BY <3>2, Countable DEF Left
    <3>5. Kept(PumpFrames) /\ ExecutesKept
      BY <1>5, <1>6, <3>3, <3>4 DEF Kept, ExecutesKept
    <3>6. CountIn(stack', DrainFrames) = CountIn(stack, DrainFrames) - 1
      BY <1>5, <1>6, <3>4
    <3> QED
      BY <3>2, <3>5, <3>6 DEF Left
  <2> QED
    BY <1>2, <2>2, <2>3, <2>4 DEF HostKinds
<1>8. OneDrain'
  <2>1. stack' \in Seq(Frames)
    BY <1>7 DEF Stacked
  <2>2. CountIn(stack', DrainFrames) \in Nat
    BY <2>1, FramesCounted
  <2>3. CountIn(stack, DrainFrames) \in {0, 1}
    BY <1>4 DEF OneDrain
  <2>4. CountIn(stack', DrainFrames) = 0
    BY <1>7, <2>2, <2>3
  <2> QED
    BY <1>3, <2>4 DEF OneDrain
<1>9. FinTyped' /\ PostedOnce'
  <2>1. fin' = fin /\ posted' = posted /\ posted' = <<>>
    BY <1>1, <1>3
  <2>2. {postedPending', draining', drainScheduled'} \subseteq BOOLEAN
    <3>1. drainScheduled' \in BOOLEAN
      BY <1>3, <1>4 DEF FinTyped
    <3> QED
      BY <1>3, <3>1, Zenon
  <2>3. FinTyped'
    BY <1>4, <2>1, <2>2 DEF FinTyped
  <2>4. PostedOnce'
    <3>1. \A i \in 1 .. Len(posted') : fin'[posted'[i]] \in {"posted", "collected", "cancelled"}
      BY <1>4, <2>1 DEF PostedOnce
    <3>2. \A i, j \in 1 .. Len(posted') : posted'[i] = posted'[j] => i = j
      BY <1>4, <2>1 DEF PostedOnce
    <3> QED
      BY <2>1, <3>1, <3>2 DEF PostedOnce
  <2> QED
    BY <2>3, <2>4
<1>10. DrainComes'
  <2>1. ~\E i \in 1 .. Len(posted) : TRUE
    BY <1>1
  <2> QED
    BY <1>3, <1>4, <2>1 DEF DrainComes
<1>11. argsOf' \in Nat
  BY <1>3 DEF IInv
<1> QED
  BY <1>2, <1>3, <1>7, <1>8, <1>9, <1>10, <1>11, OnlyFinalizers DEF FinOK

LEMMA DrainTaskKeeps ==
  ASSUME IInv, DrainTask
  PROVE  IInv'
<1>1. Idle /\ Settled /\ Stacked(stack)
  BY IdleFacts DEF DrainTask, IInv
<1>2. /\ UNCHANGED <<workVars, tsfnVars, pumpVars, argsOf>>
      /\ UNCHANGED <<fin, posted, postedPending>>
      /\ drainScheduled' = FALSE /\ BeginDrain("task")
  BY DEF DrainTask
<1>3. /\ CountIn(stack, PumpFrames) \in Nat /\ CountIn(stack, DrainFrames) \in Nat
      /\ \A w \in Works : CountIn(stack, ExecuteFrames(w)) \in Nat
  BY <1>1, CountsAreNat
<1>4. ~draining
  BY <1>1, EmptyCounted DEF IInv, FinOK, OneDrain, Idle
<1>5. MayDrain("task")
  BY <1>4 DEF MayDrain
<1>6. PICK g \in Frames : /\ g = Frame("task", 0, "drain", 0) /\ Fits(g)
                          /\ g.kind = "task" /\ g.phase = "drain"
  BY HostFrame
<1>7. Push(g)
  BY <1>5, <1>6 DEF DrainTask
<1>8. Placed(stack, g)
  BY <1>1, <1>6, IdleFacts DEF Outermost
<1>9. Entered(g)
  BY <1>1, <1>6, <1>7, <1>8, Enter
<1>10. /\ One(g, PumpFrames) = 0 /\ One(g, DrainFrames) = 1
       /\ \A w \in Works : One(g, ExecuteFrames(w)) = 0
  BY <1>6, Weights
<1>11. /\ CountIn(stack', PumpFrames) = CountIn(stack, PumpFrames) + One(g, PumpFrames)
       /\ CountIn(stack', DrainFrames) = CountIn(stack, DrainFrames) + One(g, DrainFrames)
       /\ \A w \in Works : CountIn(stack', ExecuteFrames(w))
                             = CountIn(stack, ExecuteFrames(w)) + One(g, ExecuteFrames(w))
  BY <1>9, Countable DEF Entered
<1>12. Kept(PumpFrames) /\ ExecutesKept
  BY <1>3, <1>10, <1>11 DEF Kept, ExecutesKept
<1>13. FinOK'
  <2> DEFINE kind == "task"
  <2>1. BeginDrain(kind)
    BY <1>2
  <2>2. UNCHANGED <<fin, posted, postedPending>>
    BY <1>2
  <2>3. \/ drainScheduled' = drainScheduled
        \/ drainScheduled' = FALSE /\ (MayDrain(kind) \/ draining)
    BY <1>2, <1>5
  <2>4. FinOK
    BY DEF IInv
  <2>5. CountIn(stack', DrainFrames)
          = CountIn(stack, DrainFrames) + (IF MayDrain(kind) THEN 1 ELSE 0)
    BY <1>5, <1>10, <1>11
  <2> HIDE DEF kind
  <2> QED
    BY <2>1, <2>2, <2>3, <2>4, <2>5, DrainBegins
<1>14. argsOf' \in Nat /\ Stacked(stack')
  BY <1>2, <1>9 DEF IInv, Entered
<1> QED
  BY <1>1, <1>2, <1>12, <1>13, <1>14, OnlyFinalizers

LEMMA EndStepsKeeps ==
  ASSUME IInv, EndSteps
  PROVE  IInv'
<1>1. InHost("steps")
  BY DEF EndSteps
<1>2. /\ stack # <<>> /\ Settled /\ Stacked(stack) /\ Top \in Frames /\ Fits(Top)
      /\ Top.phase = "steps" /\ Top.kind \in HostKinds
  BY <1>1, InHostFacts DEF IInv
<1>3. /\ UNCHANGED <<workVars, tsfnVars, pumpVars, argsOf>>
      /\ UNCHANGED <<fin, posted, postedPending, drainScheduled>>
      /\ BeginDrain("pump")
  BY DEF EndSteps
<1>4. PICK p \in {"drain", "async"} : p = FirstPhase("pump", "async")
  BY DEF FirstPhase
<1>5. GoTo(p, 0) /\ p \in Phases /\ Top.kind \in {"dispatch", "pump"}
  BY <1>2, <1>4 DEF EndSteps, Phases, Fits, HostKinds
<1>6. PICK f \in Frames : Turned(f) /\ Same(f, Top) /\ f.phase = p
  BY <1>2, <1>4, <1>5, Go
<1>7. /\ One(f, PumpFrames) = One(Top, PumpFrames)
      /\ One(Top, DrainFrames) = 0 /\ One(f, DrainFrames) = IF p = "drain" THEN 1 ELSE 0
      /\ \A w \in Works : One(f, ExecuteFrames(w)) = One(Top, ExecuteFrames(w))
  BY <1>2, <1>6, Weights DEF Same
<1>8. /\ One(Top, PumpFrames) \in Nat
      /\ \A w \in Works : One(Top, ExecuteFrames(w)) \in Nat
  BY DEF One
<1>9. /\ CountIn(stack, PumpFrames) \in Nat /\ CountIn(stack, DrainFrames) \in Nat
      /\ \A w \in Works : CountIn(stack, ExecuteFrames(w)) \in Nat
  BY <1>2, CountsAreNat
<1>10. /\ CountIn(stack', PumpFrames)
            = CountIn(stack, PumpFrames) - One(Top, PumpFrames) + One(f, PumpFrames)
       /\ CountIn(stack', DrainFrames)
            = CountIn(stack, DrainFrames) - One(Top, DrainFrames) + One(f, DrainFrames)
       /\ \A w \in Works : CountIn(stack', ExecuteFrames(w))
            = CountIn(stack, ExecuteFrames(w)) - One(Top, ExecuteFrames(w))
                + One(f, ExecuteFrames(w))
  BY <1>6, Countable DEF Turned
<1>11. Kept(PumpFrames) /\ ExecutesKept
  BY <1>7, <1>8, <1>9, <1>10 DEF Kept, ExecutesKept
<1>12. FinOK'
  <2> DEFINE kind == "pump"
  <2>1. BeginDrain(kind)
    BY <1>3
  <2>2. UNCHANGED <<fin, posted, postedPending>>
    BY <1>3
  <2>3. \/ drainScheduled' = drainScheduled
        \/ drainScheduled' = FALSE /\ (MayDrain(kind) \/ draining)
    BY <1>3
  <2>4. FinOK
    BY DEF IInv
  <2>5. p = "drain" <=> MayDrain(kind)
    BY <1>4 DEF FirstPhase
  <2>6. CountIn(stack', DrainFrames)
          = CountIn(stack, DrainFrames) + (IF MayDrain(kind) THEN 1 ELSE 0)
    BY <1>7, <1>9, <1>10, <2>5
  <2> HIDE DEF kind
  <2> QED
    BY <2>1, <2>2, <2>3, <2>4, <2>6, DrainBegins
<1>13. argsOf' \in Nat /\ Stacked(stack')
  BY <1>3, <1>6 DEF IInv, Turned
<1> QED
  BY <1>2, <1>3, <1>11, <1>12, <1>13, OnlyFinalizers

\* A finalizer is added at the end of what is posted.
LEMMA AppendPosted ==
  ASSUME NEW q \in Seq(Finalizers), NEW f \in Finalizers
  PROVE  /\ Append(q, f) \in Seq(Finalizers)
         /\ Len(q) \in Nat /\ Len(Append(q, f)) = Len(q) + 1
         /\ \A i \in 1 .. Len(q) : Append(q, f)[i] = q[i]
         /\ Append(q, f)[Len(q) + 1] = f
  OBVIOUS

\* f, which was not posted before, is.
LEMMA Posts ==
  ASSUME FinOK, NEW f \in Finalizers, fin[f] \in {"unused", "live"},
         NEW state \in {"posted", "collected"},
         fin' = [fin EXCEPT ![f] = state], posted' = Append(posted, f),
         postedPending' = TRUE, draining' = draining, Kept(DrainFrames),
         drainScheduled' \in BOOLEAN,
         drainScheduled => drainScheduled',
         state = "collected" => drainScheduled'
  PROVE  FinOK'
<1>1. FinTyped /\ PostedOnce /\ DrainComes /\ OneDrain
  BY DEF FinOK
<1>2. posted \in Seq(Finalizers)
  BY <1>1 DEF FinTyped
<1>3. /\ posted' \in Seq(Finalizers)
      /\ Len(posted) \in Nat /\ Len(posted') = Len(posted) + 1
      /\ \A i \in 1 .. Len(posted) : posted'[i] = posted[i]
      /\ posted'[Len(posted) + 1] = f
  BY <1>2, AppendPosted
<1>4. /\ fin'[f] = state
      /\ \A g \in Finalizers : g # f => fin'[g] = fin[g]
  BY <1>1 DEF FinTyped
<1>5. FinTyped'
  BY <1>1, <1>3 DEF FinTyped
<1>6. \A i \in 1 .. Len(posted) : posted[i] \in Finalizers /\ posted[i] # f
  BY <1>1, <1>2 DEF PostedOnce
<1>7. \A i \in 1 .. Len(posted') : \/ i \in 1 .. Len(posted) /\ posted'[i] = posted[i]
                                   \/ i = Len(posted) + 1 /\ posted'[i] = f
  BY <1>3
<1>8. PostedOnce'
  <2>1. \A i \in 1 .. Len(posted') : fin'[posted'[i]] \in {"posted", "collected", "cancelled"}
    BY <1>1, <1>4, <1>6, <1>7 DEF PostedOnce
  <2>2. \A i, j \in 1 .. Len(posted') : posted'[i] = posted'[j] => i = j
    BY <1>1, <1>6, <1>7 DEF PostedOnce
  <2> QED
    BY <2>1, <2>2 DEF PostedOnce
<1>9. DrainComes'
  <2>1. ASSUME NEW g \in Objects, fin'[g] = "collected"
        PROVE  /\ \E i \in 1 .. Len(posted') : posted'[i] = g
               /\ drainScheduled' \/ draining'
    <3>1. CASE g = f
      <4>1. state = "collected" /\ Len(posted) + 1 \in 1 .. Len(posted')
        BY <1>3, <1>4, <2>1, <3>1
      <4> QED
        BY <1>3, <3>1, <4>1
    <3>2. CASE g # f
      <4>1. fin[g] = "collected"
        BY <1>4, <2>1, <3>2 DEF Finalizers
      <4>2. PICK i \in 1 .. Len(posted) : posted[i] = g
        BY <1>1, <4>1 DEF DrainComes
      <4>3. i \in 1 .. Len(posted') /\ posted'[i] = g
        BY <1>3, <4>2
      <4>4. drainScheduled \/ draining
        BY <1>1, <4>1 DEF DrainComes
      <4> QED
        BY <4>3, <4>4
    <3> QED
      BY <3>1, <3>2
  <2> QED
    BY <2>1 DEF DrainComes
<1>10. OneDrain'
  BY <1>1 DEF OneDrain, Kept
<1> QED
  BY <1>5, <1>8, <1>9, <1>10 DEF FinOK

LEMMA CollectKeeps ==
  ASSUME IInv, NEW f \in Objects, Collect(f)
  PROVE  IInv'
<1>1. Idle /\ Settled /\ Stacked(stack)
  BY IdleFacts DEF Collect, IInv
<1>2. UNCHANGED <<workVars, tsfnVars, pumpVars, stack, draining>>
  BY DEF Collect
<1>3. Calm
  BY <1>1, <1>2, CalmStay
<1>4. argsOf' \in Nat
  BY DEF Collect, IInv
<1>5. f \in Finalizers /\ fin[f] \in {"unused", "live"}
  BY DEF Finalizers, Collect
<1>6. PICK state \in {"posted", "collected"} : state = "collected"
  OBVIOUS
<1>7. FinOK'
  <2>1. fin' = [fin EXCEPT ![f] = state] /\ posted' = Append(posted, f)
    BY <1>6 DEF Collect
  <2>2. postedPending' = TRUE /\ draining' = draining /\ drainScheduled' = TRUE
    BY DEF Collect, DrainSoon
  <2>3. /\ drainScheduled' \in BOOLEAN
        /\ drainScheduled => drainScheduled'
        /\ state = "collected" => drainScheduled'
    BY <2>2
  <2>4. FinOK /\ Kept(DrainFrames)
    BY <1>3 DEF IInv, Calm
  <2> QED
    BY <1>5, <2>1, <2>2, <2>3, <2>4, Posts
<1> QED
  BY <1>1, <1>2, <1>3, <1>4, <1>7, OnlyFinalizers DEF Calm

-----------------------------------------------------------------------------
(* The methods.                                                            *)

\* After its method a dispatch returns, or drains what waits.
Drains == /\ stack' # <<>> /\ Top'.kind = "dispatch" /\ Top'.phase = "async"
LEMMA MethodEnds ==
  ASSUME IInv, InHost("method"), ThenDrain
  PROVE  /\ Settled /\ Calm
         /\ Top.kind = "dispatch" /\ [op |-> Top.op, arg |-> Top.arg] \in Ops
         /\ asyncQueue' # <<>> \/ HasPendingTsfn' => Drains
<1>1. /\ stack # <<>> /\ Settled /\ Stacked(stack) /\ Top \in Frames /\ Fits(Top)
      /\ Top.phase = "method"
  BY InHostFacts DEF IInv
<1>2. Top.kind = "dispatch" /\ [op |-> Top.op, arg |-> Top.arg] \in Ops
  BY <1>1 DEF Fits
<1>3. CASE asyncQueue' = <<>> /\ ~HasPendingTsfn'
  <2>1. stack' = Popped
    BY <1>3 DEF ThenDrain
  <2>2. Left
    BY <1>1, <2>1, Leave
  <2>3. Calm
    BY <1>1, <1>2, <2>2, CalmLeave
  <2> QED
    BY <1>1, <1>2, <1>3, <2>3
<1>4. CASE ~(asyncQueue' = <<>> /\ ~HasPendingTsfn')
  <2>1. GoTo("async", 0) /\ "async" \in Phases
    BY <1>4 DEF ThenDrain, Phases
  <2>2. PICK f \in Frames : Turned(f) /\ Same(f, Top) /\ f.phase = "async"
    BY <1>1, <1>2, <2>1, Go
  <2>3. Calm
    BY <1>1, <2>2, CalmTurn
  <2>4. Drains
    BY <1>2, <2>2 DEF Turned, Same, Drains
  <2> QED
    BY <1>1, <1>2, <2>3, <2>4
<1> QED
  BY <1>3, <1>4

LEMMA MethodArgs ==
  ASSUME IInv, NEW op, InMethod(op)
  PROVE  /\ op \in {"queue", "cancel"} => Top.arg \in Works
         /\ op \in {"call", "acquire", "release", "abort"} => Top.arg \in Tsfns
         /\ op = "post" => Top.arg \in Finalizers
         /\ op \in {"wrap", "unwrap"} => Top.arg \in Finalizers
<1>1. Fits(Top) /\ Top.phase = "method" /\ Top.op = op
  BY InHostFacts DEF InMethod
<1>2. PICK o \in Ops : o = [op |-> Top.op, arg |-> Top.arg]
  BY <1>1 DEF Fits
<1>3. o.op = op /\ o.arg = Top.arg
  BY <1>1, <1>2
<1>4. /\ op \in {"queue", "cancel"} => o.arg \in Works
      /\ op \in {"call", "acquire", "release", "abort"} => o.arg \in Tsfns
      /\ op = "post" => o.arg \in Jobs
      /\ op \in {"wrap", "unwrap"} => o.arg \in Objects
  BY <1>3 DEF Ops
<1> QED
  BY <1>3, <1>4 DEF Finalizers

\* A method that leaves nothing behind.
LEMMA OtherCallKeeps ==
  ASSUME IInv, OtherCall
  PROVE  IInv'
<1>1. InHost("method") /\ ThenDrain
  BY DEF OtherCall, InMethod
<1>2. UNCHANGED <<workVars, tsfnVars, finVars, pumpVars, argsOf>>
  BY DEF OtherCall
<1>3. Settled /\ Calm
  BY <1>1, MethodEnds
<1>4. OneWaits'
  BY <1>2, <1>3, SettledStays DEF OneWaits, workVars, tsfnVars
<1>5. argsOf' \in Nat
  BY <1>2 DEF IInv
<1> QED
  BY <1>2, <1>3, <1>4, <1>5, OnlyMoves

LEMMA NoEnvKeeps ==
  ASSUME IInv, NoEnv
  PROVE  IInv'
<1>1. InHost("method") /\ stack' = Popped
  BY DEF NoEnv, InMethod
<1>2. UNCHANGED <<workVars, tsfnVars, finVars, pumpVars, argsOf>>
  BY DEF NoEnv
<1>3. /\ stack # <<>> /\ Settled /\ Stacked(stack) /\ Top \in Frames /\ Fits(Top)
      /\ Top.phase = "method"
  BY <1>1, InHostFacts DEF IInv
<1>4. Top.kind = "dispatch"
  BY <1>3 DEF Fits
<1>5. Calm
  BY <1>1, <1>3, <1>4, Leave, CalmLeave
<1>6. OneWaits'
  BY <1>2, <1>3, SettledStays DEF OneWaits, workVars, tsfnVars
<1>7. argsOf' \in Nat
  BY <1>2 DEF IInv
<1> QED
  BY <1>2, <1>5, <1>6, <1>7, OnlyMoves

LEMMA CallFunctionKeeps ==
  ASSUME IInv, CallFunction
  PROVE  IInv'
<1>1. InHost("method")
  BY DEF CallFunction, InMethod
<1>2. UNCHANGED <<workVars, tsfnVars, finVars, pumpVars, argsOf>>
  BY DEF CallFunction
<1>3. /\ stack # <<>> /\ Settled /\ Stacked(stack) /\ Top \in Frames /\ Fits(Top)
      /\ Top.phase = "method"
  BY <1>1, InHostFacts DEF IInv
<1>4. Top.kind = "dispatch"
  BY <1>3 DEF Fits
<1>5. PICK g \in Frames : /\ g = Guest("callback", 0) /\ Fits(g)
                          /\ g.kind = "callback" /\ g.phase = "run"
  BY CallbackFrame
<1>6. PICK f \in Frames : /\ f = [Top EXCEPT !.phase = "async"]
                          /\ Same(f, Top) /\ f.phase = "async"
  <2>1. PICK t \in Frames : t = Top
    BY <1>3
  <2>2. PICK p \in Phases : p = "async"
    BY DEF Phases
  <2>3. \E f \in Frames : /\ f = [t EXCEPT !.phase = p]
                          /\ Same(f, t) /\ f.phase = p
    BY PhaseField, Zenon
  <2> QED
    BY <2>1, <2>2, <2>3, Zenon
<1>7. stack' = Append([stack EXCEPT ![Len(stack)] = f], g)
  <2>1. stack' = Append([stack EXCEPT ![Len(stack)] = [Top EXCEPT !.phase = "async"]], g)
    BY <1>5, Zenon DEF CallFunction, Depth, Top
  <2> QED
    BY <1>6, <2>1, Zenon
<1>8. Fits(f) /\ Rests(f, g) /\ f.kind = Top.kind
  BY <1>3, <1>4, <1>5, <1>6 DEF Fits, Rests, Same, GuestKinds, Indirect
<1>9. TurnedAndEntered(f, g)
  BY <1>3, <1>5, <1>7, <1>8, ReplaceAndEnter
<1>10. Calm
  <2>1. g.kind \notin {"pump", "execute"} /\ g.phase # "drain"
    BY <1>5
  <2>2. f.phase = "drain" <=> Top.phase = "drain"
    BY <1>3, <1>6
  <2> QED
    BY <1>3, <1>6, <1>9, <2>1, <2>2, CalmTurnAndEnter
<1>11. OneWaits'
  BY <1>2, <1>3, SettledStays DEF OneWaits, workVars, tsfnVars
<1>12. argsOf' \in Nat
  BY <1>2 DEF IInv
<1> QED
  BY <1>2, <1>10, <1>11, <1>12, OnlyMoves

\* A completion or an execution is queued, where nothing waits.
LEMMA Queues ==
  ASSUME IInv, InHost("method"), ThenDrain, Top.arg \in Works, NEW x \in Items,
         x.work = Top.arg, asyncQueue' = Append(<<>>, x),
         asked' = [asked EXCEPT ![Top.arg] = @ + 1],
         UNCHANGED <<done, tsfnVars, finVars, pumpVars, argsOf>>
  PROVE  IInv'
<1>1. PICK a \in Works : a = Top.arg
  OBVIOUS
<1>2. /\ asyncQueue' \in Seq(Items) /\ asyncQueue' # <<>> /\ Len(asyncQueue') = 1
      /\ \A w \in Works :
           Cardinality({i \in DOMAIN asyncQueue' : asyncQueue'[i].work = w})
             = IF x.work = w THEN 1 ELSE 0
  BY QueueOfOne
<1>3. Settled /\ Calm /\ Drains
  BY <1>2, MethodEnds
<1>4. TsfnOK' /\ FinOK' /\ PumpOK'
  BY <1>3, TsfnStays, FinStays, PumpStays DEF IInv, Calm
<1>5. WorkTyped
  BY DEF IInv, WorkOK
<1>6. /\ asked' \in [Works -> Nat]
      /\ \A w \in Works : asked'[w] = asked[w] + IF x.work = w THEN 1 ELSE 0
  BY <1>1, <1>5 DEF WorkTyped
<1>7. WorkTyped'
  BY <1>2, <1>5, <1>6 DEF WorkTyped
<1>8. Conserved'
  <2>1. ASSUME NEW w \in Works
        PROVE  asked'[w] = done'[w]
                 + Cardinality({i \in DOMAIN asyncQueue' : asyncQueue'[i].work = w})
                 + CountIn(stack', ExecuteFrames(w))
    <3>1. asked[w] = done[w] + 0 + CountIn(stack, ExecuteFrames(w))
      BY <1>3, QueueOfNone DEF Settled, IInv, WorkOK, Conserved
    <3>2. asked[w] \in Nat /\ done[w] \in Nat
      BY <1>5 DEF WorkTyped
    <3>3. /\ CountIn(stack, ExecuteFrames(w)) \in Nat
          /\ CountIn(stack', ExecuteFrames(w)) = CountIn(stack, ExecuteFrames(w))
      BY <1>3, CountsAreNat DEF IInv, Calm, ExecutesKept, Kept
    <3>4. Cardinality({i \in DOMAIN asyncQueue' : asyncQueue'[i].work = w})
            = IF x.work = w THEN 1 ELSE 0
      BY <1>2
    <3>5. asked'[w] = asked[w] + IF x.work = w THEN 1 ELSE 0
      BY <1>6
    <3> QED
      BY <3>1, <3>2, <3>3, <3>4, <3>5
  <2> QED
    BY <2>1 DEF Conserved
<1>9. OneWaits'
  <2>1. \A t \in Tsfns : ~WaitsFor(t)'
    BY <1>3 DEF Settled, WaitsFor, MayFinalize, tsfnVars
  <2> QED
    BY <1>2, <1>3, <2>1 DEF Drains, OneWaits, WorkWaits, Draining
<1> QED
  BY <1>3, <1>4, <1>7, <1>8, <1>9 DEF IInv, WorkOK, Calm

LEMMA QueueWorkKeeps ==
  ASSUME IInv, QueueWork
  PROVE  IInv'
<1>1. InHost("method") /\ ThenDrain /\ InMethod("queue")
  BY DEF QueueWork, InMethod
<1>2. Top.arg \in Works /\ asyncQueue = <<>>
  BY <1>1, MethodArgs, MethodEnds DEF Settled
<1>3. PICK x \in Items : x = [type |-> "execute", work |-> Top.arg]
  BY <1>2 DEF Items
<1>4. /\ asyncQueue' = Append(<<>>, x) /\ x.work = Top.arg
      /\ asked' = [asked EXCEPT ![Top.arg] = @ + 1]
      /\ UNCHANGED <<done, tsfnVars, finVars, pumpVars, argsOf>>
  BY <1>2, <1>3 DEF QueueWork
<1> QED
  BY <1>1, <1>2, <1>4, Queues

\* The filter of napi_cancel_async_work has nothing to look at.
LEMMA NothingToFilter ==
  ASSUME NEW w
  PROVE  NotBegun(<<>>, w) = <<>>
<1> DEFINE q == <<>>
           F(f) == [i \in 0 .. Len(q) |->
                      IF i = 0 THEN <<>>
                      ELSE IF q[i] = [type |-> "execute", work |-> w] THEN f[i - 1]
                      ELSE Append(f[i - 1], q[i])]
           g == [i \in {0} |-> <<>>]
           kept == CHOOSE f : f = F(f)
<1>1. Len(q) = 0 /\ 0 .. Len(q) = {0}
  OBVIOUS
<1>2. g = F(g)
  <2>1. \A i \in 0 .. Len(q) : i = 0
    BY <1>1
  <2> HIDE DEF q
  <2> QED
    BY <2>1, <1>1
<1>3. kept = F(kept)
  <2> HIDE DEF F, g
  <2> QED
    BY <1>2
<1>4. kept[0] = <<>>
  <2> HIDE DEF kept
  <2>1. 0 \in 0 .. Len(q)
    BY <1>1
  <2> QED
    BY <2>1, <1>3
<1>5. NotBegun(q, w) = kept[Len(q)]
  BY DEF NotBegun
<1> QED
  BY <1>1, <1>4, <1>5

LEMMA CancelWorkKeeps ==
  ASSUME IInv, CancelWork
  PROVE  IInv'
<1>1. InHost("method") /\ ThenDrain /\ InMethod("cancel")
  BY DEF CancelWork, InMethod
<1>2. Top.arg \in Works /\ asyncQueue = <<>>
  BY <1>1, MethodArgs, MethodEnds DEF Settled
<1>3. PICK x \in Items : x = [type |-> "complete", work |-> Top.arg]
  BY <1>2 DEF Items
<1>4. NotBegun(asyncQueue, Top.arg) = <<>>
  BY <1>2, NothingToFilter
<1>5. /\ asyncQueue' = Append(<<>>, x) /\ x.work = Top.arg
      /\ asked' = [asked EXCEPT ![Top.arg] = @ + 1]
      /\ UNCHANGED <<done, tsfnVars, finVars, pumpVars, argsOf>>
  BY <1>3, <1>4 DEF CancelWork
<1> QED
  BY <1>1, <1>2, <1>5, Queues

\* A method that touches the thread-safe functions only: t, for which nothing
\* waited, may have something to wait for now.
LEMMA TsfnMethod ==
  ASSUME IInv, InHost("method"), ThenDrain, NEW t \in Tsfns, TsfnOK',
         UNCHANGED <<workVars, finVars, pumpVars, argsOf>>,
         \A u \in Tsfns : u # t => tsfn'[u] = tsfn[u],
         WaitsFor(t)' => HasPendingTsfn',
         Len(tsfn'[t].queue) <= 1,
         tsfn'[t].queue # <<>> => ~MayFinalize(t)'
  PROVE  IInv'
<1>1. /\ Settled /\ Calm
      /\ asyncQueue' # <<>> \/ HasPendingTsfn' => Drains
  BY MethodEnds
<1>2. WorkOK' /\ FinOK' /\ PumpOK'
  BY <1>1, WorkStays, FinStays, PumpStays DEF IInv, Calm
<1>3. asyncQueue' = <<>>
  BY <1>1 DEF Settled, workVars
<1>4. \A u \in Tsfns : u # t => ~WaitsFor(u)'
  BY <1>1 DEF Settled, WaitsFor, MayFinalize
<1>5. OneWaits'
  <2>1. CASE WaitsFor(t)'
    <3>1. stack' # <<>> /\ Top'.kind = "dispatch" /\ Top'.phase = "async"
      BY <1>1, <2>1 DEF Drains
    <3>2. TsfnWaits(t)'
      BY <1>3, <1>4, <2>1, <3>1 DEF TsfnWaits, Draining
    <3> QED
      BY <3>2 DEF OneWaits
  <2>2. CASE ~WaitsFor(t)'
    BY <1>3, <1>4, <2>2 DEF OneWaits, Settled
  <2> QED
    BY <2>1, <2>2
<1>6. argsOf' \in Nat
  BY DEF IInv
<1> QED
  BY <1>1, <1>2, <1>5, <1>6 DEF IInv, Calm

\* The record of a thread-safe function.
TsfnRecords == [queue : Seq(Nat), threads : Nat, js : BOOLEAN,
                closing : BOOLEAN, finalized : BOOLEAN]

LEMMA TsfnIsRecord ==
  ASSUME TsfnTyped, NEW t \in Tsfns
  PROVE  /\ tsfn[t] \in TsfnRecords /\ tsfn[t].queue \in Seq(Nat)
         /\ tsfn[t].threads \in Nat /\ sent[t] \in Nat /\ got[t] \in Nat
  BY DEF TsfnTyped, TsfnRecords

\* The functions are right when those other than t are left as they were.
LEMMA TsfnChanges ==
  ASSUME TsfnOK, NEW t \in Tsfns, NEW r \in TsfnRecords,
         tsfn' = [tsfn EXCEPT ![t] = r],
         sent' \in [Tsfns -> Nat], got' \in [Tsfns -> Nat],
         \A u \in Tsfns : u # t => sent'[u] = sent[u] /\ got'[u] = got[u],
         Len(r.queue) = sent'[t] - got'[t],
         \A i \in DOMAIN r.queue : r.queue[i] = got'[t] + i,
         r.finalized => r.queue = <<>> /\ r.closing
  PROVE  /\ TsfnOK' /\ tsfn'[t] = r
         /\ \A u \in Tsfns : u # t => tsfn'[u] = tsfn[u]
<1>1. TsfnTyped /\ TsfnDelivers /\ Ended
  BY DEF TsfnOK
<1>2. /\ tsfn' \in [Tsfns -> TsfnRecords] /\ tsfn'[t] = r
      /\ \A u \in Tsfns : u # t => tsfn'[u] = tsfn[u]
  BY <1>1 DEF TsfnTyped, TsfnRecords
<1>3. TsfnTyped'
  BY <1>2 DEF TsfnTyped, TsfnRecords
<1>4. TsfnDelivers'
  <2>1. ASSUME NEW u \in Tsfns
        PROVE  /\ Len(tsfn'[u].queue) = sent'[u] - got'[u]
               /\ \A i \in DOMAIN tsfn'[u].queue : tsfn'[u].queue[i] = got'[u] + i
               /\ tsfn'[u].finalized => tsfn'[u].queue = <<>>
    <3>1. CASE u = t
      BY <1>2, <3>1
    <3>2. CASE u # t
      BY <1>1, <1>2, <3>2 DEF TsfnDelivers
    <3> QED
      BY <3>1, <3>2
  <2> QED
    BY <2>1 DEF TsfnDelivers
<1>5. Ended'
  BY <1>1, <1>2 DEF Ended
<1> QED
  BY <1>2, <1>3, <1>4, <1>5 DEF TsfnOK

LEMMA NewData ==
  ASSUME NEW n \in Nat
  PROVE  /\ Append(<<>>, n) \in Seq(Nat) /\ Append(<<>>, n) # <<>>
         /\ Len(Append(<<>>, n)) = 1
         /\ \A i \in DOMAIN Append(<<>>, n) : i = 1 /\ Append(<<>>, n)[i] = n
  OBVIOUS

LEMMA CallTsfnKeeps ==
  ASSUME IInv, CallTsfn
  PROVE  IInv'
<1>1. InHost("method") /\ ThenDrain /\ InMethod("call")
  BY DEF CallTsfn, InMethod
<1>2. PICK t \in Tsfns : t = Top.arg
  BY <1>1, MethodArgs
<1>3. Settled
  BY <1>1, MethodEnds
<1>4. UNCHANGED <<got, workVars, finVars, pumpVars, argsOf>>
  BY DEF CallTsfn
<1>5. TsfnOK /\ TsfnTyped
  BY DEF IInv, TsfnOK
<1>6. CASE ~Accepts(t)
  <2>1. UNCHANGED tsfnVars
    BY <1>2, <1>4, <1>6 DEF CallTsfn, tsfnVars
  <2>2. TsfnOK'
    BY <1>5, <2>1, TsfnStays
  <2>3. tsfn' = tsfn /\ tsfn[t].queue = <<>> /\ ~WaitsFor(t)
    BY <1>3, <2>1 DEF tsfnVars, Settled, WaitsFor
  <2>4. /\ \A u \in Tsfns : u # t => tsfn'[u] = tsfn[u]
        /\ ~WaitsFor(t)' /\ Len(tsfn'[t].queue) <= 1 /\ tsfn'[t].queue = <<>>
    BY <2>3 DEF WaitsFor, MayFinalize
  <2> QED
    BY <1>1, <1>4, <2>2, <2>4, TsfnMethod
<1>7. CASE Accepts(t)
  <2>1. ~tsfn[t].closing
    BY <1>7 DEF Accepts
  <2>2. tsfn[t] \in TsfnRecords /\ tsfn[t].queue = <<>> /\ sent[t] \in Nat /\ got[t] \in Nat
    BY <1>3, <1>5, TsfnIsRecord DEF Settled, WaitsFor
  <2>3. sent[t] = got[t]
    BY <1>5, <2>2 DEF TsfnOK, TsfnDelivers
  <2>4. sent' = [sent EXCEPT ![t] = sent[t] + 1]
    BY <1>2, <1>7 DEF CallTsfn
  <2>5. /\ sent' \in [Tsfns -> Nat] /\ sent'[t] = sent[t] + 1
        /\ \A u \in Tsfns : u # t => sent'[u] = sent[u]
    BY <1>5, <2>2, <2>4 DEF TsfnTyped
  <2>6. PICK q : q = Append(tsfn[t].queue, sent'[t])
    OBVIOUS
  <2>7. /\ q \in Seq(Nat) /\ q # <<>> /\ Len(q) = 1
        /\ \A i \in DOMAIN q : i = 1 /\ q[i] = sent[t] + 1
    <3>1. PICK n \in Nat : n = sent[t] + 1
      BY <2>2
    <3>2. q = Append(<<>>, n)
      BY <2>2, <2>5, <2>6, <3>1
    <3> QED
      BY <3>1, <3>2, NewData
  <2>8. PICK r : r = [tsfn[t] EXCEPT !.queue = q]
    OBVIOUS
  <2>9. /\ r \in TsfnRecords /\ r.queue = q /\ r.threads = tsfn[t].threads
        /\ r.closing = tsfn[t].closing /\ r.finalized = tsfn[t].finalized
    BY <2>2, <2>7, <2>8 DEF TsfnRecords
  <2>10. tsfn' = [tsfn EXCEPT ![t] = r]
    <3>1. tsfn' = [tsfn EXCEPT ![t].queue = Append(@, sent'[t])]
      BY <1>2, <1>7, Zenon DEF CallTsfn
    <3>2. [tsfn EXCEPT ![t].queue = Append(@, sent'[t])] = [tsfn EXCEPT ![t] = r]
      BY <2>6, <2>8, Zenon
    <3> QED
      BY <3>1, <3>2, Zenon
  <2>11. ~tsfn[t].finalized
    BY <1>5, <2>1 DEF TsfnOK, Ended
  <2>12. /\ got' \in [Tsfns -> Nat]
         /\ \A u \in Tsfns : u # t => sent'[u] = sent[u] /\ got'[u] = got[u]
         /\ Len(r.queue) = sent'[t] - got'[t]
         /\ \A i \in DOMAIN r.queue : r.queue[i] = got'[t] + i
         /\ r.finalized => r.queue = <<>> /\ r.closing
    BY <1>4, <1>5, <2>2, <2>3, <2>5, <2>7, <2>9, <2>11 DEF TsfnTyped
  <2>13. /\ TsfnOK' /\ tsfn'[t] = r
         /\ \A u \in Tsfns : u # t => tsfn'[u] = tsfn[u]
    BY <1>5, <2>5, <2>9, <2>10, <2>12, TsfnChanges
  <2>14. /\ HasPendingTsfn' /\ Len(tsfn'[t].queue) <= 1 /\ ~MayFinalize(t)'
    <3>1. ~tsfn'[t].closing
      BY <2>1, <2>9, <2>13, Zenon
    <3>2. tsfn'[t].queue = q
      BY <2>9, <2>13
    <3>3. HasPendingTsfn'
      BY <2>7, <3>2 DEF HasPendingTsfn
    <3>4. ~MayFinalize(t)'
      BY <3>1 DEF MayFinalize
    <3>5. Len(q) <= 1
      BY <2>7
    <3>6. Len(tsfn'[t].queue) <= 1
      BY <3>2, <3>5, Zenon
    <3> QED
      BY <3>3, <3>4, <3>6, Zenon
  <2> QED
    BY <1>1, <1>4, <2>13, <2>14, TsfnMethod
<1> QED
  BY <1>6, <1>7

\* A method that changes the thread count of t, or closes it.
LEMMA CountsThreads ==
  ASSUME IInv, InHost("method"), ThenDrain, NEW t \in Tsfns,
         UNCHANGED <<sent, got, workVars, finVars, pumpVars, argsOf>>,
         NEW r \in TsfnRecords, tsfn' = [tsfn EXCEPT ![t] = r],
         r.queue = tsfn[t].queue, r.finalized = tsfn[t].finalized,
         tsfn[t].closing => r.closing
  PROVE  IInv'
<1>1. Settled
  BY MethodEnds
<1>2. TsfnOK /\ TsfnTyped
  BY DEF IInv, TsfnOK
<1>3. tsfn[t].queue = <<>>
  BY <1>1 DEF Settled, WaitsFor
<1>4. /\ sent' \in [Tsfns -> Nat] /\ got' \in [Tsfns -> Nat]
      /\ \A u \in Tsfns : u # t => sent'[u] = sent[u] /\ got'[u] = got[u]
      /\ Len(r.queue) = sent'[t] - got'[t]
      /\ \A i \in DOMAIN r.queue : r.queue[i] = got'[t] + i
      /\ r.finalized => r.queue = <<>> /\ r.closing
  BY <1>2 DEF TsfnOK, TsfnTyped, TsfnDelivers, Ended
<1>5. /\ TsfnOK' /\ tsfn'[t] = r
      /\ \A u \in Tsfns : u # t => tsfn'[u] = tsfn[u]
  BY <1>2, <1>4, TsfnChanges
<1>6. WaitsFor(t)' => HasPendingTsfn'
  BY DEF WaitsFor, MayFinalize, HasPendingTsfn
<1>7. Len(tsfn'[t].queue) <= 1 /\ (tsfn'[t].queue # <<>> => ~MayFinalize(t)')
  BY <1>3, <1>5
<1>8. UNCHANGED <<workVars, finVars, pumpVars, argsOf>>
  OBVIOUS
<1> QED
  BY <1>5, <1>6, <1>7, <1>8, TsfnMethod

LEMMA AcquireTsfnKeeps ==
  ASSUME IInv, AcquireTsfn
  PROVE  IInv'
<1>1. InHost("method") /\ ThenDrain /\ InMethod("acquire")
  BY DEF AcquireTsfn, InMethod
<1>2. PICK t \in Tsfns : t = Top.arg
  BY <1>1, MethodArgs
<1>3. UNCHANGED <<sent, got, workVars, finVars, pumpVars, argsOf>>
  BY DEF AcquireTsfn
<1>4. TsfnTyped /\ tsfn[t] \in TsfnRecords /\ tsfn[t].threads \in Nat
  BY TsfnIsRecord DEF IInv, TsfnOK
<1>5. PICK r \in TsfnRecords :
        /\ tsfn' = [tsfn EXCEPT ![t] = r]
        /\ r.queue = tsfn[t].queue /\ r.finalized = tsfn[t].finalized
        /\ r.closing = tsfn[t].closing
  <2>1. CASE tsfn[t].closing
    <3>1. tsfn' = tsfn
      BY <1>2, <2>1 DEF AcquireTsfn
    <3>2. tsfn = [tsfn EXCEPT ![t] = tsfn[t]]
      BY <1>4 DEF TsfnTyped
    <3> QED
      BY <1>4, <3>1, <3>2
  <2>2. CASE ~tsfn[t].closing
    <3>1. PICK n \in Nat : n = tsfn[t].threads + 1
      BY <1>4
    <3>2. PICK r : r = [tsfn[t] EXCEPT !.threads = n]
      OBVIOUS
    <3>3. /\ r \in TsfnRecords
          /\ r.queue = tsfn[t].queue /\ r.finalized = tsfn[t].finalized
          /\ r.closing = tsfn[t].closing
      BY <1>4, <3>1, <3>2 DEF TsfnRecords
    <3>4. tsfn' = [tsfn EXCEPT ![t].threads = @ + 1]
      BY <1>2, <2>2, Zenon DEF AcquireTsfn
    <3>5. [tsfn EXCEPT ![t].threads = @ + 1] = [tsfn EXCEPT ![t] = r]
      BY <3>1, <3>2, Zenon
    <3>6. tsfn' = [tsfn EXCEPT ![t] = r]
      BY <3>4, <3>5, Zenon
    <3> QED
      BY <3>3, <3>6
  <2> QED
    BY <2>1, <2>2
<1> QED
  BY <1>1, <1>3, <1>5, CountsThreads

\* A release changes the thread count and closes the function, perhaps.
LEMMA ReleaseChanges ==
  ASSUME IInv, ReleaseTsfn
  PROVE  \E t \in Tsfns, r \in TsfnRecords :
           /\ t = Top.arg /\ tsfn' = [tsfn EXCEPT ![t] = r]
           /\ r.queue = tsfn[t].queue /\ r.finalized = tsfn[t].finalized
           /\ tsfn[t].closing => r.closing
<1>1. InMethod("release") \/ InMethod("abort")
  BY DEF ReleaseTsfn, InMethod
<1>2. PICK t \in Tsfns : t = Top.arg
  BY <1>1, MethodArgs
<1>4. TsfnTyped /\ tsfn[t] \in TsfnRecords /\ tsfn[t].threads \in Nat
  BY TsfnIsRecord DEF IInv, TsfnOK
<1>5. PICK n \in Nat : n = Released(tsfn[t].threads)
  BY <1>4 DEF Released
<1>6. PICK closes \in BOOLEAN : closes = (tsfn[t].closing \/ Top.op = "abort" \/ n <= 0)
  OBVIOUS
<1>7. PICK m : m = [tsfn[t] EXCEPT !.threads = n]
  OBVIOUS
<1>8. /\ m \in TsfnRecords
      /\ m.queue = tsfn[t].queue /\ m.finalized = tsfn[t].finalized
      /\ m.closing = tsfn[t].closing
  BY <1>4, <1>7 DEF TsfnRecords
<1>9. PICK r : r = [m EXCEPT !.closing = closes]
  OBVIOUS
<1>10. /\ r \in TsfnRecords
       /\ r.queue = tsfn[t].queue /\ r.finalized = tsfn[t].finalized
       /\ tsfn[t].closing => r.closing
  <2>1. r \in TsfnRecords /\ r.queue = m.queue /\ r.finalized = m.finalized /\ r.closing = closes
    BY <1>8, <1>9 DEF TsfnRecords
  <2>2. tsfn[t].closing => closes
    BY <1>6, Zenon
  <2> QED
    BY <1>8, <2>1, <2>2
<1>11. tsfn' = [tsfn EXCEPT ![t] = r]
  <2>1. tsfn' = [tsfn EXCEPT ![t].threads = n,
                              ![t].closing = tsfn[t].closing \/ Top.op = "abort" \/ n <= 0]
    BY <1>2, <1>5, Zenon DEF ReleaseTsfn
  <2>2. tsfn' = [tsfn EXCEPT ![t].threads = n, ![t].closing = closes]
    BY <1>6, <2>1, Zenon
  <2>3. t \in DOMAIN tsfn
    BY <1>4 DEF TsfnTyped
  <2>4. [tsfn EXCEPT ![t].threads = n, ![t].closing = closes] = [tsfn EXCEPT ![t] = r]
    BY <1>7, <1>9, <2>3, Zenon
  <2> QED
    BY <2>2, <2>4, Zenon
<1> QED
  BY <1>2, <1>10, <1>11

LEMMA ReleaseTsfnKeeps ==
  ASSUME IInv, ReleaseTsfn
  PROVE  IInv'
<1>1. InHost("method") /\ ThenDrain
  BY DEF ReleaseTsfn, InMethod
<1>2. UNCHANGED <<sent, got, workVars, finVars, pumpVars, argsOf>>
  BY DEF ReleaseTsfn
<1>3. PICK t \in Tsfns, r \in TsfnRecords :
        /\ tsfn' = [tsfn EXCEPT ![t] = r]
        /\ r.queue = tsfn[t].queue /\ r.finalized = tsfn[t].finalized
        /\ tsfn[t].closing => r.closing
  BY ReleaseChanges
<1> QED
  BY <1>1, <1>2, <1>3, CountsThreads

\* A method that touches the finalizers only.
LEMMA FinMethod ==
  ASSUME IInv, InHost("method"), ThenDrain,
         UNCHANGED <<draining, drainScheduled, workVars, tsfnVars, pumpVars, argsOf>>,
         Kept(DrainFrames) => FinOK'
  PROVE  IInv'
<1>1. Settled /\ Calm
  BY MethodEnds
<1>2. FinOK'
  BY <1>1 DEF Calm
<1>3. argsOf' \in Nat
  BY DEF IInv
<1> QED
  BY <1>1, <1>2, <1>3, OnlyFinalizers DEF Calm

LEMMA PostFinalizerKeeps ==
  ASSUME IInv, PostFinalizer
  PROVE  IInv'
<1>1. InHost("method") /\ ThenDrain /\ InMethod("post")
  BY DEF PostFinalizer, InMethod
<1>2. PICK f \in Finalizers : f = Top.arg
  BY <1>1, MethodArgs
<1>3. UNCHANGED <<draining, drainScheduled, workVars, tsfnVars, pumpVars, argsOf>>
  BY DEF PostFinalizer
<1>4. FinOK /\ drainScheduled \in BOOLEAN
  BY DEF IInv, FinOK, FinTyped
<1>5. ASSUME Kept(DrainFrames) PROVE FinOK'
  <2>1. CASE fin[f] # "unused"
    <3>1. UNCHANGED finVars
      BY <1>2, <1>3, <2>1 DEF PostFinalizer, finVars
    <3> QED
      BY <1>4, <1>5, <3>1, FinStays
  <2>2. CASE fin[f] = "unused"
    <3>1. PICK state \in {"posted", "collected"} : state = "posted"
      OBVIOUS
    <3>2. /\ fin' = [fin EXCEPT ![f] = state] /\ posted' = Append(posted, f)
          /\ postedPending' = TRUE
      BY <1>2, <2>2, <3>1 DEF PostFinalizer
    <3>3. /\ draining' = draining /\ drainScheduled' \in BOOLEAN
          /\ drainScheduled => drainScheduled'
      BY <1>3, <1>4
    <3>4. fin[f] \in {"unused", "live"} /\ (state = "collected" => drainScheduled')
      BY <2>2, <3>1
    <3> QED
      BY <1>4, <1>5, <3>2, <3>3, <3>4, Posts
  <2> QED
    BY <2>1, <2>2
<1> QED
  BY <1>1, <1>3, <1>5, FinMethod

\* A finalizer is registered or given up; it is not collected by this.
LEMMA Marks ==
  ASSUME FinOK, NEW f \in Finalizers, Kept(DrainFrames),
         UNCHANGED <<posted, postedPending, draining, drainScheduled>>,
         \/ fin' = fin
         \/ fin[f] = "unused" /\ fin' = [fin EXCEPT ![f] = "live"]
         \/ fin' = [fin EXCEPT ![f] = "cancelled"]
  PROVE  FinOK'
<1>1. FinTyped /\ PostedOnce /\ DrainComes /\ OneDrain
  BY DEF FinOK
<1>2. FinTyped' /\ OneDrain'
  BY <1>1 DEF FinTyped, OneDrain, Kept
<1>3. /\ \A g \in Finalizers : g # f => fin'[g] = fin[g]
      /\ fin'[f] = fin[f] \/ fin'[f] = "cancelled" \/ (fin[f] = "unused" /\ fin'[f] = "live")
  BY <1>1 DEF FinTyped
<1>4. \A i \in 1 .. Len(posted) : posted[i] \in Finalizers /\ fin[posted[i]] # "unused"
  BY <1>1 DEF FinTyped, PostedOnce
<1>5. PostedOnce'
  <2>1. \A i \in 1 .. Len(posted) : fin'[posted[i]] \in {"posted", "collected", "cancelled"}
    <3> TAKE i \in 1 .. Len(posted)
    <3>1. fin[posted[i]] \in {"posted", "collected", "cancelled"}
      BY <1>1 DEF PostedOnce
    <3> QED
      BY <1>3, <1>4, <3>1
  <2> QED
    BY <1>1, <2>1 DEF PostedOnce
<1>6. \A g \in Objects : fin'[g] = "collected" => fin[g] = "collected"
  BY <1>3 DEF Finalizers
<1>7. DrainComes'
  BY <1>1, <1>6 DEF DrainComes
<1> QED
  BY <1>2, <1>5, <1>7 DEF FinOK

LEMMA RegisterFinalizerKeeps ==
  ASSUME IInv, RegisterFinalizer
  PROVE  IInv'
<1>1. InHost("method") /\ ThenDrain /\ InMethod("wrap")
  BY DEF RegisterFinalizer, InMethod
<1>2. PICK f \in Finalizers : f = Top.arg
  BY <1>1, MethodArgs
<1>3. /\ UNCHANGED <<draining, drainScheduled, workVars, tsfnVars, pumpVars, argsOf>>
      /\ UNCHANGED <<posted, postedPending, draining, drainScheduled>>
  BY DEF RegisterFinalizer
<1>4. FinOK
  BY DEF IInv
<1>5. \/ fin' = fin
      \/ fin[f] = "unused" /\ fin' = [fin EXCEPT ![f] = "live"]
      \/ fin' = [fin EXCEPT ![f] = "cancelled"]
  BY <1>2 DEF RegisterFinalizer
<1> QED
  BY <1>1, <1>3, <1>4, <1>5, Marks, FinMethod

LEMMA CancelFinalizerKeeps ==
  ASSUME IInv, CancelFinalizer
  PROVE  IInv'
<1>1. InHost("method") /\ ThenDrain /\ InMethod("unwrap")
  BY DEF CancelFinalizer, InMethod
<1>2. PICK f \in Finalizers : f = Top.arg
  BY <1>1, MethodArgs
<1>3. /\ UNCHANGED <<draining, drainScheduled, workVars, tsfnVars, pumpVars, argsOf>>
      /\ UNCHANGED <<posted, postedPending, draining, drainScheduled>>
  BY DEF CancelFinalizer
<1>4. FinOK
  BY DEF IInv
<1>5. \/ fin' = fin
      \/ fin[f] = "unused" /\ fin' = [fin EXCEPT ![f] = "live"]
      \/ fin' = [fin EXCEPT ![f] = "cancelled"]
  BY <1>2 DEF CancelFinalizer
<1> QED
  BY <1>1, <1>3, <1>4, <1>5, Marks, FinMethod

\* A method that touches the promises only.
LEMMA PumpMethod ==
  ASSUME IInv, InHost("method"), ThenDrain,
         UNCHANGED <<workVars, tsfnVars, finVars, argsOf>>,
         Kept(PumpFrames) => PumpOK'
  PROVE  IInv'
<1>1. Settled /\ Calm
  BY MethodEnds
<1>2. WorkOK' /\ TsfnOK' /\ FinOK' /\ PumpOK'
  BY <1>1, WorkStays, TsfnStays, FinStays DEF IInv, Calm
<1>3. OneWaits'
  BY <1>1, SettledStays DEF OneWaits, workVars, tsfnVars
<1>4. argsOf' \in Nat
  BY DEF IInv
<1> QED
  BY <1>1, <1>2, <1>3, <1>4 DEF IInv, Calm

LEMMA CreatePromiseKeeps ==
  ASSUME IInv, CreatePromise
  PROVE  IInv'
<1>1. InHost("method") /\ ThenDrain
  BY DEF CreatePromise, InMethod
<1>2. UNCHANGED <<workVars, tsfnVars, finVars, argsOf>>
  BY DEF CreatePromise
<1>3. PumpTyped /\ PumpCounted /\ CountIn(stack, PumpFrames) \in Nat
  BY CountsAreNat DEF IInv, PumpOK
<1>4. ASSUME Kept(PumpFrames) PROVE PumpOK'
  <2>1. /\ outstanding' = outstanding + 1 /\ deferreds' = deferreds + 1
        /\ reactions' = reactions /\ pumpScheduled' = TRUE
        /\ pumpsQueued' = IF pumpScheduled THEN pumpsQueued ELSE pumpsQueued + 1
    BY DEF CreatePromise
  <2>2. PumpTyped'
    BY <1>3, <2>1 DEF PumpTyped
  <2>3. pumpsQueued' + CountIn(stack', PumpFrames) = 1
    BY <1>3, <1>4, <2>1 DEF PumpTyped, PumpCounted, Kept
  <2>4. outstanding' = deferreds' + reactions'
    BY <1>3, <2>1 DEF PumpTyped, PumpCounted
  <2> QED
    BY <2>1, <2>2, <2>3, <2>4 DEF PumpOK, PumpCounted
<1> QED
  BY <1>1, <1>2, <1>4, PumpMethod

LEMMA SettleDeferredKeeps ==
  ASSUME IInv, SettleDeferred
  PROVE  IInv'
<1>1. InHost("method") /\ ThenDrain
  BY DEF SettleDeferred, InMethod
<1>2. UNCHANGED <<workVars, tsfnVars, finVars, argsOf>>
  BY DEF SettleDeferred
<1>3. PumpTyped /\ PumpCounted /\ CountIn(stack, PumpFrames) \in Nat
  BY CountsAreNat DEF IInv, PumpOK
<1>4. ASSUME Kept(PumpFrames) PROVE PumpOK'
  <2>1. /\ UNCHANGED <<outstanding, pumpScheduled, pumpsQueued>>
        /\ \/ deferreds > 0 /\ deferreds' = deferreds - 1 /\ reactions' = reactions + 1
           \/ deferreds' = deferreds /\ reactions' = reactions
    BY DEF SettleDeferred
  <2>2. PumpTyped'
    BY <1>3, <2>1 DEF PumpTyped
  <2>3. outstanding' = deferreds' + reactions'
    BY <1>3, <2>1 DEF PumpTyped, PumpCounted
  <2> QED
    BY <1>3, <1>4, <2>1, <2>2, <2>3 DEF PumpOK, PumpCounted, Kept
<1> QED
  BY <1>1, <1>2, <1>4, PumpMethod

-----------------------------------------------------------------------------
(* The drains of work and of thread-safe functions.                        *)

LEMMA RunWorkKeeps ==
  ASSUME IInv, RunWork
  PROVE  IInv'
<1>1. InHost("async") /\ asyncQueue # <<>>
  BY DEF RunWork
<1>2. stack # <<>> /\ Stacked(stack) /\ Top \in Frames /\ Top.phase = "async"
  BY <1>1, InHostFacts DEF IInv
<1>3. /\ UNCHANGED <<asked, tsfnVars, finVars, pumpVars, argsOf>>
      /\ asyncQueue' = Tail(asyncQueue)
  BY DEF RunWork
<1>4. WorkWaits
  BY <1>1 DEF IInv, OneWaits, Settled, TsfnWaits
<1>5. /\ Top.kind = "dispatch" /\ Len(asyncQueue) = 1
      /\ \A t \in Tsfns : ~WaitsFor(t)
  BY <1>4 DEF WorkWaits, Draining
<1>6. WorkTyped /\ Conserved
  BY DEF IInv, WorkOK
<1>7. PICK x \in Items : x = asyncQueue[1]
  <2>1. asyncQueue \in Seq(Items)
    BY <1>6 DEF WorkTyped
  <2>2. asyncQueue[1] \in Items
    BY <1>5, <2>1
  <2> QED
    BY <2>2
<1>8. asyncQueue' = <<>> /\ Head(asyncQueue) = x /\ asyncQueue = Append(<<>>, x)
  <2>1. asyncQueue \in Seq(Items)
    BY <1>6 DEF WorkTyped
  <2>2. Tail(asyncQueue) = <<>> /\ Head(asyncQueue) = x
    <3>1. Tail(asyncQueue) \in Seq(Items) /\ Len(Tail(asyncQueue)) = Len(asyncQueue) - 1
      BY <1>1, <2>1, HeadTailProperties
    <3>2. Len(Tail(asyncQueue)) = 0
      BY <1>5, <3>1
    <3>3. Tail(asyncQueue) = <<>>
      <4>1. PICK s \in Seq(Items) : s = Tail(asyncQueue)
        BY <3>1
      <4>2. Len(s) = 0
        BY <3>2, <4>1
      <4>3. s = <<>>
        BY <4>2, EmptySeq
      <4> QED
        BY <4>1, <4>3
    <3>4. Head(asyncQueue) = asyncQueue[1]
      BY <1>1, <2>1
    <3> QED
      BY <1>7, <3>3, <3>4
  <2>3. PICK y : y = Append(<<>>, x)
    OBVIOUS
  <2>4. y \in Seq(Items) /\ Len(y) = 1 /\ y[1] = x
    BY <2>3
  <2>5. \A i \in 1 .. Len(asyncQueue) : asyncQueue[i] = y[i]
    BY <1>5, <1>7, <2>4
  <2>6. asyncQueue = y
    BY <1>5, <2>1, <2>4, <2>5, SeqEqual
  <2> QED
    BY <1>3, <2>2, <2>3, <2>6
<1>9. /\ x.type \in {"execute", "complete"} /\ x.work \in Works
      /\ Push(Guest(x.type, x.work))
      /\ done' = IF x.type = "complete" THEN [done EXCEPT ![x.work] = @ + 1] ELSE done
  BY <1>7, <1>8 DEF RunWork, Items
<1>10. x.type \in GuestKinds /\ x.work \in Args
  BY <1>9 DEF GuestKinds, Args
<1>11. PICK g \in Frames : /\ g = Guest(x.type, x.work) /\ Fits(g)
                           /\ g.kind = x.type /\ g.arg = x.work /\ g.phase = "run"
  BY <1>9, <1>10, GuestFrame
<1>12. Placed(stack, g)
  BY <1>2, <1>5, <1>9, <1>11 DEF Placed, Rests, Top, Depth
<1>13. Entered(g)
  BY <1>2, <1>9, <1>11, <1>12, Enter
<1>14. /\ One(g, PumpFrames) = 0 /\ One(g, DrainFrames) = 0
       /\ \A w \in Works : One(g, ExecuteFrames(w))
                             = IF x.type = "execute" /\ x.work = w THEN 1 ELSE 0
  BY <1>9, <1>11, Weights
<1>15. /\ CountIn(stack, PumpFrames) \in Nat /\ CountIn(stack, DrainFrames) \in Nat
       /\ \A w \in Works : CountIn(stack, ExecuteFrames(w)) \in Nat
  BY <1>2, CountsAreNat
<1>16. /\ CountIn(stack', PumpFrames) = CountIn(stack, PumpFrames) + One(g, PumpFrames)
       /\ CountIn(stack', DrainFrames) = CountIn(stack, DrainFrames) + One(g, DrainFrames)
       /\ \A w \in Works : CountIn(stack', ExecuteFrames(w))
                             = CountIn(stack, ExecuteFrames(w)) + One(g, ExecuteFrames(w))
  BY <1>13, Countable DEF Entered
<1>17. Kept(PumpFrames) /\ Kept(DrainFrames)
  BY <1>14, <1>15, <1>16 DEF Kept
<1>18. TsfnOK' /\ FinOK' /\ PumpOK'
  BY <1>3, <1>17, TsfnStays, FinStays, PumpStays DEF IInv
<1>19. /\ done' \in [Works -> Nat]
       /\ \A w \in Works : done'[w]
            = done[w] + IF x.type = "complete" /\ x.work = w THEN 1 ELSE 0
  <2>1. done \in [Works -> Nat]
    BY <1>6 DEF WorkTyped
  <2>2. CASE x.type = "complete"
    BY <1>9, <2>1, <2>2
  <2>3. CASE x.type # "complete"
    BY <1>9, <2>1, <2>3
  <2> QED
    BY <2>2, <2>3
<1>20. WorkTyped'
  <2>1. <<>> \in Seq(Items)
    OBVIOUS
  <2> QED
    BY <1>3, <1>6, <1>8, <1>19, <2>1 DEF WorkTyped
<1>21. Conserved'
  <2>1. ASSUME NEW w \in Works
        PROVE  asked'[w] = done'[w]
                 + Cardinality({i \in DOMAIN asyncQueue' : asyncQueue'[i].work = w})
                 + CountIn(stack', ExecuteFrames(w))
    <3>1. Cardinality({i \in DOMAIN asyncQueue : asyncQueue[i].work = w})
            = IF x.work = w THEN 1 ELSE 0
      BY <1>8, QueueOfOne
    <3>2. asked[w] = done[w] + (IF x.work = w THEN 1 ELSE 0)
                       + CountIn(stack, ExecuteFrames(w))
      BY <1>6, <3>1 DEF Conserved
    <3>3. asked[w] \in Nat /\ done[w] \in Nat
      BY <1>6 DEF WorkTyped
    <3>4. Cardinality({i \in DOMAIN asyncQueue' : asyncQueue'[i].work = w}) = 0
      BY <1>8, QueueOfNone
    <3>5. done'[w] = done[w] + IF x.type = "complete" /\ x.work = w THEN 1 ELSE 0
      BY <1>19
    <3>6. CountIn(stack', ExecuteFrames(w)) = CountIn(stack, ExecuteFrames(w))
            + IF x.type = "execute" /\ x.work = w THEN 1 ELSE 0
      BY <1>14, <1>16
    <3>7. asked'[w] = asked[w]
      BY <1>3
    <3> QED
      BY <1>9, <1>15, <3>2, <3>3, <3>4, <3>5, <3>6, <3>7
  <2> QED
    BY <2>1 DEF Conserved
<1>22. OneWaits'
  <2>1. \A t \in Tsfns : ~WaitsFor(t)'
    BY <1>3, <1>5 DEF WaitsFor, MayFinalize, tsfnVars
  <2> QED
    BY <1>8, <2>1 DEF OneWaits, Settled
<1>23. argsOf' \in Nat /\ Stacked(stack')
  BY <1>3, <1>13 DEF IInv, Entered
<1> QED
  BY <1>18, <1>20, <1>21, <1>22, <1>23 DEF IInv, WorkOK

\* A frame of the host that has nothing left to drain leaves.
LEMMA EndKeeps ==
  ASSUME IInv, NEW p \in {"async", "tsfn"}, InHost(p), Settled, End,
         UNCHANGED <<outstanding, deferreds, reactions, pumpScheduled>>,
         UNCHANGED <<workVars, tsfnVars, finVars, argsOf>>
  PROVE  IInv'
<1>1. /\ stack # <<>> /\ Stacked(stack) /\ Top \in Frames /\ Top.phase = p
      /\ Top.kind \in HostKinds
  BY InHostFacts DEF IInv
<1>2. Left
  BY <1>1, Leave DEF End
<1>3. /\ One(Top, PumpFrames) = IF Top.kind = "pump" THEN 1 ELSE 0
      /\ One(Top, DrainFrames) = 0
      /\ \A w \in Works : One(Top, ExecuteFrames(w)) = 0
  <2>1. Top.kind # "execute"
    BY <1>1 DEF HostKinds
  <2> QED
    BY <1>1, <2>1, Weights
<1>4. /\ CountIn(stack, PumpFrames) \in Nat /\ CountIn(stack, DrainFrames) \in Nat
      /\ \A w \in Works : CountIn(stack, ExecuteFrames(w)) \in Nat
  BY <1>1, CountsAreNat
<1>5. /\ CountIn(stack', PumpFrames) = CountIn(stack, PumpFrames) - One(Top, PumpFrames)
      /\ CountIn(stack', DrainFrames) = CountIn(stack, DrainFrames) - One(Top, DrainFrames)
      /\ \A w \in Works : CountIn(stack', ExecuteFrames(w))
                            = CountIn(stack, ExecuteFrames(w)) - One(Top, ExecuteFrames(w))
  BY <1>2, Countable DEF Left
<1>6. Kept(DrainFrames) /\ ExecutesKept
  BY <1>3, <1>4, <1>5 DEF Kept, ExecutesKept
<1>7. WorkOK' /\ TsfnOK' /\ FinOK'
  BY <1>6, WorkStays, TsfnStays, FinStays DEF IInv
<1>8. PumpOK'
  <2>1. PumpTyped /\ PumpCounted
    BY DEF IInv, PumpOK
  <2>2. pumpsQueued' = IF Top.kind = "pump" THEN pumpsQueued + 1 ELSE pumpsQueued
    BY DEF End
  <2>3. pumpsQueued' \in Nat
    BY <2>1, <2>2 DEF PumpTyped
  <2>4. pumpsQueued' + CountIn(stack', PumpFrames) = pumpsQueued + CountIn(stack, PumpFrames)
    BY <1>3, <1>4, <1>5, <2>1, <2>2 DEF PumpTyped
  <2>5. PumpTyped'
    BY <2>1, <2>3 DEF PumpTyped
  <2> QED
    BY <2>1, <2>4, <2>5 DEF PumpOK, PumpCounted
<1>9. OneWaits'
  BY SettledStays DEF OneWaits, workVars, tsfnVars
<1>10. argsOf' \in Nat /\ Stacked(stack')
  BY <1>2 DEF IInv, Left
<1> QED
  BY <1>7, <1>8, <1>9, <1>10 DEF IInv

\* The loop over the thread-safe functions goes to n, and passes none that
\* waits.
LEMMA LoopKeeps ==
  ASSUME IInv, NEW p \in {"async", "tsfn"}, InHost(p), NEW n \in Nat,
         GoTo("tsfn", n), asyncQueue = <<>>,
         \A t \in Tsfns : WaitsFor(t) => n <= t,
         UNCHANGED <<workVars, tsfnVars, finVars, pumpVars, argsOf>>
  PROVE  IInv'
<1>1. /\ stack # <<>> /\ Stacked(stack) /\ Top \in Frames /\ Fits(Top) /\ Top.phase = p
      /\ Top.kind \in HostKinds
  BY InHostFacts DEF IInv
<1>2. Top.kind \in {"dispatch", "pump"} /\ "tsfn" \in Phases
  BY <1>1 DEF Fits, HostKinds, Phases
<1>3. PICK f \in Frames : Turned(f) /\ Same(f, Top) /\ f.phase = "tsfn" /\ f.n = n
  BY <1>1, <1>2, Go
<1>4. Calm
  BY <1>1, <1>3, CalmTurn
<1>5. OneWaits'
  <2>1. CASE Settled
    BY <2>1, SettledStays DEF OneWaits, workVars, tsfnVars
  <2>2. CASE ~Settled
    <3>1. PICK t \in Tsfns : TsfnWaits(t)
      BY <2>2 DEF IInv, OneWaits, WorkWaits
    <3>2. WaitsFor(t)
      BY <2>2, <3>1 DEF Settled, TsfnWaits
    <3>3. stack' # <<>> /\ Top'.kind = "dispatch" /\ Top'.phase = "tsfn" /\ Top'.n <= t
      BY <1>3, <3>1, <3>2 DEF TsfnWaits, Draining, Turned, Same
    <3>4. asyncQueue' = asyncQueue /\ tsfn' = tsfn
      BY DEF workVars, tsfnVars
    <3>5. TsfnWaits(t)'
      BY <3>1, <3>3, <3>4 DEF TsfnWaits, Draining, WaitsFor, MayFinalize
    <3> QED
      BY <3>5 DEF OneWaits
  <2> QED
    BY <2>1, <2>2
<1>6. argsOf' \in Nat
  BY DEF IInv
<1> QED
  BY <1>4, <1>5, <1>6, OnlyMoves

LEMMA AfterAsyncKeeps ==
  ASSUME IInv, AfterAsync
  PROVE  IInv'
<1>1. InHost("async") /\ asyncQueue = <<>>
  BY DEF AfterAsync
<1>2. /\ UNCHANGED <<outstanding, deferreds, reactions, pumpScheduled>>
      /\ UNCHANGED <<workVars, tsfnVars, finVars, argsOf>>
  BY DEF AfterAsync
<1>3. CASE HasPendingTsfn
  <2>1. GoTo("tsfn", 1) /\ UNCHANGED pumpVars
    BY <1>2, <1>3 DEF AfterAsync, EndAsync, pumpVars
  <2>2. \A t \in Tsfns : WaitsFor(t) => 1 <= t
    BY NapiAsyncAssumption DEF Tsfns
  <2> QED
    BY <1>1, <1>2, <2>1, <2>2, LoopKeeps
<1>4. CASE ~HasPendingTsfn
  <2>1. End
    BY <1>4 DEF AfterAsync, EndAsync
  <2>2. Settled
    BY <1>1, <1>4 DEF Settled, HasPendingTsfn, WaitsFor, MayFinalize
  <2> QED
    BY <1>1, <1>2, <2>1, <2>2, EndKeeps
<1> QED
  BY <1>3, <1>4

LEMMA NextTsfnKeeps ==
  ASSUME IInv, NextTsfn
  PROVE  IInv'
<1>1. /\ InHost("tsfn") /\ Top.n \in Tsfns /\ ~WaitsFor(Top.n)
      /\ Top.phase = "tsfn"
  BY DEF NextTsfn, WaitsFor, InHost
<1>2. /\ UNCHANGED <<outstanding, deferreds, reactions, pumpScheduled>>
      /\ UNCHANGED <<workVars, tsfnVars, finVars, argsOf>>
  BY DEF NextTsfn
<1>3. asyncQueue = <<>>
  BY <1>1 DEF IInv, OneWaits, Settled, WorkWaits, Draining, TsfnWaits
<1>4. \A t \in Tsfns : WaitsFor(t) => Top.n <= t /\ t # Top.n
  <2> TAKE t \in Tsfns
  <2> HAVE WaitsFor(t)
  <2>1. \E u \in Tsfns : TsfnWaits(u)
    BY <1>3 DEF IInv, OneWaits, Settled, WorkWaits
  <2>2. TsfnWaits(t)
    BY <2>1 DEF TsfnWaits
  <2> QED
    BY <1>1, <2>2 DEF TsfnWaits
<1>5. Tsfns = 1 .. NumTsfns /\ NumTsfns \in Nat
  BY NapiAsyncAssumption DEF Tsfns
<1>6. CASE Top.n = NumTsfns
  <2>1. Settled
    BY <1>1, <1>3, <1>4, <1>5, <1>6 DEF Settled
  <2>2. End
    BY <1>6 DEF NextTsfn
  <2> QED
    BY <1>1, <1>2, <2>1, <2>2, EndKeeps
<1>7. CASE Top.n # NumTsfns
  <2>1. PICK n \in Nat : n = Top.n + 1
    BY <1>1, <1>5
  <2>2. GoTo("tsfn", n) /\ UNCHANGED pumpVars
    BY <1>2, <1>7, <2>1 DEF NextTsfn, pumpVars
  <2>3. \A t \in Tsfns : WaitsFor(t) => n <= t
    BY <1>1, <1>4, <1>5, <2>1
  <2> QED
    BY <1>1, <1>2, <1>3, <2>2, <2>3, LoopKeeps
<1> QED
  BY <1>6, <1>7

LEMMA DeliverTsfnKeeps ==
  ASSUME IInv, DeliverTsfn
  PROVE  IInv'
<1>1. InHost("tsfn") /\ Top.n \in Tsfns /\ tsfn[Top.n].queue # <<>>
  BY DEF DeliverTsfn
<1>2. PICK t \in Tsfns : t = Top.n
  BY <1>1
<1>3. stack # <<>> /\ Stacked(stack) /\ Top \in Frames /\ Top.phase = "tsfn"
  BY <1>1, InHostFacts DEF IInv
<1>4. UNCHANGED <<sent, workVars, finVars, pumpVars, argsOf>>
  BY DEF DeliverTsfn
<1>5. WaitsFor(t)
  BY <1>1, <1>2 DEF WaitsFor
<1>6. TsfnWaits(t)
  <2>1. PICK u \in Tsfns : TsfnWaits(u)
    BY <1>5 DEF IInv, OneWaits, Settled, WorkWaits
  <2>2. u = t
    BY <1>5, <2>1 DEF TsfnWaits
  <2> QED
    BY <2>1, <2>2
<1>7. /\ asyncQueue = <<>> /\ Top.kind = "dispatch"
      /\ Len(tsfn[t].queue) <= 1 /\ ~MayFinalize(t)
      /\ \A u \in Tsfns : u # t => ~WaitsFor(u)
  BY <1>1, <1>2, <1>6 DEF TsfnWaits, Draining
<1>8. TsfnOK /\ TsfnTyped
  BY DEF IInv, TsfnOK
<1>9. /\ tsfn[t] \in TsfnRecords /\ tsfn[t].queue \in Seq(Nat)
      /\ sent[t] \in Nat /\ got[t] \in Nat
  BY <1>8, TsfnIsRecord
<1>10. PICK q \in Seq(Nat) : q = tsfn[t].queue
  BY <1>9
<1>11. /\ q # <<>> /\ Len(q) = 1 /\ Head(q) = got[t] + 1 /\ sent[t] = got[t] + 1
  <2>1. q # <<>> /\ Len(q) <= 1
    BY <1>1, <1>2, <1>7, <1>10
  <2>2. Len(q) = 1 /\ Head(q) = q[1] /\ 1 \in DOMAIN q
    <3>1. ASSUME NEW s \in Seq(Nat), s # <<>>, Len(s) <= 1
          PROVE  Len(s) = 1 /\ Head(s) = s[1] /\ 1 \in DOMAIN s
      <4>1. Len(s) \in Nat \ {0} /\ Head(s) = s[1]
        BY <3>1
      <4>2. DOMAIN s = 1 .. Len(s)
        BY <3>1
      <4>3. Len(s) = 1
        <5>1. PICK n \in Nat : n = Len(s)
          BY <4>1
        <5>2. n # 0 /\ n <= 1
          BY <3>1, <4>1, <5>1
        <5> QED
          BY <5>1, <5>2
      <4> QED
        BY <4>1, <4>2, <4>3
    <3> QED
      BY <2>1, <3>1
  <2>3. Len(q) = sent[t] - got[t] /\ \A i \in DOMAIN q : q[i] = got[t] + i
    BY <1>8, <1>10 DEF TsfnOK, TsfnDelivers
  <2>4. q[1] = got[t] + 1
    BY <2>2, <2>3
  <2> QED
    BY <1>9, <2>1, <2>2, <2>3, <2>4
<1>12. Tail(q) = <<>>
  <2>1. Tail(q) \in Seq(Nat) /\ Len(Tail(q)) = Len(q) - 1
    BY <1>11, HeadTailProperties
  <2>2. PICK s \in Seq(Nat) : s = Tail(q)
    BY <2>1
  <2>3. Len(s) = 0
    BY <1>11, <2>1, <2>2
  <2>4. s = <<>>
    BY <2>3, EmptySeq
  <2> QED
    BY <2>2, <2>4
<1>13. PICK r : r = [tsfn[t] EXCEPT !.queue = <<>>]
  OBVIOUS
<1>14. /\ r \in TsfnRecords /\ r.queue = <<>> /\ r.threads = tsfn[t].threads
       /\ r.closing = tsfn[t].closing /\ r.finalized = tsfn[t].finalized
  <2>1. PICK e \in Seq(Nat) : e = <<>>
    BY EmptySeq
  <2>2. r = [tsfn[t] EXCEPT !.queue = e]
    BY <1>13, <2>1
  <2> QED
    BY <1>9, <2>1, <2>2 DEF TsfnRecords
<1>15. tsfn' = [tsfn EXCEPT ![t] = r]
  <2>1. tsfn' = [tsfn EXCEPT ![t].queue = Tail(@)]
    BY <1>2, Zenon DEF DeliverTsfn
  <2>2. [tsfn EXCEPT ![t].queue = Tail(@)] = [tsfn EXCEPT ![t] = r]
    BY <1>10, <1>12, <1>13, Zenon
  <2> QED
    BY <2>1, <2>2, Zenon
<1>16. /\ got' \in [Tsfns -> Nat] /\ got'[t] = got[t] + 1
       /\ \A u \in Tsfns : u # t => got'[u] = got[u]
  <2>1. got' = [got EXCEPT ![t] = got[t] + 1]
    BY <1>2, <1>10, <1>11 DEF DeliverTsfn
  <2> QED
    BY <1>8, <1>9, <2>1 DEF TsfnTyped
<1>17. /\ sent' \in [Tsfns -> Nat]
       /\ \A u \in Tsfns : u # t => sent'[u] = sent[u] /\ got'[u] = got[u]
       /\ Len(r.queue) = sent'[t] - got'[t]
       /\ \A i \in DOMAIN r.queue : r.queue[i] = got'[t] + i
       /\ r.finalized => r.queue = <<>> /\ r.closing
  BY <1>4, <1>8, <1>9, <1>11, <1>14, <1>16 DEF TsfnOK, TsfnTyped, Ended
<1>18. /\ TsfnOK' /\ tsfn'[t] = r
       /\ \A u \in Tsfns : u # t => tsfn'[u] = tsfn[u]
  BY <1>8, <1>14, <1>15, <1>16, <1>17, TsfnChanges
<1>19. Settled'
  <2>1. asyncQueue' = <<>>
    BY <1>4, <1>7 DEF workVars
  <2>2. ~WaitsFor(t)'
    BY <1>7, <1>14, <1>18 DEF WaitsFor, MayFinalize
  <2>3. \A u \in Tsfns : u # t => ~WaitsFor(u)'
    BY <1>7, <1>18 DEF WaitsFor, MayFinalize
  <2> QED
    BY <2>1, <2>2, <2>3 DEF Settled
<1>20. PICK kind \in {"jsfn", "call_js"} : Push(Guest(kind, t))
  BY <1>2 DEF DeliverTsfn
<1>21. kind \in GuestKinds /\ t \in Args /\ kind \notin {"execute", "complete"}
  BY DEF GuestKinds, Args
<1>22. PICK g \in Frames : /\ g = Guest(kind, t) /\ Fits(g)
                           /\ g.kind = kind /\ g.phase = "run"
  BY <1>21, GuestFrame
<1>23. Placed(stack, g)
  BY <1>3, <1>7, <1>22 DEF Placed, Rests, Top, Depth
<1>24. Calm
  BY <1>3, <1>20, <1>22, <1>23, Enter, CalmEnter
<1>25. WorkOK' /\ FinOK' /\ PumpOK'
  BY <1>4, <1>24, WorkStays, FinStays, PumpStays DEF IInv, Calm
<1>26. argsOf' \in Nat /\ OneWaits'
  BY <1>4, <1>19 DEF IInv, OneWaits
<1> QED
  BY <1>18, <1>24, <1>25, <1>26 DEF IInv, Calm

LEMMA FinalizeTsfnKeeps ==
  ASSUME IInv, FinalizeTsfn
  PROVE  IInv'
<1>1. /\ InHost("tsfn") /\ Top.n \in Tsfns
      /\ tsfn[Top.n].queue = <<>> /\ MayFinalize(Top.n)
  BY DEF FinalizeTsfn
<1>2. PICK t \in Tsfns : t = Top.n
  BY <1>1
<1>3. stack # <<>> /\ Stacked(stack) /\ Top \in Frames /\ Top.phase = "tsfn"
  BY <1>1, InHostFacts DEF IInv
<1>4. UNCHANGED <<sent, got, workVars, finVars, pumpVars, argsOf>>
  BY DEF FinalizeTsfn
<1>5. WaitsFor(t)
  BY <1>1, <1>2 DEF WaitsFor
<1>6. asyncQueue = <<>> /\ \A u \in Tsfns : u # t => ~WaitsFor(u)
  <2>1. PICK u \in Tsfns : TsfnWaits(u)
    BY <1>5 DEF IInv, OneWaits, Settled, WorkWaits
  <2> QED
    BY <1>5, <2>1 DEF TsfnWaits
<1>7. TsfnOK /\ TsfnTyped
  BY DEF IInv, TsfnOK
<1>8. tsfn[t] \in TsfnRecords /\ tsfn[t].queue = <<>> /\ tsfn[t].closing
  BY <1>1, <1>2, <1>7, TsfnIsRecord DEF MayFinalize
<1>9. PICK r : r = [tsfn[t] EXCEPT !.finalized = TRUE]
  OBVIOUS
<1>10. /\ r \in TsfnRecords /\ r.queue = <<>> /\ r.closing = tsfn[t].closing
       /\ r.finalized
  BY <1>8, <1>9 DEF TsfnRecords
<1>11. tsfn' = [tsfn EXCEPT ![t] = r]
  <2>1. tsfn' = [tsfn EXCEPT ![t].finalized = TRUE]
    BY <1>2, Zenon DEF FinalizeTsfn
  <2>2. [tsfn EXCEPT ![t].finalized = TRUE] = [tsfn EXCEPT ![t] = r]
    BY <1>9, Zenon
  <2> QED
    BY <2>1, <2>2, Zenon
<1>12. /\ sent' \in [Tsfns -> Nat] /\ got' \in [Tsfns -> Nat]
       /\ \A u \in Tsfns : u # t => sent'[u] = sent[u] /\ got'[u] = got[u]
       /\ Len(r.queue) = sent'[t] - got'[t]
       /\ \A i \in DOMAIN r.queue : r.queue[i] = got'[t] + i
       /\ r.finalized => r.queue = <<>> /\ r.closing
  <2>1. Len(tsfn[t].queue) = sent[t] - got[t]
    BY <1>7 DEF TsfnOK, TsfnDelivers
  <2> QED
    BY <1>4, <1>7, <1>8, <1>10, <2>1 DEF TsfnTyped
<1>13. /\ TsfnOK' /\ tsfn'[t] = r
       /\ \A u \in Tsfns : u # t => tsfn'[u] = tsfn[u]
  BY <1>7, <1>10, <1>11, <1>12, TsfnChanges
<1>14. Settled'
  <2>1. asyncQueue' = <<>>
    BY <1>4, <1>6 DEF workVars
  <2>2. ~WaitsFor(t)'
    BY <1>10, <1>13 DEF WaitsFor, MayFinalize
  <2>3. \A u \in Tsfns : u # t => ~WaitsFor(u)'
    BY <1>6, <1>13 DEF WaitsFor, MayFinalize
  <2> QED
    BY <2>1, <2>2, <2>3 DEF Settled
<1>15. Push(Guest("tsfn_end", t)) /\ "tsfn_end" \in GuestKinds /\ t \in Args
  BY <1>2 DEF FinalizeTsfn, GuestKinds, Args
<1>16. PICK g \in Frames : /\ g = Guest("tsfn_end", t) /\ Fits(g)
                           /\ g.kind = "tsfn_end" /\ g.phase = "run"
  BY <1>15, GuestFrame
<1>17. Placed(stack, g)
  BY <1>3, <1>16 DEF Placed, Rests, Top, Depth
<1>18. Calm
  BY <1>3, <1>15, <1>16, <1>17, Enter, CalmEnter
<1>19. WorkOK' /\ FinOK' /\ PumpOK'
  BY <1>4, <1>18, WorkStays, FinStays, PumpStays DEF IInv, Calm
<1>20. argsOf' \in Nat /\ OneWaits'
  BY <1>4, <1>14 DEF IInv, OneWaits
<1> QED
  BY <1>13, <1>18, <1>19, <1>20 DEF IInv, Calm

-----------------------------------------------------------------------------
(* The pump.                                                               *)

\* A step of the event loop that touches the promises only.
LEMMA EventLoop ==
  ASSUME IInv, Idle, Stacked(stack'), Kept(DrainFrames), ExecutesKept, PumpOK',
         UNCHANGED <<workVars, tsfnVars, finVars, argsOf>>
  PROVE  IInv'
<1>1. Settled
  BY IdleFacts
<1>2. WorkOK' /\ TsfnOK' /\ FinOK'
  BY WorkStays, TsfnStays, FinStays DEF IInv
<1>3. OneWaits'
  BY <1>1, SettledStays DEF OneWaits, workVars, tsfnVars
<1>4. argsOf' \in Nat
  BY DEF IInv
<1> QED
  BY <1>2, <1>3, <1>4 DEF IInv

LEMMA PromiseEndsKeeps ==
  ASSUME IInv, PromiseEnds
  PROVE  IInv'
<1>1. Idle /\ UNCHANGED <<workVars, tsfnVars, finVars, argsOf>>
  BY DEF PromiseEnds
<1>2. /\ stack' = stack /\ reactions > 0 /\ reactions' = reactions - 1
      /\ outstanding' = IF outstanding > 0 THEN outstanding - 1 ELSE 0
      /\ UNCHANGED <<deferreds, pumpScheduled, pumpsQueued>>
  BY DEF PromiseEnds
<1>3. Calm
  BY <1>2, CalmStay DEF IInv
<1>4. PumpTyped /\ PumpCounted
  BY DEF IInv, PumpOK
<1>5. outstanding > 0 /\ outstanding' = outstanding - 1
  BY <1>2, <1>4 DEF PumpTyped, PumpCounted
<1>6. PumpTyped' /\ outstanding' = deferreds' + reactions'
  BY <1>2, <1>4, <1>5 DEF PumpTyped, PumpCounted
<1>7. PumpOK'
  BY <1>2, <1>3, <1>4, <1>5, <1>6 DEF PumpOK, PumpCounted, Calm, Kept
<1> QED
  BY <1>1, <1>3, <1>7, EventLoop DEF Calm

LEMMA PumpStopsKeeps ==
  ASSUME IInv, PumpStops
  PROVE  IInv'
<1>1. Idle /\ UNCHANGED <<workVars, tsfnVars, finVars, argsOf>>
  BY DEF PumpStops, Quiet
<1>2. /\ stack' = stack /\ pumpsQueued > 0 /\ outstanding = 0
      /\ pumpsQueued' = pumpsQueued - 1 /\ pumpScheduled' = FALSE
      /\ UNCHANGED <<outstanding, deferreds, reactions>>
  BY DEF PumpStops, AfterLastPump
<1>3. Calm
  BY <1>2, CalmStay DEF IInv
<1>4. PumpTyped /\ PumpCounted
  BY DEF IInv, PumpOK
<1>5. CountIn(stack, PumpFrames) = 0
  BY <1>1, EmptyCounted DEF Idle
<1>6. PumpTyped' /\ pumpsQueued' = 0
  <2>1. pumpsQueued \in Nat /\ outstanding \in Nat /\ deferreds \in Nat /\ reactions \in Nat
    BY <1>4 DEF PumpTyped
  <2>2. pumpsQueued + 0 \in {0, 1}
    BY <1>4, <1>5 DEF PumpCounted
  <2>3. pumpsQueued' = 0
    BY <1>2, <2>1, <2>2
  <2> QED
    BY <1>2, <2>1, <2>3 DEF PumpTyped
<1>7. PumpOK'
  BY <1>2, <1>3, <1>4, <1>5, <1>6 DEF PumpOK, PumpCounted, Calm, Kept
<1> QED
  BY <1>1, <1>3, <1>7, EventLoop DEF Calm

LEMMA PumpRunsKeeps ==
  ASSUME IInv, PumpRuns
  PROVE  IInv'
<1>1. Idle /\ UNCHANGED <<workVars, tsfnVars, finVars, argsOf>>
  BY DEF PumpRuns, Quiet
<1>2. /\ pumpsQueued > 0 /\ pumpsQueued' = pumpsQueued - 1
      /\ UNCHANGED <<outstanding, deferreds, reactions, pumpScheduled>>
  BY DEF PumpRuns
<1>3. PICK g \in Frames : /\ g = Frame("pump", 0, "steps", MaxSteps) /\ Fits(g)
                          /\ g.kind = "pump" /\ g.phase = "steps"
  <2>1. MaxSteps \in Nat
    BY NapiAsyncAssumption
  <2> QED
    BY <2>1, HostFrame
<1>4. Push(g)
  BY <1>3 DEF PumpRuns
<1>5. Placed(stack, g)
  BY <1>1, <1>3, IdleFacts DEF Outermost
<1>6. Entered(g)
  BY <1>3, <1>4, <1>5, Enter DEF IInv
<1>7. /\ One(g, PumpFrames) = 1 /\ One(g, DrainFrames) = 0
      /\ \A w \in Works : One(g, ExecuteFrames(w)) = 0
  BY <1>3, Weights
<1>8. /\ CountIn(stack, PumpFrames) \in Nat /\ CountIn(stack, DrainFrames) \in Nat
      /\ \A w \in Works : CountIn(stack, ExecuteFrames(w)) \in Nat
  BY CountsAreNat DEF IInv
<1>9. /\ CountIn(stack', PumpFrames) = CountIn(stack, PumpFrames) + One(g, PumpFrames)
      /\ CountIn(stack', DrainFrames) = CountIn(stack, DrainFrames) + One(g, DrainFrames)
      /\ \A w \in Works : CountIn(stack', ExecuteFrames(w))
                            = CountIn(stack, ExecuteFrames(w)) + One(g, ExecuteFrames(w))
  BY <1>6, Countable DEF Entered
<1>10. Kept(DrainFrames) /\ ExecutesKept
  BY <1>7, <1>8, <1>9 DEF Kept, ExecutesKept
<1>11. PumpTyped /\ PumpCounted
  BY DEF IInv, PumpOK
<1>12. PumpTyped'
  BY <1>2, <1>11 DEF PumpTyped
<1>13. pumpsQueued' + CountIn(stack', PumpFrames) = pumpsQueued + CountIn(stack, PumpFrames)
  BY <1>2, <1>7, <1>8, <1>9, <1>11 DEF PumpTyped
<1>14. PumpOK'
  BY <1>2, <1>11, <1>12, <1>13 DEF PumpOK, PumpCounted
<1> QED
  BY <1>1, <1>6, <1>10, <1>14, EventLoop DEF Entered

-----------------------------------------------------------------------------
(* The beginning, and all steps.                                           *)

LEMMA InitKeeps ==
  ASSUME Init
  PROVE  IInv
<1>1. Stacked(stack)
  <2>1. stack = <<>> /\ <<>> \in Seq(Frames) /\ Len(<<>>) = 0 /\ 1 .. 0 = {}
    BY DEF Init
  <2> QED
    BY <2>1 DEF Stacked
<1>2. \A K : CountIn(stack, K) = 0
  BY EmptyCounted DEF Init
<1>3. asyncQueue = <<>> /\ posted = <<>> /\ \A t \in Tsfns : ~WaitsFor(t)
  <2>1. asyncQueue = <<>> /\ posted = <<>>
    BY DEF Init
  <2>2. \A t \in Tsfns : tsfn[t].queue = <<>> /\ tsfn[t].closing = FALSE
    BY DEF Init
  <2> QED
    BY <2>1, <2>2 DEF WaitsFor, MayFinalize
<1>4. OneWaits
  BY <1>3 DEF OneWaits, Settled
<1>5. WorkOK
  <2>1. WorkTyped
    BY <1>3 DEF Init, WorkTyped
  <2>2. ASSUME NEW w \in Works
        PROVE  asked[w] = done[w]
                 + Cardinality({i \in DOMAIN asyncQueue : asyncQueue[i].work = w})
                 + CountIn(stack, ExecuteFrames(w))
    <3>1. asked[w] = 0 /\ done[w] = 0
      BY DEF Init
    <3>2. Cardinality({i \in DOMAIN asyncQueue : asyncQueue[i].work = w}) = 0
      BY <1>3, QueueOfNone
    <3>3. CountIn(stack, ExecuteFrames(w)) = 0
      BY <1>2
    <3> QED
      BY <3>1, <3>2, <3>3
  <2> QED
    BY <2>1, <2>2 DEF WorkOK, Conserved
<1>6. TsfnOK
  <2>1. PICK js \in [Tsfns -> BOOLEAN] :
          tsfn = [t \in Tsfns |-> [queue |-> <<>>, threads |-> Holders[t], js |-> js[t],
                                   closing |-> FALSE, finalized |-> FALSE]]
    BY DEF Init
  <2>2. Holders \in [Tsfns -> Nat]
    BY NapiAsyncAssumption
  <2>3. TsfnTyped
    <3>1. <<>> \in Seq(Nat)
      OBVIOUS
    <3>2. sent \in [Tsfns -> Nat] /\ got \in [Tsfns -> Nat]
      BY DEF Init
    <3>3. \A t \in Tsfns : [queue |-> <<>>, threads |-> Holders[t], js |-> js[t],
                            closing |-> FALSE, finalized |-> FALSE]
                             \in [queue : Seq(Nat), threads : Nat, js : BOOLEAN,
                                  closing : BOOLEAN, finalized : BOOLEAN]
      BY <2>2, <3>1
    <3> QED
      BY <2>1, <3>2, <3>3 DEF TsfnTyped
  <2>4. \A t \in Tsfns : tsfn[t].queue = <<>> /\ tsfn[t].finalized = FALSE
    BY <2>1
  <2>5. \A t \in Tsfns : sent[t] = 0 /\ got[t] = 0
    BY DEF Init
  <2>6. \A t \in Tsfns : Len(tsfn[t].queue) = 0 /\ DOMAIN tsfn[t].queue = {}
    BY <2>4
  <2> QED
    BY <2>3, <2>4, <2>5, <2>6 DEF TsfnOK, TsfnDelivers, Ended
<1>7. FinOK
  <2>1. /\ fin = [f \in Finalizers |-> "unused"]
        /\ postedPending = FALSE /\ draining = FALSE /\ drainScheduled = FALSE
    BY DEF Init
  <2>2. FinTyped
    <3>1. posted \in Seq(Finalizers)
      BY <1>3
    <3>2. fin \in [Finalizers -> {"unused", "live", "posted", "collected",
                                 "cancelled", "done"}]
      BY <2>1
    <3>3. {postedPending, draining, drainScheduled} \subseteq BOOLEAN
      BY <2>1, Zenon
    <3> QED
      BY <3>1, <3>2, <3>3 DEF FinTyped
  <2>3. OneDrain
    BY <1>2, <2>1 DEF OneDrain
  <2>4. PostedOnce
    BY <1>3 DEF PostedOnce
  <2>5. DrainComes
    BY <2>1 DEF DrainComes, Finalizers
  <2> QED
    BY <2>2, <2>3, <2>4, <2>5 DEF FinOK
<1>8. PumpOK
  <2>1. /\ outstanding = 0 /\ deferreds = 0 /\ reactions = 0
        /\ pumpScheduled = FALSE /\ pumpsQueued = 0
    BY DEF Init
  <2>2. PumpTyped
    <3>1. pumpScheduled \in BOOLEAN
      BY <2>1, Zenon
    <3>2. {outstanding, deferreds, reactions, pumpsQueued} \subseteq Nat
      BY <2>1
    <3> QED
      BY <3>1, <3>2 DEF PumpTyped
  <2>3. CountIn(stack, PumpFrames) = 0
    BY <1>2
  <2>4. (IF pumpScheduled THEN 1 ELSE 0) = 0 /\ ~pumpScheduled
    BY <2>1, Zenon
  <2>5. PumpCounted
    BY <2>1, <2>3, <2>4 DEF PumpCounted
  <2> QED
    BY <2>2, <2>5 DEF PumpOK
<1>9. argsOf \in Nat
  BY DEF Init
<1> QED
  BY <1>1, <1>4, <1>5, <1>6, <1>7, <1>8, <1>9 DEF IInv

LEMMA MethodKeeps ==
  ASSUME IInv, Method
  PROVE  IInv'
  BY QueueWorkKeeps, CancelWorkKeeps, CallTsfnKeeps, AcquireTsfnKeeps, ReleaseTsfnKeeps,
     PostFinalizerKeeps, RegisterFinalizerKeeps, CancelFinalizerKeeps, CreatePromiseKeeps,
     SettleDeferredKeeps, CallFunctionKeeps, OtherCallKeeps, NoEnvKeeps DEF Method

LEMMA NextKeeps ==
  ASSUME IInv, [Next]_vars
  PROVE  IInv'
<1>1. CASE HostStep
  BY <1>1, DrainNextKeeps, EndDrainKeeps, MethodKeeps, RunWorkKeeps, AfterAsyncKeeps,
     DeliverTsfnKeeps, FinalizeTsfnKeeps, NextTsfnKeeps, EndStepsKeeps DEF HostStep
<1>2. CASE Return
  BY <1>2, ReturnKeeps
<1>3. CASE GuestMoves
  BY <1>3, CallKeeps, JsThrowsKeeps, JsCallsKeeps, IndirectStepsKeeps, PumpStepsKeeps
     DEF GuestMoves
<1>4. CASE Microtask
  BY <1>4, DrainTaskKeeps, PromiseEndsKeeps DEF Microtask
<1>5. CASE Pump
  BY <1>5, PumpStopsKeeps, PumpRunsKeeps DEF Pump
<1>6. CASE HostCalls
  BY <1>6, HostCallsKeeps
<1>7. CASE \E f \in Objects : Collect(f)
  BY <1>7, CollectKeeps
<1>8. CASE UNCHANGED vars
  <2>1. /\ stack' = stack
        /\ UNCHANGED <<workVars, tsfnVars, finVars, pumpVars, argsOf>>
    BY <1>8 DEF vars
  <2>2. Calm /\ argsOf' \in Nat
    BY <2>1, CalmStay DEF IInv
  <2>3. OneWaits'
    BY <1>8 DEF IInv, OneWaits, Settled, WorkWaits, TsfnWaits, WaitsFor, Draining,
                MayFinalize, Top, Depth, vars, workVars, tsfnVars
  <2> QED
    BY <2>1, <2>2, <2>3, OnlyMoves
<1> QED
  BY <1>1, <1>2, <1>3, <1>4, <1>5, <1>6, <1>7, <1>8 DEF Next

-----------------------------------------------------------------------------
(* The theorems.                                                           *)

\* The inductive invariant holds in every state, however deep dispatch, the
\* drains and the guest's functions are nested.
THEOREM AsyncInvariance == Spec => []IInv
<1>1. Init => IInv
  BY InitKeeps
<1>2. IInv /\ [Next]_vars => IInv'
  BY NextKeeps
<1> QED
  BY <1>1, <1>2, PTL DEF Spec

\* Queues, counters, histories and frames keep their types (TypeOK).
THEOREM AsyncKeepsTypes == Spec => []TypeOK
<1>1. IInv => TypeOK
  <2> SUFFICES ASSUME IInv PROVE TypeOK
    OBVIOUS
  <2>1. stack \in Seq(Frames) /\ argsOf \in Nat
    BY DEF IInv, Stacked
  <2>2. \A i \in 1 .. Depth :
          stack[i].kind \in HostKinds \cup GuestKinds /\ stack[i].n \in Nat
    <3> TAKE i \in 1 .. Depth
    <3>1. stack[i] \in Frames
      BY <2>1 DEF Depth
    <3> QED
      BY <3>1 DEF Frames
  <2>3. WorkTyped /\ TsfnTyped /\ FinTyped /\ PumpTyped
    BY DEF IInv, WorkOK, TsfnOK, FinOK, PumpOK
  <2> QED
    BY <2>1, <2>2, <2>3 DEF TypeOK, WorkTyped, TsfnTyped, FinTyped, PumpTyped, Items
<1> QED
  BY <1>1, AsyncInvariance, PTL

\* Whenever guest or JavaScript code runs, or nothing does, every queue is
\* empty (NothingWaits): what waits is served by the dispatch that left it.
THEOREM NothingIsLeft == Spec => []NothingWaits
<1>1. IInv => NothingWaits
  <2> SUFFICES ASSUME IInv, Idle \/ InGuest(GuestKinds) PROVE Settled
    BY DEF NothingWaits, Settled, WaitsFor
  <2> QED
    BY IdleFacts, InGuestFacts
<1> QED
  BY <1>1, AsyncInvariance, PTL

\* Each request to queue or to cancel a work ends in one completion
\* (WorkIsConserved).
THEOREM CompletesAsAsked == Spec => []WorkIsConserved
<1>1. IInv => WorkIsConserved
  <2> SUFFICES ASSUME IInv PROVE WorkIsConserved
    OBVIOUS
  <2>1. stack \in Seq(Frames) /\ Conserved
    BY DEF IInv, Stacked, WorkOK
  <2>2. \A w \in Works : {i \in FramesOf("execute") : stack[i].arg = w}
                           = Marked(stack, ExecuteFrames(w))
    BY <2>1 DEF FramesOf, Depth, Marked, ExecuteFrames
  <2> QED
    BY <2>1, <2>2 DEF WorkIsConserved, Conserved, CountIn
<1> QED
  BY <1>1, AsyncInvariance, PTL

\* A thread-safe function delivers what it accepted, in order and once, also
\* when its functions call it again or throw (TsfnDelivers).
THEOREM DeliversInOrder == Spec => []TsfnDelivers
<1>1. IInv => TsfnDelivers
  BY DEF IInv, TsfnOK
<1> QED
  BY <1>1, AsyncInvariance, PTL

\* Whatever a finalizer calls, no other finalizer begins before it is over,
\* and what is posted is announced (FinalizersInTurn).
THEOREM FinalizersTakeTurns == Spec => []FinalizersInTurn
<1>1. IInv => FinalizersInTurn
  <2> SUFFICES ASSUME IInv PROVE FinalizersInTurn
    OBVIOUS
  <2>1. Stacked(stack) /\ stack \in Seq(Frames) /\ Len(stack) \in Nat
    BY DEF IInv, Stacked
  <2>2. OneDrain /\ PostedOnce
    BY DEF IInv, FinOK
  <2>3. IsFiniteSet(Marked(stack, DrainFrames)) /\ CountIn(stack, DrainFrames) \in {0, 1}
    BY <2>1, <2>2, FramesCounted DEF OneDrain
  <2>4. \A i \in FramesOf("finalizer") : i - 1 \in Marked(stack, DrainFrames) /\ i \in Int
    <3> TAKE i \in FramesOf("finalizer")
    <3>1. i \in 1 .. Len(stack) /\ stack[i].kind = "finalizer"
      BY DEF FramesOf, Depth
    <3>2. i # 1 /\ stack[i - 1].phase = "drain"
      BY <2>1, <3>1 DEF Stacked, Outermost, Rests
    <3>3. i - 1 \in 1 .. Len(stack) /\ i \in Int
      BY <2>1, <3>1, <3>2
    <3>4. stack[i - 1] \in Frames
      BY <2>1, <3>3
    <3> QED
      BY <3>2, <3>3, <3>4 DEF Marked, DrainFrames
  <2>5. IsFiniteSet(FramesOf("finalizer")) /\ Cardinality(FramesOf("finalizer")) <= 1
    <3>1. CASE CountIn(stack, DrainFrames) = 0
      <4>1. Marked(stack, DrainFrames) = {}
        BY <2>3, <3>1, FS_EmptySet DEF CountIn
      <4>2. FramesOf("finalizer") = {}
        BY <2>4, <4>1
      <4> QED
        BY <4>2, FS_EmptySet
    <3>2. CASE CountIn(stack, DrainFrames) = 1
      <4>1. PICK d : Marked(stack, DrainFrames) = {d}
        BY <2>3, <3>2, FS_Singleton DEF CountIn
      <4>2. \A i, j \in FramesOf("finalizer") : i = j
        BY <2>4, <4>1
      <4>3. FramesOf("finalizer") = {} \/ \E i : FramesOf("finalizer") = {i}
        BY <4>2
      <4>4. CASE FramesOf("finalizer") = {}
        BY <4>4, FS_EmptySet
      <4>5. CASE \E i : FramesOf("finalizer") = {i}
        <5>1. PICK i : FramesOf("finalizer") = {i}
          BY <4>5
        <5>2. IsFiniteSet({i}) /\ Cardinality({i}) = 1
          BY FS_Singleton
        <5> QED
          BY <5>1, <5>2
      <4> QED
        BY <4>3, <4>4, <4>5
    <3> QED
      BY <2>3, <3>1, <3>2
  <2> QED
    BY <2>2, <2>5 DEF FinalizersInTurn, PostedOnce
<1> QED
  BY <1>1, AsyncInvariance, PTL

\* The idle thread has a drain to come while a collected object's finalizer
\* has not run (CollectedAreDrained).
THEOREM CollectedIsServed == Spec => []CollectedAreDrained
<1>1. IInv => CollectedAreDrained
  <2> SUFFICES ASSUME IInv, Idle, NEW f \in Objects, fin[f] = "collected"
               PROVE  drainScheduled
    BY DEF CollectedAreDrained
  <2>1. CountIn(stack, DrainFrames) = 0
    BY EmptyCounted DEF Idle
  <2>2. ~draining
    BY <2>1 DEF IInv, FinOK, OneDrain
  <2>3. drainScheduled \/ draining
    BY DEF IInv, FinOK, DrainComes
  <2> QED
    BY <2>2, <2>3
<1> QED
  BY <1>1, AsyncInvariance, PTL

\* One pump is queued or running while one is said to be scheduled, and one
\* is while a promise is unsettled: no exception ends it (OnePump).
THEOREM PumpIsOne == Spec => []OnePump
<1>1. IInv => OnePump
  <2> SUFFICES ASSUME IInv PROVE OnePump
    OBVIOUS
  <2>1. stack \in Seq(Frames) /\ PumpCounted
    BY DEF IInv, Stacked, PumpOK
  <2>2. FramesOf("pump") = Marked(stack, PumpFrames)
    BY <2>1 DEF FramesOf, Depth, Marked, PumpFrames
  <2> QED
    BY <2>1, <2>2 DEF OnePump, PumpCounted, CountIn
<1> QED
  BY <1>1, AsyncInvariance, PTL

-----------------------------------------------------------------------------
(* What may not happen to a finalizer.                                     *)

\* No finalizer is entered by the step.
EntersNone == Depth' <= Depth \/ Top'.kind # "finalizer"
\* What was entered or cancelled is left as it is.
Over(f)    == fin[f] \in {"done", "cancelled"}
OverStays  == \A f \in Finalizers : Over(f) => fin'[f] = fin[f]
Once       == \A f \in Finalizers : Over(f) => fin'[f] = fin[f] /\ ~Enters("finalizer", f)

LEMMA StackFacts ==
  ASSUME IInv
  PROVE  Stacked(stack) /\ stack \in Seq(Frames) /\ Depth \in Nat
<1>1. Stacked(stack) /\ stack \in Seq(Frames)
  BY DEF IInv, Stacked
<1> QED
  BY <1>1 DEF Depth

LEMMA NoneEntered ==
  ASSUME IInv, Stacked(stack'), EntersNone, OverStays
  PROVE  Once
<1>1. Depth \in Nat /\ Depth' \in Nat
  BY StackFacts DEF Stacked, Depth
<1> QED
  BY <1>1 DEF Once, EntersNone, OverStays, Enters

LEMMA PopEnters ==
  ASSUME IInv, stack # <<>>, stack' = Popped
  PROVE  EntersNone
<1>1. Depth' = Depth - 1 /\ Depth \in Nat
  BY StackFacts, Leave DEF Left
<1> QED
  BY <1>1 DEF EntersNone

LEMMA GoEnters ==
  ASSUME IInv, stack # <<>>, NEW p, NEW n, GoTo(p, n)
  PROVE  EntersNone
<1>1. stack \in Seq(Frames) /\ Depth \in Nat
  BY StackFacts
<1>2. stack' = GoneTo(stack, p, n)
  BY Zenon DEF GoTo, Depth, GoneTo
<1>3. PICK f : f = At(stack[Len(stack)], p, n)
  OBVIOUS
<1>4. stack' = [stack EXCEPT ![Len(stack)] = f]
  BY <1>1, <1>2, <1>3, GoTwice, Zenon
<1>5. Len([stack EXCEPT ![Len(stack)] = f]) = Len(stack)
  BY <1>1
<1>6. Depth' = Depth
  BY <1>4, <1>5, Zenon DEF Depth
<1> QED
  BY <1>1, <1>6 DEF EntersNone

LEMMA EndEnters ==
  ASSUME IInv, stack # <<>>, ThenDrain
  PROVE  EntersNone
  BY PopEnters, GoEnters DEF ThenDrain

LEMMA OtherPushed ==
  ASSUME IInv, NEW g, g.kind # "finalizer", NEW r \in Seq(Frames), stack' = Append(r, g)
  PROVE  EntersNone
<1>1. PICK S : S = Frames \cup {g}
  OBVIOUS
<1>2. g \in S /\ Frames \subseteq S
  BY <1>1
<1>3. r \in Seq(S)
  BY <1>2
<1>4. Len(Append(r, g)) = Len(r) + 1 /\ Append(r, g)[Len(r) + 1] = g
  BY <1>2, <1>3, AppendProperties
<1>5. Top' = g
  BY <1>4 DEF Top, Depth
<1> QED
  BY <1>5 DEF EntersNone

LEMMA OtherEntered ==
  ASSUME IInv, NEW g, g.kind # "finalizer", Push(g)
  PROVE  EntersNone
  BY StackFacts, OtherPushed DEF Push

LEMMA OtherSpent ==
  ASSUME IInv, stack # <<>>, NEW g, g.kind # "finalizer", Spend(g)
  PROVE  EntersNone
<1>1. stack \in Seq(Frames) /\ Stacked(stack)
  BY StackFacts
<1>2. Top \in Frames /\ Top = stack[Len(stack)]
  BY <1>1, TopIsFrame DEF Top, Depth
<1>3. Top.n - 1 \in Nat
  BY <1>2 DEF Spend, Frames
<1>4. PICK t \in Frames : t = Top
  BY <1>2
<1>5. PICK n \in Nat : n = Top.n - 1
  BY <1>3
<1>6. PICK f \in Frames : f = [t EXCEPT !.n = n]
  BY NField
<1>7. PICK r : r = [stack EXCEPT ![Len(stack)] = f]
  OBVIOUS
<1>8. r \in Seq(Frames)
  BY <1>1, <1>7
<1>9. stack' = Append([stack EXCEPT ![Len(stack)] = [Top EXCEPT !.n = Top.n - 1]], g)
  BY <1>2, Zenon DEF Spend, Depth
<1>10. stack' = Append(r, g)
  BY <1>4, <1>5, <1>6, <1>7, <1>9, Zenon
<1> QED
  BY <1>8, <1>10, OtherPushed

LEMMA KindOfGuest ==
  ASSUME NEW kind, NEW arg
  PROVE  Guest(kind, arg).kind = kind /\ Guest(kind, arg).arg = arg
  BY DEF Guest, Frame

\* A finalizer that is over stays so when another one's state changes.
LEMMA OneChanges ==
  ASSUME IInv, NEW f \in Finalizers, ~Over(f), NEW state, fin' = [fin EXCEPT ![f] = state]
  PROVE  OverStays
<1>1. fin \in [Finalizers -> {"unused", "live", "posted", "collected", "cancelled", "done"}]
  BY DEF IInv, FinOK, FinTyped
<1> QED
  BY <1>1 DEF OverStays, Over

LEMMA NoneChanges ==
  ASSUME UNCHANGED fin
  PROVE  OverStays
  BY DEF OverStays

LEMMA MethodOnce ==
  ASSUME IInv, Method
  PROVE  EntersNone /\ OverStays
<1>1. ASSUME NEW op, InMethod(op)
      PROVE  stack # <<>>
  BY <1>1 DEF InMethod, InHost
<1>2. CASE QueueWork \/ CancelWork \/ CallTsfn \/ AcquireTsfn \/ ReleaseTsfn \/ OtherCall
           \/ CreatePromise \/ SettleDeferred
  <2>1. ThenDrain /\ stack # <<>>
    BY <1>1, <1>2 DEF QueueWork, CancelWork, CallTsfn, AcquireTsfn, ReleaseTsfn, OtherCall,
       CreatePromise, SettleDeferred
  <2>2. UNCHANGED fin
    BY <1>2 DEF QueueWork, CancelWork, CallTsfn, AcquireTsfn, ReleaseTsfn, OtherCall,
       CreatePromise, SettleDeferred, finVars
  <2> QED
    BY <2>1, <2>2, EndEnters, NoneChanges
<1>3. CASE PostFinalizer
  <2>1. ThenDrain /\ stack # <<>> /\ InMethod("post")
    BY <1>1, <1>3 DEF PostFinalizer
  <2>2. PICK f \in Finalizers : f = Top.arg
    BY <2>1, MethodArgs
  <2>3. OverStays
    BY <1>3, <2>2, OneChanges, NoneChanges DEF PostFinalizer, Over
  <2> QED
    BY <2>1, <2>3, EndEnters
<1>4. CASE RegisterFinalizer
  <2>1. ThenDrain /\ stack # <<>> /\ InMethod("wrap")
    BY <1>1, <1>4 DEF RegisterFinalizer
  <2>2. PICK f \in Finalizers : f = Top.arg
    BY <2>1, MethodArgs
  <2>3. OverStays
    BY <1>4, <2>2, OneChanges, NoneChanges DEF RegisterFinalizer, Over
  <2> QED
    BY <2>1, <2>3, EndEnters
<1>5. CASE CancelFinalizer
  <2>1. ThenDrain /\ stack # <<>> /\ InMethod("unwrap")
    BY <1>1, <1>5 DEF CancelFinalizer
  <2>2. PICK f \in Finalizers : f = Top.arg
    BY <2>1, MethodArgs
  <2>3. OverStays
    BY <1>5, <2>2, OneChanges, NoneChanges DEF CancelFinalizer, Over
  <2> QED
    BY <2>1, <2>3, EndEnters
<1>6. CASE CallFunction
  <2>1. stack # <<>> /\ UNCHANGED fin
    BY <1>1, <1>6 DEF CallFunction, finVars
  <2>2. PICK t \in Frames : t = Top
    BY <2>1, StackFacts, TopIsFrame
  <2>3. PICK p \in Phases : p = "async"
    BY DEF Phases
  <2>4. PICK f \in Frames : f = [t EXCEPT !.phase = p]
    BY PhaseField
  <2>5. PICK r : r = [stack EXCEPT ![Len(stack)] = f]
    OBVIOUS
  <2>6. r \in Seq(Frames)
    <3>1. stack \in Seq(Frames) /\ f \in Frames
      BY StackFacts
    <3>2. [stack EXCEPT ![Len(stack)] = f] \in Seq(Frames)
      BY <2>1, <3>1
    <3> QED
      BY <2>5, <3>2
  <2>7. stack' = Append([stack EXCEPT ![Len(stack)] = [Top EXCEPT !.phase = "async"]],
                        Guest("callback", 0))
    BY <1>6, Zenon DEF CallFunction, Depth, Top
  <2>8. stack' = Append(r, Guest("callback", 0))
    BY <2>2, <2>3, <2>4, <2>5, <2>7, Zenon
  <2> QED
    BY <2>1, <2>6, <2>8, OtherPushed, KindOfGuest, NoneChanges
<1>7. CASE NoEnv
  <2>1. stack # <<>> /\ stack' = Popped /\ UNCHANGED fin
    BY <1>1, <1>7 DEF NoEnv, finVars
  <2> QED
    BY <2>1, PopEnters, NoneChanges
<1> QED
  BY <1>2, <1>3, <1>4, <1>5, <1>6, <1>7 DEF Method

\* The one action that enters a finalizer takes it from _postedFinalizers,
\* where none is twice and none that is over, unless it was cancelled.
LEMMA DrainOnce ==
  ASSUME IInv, DrainNext
  PROVE  Once
<1>1. posted # <<>> /\ posted \in Seq(Finalizers) /\ PostedOnce
  BY DEF IInv, FinOK, FinTyped, DrainNext
<1>2. PICK h \in Finalizers : h = Head(posted)
  BY <1>1, TailOfPosted
<1>3. fin[h] \in {"posted", "collected", "cancelled"}
  <2>1. h = posted[1] /\ 1 \in 1 .. Len(posted)
    BY <1>1, <1>2, TailOfPosted
  <2> QED
    BY <1>1, <2>1 DEF PostedOnce
<1>4. CASE IsCancelled(h)
  <2>1. stack' = stack /\ fin' = fin
    BY <1>2, <1>4 DEF DrainNext
  <2>2. Depth' = Depth /\ Depth \in Nat
    BY <2>1, StackFacts DEF Depth
  <2> QED
    BY <2>1, <2>2 DEF Once, Enters
<1>5. CASE ~IsCancelled(h)
  <2>1. fin' = [fin EXCEPT ![h] = "done"] /\ Push(Guest("finalizer", h))
    BY <1>2, <1>5 DEF DrainNext
  <2>2. ~Over(h)
    BY <1>3, <1>5 DEF Over, IsCancelled
  <2>3. OverStays
    BY <2>1, <2>2, OneChanges
  <2>4. PICK g : g = Guest("finalizer", h)
    OBVIOUS
  <2>5. g.arg = h /\ g \in Frames
    <3>1. "finalizer" \in GuestKinds /\ h \in Args
      BY DEF GuestKinds, Indirect, Args
    <3> QED
      BY <2>4, <3>1, GuestFrame
  <2>6. Top'.arg = h
    <3>1. stack \in Seq(Frames) /\ stack' = Append(stack, g)
      BY <2>1, <2>4, StackFacts DEF Push
    <3>2. Len(Append(stack, g)) = Len(stack) + 1 /\ Append(stack, g)[Len(stack) + 1] = g
      BY <2>5, <3>1, AppendProperties
    <3> QED
      BY <2>5, <3>1, <3>2 DEF Top, Depth
  <2> QED
    BY <2>2, <2>3, <2>6 DEF Once, OverStays, Enters
<1> QED
  BY <1>4, <1>5

LEMMA HostOnce ==
  ASSUME IInv, HostStep, ~DrainNext
  PROVE  EntersNone /\ OverStays
<1>1. ASSUME NEW p, InHost(p)
      PROVE  stack # <<>>
  BY <1>1 DEF InHost
<1>2. CASE EndDrain
  <2>1. stack # <<>> /\ AfterDrain /\ UNCHANGED fin
    BY <1>1, <1>2 DEF EndDrain
  <2>2. Top.kind \in {"dispatch", "pump", "task"}
    BY <1>2 DEF EndDrain, InHost, HostKinds
  <2> QED
    BY <2>1, <2>2, PopEnters, GoEnters, NoneChanges DEF AfterDrain
<1>3. CASE Method
  BY <1>3, MethodOnce
<1>4. CASE RunWork
  <2>1. UNCHANGED fin /\ asyncQueue \in Seq(Items) /\ asyncQueue # <<>>
    BY <1>4 DEF RunWork, finVars, IInv, WorkOK, WorkTyped
  <2>2. PICK x \in Items : x = Head(asyncQueue)
    BY <2>1
  <2>3. Push(Guest(x.type, x.work)) /\ x.type # "finalizer"
    BY <1>4, <2>2 DEF RunWork, Items
  <2> QED
    BY <2>1, <2>3, KindOfGuest, OtherEntered, NoneChanges
<1>5. CASE AfterAsync \/ NextTsfn
  <2>1. stack # <<>> /\ UNCHANGED fin
    BY <1>1, <1>5 DEF AfterAsync, NextTsfn, finVars
  <2>2. stack' = Popped \/ \E n : GoTo("tsfn", n)
    BY <1>5 DEF AfterAsync, NextTsfn, EndAsync, End
  <2> QED
    BY <2>1, <2>2, PopEnters, GoEnters, NoneChanges
<1>6. CASE DeliverTsfn \/ FinalizeTsfn
  <2>1. UNCHANGED fin
    BY <1>6 DEF DeliverTsfn, FinalizeTsfn, finVars
  <2>2. \E kind \in {"jsfn", "call_js", "tsfn_end"} : Push(Guest(kind, Top.n))
    BY <1>6 DEF DeliverTsfn, FinalizeTsfn
  <2> QED
    BY <2>1, <2>2, KindOfGuest, OtherEntered, NoneChanges
<1>7. CASE EndSteps
  <2>1. stack # <<>> /\ UNCHANGED fin /\ GoTo(FirstPhase("pump", "async"), 0)
    BY <1>1, <1>7 DEF EndSteps
  <2> QED
    BY <2>1, GoEnters, NoneChanges
<1> QED
  BY <1>2, <1>3, <1>4, <1>5, <1>6, <1>7 DEF HostStep

LEMMA GuestOnce ==
  ASSUME IInv, Return \/ GuestMoves
  PROVE  EntersNone /\ OverStays
<1>1. CASE Return
  <2>1. stack # <<>> /\ stack' = Popped /\ UNCHANGED fin
    BY <1>1 DEF Return, InGuest, finVars
  <2> QED
    BY <2>1, PopEnters, NoneChanges
<1>2. ASSUME NEW o \in Ops, Call(o)
      PROVE  EntersNone /\ OverStays
  <2>1. stack # <<>> /\ UNCHANGED fin
    BY <1>2 DEF Call, InGuest
  <2>2. PICK g : g = [kind |-> "dispatch", op |-> o.op, arg |-> o.arg,
                      phase |-> FirstPhase("dispatch", "method"), n |-> 0]
    OBVIOUS
  <2>3. Spend(g) /\ g.kind # "finalizer"
    BY <1>2, <2>2 DEF Call
  <2> QED
    BY <2>1, <2>3, OtherSpent, NoneChanges
<1>3. CASE JsThrows
  <2>1. stack' = SubSeq(stack, 1, Depth - 2) /\ UNCHANGED fin
    BY <1>3 DEF JsThrows, finVars
  <2>2. stack \in Seq(Frames) /\ Depth \in Nat /\ Depth = Len(stack)
    BY StackFacts DEF Depth
  <2>3. PICK k \in Int : k = Depth - 2
    BY <2>2
  <2>4. \A i \in 1 .. k : stack[i] \in Frames
    BY <2>2, <2>3
  <2>5. Len(SubSeq(stack, 1, k)) = IF 1 <= k THEN k - 1 + 1 ELSE 0
    BY <2>4, SubSeqProperties
  <2>6. Depth' = IF 1 <= k THEN k - 1 + 1 ELSE 0
    BY <2>1, <2>3, <2>5 DEF Depth
  <2> QED
    BY <2>1, <2>2, <2>3, <2>6, NoneChanges DEF EntersNone
<1>4. CASE JsCalls \/ IndirectSteps \/ PumpSteps
  <2>1. stack # <<>> /\ UNCHANGED fin
    BY <1>4 DEF JsCalls, IndirectSteps, PumpSteps, InGuest, InHost, finVars
  <2>2. \E kind \in {"callback", "worker"} : Spend(Guest(kind, 0))
    BY <1>4 DEF JsCalls, IndirectSteps, PumpSteps
  <2> QED
    BY <2>1, <2>2, KindOfGuest, OtherSpent, NoneChanges
<1> QED
  BY <1>1, <1>2, <1>3, <1>4 DEF GuestMoves

LEMMA LoopOnce ==
  ASSUME IInv, Microtask \/ Pump \/ HostCalls \/ \E f \in Objects : Collect(f)
  PROVE  EntersNone /\ OverStays
<1>1. ASSUME UNCHANGED stack
      PROVE  EntersNone
  BY <1>1, StackFacts DEF EntersNone, Depth
<1>2. CASE DrainTask
  <2>1. UNCHANGED fin
    BY <1>2 DEF DrainTask
  <2>2. UNCHANGED stack \/ Push(Frame("task", 0, "drain", 0))
    BY <1>2 DEF DrainTask
  <2>3. Frame("task", 0, "drain", 0).kind = "task"
    BY DEF Frame
  <2> QED
    BY <1>1, <2>1, <2>2, <2>3, OtherEntered, NoneChanges
<1>3. CASE PromiseEnds \/ PumpStops
  BY <1>1, <1>3, NoneChanges DEF PromiseEnds, PumpStops, finVars
<1>4. CASE PumpRuns
  <2>1. UNCHANGED fin /\ Push(Frame("pump", 0, "steps", MaxSteps))
    BY <1>4 DEF PumpRuns, finVars
  <2>2. Frame("pump", 0, "steps", MaxSteps).kind = "pump"
    BY DEF Frame
  <2> QED
    BY <2>1, <2>2, OtherEntered, NoneChanges
<1>5. CASE HostCalls
  <2>1. UNCHANGED fin /\ Push(Guest("callback", 0))
    BY <1>5 DEF HostCalls, finVars
  <2> QED
    BY <2>1, KindOfGuest, OtherEntered, NoneChanges
<1>6. ASSUME NEW f \in Objects, Collect(f)
      PROVE  EntersNone /\ OverStays
  <2>1. /\ f \in Finalizers /\ fin[f] = "live" /\ fin' = [fin EXCEPT ![f] = "collected"]
        /\ UNCHANGED stack
    BY <1>6 DEF Collect, Finalizers
  <2> QED
    BY <1>1, <2>1, OneChanges DEF Over
<1> QED
  BY <1>2, <1>3, <1>4, <1>5, <1>6 DEF Microtask, Pump

\* A finalizer that was entered or cancelled is neither entered again nor
\* registered anew, whatever order of collection, deletion and drains there
\* is (FinalizedOnce).
THEOREM FinalizesOnce == Spec => FinalizedOnce
<1>1. IInv /\ IInv' /\ [Next]_vars => [Once]_vars
  <2> SUFFICES ASSUME IInv, IInv', Next PROVE Once
    OBVIOUS
  <2>1. CASE DrainNext
    BY <2>1, DrainOnce
  <2>2. CASE ~DrainNext
    <3>1. EntersNone /\ OverStays
      BY <2>2, HostOnce, GuestOnce, LoopOnce DEF Next
    <3> QED
      BY <3>1, NoneEntered DEF IInv
  <2> QED
    BY <2>1, <2>2
<1>2. [Once]_vars =>
        [\A f \in Finalizers : fin[f] \in {"done", "cancelled"} =>
           fin'[f] = fin[f] /\ ~Enters("finalizer", f)]_vars
  BY DEF Once, Over
<1> QED
  BY AsyncInvariance, <1>1, <1>2, PTL DEF Spec, FinalizedOnce
=============================================================================
