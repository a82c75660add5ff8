-------------------------- MODULE NapiHandlesProofs --------------------------
(***************************************************************************)
(* Proofs about NapiHandles for every set of objects and every bound.      *)
(*                                                                         *)
(* The properties are inductive together with what the code relies on      *)
(* without saying so: a scope begins above every handle the functions      *)
(* below it were given (ScopesAbove), the handle of a thread-safe function *)
(* is in no other hands (TsfnApart), a handle that escaped has a second    *)
(* scope to end it (EscapedOnce), and what anything can still look up has  *)
(* not been collected (KnownAlive).                                        *)
(***************************************************************************)
EXTENDS NapiHandles, TLAPS, SequenceTheorems

FrameType == [kind : {"callback", "ctor", "plain", "finalizer"}, start : Nat,
              got : SUBSET Nat, this : Values]
RefType == [handle : Nat, value : Values, weak : BOOLEAN, count : Nat,
            released : BOOLEAN, token : Nat, made : Values]
TokenType == [object : Objects \cup {Global},
              state : {"live", "posted", "cancelled", "done"}, given : BOOLEAN]

\* The variables have their types.
Typed ==
  /\ nextHandle \in Nat \ {0, 1}
  /\ Live \subseteq 1 .. nextHandle - 1 /\ handles \in [Live -> Values]
  /\ referenced \cup escaped \cup outlives \subseteq 1 .. nextHandle - 1
  /\ stack \in Seq(FrameType)
  /\ refs \in Seq(RefType)
  /\ \A r \in RefIds : /\ refs[r].token \in 0 .. Len(tokens)
                       /\ refs[r].handle \in 0 .. nextHandle - 1
  /\ tokens \in Seq(TokenType)
  /\ DOMAIN wraps \subseteq Objects \cup {Global}
  /\ tsfn \in [state : {"none", "live", "ended"}, handle : Nat, func : 0 .. nextHandle - 1]
  /\ heap \in [Objects -> {"new", "alive", "gone"}]
  /\ reachable \subseteq Objects

\* A scope begins below what comes next; callbacks and constructors have one.
ScopesBelow ==
  \A i \in 1 .. Depth : /\ stack[i].start <= nextHandle
                        /\ stack[i].kind \in Callee => stack[i].start > 0

\* A scope begins above what the functions below were given.
ScopesAbove ==
  \A i, j \in 1 .. Depth : i < j /\ stack[j].start > 0 =>
    /\ stack[i].start <= stack[j].start
    /\ \A h \in stack[i].got : h < stack[j].start

\* The handle of a live thread-safe function is referenced, and neither given
\* to the guest nor behind a reference.
TsfnApart ==
  tsfn.state = "live" =>
    /\ tsfn.handle \in referenced \cap Live /\ tsfn.handle # GlobalHandle
    /\ tsfn.handle \notin Held /\ tsfn.func \in 1 .. tsfn.handle - 1
    /\ \A r \in RefIds : refs[r].handle # tsfn.handle

\* A handle that escaped ends with another scope, or with none.
EscapedOnce ==
  \A h \in escaped \cap Live :
    \/ h \in referenced \cup outlives
    \/ \E i, j \in Scopes : i # j /\ stack[i].start <= h /\ stack[j].start <= h

\* What the guest, JavaScript or a handle can look up is not collected.
Alive(v) == v \in Objects => heap[v] = "alive"
KnownAlive ==
  /\ \A h \in Live : Alive(handles[h])
  /\ \A i \in 1 .. Depth : Alive(stack[i].this)
  /\ \A o \in reachable : Alive(o)

\* A reference to an object is weak, or counts and keeps it; it counts while
\* weak only when it came too late.  A deleted one has no handle and holds
\* nothing.
RefKeeps(ref) ==
  /\ ref.handle = 0 => ~ref.weak /\ ~IsObject(ref.value)
  /\ ref.made \notin Objects => ref.value \notin Objects
  /\ ref.made \in Objects =>
       /\ ref.value = ref.made /\ heap[ref.made] # "new"
       /\ ~ref.weak => ref.count > 0 /\ heap[ref.made] = "alive"
       /\ ref.weak /\ ref.count > 0 => heap[ref.made] = "gone"
RefsKeep == \A r \in RefIds : RefKeeps(refs[r])

\* What was given up has run already or will not.
GivenUpOver ==
  \A t \in DOMAIN tokens : tokens[t].given => tokens[t].state \in {"cancelled", "done"}

\* The inductive invariant.
IInv == /\ Typed
        /\ HeldStay
        /\ ScopesBelow
        /\ ScopesAbove
        /\ TsfnApart
        /\ OutliveOnly
        /\ EscapedOnce
        /\ KnownAlive
        /\ RefsKeep
        /\ GivenUpOver

USE NapiHandlesAssumption DEF NapiHandlesAssumption
USE DEF GlobalHandle, NoToken

-----------------------------------------------------------------------------
(* How the stack of guest functions changes.                               *)

\* The frames, one by one.
LEMMA FramesTyped ==
  ASSUME Typed
  PROVE  /\ Depth \in Nat
         /\ \A i \in 1 .. Depth :
              /\ stack[i].start \in Nat /\ stack[i].got \in SUBSET Nat
              /\ stack[i].this \in Values
              /\ stack[i] \in FrameType
         /\ Idle <=> Depth = 0
<1>1. stack \in Seq(FrameType)
  BY DEF Typed
<1>2. Depth \in Nat /\ (Idle <=> Depth = 0)
  BY <1>1 DEF Depth, Idle
<1>3. \A i \in 1 .. Depth : stack[i] \in FrameType
  BY <1>1 DEF Depth
<1> QED
  BY <1>2, <1>3 DEF FrameType

\* The ids of handles.
LEMMA IdsTyped ==
  ASSUME Typed
  PROVE  /\ nextHandle \in Nat \ {0, 1} /\ Live \subseteq 1 .. nextHandle - 1
         /\ nextHandle \notin Live \cup referenced \cup escaped \cup outlives
         /\ Live \cup referenced \cup escaped \cup outlives \subseteq Nat
<1>1. /\ nextHandle \in Nat \ {0, 1} /\ Live \subseteq 1 .. nextHandle - 1
      /\ referenced \cup escaped \cup outlives \subseteq 1 .. nextHandle - 1
  BY DEF Typed
<1>2. \A h \in 1 .. nextHandle - 1 : h \in Nat /\ h # nextHandle
  BY <1>1
<1>3. \A h \in Live \cup referenced \cup escaped \cup outlives : h \in 1 .. nextHandle - 1
  BY <1>1
<1> HIDE DEF Live
<1> QED
  BY <1>1, <1>2, <1>3, Zenon

\* The stack keeps its frames, and what frame d holds becomes G.
SameButGot(d, G) ==
  /\ stack' \in Seq(FrameType) /\ Depth' = Depth
  /\ \A i \in 1 .. Depth :
       /\ stack'[i].kind = stack[i].kind
       /\ stack'[i].start = stack[i].start /\ stack'[i].this = stack[i].this
       /\ stack'[i].got = IF i = d THEN G ELSE stack[i].got

LEMMA GotChanges ==
  ASSUME Typed, NEW d \in 1 .. Depth, NEW G \in SUBSET Nat,
         stack' = [stack EXCEPT ![d].got = G]
  PROVE  SameButGot(d, G)
<1> DEFINE f == [stack[d] EXCEPT !.got = G]
<1>1. stack \in Seq(FrameType) /\ d \in 1 .. Len(stack)
  BY DEF Typed, Depth
<1>2. stack[d] \in FrameType
  BY <1>1
<1>3. /\ f \in FrameType /\ f.kind = stack[d].kind /\ f.start = stack[d].start
      /\ f.this = stack[d].this /\ f.got = G
  BY <1>2 DEF FrameType
<1>4. stack' = [stack EXCEPT ![d] = f]
  OBVIOUS
<1> HIDE DEF f
<1>5. stack' \in Seq(FrameType) /\ Len(stack') = Len(stack)
  BY <1>1, <1>3, <1>4
<1>6. \A i \in 1 .. Len(stack) : stack'[i] = IF i = d THEN f ELSE stack[i]
  BY <1>1, <1>4
<1> QED
  BY <1>3, <1>5, <1>6 DEF SameButGot, Depth

\* The stack keeps its frames, none of which holds any of hs.
SameWithout(hs) ==
  /\ stack' \in Seq(FrameType) /\ Depth' = Depth
  /\ \A i \in 1 .. Depth :
       /\ stack'[i].kind = stack[i].kind
       /\ stack'[i].start = stack[i].start /\ stack'[i].this = stack[i].this
       /\ stack'[i].got = stack[i].got \ hs

LEMMA WithoutIs ==
  ASSUME Typed, NEW hs, stack' = Without(hs)
  PROVE  SameWithout(hs)
<1>1. \A i \in 1 .. Depth : [stack[i] EXCEPT !.got = stack[i].got \ hs] \in FrameType
  BY FramesTyped DEF FrameType
<1>2. stack' = [i \in 1 .. Depth |-> [stack[i] EXCEPT !.got = stack[i].got \ hs]]
  BY DEF Without
<1>3. stack' \in [1 .. Depth -> FrameType]
  BY <1>1, <1>2
<1>4. stack' \in Seq(FrameType) /\ Len(stack') = Depth
  BY <1>3, FramesTyped
<1> QED
  BY <1>2, <1>4, FramesTyped DEF SameWithout, Depth, FrameType

\* A frame is added.
Pushed(f) ==
  /\ stack' \in Seq(FrameType) /\ Depth' = Depth + 1
  /\ \A i \in 1 .. Depth : stack'[i] = stack[i]
  /\ stack'[Depth + 1] = f

LEMMA AppendPushes ==
  ASSUME Typed, NEW f \in FrameType, stack' = Append(stack, f)
  PROVE  Pushed(f)
  BY DEF Typed, Pushed, Depth

\* The frame at the top is removed.
Popped ==
  /\ stack' \in Seq(FrameType) /\ Depth' = Depth - 1
  /\ \A i \in 1 .. Depth - 1 : stack'[i] = stack[i]

LEMMA FrontIs ==
  ASSUME NEW s \in Seq(FrameType), NEW n \in Nat, Len(s) = n + 1
  PROVE  \E q : /\ q = SubSeq(s, 1, n)
                /\ q \in Seq(FrameType) /\ Len(q) = n
                /\ \A i \in 1 .. n : q[i] = s[i]
<1>1. \A i \in 1 .. n : s[i] \in FrameType
  OBVIOUS
<1>2. /\ SubSeq(s, 1, n) \in Seq(FrameType)
      /\ Len(SubSeq(s, 1, n)) = IF 1 <= n THEN n - 1 + 1 ELSE 0
      /\ \A i \in 1 .. n - 1 + 1 : SubSeq(s, 1, n)[i] = s[1 + i - 1]
  BY <1>1, SubSeqProperties
<1>3. (IF 1 <= n THEN n - 1 + 1 ELSE 0) = n /\ n - 1 + 1 = n
      /\ \A i \in 1 .. n : 1 + i - 1 = i
  OBVIOUS
<1> QED
  BY <1>2, <1>3, Zenon

LEMMA FrontPops ==
  ASSUME NEW q \in Seq(FrameType), stack' = q, Len(q) = Depth - 1,
         \A i \in 1 .. Depth - 1 : q[i] = stack[i]
  PROVE  Popped
  BY DEF Popped, Depth

LEMMA SubSeqPops ==
  ASSUME Typed, Depth > 0, stack' = SubSeq(stack, 1, Depth - 1)
  PROVE  Popped
<1>1. stack \in Seq(FrameType) /\ Depth - 1 \in Nat /\ Len(stack) = Depth - 1 + 1
  BY FramesTyped DEF Typed, Depth
<1>2. PICK q : /\ q = SubSeq(stack, 1, Depth - 1)
               /\ q \in Seq(FrameType) /\ Len(q) = Depth - 1
               /\ \A i \in 1 .. Depth - 1 : q[i] = stack[i]
  BY <1>1, FrontIs, Zenon
<1> QED
  BY <1>2, FrontPops, Zenon

-----------------------------------------------------------------------------
(* How the table of handles changes.                                       *)

\* Handles and scopes, without what the values are.
Hands == HeldStay /\ ScopesBelow /\ ScopesAbove /\ TsfnApart /\ OutliveOnly /\ EscapedOnce

\* A new handle takes nothing from those there are.
LEMMA AddedIs ==
  ASSUME Typed, NEW v \in Values
  PROVE  /\ nextHandle \notin Live
         /\ DOMAIN Added(v) = Live \cup {nextHandle}
         /\ Added(v) \in [Live \cup {nextHandle} -> Values]
         /\ Added(v)[nextHandle] = v
         /\ \A h \in Live : Added(v)[h] = handles[h]
<1>1. nextHandle \notin Live /\ handles \in [Live -> Values]
  BY DEF Typed
<1>2. Added(v) = [h \in Live \cup {nextHandle} |-> IF h \in Live THEN handles[h] ELSE v]
  BY <1>1 DEF Added, With, Live
<1> QED
  BY <1>1, <1>2

\* What a frame holds is held.
LEMMA HeldIs ==
  ASSUME Typed
  PROVE  \A h : h \in Held <=> \E i \in 1 .. Depth : h \in stack[i].got
  BY DEF Held

\* A function that is entered holds what it is given.
LEMMA PushHolds ==
  ASSUME Typed, NEW f, Pushed(f)
  PROVE  Held' = Held \cup f.got
<1>1. Depth \in Nat /\ Depth' = Depth + 1
  BY FramesTyped DEF Pushed
<1>2. \A i : i \in 1 .. Depth' <=> i \in 1 .. Depth \/ i = Depth + 1
  BY <1>1
<1>3. \A h : h \in Held' <=> \E i \in 1 .. Depth' : h \in stack'[i].got
  BY DEF Held
<1>4. \A h : h \in Held' <=> h \in Held \/ h \in f.got
  BY <1>2, <1>3, HeldIs DEF Pushed
<1> QED
  BY <1>4

\* A call gives the function at the top a handle.
LEMMA GiveKeepsHands ==
  ASSUME Typed, Hands, ~Idle, NEW v \in Values, Give(v),
         UNCHANGED <<referenced, escaped, refs, tsfn>>
  PROVE  Hands'
<1>1. Depth \in 1 .. Depth /\ Depth \in Nat /\ nextHandle \in Nat \ {0, 1}
  BY FramesTyped DEF Typed
<1>2. SameButGot(Depth, stack[Depth].got \cup {nextHandle})
  BY <1>1, FramesTyped, GotChanges DEF Give
<1>3. /\ Live' = Live \cup {nextHandle} /\ nextHandle' = nextHandle + 1
      /\ nextHandle \notin Live /\ Live \subseteq 1 .. nextHandle - 1
  BY AddedIs DEF Give, Live, Typed
<1>4. Scopes' = Scopes
  BY <1>2 DEF SameButGot, Scopes
<1>5. Held' = Held \cup {nextHandle}
  BY <1>1, <1>2 DEF SameButGot, Held
<1>6. HeldStay'
  BY <1>3, <1>5 DEF Hands, HeldStay
<1>7. ScopesBelow' /\ ScopesAbove'
  <2>1. ScopesBelow'
    BY <1>1, <1>2, <1>3, FramesTyped DEF Hands, ScopesBelow, SameButGot
  <2>2. ASSUME NEW i \in 1 .. Depth, NEW j \in 1 .. Depth, i < j, stack'[j].start > 0
        PROVE  /\ stack'[i].start <= stack'[j].start
               /\ \A h \in stack'[i].got : h < stack'[j].start
    <3>1. i # Depth /\ stack[j].start > 0
      BY <1>1, <1>2, <2>2 DEF SameButGot
    <3>2. stack'[i].start = stack[i].start /\ stack'[i].got = stack[i].got
          /\ stack'[j].start = stack[j].start
      BY <1>2, <3>1 DEF SameButGot
    <3> QED
      BY <2>2, <3>1, <3>2 DEF Hands, ScopesAbove
  <2> QED
    BY <1>2, <2>1, <2>2 DEF ScopesAbove, SameButGot
<1>8. TsfnApart'
  BY <1>1, <1>3, <1>5 DEF Hands, TsfnApart, RefIds
<1>9. OutliveOnly'
  <2>1. nextHandle \in outlives' \/ \E i \in Scopes : stack'[i].start <= nextHandle
    BY <1>2 DEF Give, Hands, ScopesBelow, SameButGot, Scopes
  <2>2. outlives \subseteq outlives'
    BY DEF Give
  <2> QED
    BY <1>2, <1>3, <1>4, <2>1, <2>2 DEF Hands, OutliveOnly, SameButGot, Scopes
<1>10. EscapedOnce'
  <2>1. outlives \subseteq outlives' /\ nextHandle \notin escaped
    BY DEF Give, Typed
  <2> QED
    BY <1>2, <1>3, <1>4, <2>1 DEF Hands, EscapedOnce, SameButGot, Scopes
<1> QED
  BY <1>6, <1>7, <1>8, <1>9, <1>10 DEF Hands

\* A function is entered with handles that are valid already.
LEMMA PushKeepsHands ==
  ASSUME Typed, Hands, NEW f \in FrameType, Pushed(f),
         f.start = nextHandle \/ (f.start = 0 /\ f.kind = "plain"), f.got \subseteq Live,
         tsfn.state = "live" => tsfn.handle \notin f.got,
         UNCHANGED <<handles, nextHandle, referenced, escaped, refs, tsfn, outlives>>
  PROVE  Hands'
<1>1. Pushed(f) /\ Depth \in Nat /\ nextHandle \in Nat
  BY FramesTyped DEF Typed
<1>2. Live' = Live /\ Live \subseteq 1 .. nextHandle - 1
  BY DEF Live, Typed
<1>3. Scopes \subseteq Scopes' /\ \A i \in Scopes : stack'[i] = stack[i]
  BY <1>1, FramesTyped DEF Pushed, Scopes
<1>4. Held' = Held \cup f.got
  BY <1>1, PushHolds
<1>5. HeldStay'
  BY <1>2, <1>4 DEF Hands, HeldStay
<1>6. ScopesBelow' /\ ScopesAbove'
  <2>1. \A i \in 1 .. Depth : \A h \in stack[i].got : h \in 1 .. nextHandle - 1
    BY <1>2, HeldIs DEF Hands, HeldStay
  <2>2. ASSUME NEW i \in 1 .. Depth + 1, NEW j \in 1 .. Depth + 1, i < j,
               stack'[j].start > 0
        PROVE  /\ stack'[i].start <= stack'[j].start
               /\ \A h \in stack'[i].got : h < stack'[j].start
    <3>1. i \in 1 .. Depth /\ stack'[i] = stack[i]
      BY <1>1, <2>2 DEF Pushed
    <3>2. CASE j \in 1 .. Depth
      BY <1>1, <2>2, <3>1, <3>2 DEF Hands, ScopesAbove, Pushed
    <3>3. CASE j = Depth + 1
      <4>1. stack'[j].start = nextHandle
        BY <1>1, <2>2, <3>3 DEF Pushed
      <4> QED
        BY <1>1, <2>1, <3>1, <4>1 DEF Hands, ScopesBelow
    <3> QED
      BY <1>1, <3>2, <3>3
  <2>3. ScopesBelow'
    <3>1. \A i \in 1 .. Depth + 1 : i \in 1 .. Depth \/ i = Depth + 1
      BY <1>1
    <3>2. \A i \in 1 .. Depth : /\ stack'[i].start <= nextHandle
                                /\ stack'[i].kind \in Callee => stack'[i].start > 0
      BY <1>1 DEF Hands, ScopesBelow, Pushed
    <3>3. nextHandle > 0 /\ stack'[Depth + 1] = f
      BY IdsTyped DEF Pushed
    <3>4. f.start <= nextHandle /\ (f.kind \in Callee => f.start > 0)
      BY <1>1, <3>3 DEF Callee
    <3>5. \A i \in 1 .. Depth + 1 : /\ stack'[i].start <= nextHandle
                                    /\ stack'[i].kind \in Callee => stack'[i].start > 0
      BY <3>1, <3>2, <3>3, <3>4
    <3> QED
      BY <1>1, <3>5 DEF ScopesBelow, Pushed
  <2> QED
    BY <1>1, <2>2, <2>3 DEF ScopesAbove, Pushed
<1>7. TsfnApart'
  BY <1>2, <1>4 DEF Hands, TsfnApart, RefIds
<1>8. OutliveOnly'
  BY <1>2, <1>3 DEF Hands, OutliveOnly
<1>9. EscapedOnce'
  BY <1>2, <1>3 DEF Hands, EscapedOnce
<1> QED
  BY <1>5, <1>6, <1>7, <1>8, <1>9 DEF Hands

\* A callback or a constructor is entered with a new handle, in a new scope.
LEMMA EnterKeepsHands ==
  ASSUME Typed, Hands, NEW v \in Values, NEW f \in FrameType, Pushed(f),
         f.start = nextHandle, f.got = {nextHandle},
         handles' = Added(v), nextHandle' = nextHandle + 1,
         UNCHANGED <<referenced, escaped, refs, tsfn, outlives>>
  PROVE  Hands'
<1>1. Pushed(f) /\ Depth \in Nat /\ nextHandle \in Nat \ {0, 1}
  BY FramesTyped DEF Typed
<1>2. /\ Live' = Live \cup {nextHandle} /\ nextHandle' = nextHandle + 1
      /\ nextHandle \notin Live /\ Live \subseteq 1 .. nextHandle - 1
  BY AddedIs DEF Live, Typed
<1>3. Scopes \subseteq Scopes' /\ \A i \in Scopes : stack'[i] = stack[i]
  BY <1>1, FramesTyped DEF Pushed, Scopes
<1>4. Depth + 1 \in Scopes' /\ stack'[Depth + 1].start = nextHandle
  BY <1>1 DEF Pushed, Scopes
<1>5. Held' = Held \cup {nextHandle}
  BY PushHolds
<1>6. HeldStay'
  BY <1>2, <1>5 DEF Hands, HeldStay
<1>7. ScopesBelow' /\ ScopesAbove'
  <2>1. \A i \in 1 .. Depth : \A h \in stack[i].got : h \in 1 .. nextHandle - 1
    BY <1>2, HeldIs DEF Hands, HeldStay
  <2>2. ASSUME NEW i \in 1 .. Depth + 1, NEW j \in 1 .. Depth + 1, i < j,
               stack'[j].start > 0
        PROVE  /\ stack'[i].start <= stack'[j].start
               /\ \A h \in stack'[i].got : h < stack'[j].start
    <3>1. i \in 1 .. Depth /\ stack'[i] = stack[i]
      BY <1>1, <2>2 DEF Pushed
    <3>2. CASE j \in 1 .. Depth
      BY <1>1, <2>2, <3>1, <3>2 DEF Hands, ScopesAbove, Pushed
    <3>3. CASE j = Depth + 1
      <4>1. stack'[j].start = nextHandle
        BY <1>1, <2>2, <3>3 DEF Pushed
      <4> QED
        BY <1>1, <2>1, <3>1, <4>1 DEF Hands, ScopesBelow
    <3> QED
      BY <1>1, <3>2, <3>3
  <2>3. ScopesBelow'
    <3>1. \A i \in 1 .. Depth + 1 : i \in 1 .. Depth \/ i = Depth + 1
      BY <1>1
    <3>2. \A i \in 1 .. Depth : /\ stack'[i].start <= nextHandle + 1
                                /\ stack'[i].kind \in Callee => stack'[i].start > 0
      <4>1. \A i \in 1 .. Depth : stack[i].start \in Nat
        BY FramesTyped
      <4> QED
        BY <1>1, <4>1 DEF Hands, ScopesBelow, Pushed
    <3>3. stack'[Depth + 1].start = nextHandle /\ nextHandle > 0
      BY <1>1 DEF Pushed
    <3>4. \A i \in 1 .. Depth + 1 : /\ stack'[i].start <= nextHandle + 1
                                    /\ stack'[i].kind \in Callee => stack'[i].start > 0
      BY <1>1, <3>1, <3>2, <3>3
    <3> QED
      BY <1>1, <3>4 DEF ScopesBelow, Pushed
  <2> QED
    BY <1>1, <2>2, <2>3 DEF ScopesAbove, Pushed
<1>8. TsfnApart'
  BY <1>1, <1>2, <1>5 DEF Hands, TsfnApart, RefIds
<1>9. OutliveOnly'
  <2>1. \A h \in Live : \/ h \in referenced \cup outlives
                        \/ \E i \in Scopes' : stack'[i].start <= h
    BY <1>3 DEF Hands, OutliveOnly
  <2>2. stack'[Depth + 1].start <= nextHandle
    BY <1>1, <1>4
  <2> QED
    BY <1>2, <1>4, <2>1, <2>2 DEF OutliveOnly
<1>10. EscapedOnce'
  <2>1. nextHandle \notin escaped
    BY DEF Typed
  <2> QED
    BY <1>2, <1>3, <2>1 DEF Hands, EscapedOnce
<1> QED
  BY <1>6, <1>7, <1>8, <1>9, <1>10 DEF Hands

\* References are made, changed or forgotten; the handles stay.
LEMMA RefsKeepHands ==
  ASSUME Typed, Hands, referenced \subseteq referenced',
         \A r \in RefIds' :
           \/ refs'[r].handle \in Held \cup {0, GlobalHandle}
           \/ r \in RefIds /\ refs'[r].handle = refs[r].handle,
         UNCHANGED <<handles, nextHandle, escaped, stack, tsfn, outlives>>
  PROVE  Hands'
<1>1. Live' = Live /\ Depth' = Depth /\ Held' = Held /\ Scopes' = Scopes
  BY DEF Live, Depth, Held, Scopes
<1>2. HeldStay'
  BY <1>1 DEF Hands, HeldStay
<1>3. ScopesBelow' /\ ScopesAbove'
  BY <1>1 DEF Hands, ScopesBelow, ScopesAbove
<1>4. TsfnApart'
  <2>1. CASE tsfn.state = "live"
    <3>1. tsfn.handle \notin Held \cup {0, GlobalHandle}
      BY <2>1 DEF Hands, TsfnApart, Typed
    <3>2. \A r \in RefIds' : refs'[r].handle # tsfn.handle
      BY <2>1, <3>1 DEF Hands, TsfnApart
    <3> QED
      BY <1>1, <2>1, <3>2 DEF Hands, TsfnApart
  <2>2. CASE tsfn.state # "live"
    BY <2>2 DEF TsfnApart
  <2> QED
    BY <2>1, <2>2
<1>5. OutliveOnly'
  BY <1>1 DEF Hands, OutliveOnly
<1>6. EscapedOnce'
  BY <1>1 DEF Hands, EscapedOnce
<1> QED
  BY <1>2, <1>3, <1>4, <1>5, <1>6 DEF Hands

\* A reference is given up and its handle with it.
LEMMA DropKeepsHands ==
  ASSUME Typed, Hands, NEW r \in RefIds, DropHandle(refs[r].handle),
         RefIds' = RefIds,
         \A x \in RefIds : refs'[x].handle \in {0, refs[x].handle},
         UNCHANGED <<nextHandle, escaped, tsfn, outlives>>
  PROVE  Hands'
<1> DEFINE h == refs[r].handle
<1>1. SameWithout({h}) /\ Depth \in Nat
  BY WithoutIs, FramesTyped DEF DropHandle
<1>2. Live' = Live \ {h} /\ referenced' = referenced \ {h}
  BY DEF DropHandle, Remove, Live
<1>3. Scopes' = Scopes
  BY <1>1 DEF SameWithout, Scopes
<1>4. Held' = Held \ {h}
  BY <1>1 DEF SameWithout, Held
<1>5. tsfn.state = "live" => h # tsfn.handle
  BY DEF Hands, TsfnApart
<1> HIDE DEF h
<1>6. HeldStay'
  BY <1>2, <1>4, <1>5 DEF Hands, HeldStay
<1>7. ScopesBelow' /\ ScopesAbove'
  BY <1>1 DEF Hands, ScopesBelow, ScopesAbove, SameWithout
<1>8. TsfnApart'
  <2>1. CASE tsfn.state = "live"
    <3>1. tsfn.handle # 0 /\ \A x \in RefIds : refs[x].handle # tsfn.handle
      BY <2>1 DEF Hands, TsfnApart, Typed
    <3>2. \A x \in RefIds' : refs'[x].handle # tsfn.handle
      BY <3>1
    <3>3. /\ tsfn.handle \in referenced' \cap Live' /\ tsfn.handle # GlobalHandle
          /\ tsfn.handle \notin Held' /\ tsfn.func \in 1 .. tsfn.handle - 1
      BY <1>2, <1>4, <1>5, <2>1 DEF Hands, TsfnApart
    <3> QED
      BY <3>2, <3>3 DEF TsfnApart
  <2>2. CASE tsfn.state # "live"
    BY <2>2 DEF TsfnApart
  <2> QED
    BY <2>1, <2>2
<1>9. OutliveOnly'
  BY <1>1, <1>2, <1>3 DEF Hands, OutliveOnly, SameWithout, Scopes
<1>10. EscapedOnce'
  BY <1>1, <1>2, <1>3 DEF Hands, EscapedOnce, SameWithout, Scopes
<1> QED
  BY <1>6, <1>7, <1>8, <1>9, <1>10 DEF Hands

\* What a scope that ends leaves of the handles.
LEMMA PopScopeIs ==
  ASSUME Typed, Depth > 0
  PROVE  /\ Released(Top.start) \subseteq Live \ referenced
         /\ \A h \in Released(Top.start) : h \in Nat /\ Top.start <= h
         /\ \A h \in Live \ Released(Top.start) :
              h < Top.start \/ h \in referenced \cup escaped
<1>1. Top.start \in Nat /\ Live \subseteq Nat
  BY FramesTyped DEF Top, Typed
<1> QED
  BY <1>1 DEF Released, InScope

\* A function returns: the handles of its scope are taken back.
LEMMA PopKeepsHands ==
  ASSUME Typed, Hands, Depth > 0, Popped,
         IF Top.start > 0 THEN PopScope(Top.start) ELSE UNCHANGED <<handles, escaped>>,
         UNCHANGED <<nextHandle, referenced, refs, tsfn, outlives>>
  PROVE  Hands'
<1>1. Depth \in Nat /\ Depth \in 1 .. Depth /\ Top \in FrameType /\ Top.start \in Nat
  BY FramesTyped DEF Top, FrameType
<1>2. /\ Depth' = Depth - 1
      /\ \A i \in 1 .. Depth' : i \in 1 .. Depth /\ i < Depth /\ stack'[i] = stack[i]
      /\ \A i \in 1 .. Depth : i = Depth \/ i \in 1 .. Depth'
  BY <1>1 DEF Popped
<1>3. /\ \A i \in Scopes' : i \in Scopes /\ i # Depth /\ stack'[i] = stack[i]
      /\ \A i \in Scopes : i = Depth \/ (i \in Scopes' /\ stack'[i] = stack[i])
  BY <1>1, <1>2 DEF Scopes
<1>4. \A h \in Held' : h \in Held /\ \E i \in 1 .. Depth : i < Depth /\ h \in stack[i].got
  <2>1. \A h : h \in Held' <=> \E i \in 1 .. Depth' : h \in stack'[i].got
    BY DEF Held
  <2> QED
    BY <1>2, <2>1, HeldIs
<1>5. Live' \subseteq Live /\ \A h \in Live \ Live' : Top.start > 0 /\ h \in Released(Top.start)
  BY DEF PopScope, Remove, Live
<1>6. Top.start > 0 => Live' = Live \ Released(Top.start)
  BY DEF PopScope, Remove, Live
<1>7. HeldStay'
  <2>1. ASSUME NEW h \in Held'
        PROVE  h \in Live'
    <3>1. h \in Live
      BY <1>4, <2>1 DEF Hands, HeldStay
    <3>2. Top.start > 0 => h < Top.start
      BY <1>1, <1>4, <2>1 DEF Hands, ScopesAbove, Top
    <3>3. h \in Nat
      BY <3>1 DEF Typed
    <3> QED
      BY <1>1, <1>5, <3>1, <3>2, <3>3, PopScopeIs
  <2>2. tsfn.state = "live" => tsfn.handle \in Live'
    BY <1>5, PopScopeIs DEF Hands, TsfnApart
  <2> QED
    BY <2>1, <2>2 DEF HeldStay
<1>8. ScopesBelow' /\ ScopesAbove'
  BY <1>1, <1>2 DEF Hands, ScopesBelow, ScopesAbove
<1>9. TsfnApart'
  BY <1>4, <1>7 DEF Hands, TsfnApart, HeldStay, RefIds
<1>10. OutliveOnly'
  <2>1. ASSUME NEW h \in Live', h \notin referenced \cup outlives
        PROVE  \E i \in Scopes' : stack'[i].start <= h
    <3>1. h \in Live /\ \E i \in Scopes : stack[i].start <= h
      BY <1>5, <2>1 DEF Hands, OutliveOnly
    <3>2. CASE Top.start > 0 /\ Top.start <= h
      <4>1. h \in Live \ Released(Top.start)
        BY <1>6, <2>1, <3>2
      <4>2. h \in escaped
        BY <1>1, <2>1, <3>2, <4>1, PopScopeIs DEF Typed
      <4>3. PICK i \in Scopes, j \in Scopes :
               i # j /\ stack[i].start <= h /\ stack[j].start <= h
        BY <2>1, <3>1, <4>2 DEF Hands, EscapedOnce
      <4> QED
        BY <1>3, <4>3
    <3>3. CASE ~ (Top.start > 0 /\ Top.start <= h)
      BY <1>3, <3>1, <3>3 DEF Top, Scopes
    <3> QED
      BY <3>2, <3>3
  <2> QED
    BY <2>1 DEF OutliveOnly
<1>11. EscapedOnce'
  <2>1. ASSUME NEW h \in escaped' \cap Live', h \notin referenced \cup outlives
        PROVE  \E i, j \in Scopes' : /\ i # j /\ stack'[i].start <= h
                                     /\ stack'[j].start <= h
    <3>1. h \in escaped \cap Live /\ (Top.start > 0 => h < Top.start)
      BY <1>5, <2>1 DEF PopScope
    <3>2. PICK i \in Scopes, j \in Scopes :
             i # j /\ stack[i].start <= h /\ stack[j].start <= h
      BY <2>1, <3>1 DEF Hands, EscapedOnce
    <3>3. i # Depth /\ j # Depth
      BY <1>1, <3>1, <3>2 DEF Top, Scopes, Typed
    <3> QED
      BY <1>3, <3>2, <3>3
  <2> QED
    BY <2>1 DEF EscapedOnce
<1> QED
  BY <1>7, <1>8, <1>9, <1>10, <1>11 DEF Hands

\* The frame at the top is removed, and that below it given a handle.
PoppedGiving ==
  /\ stack' \in Seq(FrameType) /\ Depth' = Depth - 1
  /\ \A i \in 1 .. Depth - 1 :
       /\ stack'[i].kind = stack[i].kind
       /\ stack'[i].start = stack[i].start /\ stack'[i].this = stack[i].this
       /\ stack'[i].got = IF i = Depth - 1 THEN stack[i].got \cup {nextHandle}
                          ELSE stack[i].got

LEMMA FunctionsAreSequences ==
  ASSUME NEW n \in Nat, NEW s \in [1 .. n -> FrameType]
  PROVE  s \in Seq(FrameType) /\ Len(s) = n
  OBVIOUS

LEMMA CallerGets ==
  ASSUME Typed, Depth > 1,
         stack' = [i \in 1 .. Depth - 1 |-> [stack[i] EXCEPT !.got =
                     IF i = Depth - 1 THEN stack[i].got \cup {nextHandle}
                     ELSE stack[i].got]]
  PROVE  PoppedGiving
<1>1. Depth \in Nat /\ Depth - 1 \in Nat /\ nextHandle \in Nat
  BY FramesTyped DEF Typed
<1>2. \A i \in 1 .. Depth - 1 : i \in 1 .. Depth
  BY <1>1
<1>3. \A i \in 1 .. Depth - 1 :
        [stack[i] EXCEPT !.got = IF i = Depth - 1 THEN stack[i].got \cup {nextHandle}
                                 ELSE stack[i].got] \in FrameType
  BY <1>1, <1>2, FramesTyped DEF FrameType
<1>4. stack' \in [1 .. Depth - 1 -> FrameType]
  BY <1>3
<1>5. stack' \in Seq(FrameType) /\ Len(stack') = Depth - 1
  BY <1>1, <1>4, FunctionsAreSequences, Zenon
<1>6. ASSUME NEW i \in 1 .. Depth - 1
      PROVE  /\ stack'[i].kind = stack[i].kind
             /\ stack'[i].start = stack[i].start /\ stack'[i].this = stack[i].this
             /\ stack'[i].got = IF i = Depth - 1 THEN stack[i].got \cup {nextHandle}
                                ELSE stack[i].got
  <2>1. PICK G : G = IF i = Depth - 1 THEN stack[i].got \cup {nextHandle}
                     ELSE stack[i].got
    OBVIOUS
  <2>2. stack'[i] = [stack[i] EXCEPT !.got = G]
    BY <2>1, Zenon
  <2>3. stack[i] \in FrameType
    BY <1>2, FramesTyped
  <2>4. /\ stack'[i].kind = stack[i].kind /\ stack'[i].start = stack[i].start
        /\ stack'[i].this = stack[i].this /\ stack'[i].got = G
    BY <2>2, <2>3 DEF FrameType
  <2> QED
    BY <2>1, <2>4, Zenon
<1>7. Depth' = Depth - 1
  BY <1>5 DEF Depth
<1> QED
  BY <1>5, <1>6, <1>7, Zenon DEF PoppedGiving

\* What a return to the guest does to the handles.
ResultGiven ==
  /\ PoppedGiving /\ Depth > 1 /\ Top.kind \in Callee
  /\ Live' = (Live \ Released(Top.start)) \cup {nextHandle}
  /\ nextHandle' = nextHandle + 1
  /\ escaped' = {e \in escaped : e < Top.start \/ e \in referenced}
  /\ outlives' = IF \A i \in Scopes : i = Depth THEN outlives \cup {nextHandle}
                 ELSE outlives
  /\ UNCHANGED <<referenced, refs, tsfn>>

LEMMA ReturnIs ==
  ASSUME Typed, NEW h, ReturnToGuest(h)
  PROVE  ResultGiven
<1>1. PoppedGiving
  BY CallerGets, Zenon DEF ReturnToGuest
<1>2. Live' = (Live \ Released(Top.start)) \cup {nextHandle}
  BY DEF ReturnToGuest, With, Live
<1> QED
  BY <1>1, <1>2, Zenon DEF ReturnToGuest, ResultGiven, refVars

\* The same when the guest called: it is given a handle for the result, which
\* no scope that ends takes back.
LEMMA ReturnKeepsHands ==
  ASSUME Typed, Hands, ResultGiven
  PROVE  Hands'
<1> DEFINE start == Top.start
           kept  == Live \ Released(start)
<1>1. /\ Depth \in Nat /\ Depth > 1 /\ Depth \in 1 .. Depth
      /\ start \in Nat \ {0} /\ nextHandle \in Nat \ {0, 1} /\ start <= nextHandle
  <2>1. Depth \in Nat /\ Depth > 1 /\ Top.kind \in Callee
    BY FramesTyped DEF ResultGiven
  <2>2. Depth \in 1 .. Depth
    BY <2>1
  <2>3. start \in Nat /\ start = stack[Depth].start
    BY <2>2, FramesTyped DEF Top
  <2>4. start > 0 /\ start <= nextHandle
    BY <2>1, <2>2 DEF Top, Hands, ScopesBelow
  <2> QED
    BY <2>1, <2>2, <2>3, <2>4, IdsTyped
<1>2. /\ Depth' = Depth - 1
      /\ \A i \in 1 .. Depth' :
           /\ i \in 1 .. Depth /\ i < Depth
           /\ stack'[i].kind = stack[i].kind
           /\ stack'[i].start = stack[i].start
           /\ stack'[i].got \subseteq stack[i].got \cup {nextHandle}
           /\ i # Depth' => stack'[i].got = stack[i].got
      /\ \A i \in 1 .. Depth : i = Depth \/ i \in 1 .. Depth'
  <2>1. /\ Depth' = Depth - 1
        /\ \A i \in 1 .. Depth - 1 :
             /\ stack'[i].kind = stack[i].kind
             /\ stack'[i].start = stack[i].start
             /\ stack'[i].got = IF i = Depth - 1 THEN stack[i].got \cup {nextHandle}
                                ELSE stack[i].got
    BY DEF PoppedGiving, ResultGiven
  <2>2. /\ \A i \in 1 .. Depth' : i \in 1 .. Depth /\ i < Depth /\ i \in 1 .. Depth - 1
        /\ \A i \in 1 .. Depth : i = Depth \/ i \in 1 .. Depth'
    BY <1>1, <2>1
  <2> QED
    BY <2>1, <2>2
<1>3. /\ \A i \in Scopes' : i \in Scopes /\ i # Depth /\ stack'[i].start = stack[i].start
      /\ \A i \in Scopes : i = Depth \/ (i \in Scopes' /\ stack'[i].start = stack[i].start)
  BY <1>1, <1>2 DEF Scopes
<1>4. \A x \in Held' : \/ x = nextHandle
                       \/ x \in Held /\ \E i \in 1 .. Depth : i < Depth /\ x \in stack[i].got
  <2>1. \A x : x \in Held' <=> \E i \in 1 .. Depth' : x \in stack'[i].got
    BY DEF Held
  <2> QED
    BY <1>2, <2>1, HeldIs
<1>5. /\ Live' = kept \cup {nextHandle} /\ nextHandle' = nextHandle + 1
      /\ Live \subseteq 1 .. nextHandle - 1 /\ nextHandle \notin Live
  BY DEF ResultGiven, Typed
<1>6. /\ escaped' = {e \in escaped : e < start \/ e \in referenced}
      /\ outlives \subseteq outlives'
      /\ UNCHANGED <<referenced, refs, tsfn>>
  BY DEF ResultGiven
<1>7. /\ kept \subseteq Live
      /\ \A x \in Live : x \in referenced => x \in kept
      /\ \A x \in Live : x < start => x \in kept
      /\ \A x \in kept : x < start \/ x \in referenced \cup escaped
  BY <1>1, PopScopeIs, IdsTyped
<1> HIDE DEF kept
<1>8. HeldStay'
  <2>1. ASSUME NEW x \in Held', x # nextHandle
        PROVE  x \in Live'
    <3>1. x \in Live
      BY <1>4, <2>1 DEF Hands, HeldStay
    <3>2. x < start
      BY <1>1, <1>4, <2>1 DEF Hands, ScopesAbove, Top
    <3> QED
      BY <1>5, <1>7, <3>1, <3>2
  <2>2. tsfn'.state = "live" => tsfn'.handle \in Live'
    BY <1>5, <1>6, <1>7 DEF Hands, TsfnApart
  <2> QED
    BY <1>5, <2>1, <2>2 DEF HeldStay
<1>9. ScopesBelow' /\ ScopesAbove'
  <2>1. ScopesBelow'
    BY <1>1, <1>2, <1>5, FramesTyped DEF Hands, ScopesBelow
  <2>2. ASSUME NEW i \in 1 .. Depth', NEW j \in 1 .. Depth', i < j, stack'[j].start > 0
        PROVE  /\ stack'[i].start <= stack'[j].start
               /\ \A x \in stack'[i].got : x < stack'[j].start
    <3>1. i # Depth'
      BY <1>1, <1>2, <2>2
    <3> QED
      BY <1>2, <2>2, <3>1 DEF Hands, ScopesAbove
  <2> QED
    BY <2>1, <2>2 DEF ScopesAbove
<1>10. TsfnApart'
  <2>1. CASE tsfn.state = "live"
    <3>1. tsfn.handle \in Live /\ tsfn.handle # nextHandle
      BY <1>5, <2>1 DEF Hands, TsfnApart
    <3> QED
      BY <1>4, <1>5, <1>6, <1>7, <2>1, <3>1 DEF Hands, TsfnApart, RefIds
  <2>2. CASE tsfn.state # "live"
    BY <1>6, <2>2 DEF TsfnApart
  <2> QED
    BY <2>1, <2>2
<1>11. OutliveOnly'
  <2>1. ASSUME NEW x \in kept, x \notin referenced \cup outlives
        PROVE  \E i \in Scopes' : stack'[i].start <= x
    <3>1. x \in Live /\ \E i \in Scopes : stack[i].start <= x
      BY <1>7, <2>1 DEF Hands, OutliveOnly
    <3>2. CASE x < start
      <4>1. PICK i \in Scopes : stack[i].start <= x
        BY <3>1
      <4>2. x \in Nat /\ i # Depth
        BY <1>1, <1>5, <3>1, <3>2, <4>1, FramesTyped DEF Top, Scopes
      <4> QED
        BY <1>3, <4>1, <4>2
    <3>3. CASE x \in escaped
      <4>1. PICK i \in Scopes, j \in Scopes :
               i # j /\ stack[i].start <= x /\ stack[j].start <= x
        BY <2>1, <3>1, <3>3 DEF Hands, EscapedOnce
      <4> QED
        BY <1>3, <4>1
    <3> QED
      BY <1>7, <2>1, <3>2, <3>3
  <2>2. nextHandle \in outlives' \/ \E i \in Scopes' : stack'[i].start <= nextHandle
    <3>1. CASE \A i \in Scopes : i = Depth
      BY <3>1 DEF ResultGiven
    <3>2. ASSUME NEW i \in Scopes, i # Depth
          PROVE  i \in Scopes' /\ stack'[i].start <= nextHandle
      BY <1>3, <3>2 DEF Hands, ScopesBelow, Scopes
    <3> QED
      BY <3>1, <3>2
  <2> QED
    BY <1>5, <1>6, <2>1, <2>2 DEF OutliveOnly
<1>12. EscapedOnce'
  <2>1. nextHandle \notin escaped
    BY DEF Typed
  <2>2. ASSUME NEW x \in escaped' \cap Live', x \notin referenced \cup outlives
        PROVE  \E i, j \in Scopes' : /\ i # j /\ stack'[i].start <= x
                                     /\ stack'[j].start <= x
    <3>1. x \in escaped \cap Live /\ x < start
      BY <1>5, <1>6, <1>7, <2>1, <2>2
    <3>2. PICK i \in Scopes, j \in Scopes :
             i # j /\ stack[i].start <= x /\ stack[j].start <= x
      BY <2>2, <3>1 DEF Hands, EscapedOnce
    <3>3. i # Depth /\ j # Depth
      <4>1. x \in Nat /\ start = stack[Depth].start /\ start \in Nat
        <5>1. x \in Nat
          BY <3>1, IdsTyped
        <5> QED
          BY <1>1, <5>1 DEF Top
      <4> HIDE DEF start
      <4>2. ~(start <= x)
        BY <3>1, <4>1
      <4> QED
        BY <3>2, <4>1, <4>2, Zenon
    <3> QED
      BY <1>3, <3>2, <3>3
  <2> QED
    BY <1>6, <2>2 DEF EscapedOnce
<1> QED
  BY <1>8, <1>9, <1>10, <1>11, <1>12 DEF Hands

\* A handle escapes: there is a second scope to end it, or it is left behind.
LEMMA EscapeKeepsHands ==
  ASSUME Typed, Hands, NEW h, Escape(h)
  PROVE  Hands'
<1>1. /\ escaped' = escaped \cup {h} /\ outlives \subseteq outlives'
      /\ UNCHANGED <<handles, nextHandle, referenced, stack, refs, tsfn>>
  BY DEF Escape, refVars
<1>2. /\ Live' = Live /\ Depth' = Depth /\ Held' = Held /\ Scopes' = Scopes
  BY <1>1 DEF Live, Depth, Held, Scopes
<1>3. HeldStay' /\ ScopesBelow' /\ ScopesAbove'
  BY <1>1, <1>2 DEF Hands, HeldStay, ScopesBelow, ScopesAbove
<1>4. TsfnApart'
  BY <1>1, <1>2 DEF Hands, TsfnApart, RefIds
<1>5. OutliveOnly'
  BY <1>1, <1>2 DEF Hands, OutliveOnly
<1>6. EscapedOnce'
  <2>1. \/ h \in outlives'
        \/ \E i, j \in Scopes : i # j /\ stack[i].start <= h /\ stack[j].start <= h
    BY DEF Escape
  <2> QED
    BY <1>1, <1>2, <2>1 DEF Hands, EscapedOnce
<1> QED
  BY <1>3, <1>4, <1>5, <1>6 DEF Hands

\* A thread-safe function takes a new handle that it alone has.
LEMMA CreateTsfnKeepsHands ==
  ASSUME Typed, Hands, NEW h \in Held, CreateTsfn(h)
  PROVE  Hands'
<1>1. /\ Live' = Live \cup {nextHandle} /\ nextHandle' = nextHandle + 1
      /\ nextHandle \notin Live /\ Live \subseteq 1 .. nextHandle - 1
      /\ nextHandle \in Nat \ {0, 1}
  BY AddedIs DEF CreateTsfn, Live, Typed, Values
<1>2. /\ tsfn' = [state |-> "live", handle |-> nextHandle, func |-> h]
      /\ referenced' = referenced \cup {nextHandle, h}
      /\ UNCHANGED <<stack, escaped, refs, outlives>>
  BY DEF CreateTsfn, refVars
<1>3. Depth' = Depth /\ Held' = Held /\ Scopes' = Scopes
  BY <1>2 DEF Depth, Held, Scopes
<1>4. HeldStay'
  BY <1>1, <1>2, <1>3 DEF Hands, HeldStay
<1>5. ScopesBelow' /\ ScopesAbove'
  <2>1. \A i \in 1 .. Depth : stack[i].start \in Nat
    BY FramesTyped
  <2> QED
    BY <1>1, <1>2, <1>3, <2>1 DEF Hands, ScopesBelow, ScopesAbove
<1>6. TsfnApart'
  <2>1. h \in 1 .. nextHandle - 1 /\ nextHandle \notin Held
    BY <1>1 DEF Hands, HeldStay
  <2>2. \A r \in RefIds : refs[r].handle # nextHandle
    BY <1>1 DEF Typed
  <2> QED
    BY <1>1, <1>2, <1>3, <2>1, <2>2 DEF TsfnApart, RefIds
<1>7. OutliveOnly'
  BY <1>1, <1>2, <1>3 DEF Hands, OutliveOnly
<1>8. EscapedOnce'
  <2>1. nextHandle \notin escaped
    BY IdsTyped
  <2> QED
    BY <1>1, <1>2, <1>3, <2>1 DEF Hands, EscapedOnce
<1> QED
  BY <1>4, <1>5, <1>6, <1>7, <1>8 DEF Hands

\* It ends: its own handle is taken back, and that of its function left behind.
LEMMA EndTsfnKeepsHands ==
  ASSUME Typed, Hands, EndTsfn
  PROVE  Hands'
<1>1. /\ tsfn.state = "live" /\ tsfn'.state = "ended"
      /\ referenced' = referenced \ {tsfn.handle, tsfn.func}
      /\ outlives' = outlives \cup {tsfn.func}
      /\ UNCHANGED <<nextHandle, escaped, stack, refs>>
  BY DEF EndTsfn, refVars, Typed
<1>2. Live' = Live \ {tsfn.handle}
  BY DEF EndTsfn, Remove, Live
<1>3. Depth' = Depth /\ Held' = Held /\ Scopes' = Scopes
  BY <1>1 DEF Depth, Held, Scopes
<1>4. HeldStay'
  BY <1>1, <1>2, <1>3 DEF Hands, HeldStay, TsfnApart
<1>5. ScopesBelow' /\ ScopesAbove'
  BY <1>1, <1>3 DEF Hands, ScopesBelow, ScopesAbove
<1>6. TsfnApart'
  BY <1>1 DEF TsfnApart
<1>7. OutliveOnly'
  BY <1>1, <1>2, <1>3 DEF Hands, OutliveOnly
<1>8. EscapedOnce'
  BY <1>1, <1>2, <1>3 DEF Hands, EscapedOnce
<1> QED
  BY <1>4, <1>5, <1>6, <1>7, <1>8 DEF Hands

\* Nothing the handles and scopes depend on changes.
LEMMA OthersKeepHands ==
  ASSUME Typed, Hands,
         UNCHANGED <<handles, nextHandle, referenced, escaped, stack, refs, tsfn, outlives>>
  PROVE  Hands'
<1>1. \A r \in RefIds' : r \in RefIds /\ refs'[r].handle = refs[r].handle
  BY DEF RefIds
<1> QED
  BY <1>1, RefsKeepHands

-----------------------------------------------------------------------------
(* What the handles and references stand for.                              *)

Known == KnownAlive /\ RefsKeep /\ GivenUpOver

\* A handle's value is a value, and not collected.
LEMMA ValueKnown ==
  ASSUME Typed, KnownAlive, NEW h
  PROVE  ValueOf(h) \in Values /\ Alive(ValueOf(h))
<1>1. CASE h \in Live
  BY <1>1 DEF Typed, KnownAlive, ValueOf
<1>2. CASE h \notin Live
  BY <1>2 DEF ValueOf, Values, Alive
<1> QED
  BY <1>1, <1>2

\* What comes to be looked up is alive; no object changes but by being made.
LEMMA AliveGrows ==
  ASSUME Typed, KnownAlive,
         \A o \in Objects : heap[o] # "new" => heap'[o] = heap[o],
         \A h \in Live' : \/ h \in Live /\ handles'[h] = handles[h]
                          \/ handles'[h] \in Objects => heap'[handles'[h]] = "alive",
         \A i \in 1 .. Depth' :
           \/ i \in 1 .. Depth /\ stack'[i].this = stack[i].this
           \/ stack'[i].this \in Objects => heap'[stack'[i].this] = "alive",
         \A o \in reachable' : o \in reachable \/ heap'[o] = "alive"
  PROVE  KnownAlive'
<1>1. \A o \in Objects : heap[o] = "alive" => heap'[o] = "alive"
  OBVIOUS
<1>2. \A h \in Live' : handles'[h] \in Objects => heap'[handles'[h]] = "alive"
  BY <1>1 DEF KnownAlive, Alive
<1>3. \A i \in 1 .. Depth' : stack'[i].this \in Objects => heap'[stack'[i].this] = "alive"
  BY <1>1 DEF KnownAlive, Alive
<1>4. \A o \in reachable' : o \in Objects => heap'[o] = "alive"
  BY <1>1 DEF KnownAlive, Alive
<1> QED
  BY <1>2, <1>3, <1>4 DEF KnownAlive, Alive

LEMMA RefsGrow ==
  ASSUME Typed, RefsKeep, UNCHANGED refs,
         \A o \in Objects : heap[o] # "new" => heap'[o] = heap[o]
  PROVE  RefsKeep'
  BY DEF RefsKeep, RefKeeps, RefIds

\* Nothing they stand for changes.
LEMMA OthersKeepKnown ==
  ASSUME Typed, Known, UNCHANGED <<handles, stack, heap, reachable, refs, tokens>>
  PROVE  Known'
  BY DEF Known, KnownAlive, RefsKeep, RefKeeps, GivenUpOver, Alive, RefIds, Live, Depth

\* The types after a new handle.
LEMMA NewHandleTyped ==
  ASSUME Typed, NEW v \in Values, handles' = Added(v), nextHandle' = nextHandle + 1,
         referenced' \cup escaped' \cup outlives' \subseteq 1 .. nextHandle,
         stack' \in Seq(FrameType),
         tsfn' \in [state : {"none", "live", "ended"}, handle : Nat,
                    func : 0 .. nextHandle],
         heap' \in [Objects -> {"new", "alive", "gone"}],
         UNCHANGED <<refs, tokens, wraps, reachable>>
  PROVE  Typed'
<1>1. nextHandle \in Nat \ {0, 1} /\ nextHandle' \in Nat \ {0, 1}
      /\ nextHandle' - 1 = nextHandle
  BY DEF Typed
<1>2. Live' = Live \cup {nextHandle} /\ handles' \in [Live' -> Values]
  BY AddedIs DEF Live
<1>3. Live' \subseteq 1 .. nextHandle' - 1
  <2>1. \A h \in Live : h \in 1 .. nextHandle
    BY <1>1, IdsTyped
  <2> QED
    BY <1>1, <1>2, <2>1
<1>4. \A r \in RefIds' : /\ refs'[r].token \in 0 .. Len(tokens')
                         /\ refs'[r].handle \in 0 .. nextHandle' - 1
  BY <1>1 DEF Typed, RefIds
<1> QED
  BY <1>1, <1>2, <1>3, <1>4 DEF Typed

-----------------------------------------------------------------------------
(* Every step keeps the invariant.                                         *)

LEMMA Parts == IInv <=> Typed /\ Hands /\ Known
  BY DEF IInv, Hands, Known

LEMMA PartsNext == IInv' <=> Typed' /\ Hands' /\ Known'
  BY DEF IInv, Hands, Known

\* A call that makes a handle for something alive.
LEMMA GiveStep ==
  ASSUME IInv, ~Idle, NEW v \in Values, Give(v),
         heap' \in [Objects -> {"new", "alive", "gone"}],
         \A o \in Objects : heap[o] # "new" => heap'[o] = heap[o],
         v \in Objects => heap'[v] = "alive",
         UNCHANGED <<referenced, escaped, refs, tokens, wraps, tsfn, reachable>>
  PROVE  IInv'
<1>1. Typed /\ Hands /\ Known
  BY Parts
<1>2. Hands'
  BY <1>1, GiveKeepsHands
<1>3. Depth \in 1 .. Depth /\ nextHandle \in Nat \ {0, 1}
  BY <1>1, FramesTyped DEF Typed
<1>4. SameButGot(Depth, stack[Depth].got \cup {nextHandle})
  <2>1. stack[Depth].got \cup {nextHandle} \in SUBSET Nat
    BY <1>1, <1>3, FramesTyped
  <2>2. stack' = [stack EXCEPT ![Depth].got = stack[Depth].got \cup {nextHandle}]
    BY Zenon DEF Give
  <2> QED
    BY <1>1, <1>3, <2>1, <2>2, GotChanges, Zenon
<1>5. Typed'
  <2>1. referenced' \cup escaped' \cup outlives' \subseteq 1 .. nextHandle
    BY <1>1, <1>3 DEF Typed, Give
  <2>2. tsfn' \in [state : {"none", "live", "ended"}, handle : Nat, func : 0 .. nextHandle]
    BY <1>1, <1>3 DEF Typed
  <2>3. handles' = Added(v) /\ nextHandle' = nextHandle + 1 /\ stack' \in Seq(FrameType)
    BY <1>4 DEF Give, SameButGot
  <2> QED
    BY <1>1, <2>1, <2>2, <2>3, NewHandleTyped
<1>6. KnownAlive'
  <2>1. \A h \in Live' : \/ h \in Live /\ handles'[h] = handles[h]
                         \/ handles'[h] \in Objects => heap'[handles'[h]] = "alive"
    BY <1>1, AddedIs DEF Give, Live
  <2>2. \A i \in 1 .. Depth' :
          \/ i \in 1 .. Depth /\ stack'[i].this = stack[i].this
          \/ stack'[i].this \in Objects => heap'[stack'[i].this] = "alive"
    BY <1>4 DEF SameButGot
  <2> QED
    BY <1>1, <2>1, <2>2, AliveGrows DEF Known
<1>7. RefsKeep' /\ GivenUpOver'
  BY <1>1, RefsGrow DEF Known, GivenUpOver
<1> QED
  BY <1>2, <1>5, <1>6, <1>7, PartsNext DEF Known

LEMMA GetValueStep ==
  ASSUME IInv, NEW v \in Objects \cup {Symbol}, GetValue(v)
  PROVE  IInv'
<1>1. Typed /\ KnownAlive
  BY DEF IInv
<1>2. /\ heap' \in [Objects -> {"new", "alive", "gone"}]
      /\ \A o \in Objects : heap[o] # "new" => heap'[o] = heap[o]
      /\ v \in Objects => heap'[v] = "alive"
  <2>1. CASE heap[v] = "new" /\ heap' = [heap EXCEPT ![v] = "alive"] /\ v \in Objects
    BY <1>1, <2>1 DEF Typed
  <2>2. CASE v \in reachable \cup {Symbol} /\ UNCHANGED heap
    BY <1>1, <2>2, NapiHandlesAssumption DEF Typed, KnownAlive, Alive
  <2> QED
    BY <2>1, <2>2 DEF GetValue
<1> QED
  BY <1>2, GiveStep DEF GetValue, refVars, Values

LEMMA GetReferenceValueStep ==
  ASSUME IInv, NEW r \in RefIds, GetReferenceValue(r)
  PROVE  IInv'
<1>1. Typed /\ RefKeeps(refs[r])
  BY DEF IInv, RefsKeep
<1>2. refs[r] \in RefType
  BY <1>1 DEF Typed, RefIds
<1>3. Deref(r) \in Values
  BY <1>2 DEF Deref, RefType, Values
<1>4. Deref(r) \in Objects => heap[Deref(r)] = "alive"
  BY <1>1, <1>2 DEF Deref, RefType, RefKeeps, Typed
<1> QED
  BY <1>1, <1>3, <1>4, GiveStep DEF GetReferenceValue, refVars, Typed

LEMMA SetPropertyStep ==
  ASSUME IInv, NEW h, SetProperty(h)
  PROVE  IInv'
<1>1. Typed /\ Hands /\ Known
  BY Parts
<1>2. /\ reachable' = reachable \cup {ValueOf(h)} /\ ValueOf(h) \in Objects
      /\ UNCHANGED <<handles, nextHandle, referenced, escaped, stack, refs, tokens,
                     wraps, tsfn, heap, outlives>>
  BY DEF SetProperty, handleVars, refVars
<1>3. Typed'
  BY <1>1, <1>2 DEF Typed, Live, RefIds
<1>4. Hands'
  BY <1>1, <1>2, OthersKeepHands
<1>5. Known'
  <2>1. Live' = Live /\ Depth' = Depth
    BY <1>2 DEF Live, Depth
  <2>2. KnownAlive'
    BY <1>1, <1>2, <2>1, ValueKnown DEF Known, KnownAlive, Alive
  <2> QED
    BY <1>1, <1>2, <2>2, RefsGrow DEF Known, GivenUpOver
<1> QED
  BY <1>3, <1>4, <1>5, PartsNext

LEMMA EscapeStep ==
  ASSUME IInv, NEW h \in Held, Escape(h)
  PROVE  IInv'
<1>1. Typed /\ Hands /\ Known
  BY Parts
<1>2. /\ escaped' = escaped \cup {h} /\ outlives' \subseteq outlives \cup {h}
      /\ UNCHANGED <<handles, nextHandle, referenced, stack, refs, tokens, wraps,
                     tsfn, heap, reachable>>
  BY DEF Escape, jsVars, refVars
<1>3. h \in Live
  BY <1>1 DEF Hands, HeldStay
<1>4. Typed'
  BY <1>1, <1>2, <1>3 DEF Typed, Live, RefIds
<1>5. Hands'
  BY <1>1, EscapeKeepsHands
<1>6. Known'
  BY <1>1, <1>2, OthersKeepKnown
<1> QED
  BY <1>4, <1>5, <1>6, PartsNext

LEMMA CreateTsfnStep ==
  ASSUME IInv, NEW h \in Held, CreateTsfn(h)
  PROVE  IInv'
<1>1. Typed /\ Hands /\ Known
  BY Parts
<1>2. /\ handles' = Added(Global) /\ nextHandle' = nextHandle + 1
      /\ tsfn' = [state |-> "live", handle |-> nextHandle, func |-> h]
      /\ referenced' = referenced \cup {nextHandle, h}
      /\ UNCHANGED <<stack, escaped, refs, tokens, wraps, heap, reachable, outlives>>
  BY DEF CreateTsfn, jsVars, refVars
<1>3. h \in 1 .. nextHandle - 1 /\ nextHandle \in Nat \ {0, 1} /\ Global \in Values
  BY <1>1 DEF Hands, HeldStay, Typed, Values
<1>4. Typed'
  <2>1. tsfn' \in [state : {"none", "live", "ended"}, handle : Nat, func : 0 .. nextHandle]
    BY <1>2, <1>3
  <2>2. referenced' \cup escaped' \cup outlives' \subseteq 1 .. nextHandle
    <3>1. \A x \in referenced \cup escaped \cup outlives : x \in 1 .. nextHandle
      BY <1>1, <1>3 DEF Typed
    <3> QED
      BY <1>2, <1>3, <3>1
  <2>3. heap' \in [Objects -> {"new", "alive", "gone"}] /\ stack' \in Seq(FrameType)
    BY <1>1, <1>2 DEF Typed
  <2> QED
    BY <1>1, <1>2, <1>3, <2>1, <2>2, <2>3, NewHandleTyped
<1>5. Hands'
  BY <1>1, CreateTsfnKeepsHands
<1>6. KnownAlive'
  <2>1. \A x \in Live' : \/ x \in Live /\ handles'[x] = handles[x]
                         \/ handles'[x] \in Objects => heap'[handles'[x]] = "alive"
    BY <1>1, <1>2, <1>3, AddedIs DEF Live
  <2> QED
    BY <1>1, <1>2, <2>1, AliveGrows DEF Known, Depth
<1>7. RefsKeep' /\ GivenUpOver'
  BY <1>1, <1>2, RefsGrow DEF Known, GivenUpOver
<1> QED
  BY <1>4, <1>5, <1>6, <1>7, PartsNext DEF Known

LEMMA EndTsfnStep ==
  ASSUME IInv, EndTsfn
  PROVE  IInv'
<1>1. Typed /\ Hands /\ Known
  BY Parts
<1>2. /\ handles' = [h \in Live \ {tsfn.handle} |-> handles[h]]
      /\ tsfn' = [tsfn EXCEPT !.state = "ended"] /\ tsfn.state = "live"
      /\ referenced' = referenced \ {tsfn.handle, tsfn.func}
      /\ outlives' = outlives \cup {tsfn.func}
      /\ UNCHANGED <<nextHandle, escaped, stack, refs, tokens, wraps, heap, reachable>>
  BY DEF EndTsfn, Remove, jsVars, refVars
<1>3. Live' = Live \ {tsfn.handle} /\ \A h \in Live' : handles'[h] = handles[h]
  BY <1>2 DEF Live
<1>4. Typed'
  <2>1. tsfn.func \in 1 .. nextHandle - 1
    BY <1>1, <1>2 DEF Typed, Hands, TsfnApart
  <2>2. tsfn' \in [state : {"none", "live", "ended"}, handle : Nat,
                   func : 0 .. nextHandle - 1]
    BY <1>1, <1>2 DEF Typed
  <2>3. Live' \subseteq 1 .. nextHandle - 1 /\ handles' \in [Live' -> Values]
    BY <1>1, <1>2, <1>3 DEF Typed
  <2>4. referenced' \cup escaped' \cup outlives' \subseteq 1 .. nextHandle - 1
    BY <1>1, <1>2, <2>1 DEF Typed
  <2> QED
    BY <1>1, <1>2, <2>2, <2>3, <2>4 DEF Typed, RefIds
<1>5. Hands'
  BY <1>1, EndTsfnKeepsHands
<1>6. KnownAlive'
  BY <1>1, <1>2, <1>3, AliveGrows DEF Known, Depth
<1>7. RefsKeep' /\ GivenUpOver'
  BY <1>1, <1>2, RefsGrow DEF Known, GivenUpOver
<1> QED
  BY <1>4, <1>5, <1>6, <1>7, PartsNext DEF Known

\* References: the types, when the list of them changes.
LEMMA RefsTyped ==
  ASSUME Typed, UNCHANGED <<nextHandle, tsfn, heap, reachable, escaped, outlives>>,
         Live' \subseteq Live, handles' \in [Live' -> Values],
         referenced' \subseteq 1 .. nextHandle - 1, stack' \in Seq(FrameType),
         refs' \in Seq(RefType), tokens' \in Seq(TokenType),
         \A r \in RefIds' : /\ refs'[r].token \in 0 .. Len(tokens')
                            /\ refs'[r].handle \in 0 .. nextHandle - 1,
         DOMAIN wraps' \subseteq Objects \cup {Global}
  PROVE  Typed'
  BY DEF Typed

\* The ids of the handles that are held were given out.
LEMMA HeldIds ==
  ASSUME Typed, Hands
  PROVE  \A h \in Held \cup {GlobalHandle} : h \in 1 .. nextHandle - 1 /\ h \in Nat \ {0}
<1>1. /\ nextHandle \in Nat \ {0, 1} /\ Live \subseteq 1 .. nextHandle - 1
      /\ Held \subseteq Live
  BY DEF Hands, HeldStay, Typed
<1> HIDE DEF Live, Held
<1> QED
  BY <1>1

\* A reference is added for a handle of the function that asks for it.
RefAdded(ref) ==
  /\ ref \in RefType /\ refs' \in Seq(RefType)
  /\ \A r \in RefIds' :
       /\ refs'[r].token \in 0 .. Len(tokens')
       /\ refs'[r].handle \in 0 .. nextHandle - 1
       /\ refs'[r] = ref \/ (r \in RefIds /\ refs'[r] = refs[r])

LEMMA AddRefIs ==
  ASSUME Typed, NEW ref \in RefType, ref.handle \in 0 .. nextHandle - 1,
         ref.token \in 0 .. Len(tokens'), refs' = Append(refs, ref),
         tokens' \in Seq(TokenType), Len(tokens) <= Len(tokens')
  PROVE  RefAdded(ref)
<1>1. Len(tokens) \in Nat /\ Len(tokens') \in Nat /\ refs \in Seq(RefType)
  BY DEF Typed
<1>2. /\ refs' \in Seq(RefType) /\ RefIds' = 1 .. Len(refs) + 1
      /\ \A r \in 1 .. Len(refs) : r \in RefIds /\ refs'[r] = refs[r]
      /\ refs'[Len(refs) + 1] = ref
  BY <1>1 DEF RefIds
<1>3. \A r \in RefIds' : refs'[r] = ref \/ (r \in RefIds /\ refs'[r] = refs[r])
  <2>1. \A r \in 1 .. Len(refs) + 1 : r \in 1 .. Len(refs) \/ r = Len(refs) + 1
    BY <1>1
  <2> QED
    BY <1>2, <2>1, Zenon
<1>4. \A r \in RefIds : /\ refs[r].token \in 0 .. Len(tokens')
                        /\ refs[r].handle \in 0 .. nextHandle - 1
  BY <1>1 DEF Typed
<1> QED
  BY <1>2, <1>3, <1>4 DEF RefAdded

LEMMA CreateReferenceStep ==
  ASSUME IInv, NEW h \in Held \cup {GlobalHandle}, NEW count \in 0 .. 1,
         CreateReference(h, count)
  PROVE  IInv'
<1>1. Typed /\ Hands /\ Known
  BY Parts
<1>. PICK v : v = ValueOf(h)
  OBVIOUS
<1>. PICK weak \in BOOLEAN : weak = (count = 0 /\ IsObject(v))
  OBVIOUS
<1>2. /\ AddRef(h, v, weak, count, NoToken, v)
      /\ referenced' = IF count > 0 THEN referenced \cup {h} ELSE referenced
      /\ UNCHANGED <<handles, nextHandle, escaped, stack, tokens, wraps, tsfn, heap,
                     reachable, outlives>>
  BY DEF CreateReference, jsVars
<1>3. v \in Values /\ Alive(v) /\ weak \in BOOLEAN /\ count \in Nat
  BY <1>1, ValueKnown DEF Known
<1>4. tokens' \in Seq(TokenType) /\ Len(tokens) <= Len(tokens') /\ 0 \in 0 .. Len(tokens')
  BY <1>1, <1>2 DEF Typed
<1>5. PICK ref : /\ RefAdded(ref)
                 /\ ref.handle = h /\ ref.value = v /\ ref.weak = weak
                 /\ ref.count = count /\ ref.made = v
  <2>1. PICK ref : ref = [handle |-> h, value |-> v, weak |-> weak, count |-> count,
                          released |-> FALSE, token |-> 0, made |-> v]
    OBVIOUS
  <2>2. /\ ref.handle = h /\ ref.value = v /\ ref.weak = weak
        /\ ref.count = count /\ ref.made = v /\ ref.token = 0
    BY <2>1
  <2>3. ref \in RefType /\ ref.handle \in 0 .. nextHandle - 1
    BY <1>1, <1>3, <2>1, HeldIds DEF RefType
  <2>4. refs' = Append(refs, ref)
    BY <1>2, <2>1, Zenon DEF AddRef
  <2> QED
    BY <1>1, <1>4, <2>2, <2>3, <2>4, AddRefIs
<1>6. Typed'
  <2>1. h \in 1 .. nextHandle - 1
    BY <1>1, HeldIds
  <2>2. referenced' \subseteq 1 .. nextHandle - 1 /\ Live' = Live
    BY <1>1, <1>2, <2>1 DEF Typed, Live
  <2>3. /\ UNCHANGED <<nextHandle, tsfn, heap, reachable, escaped, outlives>>
        /\ handles' \in [Live' -> Values] /\ stack' \in Seq(FrameType)
        /\ DOMAIN wraps' \subseteq Objects \cup {Global}
    BY <1>1, <1>2, <2>2 DEF Typed
  <2> QED
    BY <1>1, <1>4, <1>5, <2>2, <2>3, RefsTyped DEF RefAdded
<1>7. Hands'
  <2>1. referenced \subseteq referenced'
    BY <1>2
  <2>2. \A r \in RefIds' : \/ refs'[r].handle \in Held \cup {0, GlobalHandle}
                           \/ r \in RefIds /\ refs'[r].handle = refs[r].handle
    BY <1>5 DEF RefAdded
  <2> QED
    BY <1>1, <1>2, <2>1, <2>2, RefsKeepHands
<1>8. RefsKeep'
  <2>1. RefKeeps(ref)
    <3>1. v \in Objects => heap[v] = "alive" /\ (weak <=> count = 0)
      BY <1>3 DEF Alive, IsObject
    <3>2. weak => count = 0
      OBVIOUS
    <3>3. count # 0 => count > 0
      OBVIOUS
    <3>4. ref.made = v /\ ref.value = v /\ ref.weak = weak /\ ref.count = count
      BY <1>5
    <3>5. heap[v] = "alive" => heap[v] # "new"
      OBVIOUS
    <3>6. ~(weak /\ count > 0)
      BY <3>2
    <3>7. v \in Objects /\ ~weak => count > 0
      BY <3>1, <3>3, Zenon
    <3>8. ref.handle # 0
      BY <1>1, <1>5, HeldIds
    <3> QED
      BY <3>1, <3>4, <3>5, <3>6, <3>7, <3>8, Zenon DEF RefKeeps
  <2>2. \A r \in RefIds' : RefKeeps(refs'[r])
    BY <1>1, <1>5, <2>1 DEF Known, RefsKeep, RefAdded
  <2> QED
    BY <1>2, <2>2 DEF RefsKeep, RefKeeps
<1>9. KnownAlive' /\ GivenUpOver'
  BY <1>1, <1>2 DEF Known, KnownAlive, GivenUpOver, Alive, Live, Depth
<1> QED
  BY <1>6, <1>7, <1>8, <1>9, PartsNext DEF Known

\* A reference is changed.
RefSet(r, ref) ==
  /\ refs' \in Seq(RefType) /\ RefIds' = RefIds
  /\ \A x \in RefIds : /\ refs'[x] = IF x = r THEN ref ELSE refs[x]
                       /\ refs'[x].token \in 0 .. Len(tokens')
                       /\ refs'[x].handle \in 0 .. nextHandle - 1
                       /\ refs'[x].handle \in {0, refs[x].handle}

LEMMA SetRefIs ==
  ASSUME Typed, NEW r \in RefIds, NEW ref \in RefType,
         ref.handle \in {0, refs[r].handle}, ref.token \in {0, refs[r].token},
         refs' = [refs EXCEPT ![r] = ref], Len(tokens') = Len(tokens)
  PROVE  RefSet(r, ref)
<1>1. /\ refs \in Seq(RefType) /\ r \in DOMAIN refs /\ RefIds = DOMAIN refs
      /\ Len(tokens) \in Nat /\ nextHandle \in Nat \ {0, 1}
  BY DEF Typed, RefIds
<1>2. /\ refs' \in Seq(RefType) /\ RefIds' = RefIds
      /\ \A x \in RefIds : refs'[x] = IF x = r THEN ref ELSE refs[x]
  BY <1>1 DEF RefIds
<1>3. \A x \in RefIds : /\ refs[x].token \in 0 .. Len(tokens)
                        /\ refs[x].handle \in 0 .. nextHandle - 1
  BY DEF Typed
<1>4. 0 \in 0 .. Len(tokens) /\ 0 \in 0 .. nextHandle - 1
  BY <1>1
<1> QED
  BY <1>2, <1>3, <1>4 DEF RefSet

LEMMA RefFields ==
  ASSUME Typed, NEW r \in RefIds
  PROVE  refs[r] \in RefType
  BY DEF Typed, RefIds

LEMMA StrengthenedIs ==
  ASSUME NEW old \in RefType
  PROVE  /\ Strengthened(old) \in RefType /\ ~Strengthened(old).weak
         /\ Strengthened(old).count = old.count + 1
         /\ Strengthened(old).made = old.made /\ Strengthened(old).value = old.value
         /\ Strengthened(old).handle = old.handle /\ Strengthened(old).token = old.token
<1>1. old.count + 1 \in Nat
  BY DEF RefType
<1> QED
  BY <1>1 DEF RefType, Strengthened

\* What a reference is after napi_reference_ref.
LEMMA RefCountsUp ==
  ASSUME Typed, RefsKeep, NEW r \in RefIds, NEW turns,
         turns <=> refs[r].count = 0 /\ refs[r].weak /\ Deref(r) # Undefined,
         refs' = IF turns THEN [refs EXCEPT ![r] = Strengthened(@)]
                 ELSE [refs EXCEPT ![r].count = @ + 1]
  PROVE  \E ref \in RefType : /\ refs' = [refs EXCEPT ![r] = ref] /\ RefKeeps(ref)
                              /\ ref.handle = refs[r].handle
                              /\ ref.token = refs[r].token
<1> DEFINE old == refs[r]
<1>1. old \in RefType /\ RefKeeps(old)
  BY RefFields DEF RefsKeep
<1>2. CASE turns
  <2>1. PICK ref : ref = Strengthened(old)
    OBVIOUS
  <2>2. refs' = [refs EXCEPT ![r] = ref]
    BY <1>2, <2>1
  <2>3. /\ ref \in RefType /\ ref.count = old.count + 1 /\ ~ref.weak
        /\ ref.made = old.made /\ ref.value = old.value
        /\ ref.handle = old.handle /\ ref.token = old.token
    BY <1>1, <2>1, StrengthenedIs, Zenon
  <2>4. /\ old.count = 0 /\ old.weak /\ old.made \in Objects => heap[old.made] = "alive"
    <3>1. old.count = 0 /\ old.weak /\ Deref(r) # Undefined
      BY <1>2
    <3>2. old.made \in Objects => heap[old.made] # "gone"
      BY <1>1, <3>1 DEF Deref, RefKeeps
    <3> QED
      BY <1>1, <3>1, <3>2 DEF RefKeeps, Typed
  <2>5. ref.count > 0 /\ old.handle # 0
    BY <1>1, <1>2, <2>3 DEF RefKeeps, RefType
  <2>6. RefKeeps(ref)
    <3>1. old.made \in Objects => heap[old.made] = "alive" /\ heap[old.made] # "new"
      BY <1>2, <2>4
    <3> QED
      BY <1>1, <2>3, <2>5, <3>1, Zenon DEF RefKeeps
  <2> QED
    BY <2>2, <2>3, <2>6
<1>3. CASE ~turns
  <2>1. PICK ref : ref = [old EXCEPT !.count = old.count + 1]
    OBVIOUS
  <2>2. refs' = [refs EXCEPT ![r] = ref]
    BY <1>3, <2>1
  <2>3. /\ ref \in RefType /\ ref.count = old.count + 1 /\ ref.weak = old.weak
        /\ ref.made = old.made /\ ref.value = old.value
        /\ ref.handle = old.handle /\ ref.token = old.token
    BY <1>1, <2>1 DEF RefType
  <2>4. old.weak /\ old.made \in Objects => heap[old.made] = "gone"
    <3>1. CASE old.weak /\ old.count = 0 /\ old.made \in Objects
      <4>1. Deref(r) = Undefined /\ old.value = old.made
        BY <1>1, <1>3, <3>1 DEF RefKeeps
      <4> QED
        BY <3>1, <4>1 DEF Deref
    <3>2. CASE old.weak /\ old.count # 0 /\ old.made \in Objects
      BY <1>1, <3>2 DEF RefKeeps, RefType
    <3> QED
      BY <3>1, <3>2
  <2>5. RefKeeps(ref)
    BY <1>1, <2>3, <2>4 DEF RefKeeps, RefType
  <2> QED
    BY <2>2, <2>3, <2>5
<1> QED
  BY <1>2, <1>3

LEMMA ReferenceRefStep ==
  ASSUME IInv, NEW r \in RefIds, ReferenceRef(r)
  PROVE  IInv'
<1>1. Typed /\ Hands /\ Known
  BY Parts
<1>2. PICK turns : turns <=> refs[r].count = 0 /\ refs[r].weak /\ Deref(r) # Undefined
  OBVIOUS
<1>3. /\ refs' = IF turns THEN [refs EXCEPT ![r] = Strengthened(@)]
                 ELSE [refs EXCEPT ![r].count = @ + 1]
      /\ referenced' = IF turns THEN referenced \cup {refs[r].handle} ELSE referenced
      /\ UNCHANGED <<handles, nextHandle, escaped, stack, tokens, wraps, tsfn, heap,
                     reachable, outlives>>
  BY <1>2 DEF ReferenceRef, jsVars
<1>4. PICK ref \in RefType : /\ refs' = [refs EXCEPT ![r] = ref] /\ RefKeeps(ref)
                             /\ ref.handle = refs[r].handle
                             /\ ref.token = refs[r].token
  BY <1>1, <1>2, <1>3, RefCountsUp DEF Known
<1>5. RefSet(r, ref)
  BY <1>1, <1>3, <1>4, SetRefIs
<1>6. Typed'
  <2>1. turns => refs[r].handle \in 1 .. nextHandle - 1
    <3>1. refs[r].handle \in 0 .. nextHandle - 1 /\ nextHandle \in Nat
      BY <1>1 DEF Typed
    <3>2. turns => refs[r].handle # 0
      BY <1>1, <1>2 DEF Known, RefsKeep, RefKeeps
    <3> QED
      BY <3>1, <3>2
  <2>2. referenced' \subseteq 1 .. nextHandle - 1 /\ Live' = Live
    BY <1>1, <1>3, <2>1 DEF Typed, Live
  <2>3. /\ UNCHANGED <<nextHandle, tsfn, heap, reachable, escaped, outlives>>
        /\ handles' \in [Live' -> Values] /\ stack' \in Seq(FrameType)
        /\ DOMAIN wraps' \subseteq Objects \cup {Global} /\ tokens' \in Seq(TokenType)
    BY <1>1, <1>3, <2>2 DEF Typed
  <2> QED
    BY <1>1, <1>5, <2>2, <2>3, RefsTyped DEF RefSet
<1>7. Hands'
  <2>1. referenced \subseteq referenced'
    BY <1>3
  <2>2. \A x \in RefIds' : x \in RefIds /\ refs'[x].handle = refs[x].handle
    BY <1>4, <1>5 DEF RefSet
  <2> QED
    BY <1>1, <1>3, <2>1, <2>2, RefsKeepHands
<1>8. RefsKeep'
  <2>1. \A x \in RefIds' : RefKeeps(refs'[x])
    BY <1>1, <1>4, <1>5 DEF Known, RefsKeep, RefSet
  <2> QED
    BY <1>3, <2>1 DEF RefsKeep, RefKeeps
<1>9. KnownAlive' /\ GivenUpOver'
  BY <1>1, <1>3 DEF Known, KnownAlive, GivenUpOver, Alive, Live, Depth
<1> QED
  BY <1>6, <1>7, <1>8, <1>9, PartsNext DEF Known

\* What DropHandle does to the types.
LEMMA DropTyped ==
  ASSUME Typed, NEW h, DropHandle(h), NEW r \in RefIds, NEW ref, RefSet(r, ref),
         tokens' \in Seq(TokenType),
         UNCHANGED <<nextHandle, escaped, wraps, tsfn, heap, reachable, outlives>>
  PROVE  /\ Typed' /\ Live' \subseteq Live
         /\ \A x \in Live' : handles'[x] = handles[x]
         /\ Depth' = Depth /\ \A i \in 1 .. Depth : stack'[i].this = stack[i].this
<1>1. /\ Live' = Live \ {h} /\ handles' = [x \in Live \ {h} |-> handles[x]]
      /\ referenced' \subseteq referenced
  BY DEF DropHandle, Remove, Live
<1>2. SameWithout({h})
  BY WithoutIs DEF DropHandle
<1>3. /\ handles' \in [Live' -> Values] /\ referenced' \subseteq 1 .. nextHandle - 1
      /\ DOMAIN wraps' \subseteq Objects \cup {Global}
  BY <1>1 DEF Typed
<1>4. Typed'
  BY <1>1, <1>2, <1>3, RefsTyped DEF SameWithout, RefSet
<1> QED
  BY <1>1, <1>2, <1>4 DEF SameWithout

LEMMA WeakenedIs ==
  ASSUME NEW old \in RefType, RefKeeps(old)
  PROVE  /\ Weakened(old) \in RefType /\ RefKeeps(Weakened(old))
         /\ Weakened(old).handle = old.handle /\ Weakened(old).token = old.token
<1> DEFINE new == Weakened(old)
<1>0. ~IsObject(Symbol)
  BY NapiHandlesAssumption DEF IsObject
<1>1. CASE IsObject(old.value)
  <2>1. new = [old EXCEPT !.count = 0, !.weak = TRUE]
    BY <1>0, <1>1, Zenon DEF Weakened
  <2>2. /\ new \in RefType /\ new.count = 0 /\ new.weak /\ new.made = old.made
        /\ new.value = old.value /\ new.handle = old.handle /\ new.token = old.token
    <3>1. PICK n : n = [old EXCEPT !.count = 0]
      OBVIOUS
    <3>2. /\ n \in RefType /\ n.count = 0 /\ n.made = old.made
          /\ n.value = old.value /\ n.handle = old.handle /\ n.token = old.token
      BY <3>1 DEF RefType
    <3>3. new = [n EXCEPT !.weak = TRUE]
      BY <2>1, <3>1, Zenon
    <3> HIDE DEF new
    <3> QED
      BY <3>2, <3>3 DEF RefType
  <2> HIDE DEF new
  <2>3. old.handle # 0
    BY <1>1 DEF RefKeeps
  <2>4. ~(new.count > 0)
    BY <2>2
  <2>5. RefKeeps(new)
    BY <2>2, <2>3, <2>4, Zenon DEF RefKeeps
  <2> QED
    BY <2>2, <2>5 DEF new
<1>2. CASE ~IsObject(old.value) /\ old.value # Symbol
  <2>1. new = [old EXCEPT !.count = 0, !.value = Undefined, !.released = TRUE]
    BY <1>2, Zenon DEF Weakened
  <2>2. /\ new \in RefType /\ new.count = 0 /\ (new.weak <=> old.weak)
        /\ new.made = old.made /\ new.value = Undefined
        /\ new.handle = old.handle /\ new.token = old.token
    <3>1. PICK n : n = [old EXCEPT !.count = 0]
      OBVIOUS
    <3>2. PICK m : m = [n EXCEPT !.value = Undefined]
      OBVIOUS
    <3>3. /\ n \in RefType /\ n.count = 0 /\ n.made = old.made /\ (n.weak <=> old.weak)
          /\ n.handle = old.handle /\ n.token = old.token
      BY <3>1 DEF RefType
    <3>4. /\ m \in RefType /\ m.count = 0 /\ m.made = old.made /\ (m.weak <=> old.weak)
          /\ m.handle = old.handle /\ m.token = old.token /\ m.value = Undefined
      BY <3>2, <3>3 DEF RefType, Values
    <3>5. new = [m EXCEPT !.released = TRUE]
      BY <2>1, <3>1, <3>2, Zenon
    <3> HIDE DEF new
    <3> QED
      BY <3>4, <3>5 DEF RefType
  <2> HIDE DEF new
  <2>3. old.made \notin Objects
    BY <1>2 DEF RefKeeps, IsObject
  <2>4. ~IsObject(Undefined) /\ Undefined \notin Objects
    BY DEF IsObject
  <2>5. RefKeeps(new)
    BY <2>2, <2>3, <2>4, Zenon DEF RefKeeps
  <2> QED
    BY <2>2, <2>5 DEF new
<1>3. CASE old.value = Symbol
  <2>1. new = [old EXCEPT !.count = 0]
    BY <1>0, <1>3, Zenon DEF Weakened
  <2>2. /\ new \in RefType /\ new.count = 0 /\ (new.weak <=> old.weak)
        /\ new.made = old.made /\ new.value = old.value
        /\ new.handle = old.handle /\ new.token = old.token
    <3> HIDE DEF new
    <3> QED
      BY <2>1 DEF RefType
  <2> HIDE DEF new
  <2>3. old.made \notin Objects /\ ~(new.count > 0)
    BY <1>0, <1>3, <2>2 DEF RefKeeps, IsObject
  <2>4. RefKeeps(new)
    BY <2>2, <2>3, Zenon DEF RefKeeps
  <2> QED
    BY <2>2, <2>4 DEF new
<1> QED
  BY <1>1, <1>2, <1>3

LEMMA CountsLess ==
  ASSUME NEW old \in RefType, RefKeeps(old), ~(Less(old.count) = 0 /\ ~old.weak)
  PROVE  LET new == [old EXCEPT !.count = Less(old.count)]
         IN /\ new \in RefType /\ RefKeeps(new)
            /\ new.handle = old.handle /\ new.token = old.token
<1> DEFINE new == [old EXCEPT !.count = Less(old.count)]
<1>1. old.count \in Nat /\ Less(old.count) \in Nat
  BY DEF RefType, Less
<1>2. /\ new \in RefType /\ new.count = Less(old.count) /\ (new.weak <=> old.weak)
      /\ new.made = old.made /\ new.value = old.value
      /\ new.handle = old.handle /\ new.token = old.token
  BY <1>1 DEF RefType
<1> HIDE DEF new
<1>3. /\ new.count > 0 => old.count > 0
      /\ ~new.weak => new.count > 0
  BY <1>1, <1>2 DEF Less
<1>4. RefKeeps(new)
  BY <1>2, <1>3, Zenon DEF RefKeeps
<1> QED
  BY <1>2, <1>4 DEF new

\* A reference is given up together with its handle.
LEMMA DropStep ==
  ASSUME IInv, NEW r \in RefIds, NEW ref \in RefType, RefKeeps(ref),
         refs' = [refs EXCEPT ![r] = ref], ref.handle \in {0, refs[r].handle},
         ref.token \in {0, refs[r].token}, DropHandle(refs[r].handle),
         tokens' \in Seq(TokenType), Len(tokens') = Len(tokens), GivenUpOver',
         UNCHANGED <<nextHandle, escaped, wraps, tsfn, heap, reachable, outlives>>
  PROVE  IInv'
<1>1. Typed /\ Hands /\ Known
  BY Parts
<1>2. RefSet(r, ref)
  BY <1>1, SetRefIs
<1>3. /\ Typed' /\ Live' \subseteq Live
      /\ \A x \in Live' : handles'[x] = handles[x]
      /\ Depth' = Depth /\ \A i \in 1 .. Depth : stack'[i].this = stack[i].this
  BY <1>1, <1>2, DropTyped
<1>4. Hands'
  <2>1. RefIds' = RefIds /\ \A x \in RefIds : refs'[x].handle \in {0, refs[x].handle}
    BY <1>2 DEF RefSet
  <2> QED
    BY <1>1, <2>1, DropKeepsHands
<1>5. KnownAlive'
  BY <1>1, <1>3, AliveGrows DEF Known
<1>6. RefsKeep'
  <2>1. \A x \in RefIds' : RefKeeps(refs'[x])
    BY <1>1, <1>2 DEF Known, RefsKeep, RefSet
  <2> QED
    BY <2>1 DEF RefsKeep, RefKeeps
<1> QED
  BY <1>3, <1>4, <1>5, <1>6, PartsNext DEF Known

\* A reference is counted down, and given up when it reaches zero.
LEMMA ReferenceUnrefStep ==
  ASSUME IInv, NEW r \in RefIds, ReferenceUnref(r)
  PROVE  IInv'
<1>1. Typed /\ Hands /\ Known
  BY Parts
<1>2. refs[r] \in RefType /\ RefKeeps(refs[r])
  BY <1>1, RefFields DEF Known, RefsKeep
<1>3. /\ tokens' = tokens
      /\ UNCHANGED <<nextHandle, escaped, wraps, tsfn, heap, reachable, outlives>>
  BY DEF ReferenceUnref, jsVars
<1>4. /\ tokens' \in Seq(TokenType) /\ Len(tokens') = Len(tokens) /\ GivenUpOver'
  BY <1>1, <1>3 DEF Typed, Known, GivenUpOver
<1>5. CASE Less(refs[r].count) = 0 /\ ~refs[r].weak
  <2>1. PICK ref : ref = Weakened(refs[r])
    OBVIOUS
  <2>2. ref \in RefType /\ RefKeeps(ref) /\ ref.handle = refs[r].handle
        /\ ref.token = refs[r].token
    BY <1>2, <2>1, WeakenedIs
  <2>3. refs' = [refs EXCEPT ![r] = ref] /\ DropHandle(refs[r].handle)
    BY <1>5, <2>1 DEF ReferenceUnref
  <2> QED
    BY <1>3, <1>4, <2>2, <2>3, DropStep
<1>6. CASE ~(Less(refs[r].count) = 0 /\ ~refs[r].weak)
  <2>1. PICK ref : ref = [refs[r] EXCEPT !.count = Less(refs[r].count)]
    OBVIOUS
  <2>2. ref \in RefType /\ RefKeeps(ref) /\ ref.handle = refs[r].handle
        /\ ref.token = refs[r].token
    BY <1>2, <1>6, <2>1, CountsLess
  <2>3. refs' = [refs EXCEPT ![r] = ref] /\ UNCHANGED <<handles, referenced, stack>>
    BY <1>6, <2>1, Zenon DEF ReferenceUnref
  <2>4. RefSet(r, ref)
    BY <1>1, <1>3, <2>2, <2>3, SetRefIs
  <2>5. Typed'
    <3>1. /\ referenced' \subseteq 1 .. nextHandle - 1 /\ Live' = Live
          /\ handles' \in [Live' -> Values] /\ stack' \in Seq(FrameType)
          /\ DOMAIN wraps' \subseteq Objects \cup {Global}
      BY <1>1, <1>3, <2>3 DEF Typed, Live
    <3> QED
      BY <1>1, <1>3, <1>4, <2>4, <3>1, RefsTyped DEF RefSet
  <2>6. Hands'
    <3>1. \A x \in RefIds' : x \in RefIds /\ refs'[x].handle = refs[x].handle
      BY <2>2, <2>4 DEF RefSet
    <3> QED
      BY <1>1, <1>3, <2>3, <3>1, RefsKeepHands
  <2>7. RefsKeep'
    <3>1. \A x \in RefIds' : RefKeeps(refs'[x])
      BY <1>1, <2>2, <2>4 DEF Known, RefsKeep, RefSet
    <3> QED
      BY <1>3, <3>1 DEF RefsKeep, RefKeeps
  <2>8. KnownAlive'
    BY <1>1, <1>3, <2>3 DEF Known, KnownAlive, Alive, Live, Depth
  <2> QED
    BY <1>4, <2>5, <2>6, <2>7, <2>8, PartsNext DEF Known
<1> QED
  BY <1>5, <1>6

\* A token is cancelled: its finalizer has run or will not.
LEMMA CancelledIs ==
  ASSUME Typed, GivenUpOver, NEW t, tokens' = CancelledToken(t)
  PROVE  tokens' \in Seq(TokenType) /\ Len(tokens') = Len(tokens) /\ GivenUpOver'
<1>1. tokens \in Seq(TokenType) /\ Len(tokens) \in Nat /\ DOMAIN tokens = 1 .. Len(tokens)
  BY DEF Typed
<1>2. ASSUME NEW i \in 1 .. Len(tokens), NEW new,
             new = IF i = t THEN [tokens[i] EXCEPT !.given = TRUE,
                                    !.state = IF @ = "done" THEN @ ELSE "cancelled"]
                   ELSE tokens[i]
      PROVE  new \in TokenType /\ (new.given => new.state \in {"cancelled", "done"})
  <2>1. tokens[i] \in TokenType
    BY <1>1
  <2>2. CASE i = t
    <3>1. PICK s : s = IF tokens[i].state = "done" THEN tokens[i].state ELSE "cancelled"
      OBVIOUS
    <3>2. s \in {"cancelled", "done"}
      BY <3>1
    <3>3. new = [tokens[i] EXCEPT !.given = TRUE, !.state = s]
      BY <1>2, <2>2, <3>1, Zenon
    <3> QED
      BY <2>1, <3>2, <3>3 DEF TokenType
  <2>3. CASE i # t
    BY <1>1, <1>2, <2>1, <2>3 DEF GivenUpOver
  <2> QED
    BY <2>2, <2>3
<1>3. \A i \in 1 .. Len(tokens) :
        /\ tokens'[i] \in TokenType
        /\ tokens'[i].given => tokens'[i].state \in {"cancelled", "done"}
  <2>1. \A i \in DOMAIN tokens :
          tokens'[i] = IF i = t THEN [tokens[i] EXCEPT !.given = TRUE,
                                        !.state = IF @ = "done" THEN @ ELSE "cancelled"]
                       ELSE tokens[i]
    BY Zenon DEF CancelledToken
  <2> QED
    BY <1>1, <1>2, <2>1, Zenon
<1>4. tokens' \in [1 .. Len(tokens) -> TokenType]
  <2>1. DOMAIN tokens' = 1 .. Len(tokens) /\ tokens' = [i \in DOMAIN tokens |-> tokens'[i]]
    BY <1>1, Zenon DEF CancelledToken
  <2> QED
    BY <1>3, <2>1, Zenon
<1>5. tokens' \in Seq(TokenType) /\ Len(tokens') = Len(tokens)
  BY <1>1, <1>4
<1> QED
  BY <1>3, <1>5 DEF GivenUpOver

LEMMA DeleteReferenceStep ==
  ASSUME IInv, NEW r \in RefIds, DeleteReference(r)
  PROVE  IInv'
<1>1. Typed /\ Hands /\ Known
  BY Parts
<1>2. PICK ref : ref = Deleted
  OBVIOUS
<1>3. ref \in RefType /\ ref.handle = 0 /\ ref.token = 0 /\ RefKeeps(ref)
  BY <1>2 DEF Deleted, RefType, Values, RefKeeps, IsObject
<1>4. tokens' \in Seq(TokenType) /\ Len(tokens') = Len(tokens) /\ GivenUpOver'
  BY <1>1, CancelledIs DEF DeleteReference, Known
<1>5. /\ refs' = [refs EXCEPT ![r] = ref] /\ DropHandle(refs[r].handle)
      /\ UNCHANGED <<nextHandle, escaped, wraps, tsfn, heap, reachable, outlives>>
  BY <1>2 DEF DeleteReference, jsVars
<1> QED
  BY <1>3, <1>4, <1>5, DropStep

\* References and tokens change, and no handle with them.
LEMMA RefersStep ==
  ASSUME IInv, refs' \in Seq(RefType), tokens' \in Seq(TokenType),
         \A r \in RefIds' : /\ refs'[r].token \in 0 .. Len(tokens')
                            /\ refs'[r].handle \in 0 .. nextHandle - 1
                            /\ RefKeeps(refs'[r])
                            /\ \/ refs'[r].handle \in Held
                               \/ r \in RefIds /\ refs'[r].handle = refs[r].handle,
         DOMAIN wraps' \subseteq Objects \cup {Global}, GivenUpOver',
         UNCHANGED <<handles, nextHandle, referenced, escaped, stack, tsfn, heap,
                     reachable, outlives>>
  PROVE  IInv'
<1>1. Typed /\ Hands /\ Known
  BY Parts
<1>2. Typed'
  <2>1. /\ referenced' \subseteq 1 .. nextHandle - 1 /\ Live' = Live
        /\ handles' \in [Live' -> Values] /\ stack' \in Seq(FrameType)
    BY <1>1 DEF Typed, Live
  <2> QED
    BY <1>1, <2>1, RefsTyped
<1>3. Hands'
  <2>1. \A r \in RefIds' : \/ refs'[r].handle \in Held \cup {0, GlobalHandle}
                           \/ r \in RefIds /\ refs'[r].handle = refs[r].handle
    OBVIOUS
  <2> QED
    BY <1>1, <2>1, RefsKeepHands
<1>4. RefsKeep'
  BY DEF RefsKeep, RefKeeps
<1>5. KnownAlive'
  BY <1>1 DEF Known, KnownAlive, Alive, Live, Depth
<1> QED
  BY <1>2, <1>3, <1>4, <1>5, PartsNext DEF Known

LEMMA ReleasedIs ==
  ASSUME NEW old \in RefType, RefKeeps(old)
  PROVE  LET new == [old EXCEPT !.released = TRUE]
         IN /\ new \in RefType /\ RefKeeps(new)
            /\ new.handle = old.handle /\ new.token = old.token
<1> DEFINE new == [old EXCEPT !.released = TRUE]
<1>1. /\ new \in RefType /\ new.count = old.count /\ (new.weak <=> old.weak)
      /\ new.made = old.made /\ new.value = old.value
      /\ new.handle = old.handle /\ new.token = old.token
  BY DEF RefType
<1> HIDE DEF new
<1>2. RefKeeps(new)
  BY <1>1, Zenon DEF RefKeeps
<1> QED
  BY <1>1, <1>2 DEF new

LEMMA RemoveWrapStep ==
  ASSUME IInv, NEW h, RemoveWrap(h)
  PROVE  IInv'
<1>1. Typed /\ Hands /\ Known
  BY Parts
<1>2. PICK o : o = ValueOf(h)
  OBVIOUS
<1>3. /\ tokens' = CancelledToken(wraps[o].token)
      /\ refs' = [r \in RefIds |-> IF r \in wraps[o].refs
                                   THEN [refs[r] EXCEPT !.released = TRUE] ELSE refs[r]]
      /\ DOMAIN wraps' = DOMAIN wraps \ {o}
      /\ UNCHANGED <<handles, nextHandle, referenced, escaped, stack, tsfn, heap,
                     reachable, outlives>>
  BY <1>2 DEF RemoveWrap, handleVars, jsVars
<1>4. tokens' \in Seq(TokenType) /\ Len(tokens') = Len(tokens) /\ GivenUpOver'
  <2>1. PICK t : t = wraps[o].token
    OBVIOUS
  <2>2. tokens' = CancelledToken(t)
    BY <1>3, <2>1
  <2> QED
    BY <1>1, <2>2, CancelledIs DEF Known
<1>5. ASSUME NEW r \in RefIds
      PROVE  /\ refs'[r] \in RefType /\ RefKeeps(refs'[r])
             /\ refs'[r].handle = refs[r].handle /\ refs'[r].token = refs[r].token
  <2>1. refs[r] \in RefType /\ RefKeeps(refs[r])
    BY <1>1, RefFields DEF Known, RefsKeep
  <2>2. CASE r \in wraps[o].refs
    <3>1. refs'[r] = [refs[r] EXCEPT !.released = TRUE]
      BY <1>3, <2>2, Zenon
    <3> QED
      BY <2>1, <3>1, ReleasedIs, Zenon
  <2>3. CASE r \notin wraps[o].refs
    <3>1. refs'[r] = refs[r]
      BY <1>3, <2>3, Zenon
    <3> QED
      BY <2>1, <3>1
  <2> QED
    BY <2>2, <2>3
<1>6. refs' \in Seq(RefType) /\ RefIds' = RefIds
  <2>1. RefIds = 1 .. Len(refs) /\ Len(refs) \in Nat
    BY <1>1 DEF Typed, RefIds
  <2>2. refs' = [r \in 1 .. Len(refs) |-> refs'[r]]
    BY <1>3, <2>1, Zenon
  <2>3. refs' \in [1 .. Len(refs) -> RefType]
    BY <1>5, <2>1, <2>2, Zenon
  <2>4. refs' \in Seq(RefType) /\ Len(refs') = Len(refs)
    BY <2>1, <2>3
  <2> QED
    BY <2>1, <2>4 DEF RefIds
<1>7. \A r \in RefIds' : /\ refs'[r].token \in 0 .. Len(tokens')
                         /\ refs'[r].handle \in 0 .. nextHandle - 1
                         /\ RefKeeps(refs'[r])
                         /\ \/ refs'[r].handle \in Held
                            \/ r \in RefIds /\ refs'[r].handle = refs[r].handle
  BY <1>1, <1>4, <1>5, <1>6 DEF Typed
<1>8. DOMAIN wraps' \subseteq Objects \cup {Global}
  BY <1>1, <1>3 DEF Typed
<1> QED
  BY <1>3, <1>4, <1>6, <1>7, <1>8, RefersStep

\* A finalizer is registered, which nobody has given up.
LEMMA RegisterIs ==
  ASSUME Typed, GivenUpOver, NEW o \in Objects \cup {Global}, Register(o)
  PROVE  tokens' \in Seq(TokenType) /\ Len(tokens') = Len(tokens) + 1 /\ GivenUpOver'
<1>1. PICK t : t = [object |-> o, state |-> "live", given |-> FALSE]
  OBVIOUS
<1>2. t \in TokenType /\ ~t.given
  BY <1>1 DEF TokenType
<1>3. tokens \in Seq(TokenType) /\ Len(tokens) \in Nat /\ tokens' = Append(tokens, t)
  BY <1>1 DEF Typed, Register
<1>4. /\ tokens' \in Seq(TokenType) /\ Len(tokens') = Len(tokens) + 1
      /\ \A i \in 1 .. Len(tokens) : tokens'[i] = tokens[i]
      /\ tokens'[Len(tokens) + 1] = t
  BY <1>2, <1>3
<1>5. \A i \in DOMAIN tokens' : i \in DOMAIN tokens \/ i = Len(tokens) + 1
  BY <1>3, <1>4
<1>6. \A i \in DOMAIN tokens : tokens'[i] = tokens[i]
  BY <1>3, <1>4
<1> QED
  BY <1>2, <1>4, <1>5, <1>6 DEF GivenUpOver

LEMMA RegisterStep ==
  ASSUME IInv, NEW h \in Held, NEW withCb \in BOOLEAN, NEW withRef \in BOOLEAN,
         RegisterAndRefer(h, withCb, withRef),
         DOMAIN wraps' \subseteq Objects \cup {Global},
         UNCHANGED <<handles, nextHandle, referenced, escaped, stack, tsfn, heap,
                     reachable, outlives>>
  PROVE  IInv'
<1>1. Typed /\ Hands /\ Known
  BY Parts
<1>2. PICK o : o = ValueOf(h)
  OBVIOUS
<1>3. /\ IF Registers(o, withCb) THEN Register(o) ELSE UNCHANGED tokens
      /\ IF withRef THEN AddRef(h, Undefined, FALSE, 0, TokenFor(o, withCb), Undefined)
         ELSE UNCHANGED refs
  BY <1>2 DEF RegisterAndRefer
<1>4. Len(tokens) \in Nat
  BY <1>1 DEF Typed
<1>5. /\ tokens' \in Seq(TokenType) /\ Len(tokens) <= Len(tokens') /\ GivenUpOver'
      /\ TokenFor(o, withCb) \in 0 .. Len(tokens')
  <2>1. CASE Registers(o, withCb)
    <3>1. o \in Objects \cup {Global} /\ Register(o)
      BY <1>3, <2>1 DEF Registers, IsObject
    <3>2. tokens' \in Seq(TokenType) /\ Len(tokens') = Len(tokens) + 1 /\ GivenUpOver'
      BY <1>1, <3>1, RegisterIs DEF Known
    <3> QED
      BY <1>4, <2>1, <3>2 DEF TokenFor, NextToken
  <2>2. CASE ~Registers(o, withCb)
    BY <1>1, <1>3, <1>4, <2>2 DEF TokenFor, Typed, Known, GivenUpOver
  <2> QED
    BY <2>1, <2>2
<1>6. /\ refs' \in Seq(RefType)
      /\ \A r \in RefIds' : /\ refs'[r].token \in 0 .. Len(tokens')
                            /\ refs'[r].handle \in 0 .. nextHandle - 1
                            /\ RefKeeps(refs'[r])
                            /\ \/ refs'[r].handle \in Held
                               \/ r \in RefIds /\ refs'[r].handle = refs[r].handle
  <2>1. CASE withRef
    <3>1. PICK token : token = TokenFor(o, withCb)
      OBVIOUS
    <3>2. PICK ref : ref = [handle |-> h, value |-> Undefined, weak |-> FALSE, count |-> 0,
                            released |-> FALSE, token |-> token, made |-> Undefined]
      OBVIOUS
    <3>3. h \in 0 .. nextHandle - 1 /\ h # 0 /\ h \in Nat /\ token \in 0 .. Len(tokens')
          /\ token \in Nat
      BY <1>1, <1>5, <3>1, HeldIds
    <3>4. ref \in RefType /\ ref.handle = h /\ ref.token = token
      BY <3>2, <3>3 DEF RefType, Values
    <3>5. RefKeeps(ref)
      BY <3>2, <3>3 DEF RefKeeps
    <3>6. refs' = Append(refs, ref)
      BY <1>3, <2>1, <3>1, <3>2, Zenon DEF AddRef
    <3>7. RefAdded(ref)
      BY <1>1, <1>5, <3>3, <3>4, <3>6, AddRefIs
    <3> QED
      BY <1>1, <3>4, <3>5, <3>7 DEF RefAdded, Known, RefsKeep
  <2>2. CASE ~withRef
    <3>1. \A r \in RefIds : /\ refs[r].token \in 0 .. Len(tokens')
                            /\ refs[r].handle \in 0 .. nextHandle - 1
      BY <1>1, <1>4, <1>5 DEF Typed
    <3> QED
      BY <1>1, <1>3, <2>2, <3>1 DEF Typed, Known, RefsKeep, RefIds
  <2> QED
    BY <2>1, <2>2
<1> QED
  BY <1>5, <1>6, RefersStep

LEMMA WrapStep ==
  ASSUME IInv, NEW h \in Held, NEW withCb \in BOOLEAN, NEW withRef \in BOOLEAN,
         Wrap(h, withCb, withRef)
  PROVE  IInv'
<1>1. Typed
  BY Parts
<1>2. DOMAIN wraps' \subseteq DOMAIN wraps \cup (Objects \cup {Global})
  BY DEF Wrap, With, IsObject
<1>3. DOMAIN wraps' \subseteq Objects \cup {Global}
  BY <1>1, <1>2 DEF Typed
<1>4. /\ RegisterAndRefer(h, withCb, withRef)
      /\ UNCHANGED <<handles, nextHandle, referenced, escaped, stack, tsfn, heap,
                     reachable, outlives>>
  BY DEF Wrap, handleVars, jsVars
<1> QED
  BY <1>3, <1>4, RegisterStep

LEMMA AddFinalizerStep ==
  ASSUME IInv, NEW h \in Held, NEW withCb \in BOOLEAN, NEW withRef \in BOOLEAN,
         AddFinalizer(h, withCb, withRef)
  PROVE  IInv'
<1>1. DOMAIN wraps' \subseteq Objects \cup {Global}
  BY Parts DEF AddFinalizer, Typed
<1>2. /\ RegisterAndRefer(h, withCb, withRef)
      /\ UNCHANGED <<handles, nextHandle, referenced, escaped, stack, tsfn, heap,
                     reachable, outlives>>
  BY DEF AddFinalizer, handleVars, jsVars
<1> QED
  BY <1>1, <1>2, RegisterStep

-----------------------------------------------------------------------------
(* Functions of the guest begin and return.                                *)

\* A function begins with handles that are valid already, or with none.
LEMMA PushStep ==
  ASSUME IInv, NEW f \in FrameType, stack' = Append(stack, f),
         f.start = nextHandle \/ (f.start = 0 /\ f.kind = "plain"), f.got \subseteq Live,
         tsfn.state = "live" => tsfn.handle \notin f.got, f.this = Undefined,
         tokens' \in Seq(TokenType), Len(tokens') = Len(tokens), GivenUpOver',
         UNCHANGED <<handles, nextHandle, referenced, escaped, refs, wraps, tsfn, heap,
                     reachable, outlives>>
  PROVE  IInv'
<1>1. Typed /\ Hands /\ Known
  BY Parts
<1>2. Pushed(f) /\ Depth \in Nat
  BY <1>1, AppendPushes, FramesTyped
<1>3. Typed'
  <2>1. \A r \in RefIds' : /\ refs'[r].token \in 0 .. Len(tokens')
                           /\ refs'[r].handle \in 0 .. nextHandle - 1
    BY <1>1 DEF Typed, RefIds
  <2> QED
    BY <1>1, <1>2, <2>1 DEF Typed, Pushed, Live
<1>4. Hands'
  BY <1>1, <1>2, PushKeepsHands
<1>5. KnownAlive'
  <2>1. \A i \in 1 .. Depth' :
          \/ i \in 1 .. Depth /\ stack'[i].this = stack[i].this
          \/ stack'[i].this \in Objects => heap'[stack'[i].this] = "alive"
    <3>1. \A i \in 1 .. Depth' : i \in 1 .. Depth \/ i = Depth + 1
      BY <1>2 DEF Pushed
    <3> QED
      BY <1>2, <3>1 DEF Pushed
  <2>2. \A h \in Live' : h \in Live /\ handles'[h] = handles[h]
    BY DEF Live
  <2> QED
    BY <1>1, <2>1, <2>2, AliveGrows DEF Known
<1>6. RefsKeep'
  BY <1>1, RefsGrow DEF Known
<1> QED
  BY <1>3, <1>4, <1>5, <1>6, PartsNext DEF Known

LEMMA RunPlainStep ==
  ASSUME IInv, RunPlain
  PROVE  IInv'
<1>1. PICK f : f = Frame("plain", 0, {}, Undefined)
  OBVIOUS
<1>2. /\ f \in FrameType /\ f.start = 0 /\ f.kind = "plain" /\ f.got = {}
      /\ f.this = Undefined
  BY <1>1 DEF Frame, FrameType, Values
<1>3. /\ stack' = Append(stack, f)
      /\ UNCHANGED <<handles, nextHandle, referenced, escaped, refs, tokens, wraps, tsfn,
                     heap, reachable, outlives>>
  BY <1>1 DEF RunPlain, handleVars, refVars, jsVars
<1>4. tokens' \in Seq(TokenType) /\ Len(tokens') = Len(tokens) /\ GivenUpOver'
  BY <1>3, Parts DEF Typed, Known, GivenUpOver
<1> QED
  BY <1>2, <1>3, <1>4, PushStep

LEMMA CallTsfnStep ==
  ASSUME IInv, CallTsfn
  PROVE  IInv'
<1>1. PICK f : f = Frame("plain", 0, {tsfn.func} \cap Live, Undefined)
  OBVIOUS
<1>2. Live \subseteq Nat
  BY Parts, IdsTyped
<1>3. /\ f \in FrameType /\ f.start = 0 /\ f.kind = "plain"
      /\ f.got = {tsfn.func} \cap Live /\ f.this = Undefined
  BY <1>1, <1>2 DEF Frame, FrameType, Values
<1>4. tsfn.state = "live" => tsfn.handle \notin f.got
  BY <1>3, Parts DEF Typed, Hands, TsfnApart
<1>5. /\ stack' = Append(stack, f)
      /\ UNCHANGED <<handles, nextHandle, referenced, escaped, refs, tokens, wraps, tsfn,
                     heap, reachable, outlives>>
  BY <1>1 DEF CallTsfn, handleVars, refVars, jsVars
<1>6. tokens' \in Seq(TokenType) /\ Len(tokens') = Len(tokens) /\ GivenUpOver'
  BY <1>5, Parts DEF Typed, Known, GivenUpOver
<1>7. f.got \subseteq Live
  BY <1>3
<1> QED
  BY <1>3, <1>4, <1>5, <1>6, <1>7, PushStep

\* A token goes from one state to another.
LEMMA TokenMoves ==
  ASSUME Typed, GivenUpOver, NEW t \in DOMAIN tokens,
         NEW s \in {"live", "posted", "cancelled", "done"},
         ~tokens[t].given, tokens' = [tokens EXCEPT ![t].state = s]
  PROVE  tokens' \in Seq(TokenType) /\ Len(tokens') = Len(tokens) /\ GivenUpOver'
<1>1. PICK new : new = [tokens[t] EXCEPT !.state = s]
  OBVIOUS
<1>2. tokens \in Seq(TokenType) /\ tokens[t] \in TokenType
  BY DEF Typed
<1>3. new \in TokenType /\ ~new.given
  BY <1>1, <1>2 DEF TokenType
<1>4. tokens' = [tokens EXCEPT ![t] = new]
  BY <1>1, Zenon
<1>5. /\ tokens' \in Seq(TokenType) /\ Len(tokens') = Len(tokens)
      /\ DOMAIN tokens' = DOMAIN tokens
      /\ \A i \in DOMAIN tokens : tokens'[i] = IF i = t THEN new ELSE tokens[i]
  BY <1>2, <1>3, <1>4
<1> QED
  BY <1>3, <1>5 DEF GivenUpOver

LEMMA RunFinalizerStep ==
  ASSUME IInv, NEW t \in DOMAIN tokens, RunFinalizer(t)
  PROVE  IInv'
<1>1. PICK f : f = Frame("finalizer", nextHandle, {}, Undefined)
  OBVIOUS
<1>2. /\ f \in FrameType /\ f.start = nextHandle /\ f.got = {} /\ f.this = Undefined
  <2>1. nextHandle \in Nat
    BY Parts DEF Typed
  <2> QED
    BY <1>1, <2>1 DEF Frame, FrameType, Values
<1>3. /\ stack' = Append(stack, f) /\ tokens' = [tokens EXCEPT ![t].state = "done"]
      /\ tokens[t].state = "posted"
      /\ UNCHANGED <<handles, nextHandle, referenced, escaped, refs, wraps, tsfn,
                     heap, reachable, outlives>>
  BY <1>1 DEF RunFinalizer, handleVars, jsVars
<1>4. tokens' \in Seq(TokenType) /\ Len(tokens') = Len(tokens) /\ GivenUpOver'
  <2>1. ~tokens[t].given
    BY <1>3, Parts DEF Known, GivenUpOver
  <2> QED
    BY <1>3, <2>1, Parts, TokenMoves DEF Known
<1> QED
  BY <1>2, <1>3, <1>4, PushStep

LEMMA PostStep ==
  ASSUME IInv, NEW t \in DOMAIN tokens, Post(t)
  PROVE  IInv'
<1>1. Typed /\ Hands /\ Known
  BY Parts
<1>2. /\ tokens' = [tokens EXCEPT ![t].state = "posted"] /\ tokens[t].state = "live"
      /\ UNCHANGED <<handles, nextHandle, referenced, escaped, stack, refs, wraps, tsfn,
                     heap, reachable, outlives>>
  BY DEF Post, handleVars, jsVars
<1>3. tokens' \in Seq(TokenType) /\ Len(tokens') = Len(tokens) /\ GivenUpOver'
  <2>1. ~tokens[t].given
    BY <1>1, <1>2 DEF Known, GivenUpOver
  <2> QED
    BY <1>1, <1>2, <2>1, TokenMoves DEF Known
<1>4. refs' \in Seq(RefType) /\ DOMAIN wraps' \subseteq Objects \cup {Global}
  BY <1>1, <1>2 DEF Typed
<1>5. \A r \in RefIds' : /\ refs'[r].token \in 0 .. Len(tokens')
                         /\ refs'[r].handle \in 0 .. nextHandle - 1
                         /\ RefKeeps(refs'[r])
                         /\ \/ refs'[r].handle \in Held
                            \/ r \in RefIds /\ refs'[r].handle = refs[r].handle
  BY <1>1, <1>2, <1>3 DEF Typed, Known, RefsKeep, RefIds
<1> QED
  BY <1>2, <1>3, <1>4, <1>5, RefersStep

LEMMA EnterStep ==
  ASSUME IInv, NEW kind \in Callee, NEW this \in Values, Enter(kind, this),
         kind = "callback" => Alive(this)
  PROVE  IInv'
<1>1. Typed /\ Hands /\ Known
  BY Parts
<1>2. PICK f : f = Frame(kind, nextHandle, {nextHandle}, this)
  OBVIOUS
<1>3. /\ f \in FrameType /\ f.start = nextHandle /\ f.got = {nextHandle} /\ f.this = this
  <2>1. nextHandle \in Nat
    BY <1>1 DEF Typed
  <2> QED
    BY <1>2, <2>1 DEF Frame, FrameType, Callee
<1>4. /\ stack' = Append(stack, f)
      /\ handles' = Added(this) /\ nextHandle' = nextHandle + 1
      /\ heap' = [o \in Objects |-> IF o = this THEN "alive" ELSE heap[o]]
      /\ UNCHANGED <<referenced, escaped, refs, tokens, wraps, tsfn, reachable, outlives>>
  BY <1>2 DEF Enter, refVars
<1>5. Pushed(f) /\ Depth \in Nat
  BY <1>1, <1>3, <1>4, AppendPushes, FramesTyped
<1>6. \A o \in Objects : heap[o] # "new" => heap'[o] = heap[o]
  <2>1. this \in Objects => heap[this] \in {"new", "alive"}
    BY DEF Enter, Callee, Alive
  <2> QED
    BY <1>4, <2>1
<1>7. Typed'
  <2>1. heap' \in [Objects -> {"new", "alive", "gone"}]
    BY <1>1, <1>4 DEF Typed
  <2>2. referenced' \cup escaped' \cup outlives' \subseteq 1 .. nextHandle
    <3>1. \A x \in referenced \cup escaped \cup outlives : x \in 1 .. nextHandle
      BY <1>1 DEF Typed
    <3> QED
      BY <1>4, <3>1
  <2>3. tsfn' \in [state : {"none", "live", "ended"}, handle : Nat, func : 0 .. nextHandle]
    BY <1>1, <1>4 DEF Typed
  <2> QED
    BY <1>1, <1>4, <1>5, <2>1, <2>2, <2>3, NewHandleTyped DEF Pushed
<1>8. Hands'
  BY <1>1, <1>3, <1>4, <1>5, EnterKeepsHands
<1>9. KnownAlive'
  <2>1. this \in Objects => heap'[this] = "alive"
    BY <1>4
  <2>2. \A i \in 1 .. Depth' :
          \/ i \in 1 .. Depth /\ stack'[i].this = stack[i].this
          \/ stack'[i].this \in Objects => heap'[stack'[i].this] = "alive"
    <3>1. \A i \in 1 .. Depth' : i \in 1 .. Depth \/ i = Depth + 1
      BY <1>5 DEF Pushed
    <3> QED
      BY <1>3, <1>5, <2>1, <3>1 DEF Pushed
  <2>3. \A h \in Live' : \/ h \in Live /\ handles'[h] = handles[h]
                         \/ handles'[h] \in Objects => heap'[handles'[h]] = "alive"
    BY <1>1, <1>4, <2>1, AddedIs DEF Live
  <2> QED
    BY <1>1, <1>4, <1>6, <2>2, <2>3, AliveGrows DEF Known
<1>10. RefsKeep' /\ GivenUpOver'
  BY <1>1, <1>4, <1>6, RefsGrow DEF Known, GivenUpOver
<1> QED
  BY <1>7, <1>8, <1>9, <1>10, PartsNext DEF Known

\* What a function returns is not collected.
LEMMA ResultKnown ==
  ASSUME Typed, KnownAlive, Depth > 0, NEW h
  PROVE  ResultOf(h) \in Values /\ Alive(ResultOf(h))
<1>1. Top.this \in Values /\ Alive(Top.this)
  <2>1. Depth \in 1 .. Depth
    BY FramesTyped
  <2> QED
    BY <2>1, FramesTyped DEF Top, KnownAlive
<1> QED
  BY <1>1, ValueKnown DEF ResultOf

\* A function returns, to JavaScript or without a result the guest takes.
LEMMA ReturnStep ==
  ASSUME IInv, NEW h, Return(h)
  PROVE  IInv'
<1>1. Typed /\ Hands /\ Known
  BY Parts
<1>2. Depth > 0 /\ Depth \in Nat
  BY <1>1, FramesTyped DEF Return
<1>3. Popped
  BY <1>1, <1>2, SubSeqPops DEF Return
<1>4. /\ IF Top.start > 0 THEN PopScope(Top.start) ELSE UNCHANGED <<handles, escaped>>
      /\ UNCHANGED <<nextHandle, referenced, refs, tokens, wraps, tsfn, heap, outlives>>
  BY DEF Return, refVars
<1>5. /\ Live' \subseteq Live /\ \A x \in Live' : handles'[x] = handles[x]
      /\ handles' \in [Live' -> Values] /\ escaped' \subseteq escaped
  <2>1. CASE Top.start > 0
    <3>1. /\ handles' = [x \in Live \ Released(Top.start) |-> handles[x]]
          /\ escaped' \subseteq escaped
      BY <1>4, <2>1 DEF PopScope, Remove
    <3> QED
      BY <1>1, <3>1 DEF Live, Typed
  <2>2. CASE ~(Top.start > 0)
    BY <1>1, <1>4, <2>2 DEF Live, Typed
  <2> QED
    BY <2>1, <2>2
<1>6. \A o \in reachable' : o \in reachable \/ (o \in Objects /\ heap[o] = "alive")
  <2>1. Alive(ResultOf(h))
    BY <1>1, <1>2, ResultKnown DEF Known
  <2>2. \A held \in KeptBy(ResultOf(h)) :
          \A o \in held : o \in Objects /\ heap[o] = "alive"
    BY <2>1 DEF KeptBy, Alive
  <2> QED
    BY <2>2 DEF Return
<1>7. Typed'
  <2>1. reachable' \subseteq Objects
    BY <1>1, <1>6 DEF Typed
  <2>2. \A r \in RefIds' : /\ refs'[r].token \in 0 .. Len(tokens')
                           /\ refs'[r].handle \in 0 .. nextHandle' - 1
    BY <1>1, <1>4 DEF Typed, RefIds
  <2> QED
    BY <1>1, <1>3, <1>4, <1>5, <2>1, <2>2 DEF Typed, Popped
<1>8. Hands'
  BY <1>1, <1>2, <1>3, <1>4, PopKeepsHands
<1>9. KnownAlive'
  <2>1. \A i \in 1 .. Depth' : i \in 1 .. Depth /\ stack'[i].this = stack[i].this
    BY <1>2, <1>3 DEF Popped
  <2>2. \A o \in reachable' : o \in reachable \/ heap'[o] = "alive"
    BY <1>4, <1>6
  <2> QED
    BY <1>1, <1>4, <1>5, <2>1, <2>2, AliveGrows DEF Known
<1>10. RefsKeep' /\ GivenUpOver'
  BY <1>1, <1>4, RefsGrow DEF Known, GivenUpOver
<1> QED
  BY <1>7, <1>8, <1>9, <1>10, PartsNext DEF Known

LEMMA ReturnToGuestStep ==
  ASSUME IInv, NEW h, ReturnToGuest(h)
  PROVE  IInv'
<1>1. Typed /\ Hands /\ Known
  BY Parts
<1>2. ResultGiven
  BY <1>1, ReturnIs
<1>3. PICK v : v = ResultOf(h)
  OBVIOUS
<1>4. v \in Values /\ Alive(v) /\ Depth \in Nat /\ Depth > 1
  BY <1>1, <1>2, <1>3, ResultKnown, FramesTyped DEF Known, ResultGiven
<1>5. nextHandle \in Nat \ {0, 1} /\ nextHandle \notin Live
  BY <1>1, IdsTyped
<1>6. /\ handles' = With([x \in Live \ Released(Top.start) |-> handles[x]], nextHandle, v)
      /\ nextHandle' = nextHandle + 1 /\ escaped' \subseteq escaped
      /\ outlives' \subseteq outlives \cup {nextHandle}
      /\ UNCHANGED <<referenced, refs, tokens, wraps, tsfn, heap, reachable>>
  BY <1>3, Zenon DEF ReturnToGuest, refVars, jsVars
<1>7. /\ Live' = (Live \ Released(Top.start)) \cup {nextHandle}
      /\ \A x \in Live \ Released(Top.start) : handles'[x] = handles[x]
      /\ handles'[nextHandle] = v /\ handles' \in [Live' -> Values]
  <2>1. PICK gone : gone = Released(Top.start)
    OBVIOUS
  <2>2. handles' = [x \in (Live \ gone) \cup {nextHandle} |->
                      IF x = nextHandle THEN v ELSE [y \in Live \ gone |-> handles[y]][x]]
    BY <1>6, <2>1 DEF With
  <2>3. Live' = (Live \ gone) \cup {nextHandle}
    BY <2>2 DEF Live
  <2>4. \A x \in Live \ gone : handles'[x] = handles[x]
    BY <1>5, <2>2
  <2>5. handles'[nextHandle] = v
    BY <2>2
  <2>6. handles' = [x \in Live' |-> handles'[x]]
    BY <2>2, <2>3, Zenon
  <2>7. \A x \in Live' : handles'[x] \in Values
    BY <1>1, <1>4, <2>3, <2>4, <2>5 DEF Typed
  <2>8. handles' \in [Live' -> Values]
    BY <2>6, <2>7, Zenon
  <2> QED
    BY <2>1, <2>3, <2>4, <2>5, <2>8
<1>8. Typed'
  <2>1. nextHandle' \in Nat \ {0, 1} /\ nextHandle' - 1 = nextHandle
    BY <1>5, <1>6
  <2>2. Live' \subseteq 1 .. nextHandle' - 1
    <3>1. \A x \in Live \cup {nextHandle} : x \in 1 .. nextHandle
      BY <1>1, <1>5 DEF Typed
    <3> QED
      BY <1>7, <2>1, <3>1
  <2>3. referenced' \cup escaped' \cup outlives' \subseteq 1 .. nextHandle' - 1
    <3>1. \A x \in referenced \cup escaped \cup outlives \cup {nextHandle} :
            x \in 1 .. nextHandle
      BY <1>1, <1>5 DEF Typed
    <3> QED
      BY <1>6, <2>1, <3>1
  <2>4. /\ stack' \in Seq(FrameType)
        /\ tsfn' \in [state : {"none", "live", "ended"}, handle : Nat,
                      func : 0 .. nextHandle' - 1]
    BY <1>1, <1>2, <1>5, <1>6, <2>1 DEF Typed, ResultGiven, PoppedGiving
  <2>5. \A r \in RefIds' : /\ refs'[r].token \in 0 .. Len(tokens')
                           /\ refs'[r].handle \in 0 .. nextHandle' - 1
    BY <1>1, <1>5, <1>6, <2>1 DEF Typed, RefIds
  <2> QED
    BY <1>1, <1>6, <1>7, <2>1, <2>2, <2>3, <2>4, <2>5 DEF Typed
<1>9. Hands'
  BY <1>1, <1>2, ReturnKeepsHands
<1>10. KnownAlive'
  <2>1. \A i \in 1 .. Depth' : i \in 1 .. Depth /\ stack'[i].this = stack[i].this
    <3>1. Depth' = Depth - 1 /\ \A i \in 1 .. Depth - 1 : stack'[i].this = stack[i].this
      BY <1>2 DEF ResultGiven, PoppedGiving
    <3>2. \A i \in 1 .. Depth - 1 : i \in 1 .. Depth
      BY <1>4
    <3> QED
      BY <3>1, <3>2
  <2>2. \A x \in Live' : \/ x \in Live /\ handles'[x] = handles[x]
                         \/ handles'[x] \in Objects => heap'[handles'[x]] = "alive"
    BY <1>4, <1>6, <1>7 DEF Alive
  <2> QED
    BY <1>1, <1>6, <2>1, <2>2, AliveGrows DEF Known
<1>11. RefsKeep' /\ GivenUpOver'
  BY <1>1, <1>6, RefsGrow DEF Known, GivenUpOver
<1> QED
  BY <1>8, <1>9, <1>10, <1>11, PartsNext DEF Known

-----------------------------------------------------------------------------
(* The collector.                                                          *)

LEMMA JsForgetsStep ==
  ASSUME IInv, NEW o, JsForgets(o)
  PROVE  IInv'
<1>1. Typed /\ Hands /\ Known
  BY Parts
<1>2. /\ reachable' = reachable \ {o}
      /\ UNCHANGED <<handles, nextHandle, referenced, escaped, stack, refs, tokens,
                     wraps, tsfn, heap, outlives>>
  BY DEF JsForgets, handleVars, refVars
<1>3. Typed'
  BY <1>1, <1>2 DEF Typed, Live, RefIds
<1>4. Hands'
  BY <1>1, <1>2, OthersKeepHands
<1>5. KnownAlive'
  BY <1>1, <1>2 DEF Known, KnownAlive, Alive, Live, Depth
<1>6. RefsKeep' /\ GivenUpOver'
  BY <1>1, <1>2, RefsGrow DEF Known, GivenUpOver
<1> QED
  BY <1>3, <1>4, <1>5, <1>6, PartsNext DEF Known

\* Only what nothing reaches is collected: no handle, no function in progress
\* and no reference that counts.
LEMMA CollectStep ==
  ASSUME IInv, NEW o \in Objects, Collect(o)
  PROVE  IInv'
<1>1. Typed /\ Hands /\ Known
  BY Parts
<1>2. /\ heap' = [heap EXCEPT ![o] = "gone"] /\ ~Reaches(o)
      /\ UNCHANGED <<handles, nextHandle, referenced, escaped, stack, refs, tokens,
                     wraps, tsfn, reachable, outlives>>
  BY DEF Collect, handleVars, refVars
<1>3. /\ heap' \in [Objects -> {"new", "alive", "gone"}] /\ heap'[o] = "gone"
      /\ \A x \in Objects \ {o} : heap'[x] = heap[x]
  BY <1>1, <1>2 DEF Typed
<1>4. Typed'
  BY <1>1, <1>2, <1>3 DEF Typed, Live, RefIds
<1>5. Hands'
  BY <1>1, <1>2, OthersKeepHands
<1>6. KnownAlive'
  <2>1. \A h \in Live : handles[h] # o
    BY <1>2 DEF Reaches
  <2>2. \A i \in 1 .. Depth : stack[i].this # o
    BY <1>2 DEF Reaches
  <2>3. o \notin reachable
    BY <1>2 DEF Reaches
  <2> QED
    BY <1>1, <1>2, <1>3, <2>1, <2>2, <2>3 DEF Known, KnownAlive, Alive, Live, Depth
<1>7. RefsKeep'
  <2>1. \A r \in RefIds : refs[r].value = o => refs[r].weak
    BY <1>2 DEF Reaches
  <2> QED
    BY <1>1, <1>2, <1>3, <2>1 DEF Known, RefsKeep, RefKeeps, RefIds
<1>8. GivenUpOver'
  BY <1>1, <1>2 DEF Known, GivenUpOver
<1> QED
  BY <1>4, <1>5, <1>6, <1>7, <1>8, PartsNext DEF Known

-----------------------------------------------------------------------------
(* The theorems.                                                           *)

LEMMA Starts == Init => IInv
<1> SUFFICES ASSUME Init PROVE IInv
  OBVIOUS
<1>1. /\ nextHandle = 2 /\ Live = {1} /\ handles = [h \in {1} |-> Global]
      /\ stack = <<>> /\ Depth = 0 /\ Held = {} /\ Scopes = {}
  BY DEF Init, Live, Depth, Held, Scopes
<1>2. /\ referenced = {} /\ escaped = {} /\ refs = <<>> /\ tokens = <<>> /\ wraps = <<>>
      /\ tsfn = [state |-> "none", handle |-> 0, func |-> 0]
      /\ heap = [o \in Objects |-> "new"] /\ reachable = {} /\ outlives = {1}
      /\ RefIds = {}
  BY DEF Init, RefIds
<1>3. Typed
  BY <1>1, <1>2 DEF Typed, Values
<1>4. HeldStay /\ TsfnApart /\ EscapedOnce /\ RefsKeep
  BY <1>1, <1>2 DEF HeldStay, TsfnApart, EscapedOnce, RefsKeep
<1>5. ScopesBelow /\ ScopesAbove /\ OutliveOnly
  BY <1>1, <1>2 DEF ScopesBelow, ScopesAbove, OutliveOnly
<1>6. KnownAlive /\ GivenUpOver
  BY <1>1, <1>2 DEF KnownAlive, GivenUpOver, Alive
<1> QED
  BY <1>3, <1>4, <1>5, <1>6 DEF IInv

LEMMA StepKeeps == IInv /\ [Next]_vars => IInv'
<1> SUFFICES ASSUME IInv, [Next]_vars PROVE IInv'
  OBVIOUS
<1>1. ASSUME NEW v \in Objects \cup {Symbol}, GetValue(v) PROVE IInv'
  BY <1>1, GetValueStep
<1>2. ASSUME UseHandles PROVE IInv'
  <2>1. PICK h \in Held :
          \/ SetProperty(h) \/ Escape(h) \/ RemoveWrap(h) \/ CreateTsfn(h)
          \/ \E withRef \in BOOLEAN : \E withCb \in BOOLEAN :
               Wrap(h, withCb, withRef) \/ AddFinalizer(h, withCb, withRef)
    BY <1>2 DEF UseHandles
  <2> QED
    BY <2>1, SetPropertyStep, EscapeStep, RemoveWrapStep, CreateTsfnStep, WrapStep,
       AddFinalizerStep
<1>3. ASSUME MakeReferences PROVE IInv'
  BY <1>3, CreateReferenceStep DEF MakeReferences
<1>4. ASSUME UseReferences PROVE IInv'
  BY <1>4, GetReferenceValueStep, ReferenceRefStep, ReferenceUnrefStep,
     DeleteReferenceStep DEF UseReferences
<1>5. ASSUME Calls PROVE IInv'
  <2>1. ASSUME CallsCallback PROVE IInv'
    <3>1. Typed /\ KnownAlive
      BY Parts DEF Known
    <3>2. PICK v \in {Undefined} \cup (IF Idle THEN reachable
                                       ELSE {ValueOf(h) : h \in Held}) :
             Enter("callback", v)
      BY <2>1 DEF CallsCallback
    <3>3. v \in Values /\ Alive(v)
      <4>1. CASE v = Undefined
        BY <4>1 DEF Values, Alive
      <4>2. CASE v \in reachable
        BY <3>1, <4>2 DEF Typed, KnownAlive, Values
      <4>3. CASE v \in {ValueOf(h) : h \in Held}
        BY <3>1, <4>3, ValueKnown
      <4> QED
        BY <4>1, <4>2, <4>3
    <3> QED
      BY <3>2, <3>3, EnterStep DEF Callee
  <2>2. ASSUME Constructs PROVE IInv'
    BY <2>2, EnterStep DEF Constructs, Callee, Values
  <2> QED
    BY <1>5, <2>1, <2>2, RunPlainStep, CallTsfnStep, EndTsfnStep, RunFinalizerStep,
       PostStep DEF Calls
<1>6. ASSUME Returns PROVE IInv'
  BY <1>6, ReturnStep, ReturnToGuestStep DEF Returns
<1>7. ASSUME Collector PROVE IInv'
  BY <1>7, JsForgetsStep, CollectStep DEF Collector
<1>8. ASSUME UNCHANGED vars PROVE IInv'
  <2>1. /\ UNCHANGED <<handles, nextHandle, referenced, escaped, stack, refs, tokens>>
        /\ UNCHANGED <<wraps, tsfn, heap, reachable, outlives>>
    BY <1>8 DEF vars, handleVars, refVars, jsVars
  <2>2. Typed'
    BY <2>1, Parts DEF Typed, Live, RefIds
  <2> QED
    BY <2>1, <2>2, Parts, PartsNext, OthersKeepHands, OthersKeepKnown
<1> QED
  BY <1>1, <1>2, <1>3, <1>4, <1>5, <1>6, <1>7, <1>8 DEF Next

\* The inductive invariant holds in every state, for every set of objects and
\* every bound: the order in which functions begin and return, references
\* come and go and the collector runs is free.
THEOREM HandleInvariance == Spec => []IInv
  BY Starts, StepKeeps, PTL DEF Spec

\* Every variable keeps its type, and the scopes on the stack are nested.
THEOREM HandlesKeepTypes == Spec => []TypeOK
<1>1. IInv => TypeOK
  <2> SUFFICES ASSUME IInv PROVE TypeOK
    OBVIOUS
  <2>1. Typed /\ ScopesAbove
    BY DEF IInv
  <2>2. \A i, j \in Scopes : i < j => stack[i].start <= stack[j].start
    BY <2>1 DEF ScopesAbove, Scopes
  <2>3. \A r \in RefIds :
          /\ refs[r].value \in Values /\ refs[r].count \in Nat
          /\ refs[r].token \in {NoToken} \cup DOMAIN tokens
    <3>1. DOMAIN tokens = 1 .. Len(tokens) /\ Len(tokens) \in Nat
      BY <2>1 DEF Typed
    <3>2. \A x \in 0 .. Len(tokens) : x = 0 \/ x \in 1 .. Len(tokens)
      BY <3>1
    <3>3. \A r \in RefIds : refs[r] \in RefType /\ refs[r].token \in 0 .. Len(tokens)
      BY <2>1, RefFields DEF Typed
    <3> QED
      BY <3>1, <3>2, <3>3 DEF RefType
  <2>4. \A t \in DOMAIN tokens : tokens[t].state \in {"live", "posted", "cancelled", "done"}
    <3>1. tokens \in Seq(TokenType)
      BY <2>1 DEF Typed
    <3>2. \A t \in DOMAIN tokens : tokens[t] \in TokenType
      BY <3>1
    <3> QED
      BY <3>2 DEF TokenType
  <2> QED
    BY <2>1, <2>2, <2>3, <2>4 DEF TypeOK, Typed
<1> QED
  BY HandleInvariance, <1>1, PTL

\* Whatever returns, and whatever is given up, the handles that the functions
\* still in progress hold are in the table: a scope takes back only what was
\* made since it began.
THEOREM HeldHandlesStay == Spec => []HeldStay
<1>1. IInv => HeldStay
  BY DEF IInv
<1> QED
  BY HandleInvariance, <1>1, PTL

\* A handle that no open scope takes back is referenced, or of the kinds that
\* stay for ever: the table does not fill with anything else.
THEOREM OnlyWantedOutlive == Spec => []OutliveOnly
<1>1. IInv => OutliveOnly
  BY DEF IInv
<1> QED
  BY HandleInvariance, <1>1, PTL

\* A reference with a positive count keeps the object it was made for.
THEOREM CountingKeeps == Spec => []StrongKeeps
<1>1. IInv => StrongKeeps
  <2> SUFFICES ASSUME IInv, NEW r \in RefIds, refs[r].count > 0,
                      refs[r].made \in Objects
               PROVE  IF refs[r].weak THEN heap[refs[r].made] = "gone"
                      ELSE /\ refs[r].value = refs[r].made
                           /\ heap[refs[r].made] = "alive"
    BY DEF StrongKeeps
  <2>1. RefKeeps(refs[r])
    BY DEF IInv, RefsKeep
  <2> QED
    BY <2>1 DEF RefKeeps
<1> QED
  BY HandleInvariance, <1>1, PTL

\* What a step does to the finalizers that were given up before it.
LEMMA GivenUpStays ==
  ASSUME Typed, GivenUpOver, [Next]_vars, NEW t \in DOMAIN tokens, tokens[t].given
  PROVE  tokens'[t].state = "done" <=> tokens[t].state = "done"
<1>1. tokens \in Seq(TokenType) /\ t \in 1 .. Len(tokens) /\ DOMAIN tokens = 1 .. Len(tokens)
  BY DEF Typed
<1>2. tokens[t].state \in {"cancelled", "done"}
  BY DEF GivenUpOver
<1>3. ASSUME UNCHANGED tokens PROVE tokens'[t].state = "done" <=> tokens[t].state = "done"
  BY <1>3
<1>4. ASSUME NEW o, Register(o) PROVE tokens'[t].state = "done" <=> tokens[t].state = "done"
  <2>1. PICK x : x = [object |-> o, state |-> "live", given |-> FALSE]
    OBVIOUS
  <2>2. tokens' = Append(tokens, x)
    BY <1>4, <2>1 DEF Register
  <2>3. tokens'[t] = tokens[t]
    BY <1>1, <2>2
  <2> QED
    BY <2>3
<1>5. ASSUME NEW x, tokens' = CancelledToken(x)
      PROVE  tokens'[t].state = "done" <=> tokens[t].state = "done"
  <2>1. tokens[t] \in TokenType
    BY <1>1
  <2>2. PICK s : s = IF tokens[t].state = "done" THEN tokens[t].state ELSE "cancelled"
    OBVIOUS
  <2>3. tokens'[t] = IF t = x THEN [tokens[t] EXCEPT !.given = TRUE, !.state = s]
                     ELSE tokens[t]
    BY <1>5, <2>2, Zenon DEF CancelledToken
  <2>4. [tokens[t] EXCEPT !.given = TRUE, !.state = s].state = s
    BY <2>1 DEF TokenType
  <2> QED
    BY <2>2, <2>3, <2>4
<1>6. ASSUME UseHandles PROVE tokens'[t].state = "done" <=> tokens[t].state = "done"
  <2>1. PICK h \in Held :
          \/ SetProperty(h) \/ Escape(h) \/ RemoveWrap(h) \/ CreateTsfn(h)
          \/ \E withRef \in BOOLEAN : \E withCb \in BOOLEAN :
               Wrap(h, withCb, withRef) \/ AddFinalizer(h, withCb, withRef)
    BY <1>6 DEF UseHandles
  <2>2. \/ UNCHANGED tokens
        \/ \E x : tokens' = CancelledToken(x)
        \/ \E o : Register(o)
    BY <2>1, Zenon DEF SetProperty, Escape, RemoveWrap, CreateTsfn, Wrap, AddFinalizer,
       RegisterAndRefer, refVars
  <2> QED
    BY <1>3, <1>4, <1>5, <2>2, Zenon
<1>7. ASSUME UseReferences PROVE tokens'[t].state = "done" <=> tokens[t].state = "done"
  <2>1. PICK r \in RefIds : GetReferenceValue(r) \/ ReferenceRef(r) \/ ReferenceUnref(r)
                            \/ DeleteReference(r)
    BY <1>7 DEF UseReferences
  <2>2. UNCHANGED tokens \/ \E x : tokens' = CancelledToken(x)
    BY <2>1, Zenon DEF GetReferenceValue, ReferenceRef, ReferenceUnref, DeleteReference,
       refVars
  <2> QED
    BY <1>3, <1>5, <2>2, Zenon
<1>8. ASSUME Calls PROVE tokens'[t].state = "done" <=> tokens[t].state = "done"
  <2>1. CASE CallsCallback \/ Constructs \/ RunPlain \/ CallTsfn \/ EndTsfn
    BY <1>3, <2>1 DEF CallsCallback, Constructs, RunPlain, CallTsfn, EndTsfn, Enter, refVars
  <2>2. ASSUME NEW x \in DOMAIN tokens, RunFinalizer(x) \/ Post(x)
        PROVE  tokens'[t].state = "done" <=> tokens[t].state = "done"
    <3>1. tokens[x].state \in {"live", "posted"}
      BY <2>2 DEF RunFinalizer, Post
    <3>2. x # t
      BY <1>2, <3>1
    <3>3. tokens'[t] = tokens[t]
      BY <2>2, <3>2, Zenon DEF RunFinalizer, Post
    <3> QED
      BY <3>3
  <2> QED
    BY <1>8, <2>1, <2>2 DEF Calls
<1>9. CASE \/ \E v \in Objects \cup {Symbol} : GetValue(v)
           \/ MakeReferences \/ Returns \/ Collector \/ UNCHANGED vars
  <2>1. UNCHANGED tokens
    BY <1>9, Zenon DEF GetValue, MakeReferences, CreateReference, Returns, Return, ReturnToGuest,
       Collector, JsForgets, Collect, refVars, vars
  <2> QED
    BY <1>3, <2>1
<1> QED
  BY <1>6, <1>7, <1>8, <1>9 DEF Next

\* A finalizer that was given up, with its wrap or its reference, does not
\* begin, not even when its object is collected and it was posted already.
THEOREM GivenUpIsKept == Spec => GivenUpNeverFinalized
<1>1. IInv /\ [Next]_vars =>
        [\A t \in DOMAIN tokens : tokens[t].given =>
           (tokens'[t].state = "done" <=> tokens[t].state = "done")]_vars
  BY GivenUpStays DEF IInv
<1> QED
  BY HandleInvariance, <1>1, PTL DEF Spec, GivenUpNeverFinalized
=============================================================================
