----------------------------- MODULE NapiHandles -----------------------------
(***************************************************************************)
(* The values the guest holds, in packages/wasmkernel/src/napi_runtime.js: *)
(* the table of handles and the scopes that empty it, references, wraps    *)
(* and their finalizers, and what all of these leave to the collector.     *)
(*                                                                         *)
(* A handle id is never used twice.  A function of the guest that is       *)
(* called from JavaScript opens a scope and takes every handle made since  *)
(* with it when it returns; work, thread-safe functions and the slices of  *)
(* workers run guest code in no scope of their own.                        *)
(***************************************************************************)
EXTENDS Integers, Sequences, FiniteSets

CONSTANTS
  Objects,     \* the JavaScript objects that come and go
  Global,      \* globalThis, which stays
  Undefined,   \* undefined, also what Map.get gives for a missing key
  Symbol,      \* a symbol
  NapiVersion, \* _napiVersion, 0 where nobody sets it, as in the package
  MaxMade,     \* bound: references, finalizers, escapes, thread-safe functions
  MaxTotal,    \* bound: these and the handles
  MaxDepth     \* bound: guest functions in progress

Values == Objects \cup {Global, Undefined, Symbol}
GlobalHandle == 1  \* globalHandle; those of env and undefined are left out
NoToken == 0

ASSUME NapiHandlesAssumption ==
  /\ Global \notin Objects /\ Undefined \notin Objects /\ Global # Undefined
  /\ Symbol \notin Objects \cup {Global, Undefined}
  /\ {NapiVersion, MaxMade, MaxTotal, MaxDepth} \subseteq Nat

VARIABLES
  handles,     \* the Map from handle id to value
  nextHandle,  \* nextHandle
  stack,       \* guest functions in progress; start: on _scopeStack, 0: none
  referenced,  \* _referencedHandles
  escaped,     \* _escapedHandleIds
  refs,        \* the references made so far
  tokens,      \* the finalizers registered, each with its token
  wraps,       \* the wrapped objects, with what _wrapInfo says of them
  tsfn,        \* a thread-safe function of the guest
  heap,        \* per object: "new", "alive" or "gone"
  reachable,   \* objects that JavaScript itself can reach
  outlives     \* history: handles nobody will take back

handleVars == <<handles, nextHandle, referenced, escaped>>
refVars    == <<refs, tokens, wraps>>
jsVars     == <<heap, reachable>>
vars == <<handleVars, stack, refVars, tsfn, jsVars, outlives>>

-----------------------------------------------------------------------------
(* Handles and scopes.                                                     *)

\* Map.set.
With(map, key, value) ==
  [k \in DOMAIN map \cup {key} |-> IF k = key THEN value ELSE map[k]]

Live == DOMAIN handles
ValueOf(h) == IF h \in Live THEN handles[h] ELSE Undefined
IsObject(v) == v \in Objects \cup {Global}

Callee == {"callback", "ctor"}  \* called from JavaScript
Depth == Len(stack)
Idle  == stack = <<>>
Top   == stack[Depth]
Finalizing == \E i \in 1 .. Depth : stack[i].kind = "finalizer"
Scopes == {i \in 1 .. Depth : stack[i].start > 0}
\* The handles that the functions in progress were given.
Held == UNION {stack[i].got : i \in 1 .. Depth}

\* What the bounds leave room for.
Made == Len(refs) + Len(tokens) + Cardinality(escaped)
        + (IF tsfn.state = "none" THEN 0 ELSE 1)
Left == MaxTotal - (nextHandle - 2) - Made
MayMake(n) == Made + n <= MaxMade /\ n <= Left

\* _newHandle, for the guest function at the top; nobody takes back a handle
\* that was made outside of every scope.
Added(v) == With(handles, nextHandle, v)
Give(v) ==
  /\ Left > 0
  /\ handles' = Added(v)
  /\ nextHandle' = nextHandle + 1
  /\ stack' = [stack EXCEPT ![Depth].got = @ \cup {nextHandle}]
  /\ outlives' = IF Scopes = {} THEN outlives \cup {nextHandle} ELSE outlives

Remove(hs) == handles' = [h \in Live \ hs |-> handles[h]]

\* What _popScope removes: the handles since start that nothing holds.
ScopeEndsEarly(start) == {h \in Live : h >= start - 1}  \* a bug: off by one
InScope(start) == {h \in Live : h >= start}
Released(start) == InScope(start) \ (referenced \cup escaped)
PopScope(start) ==
  /\ Remove(Released(start))
  /\ escaped' = {h \in escaped : h < start \/ h \in referenced}

\* A call of the guest that makes a handle: napi_create_object, which ends the
\* process when a finalizer runs, or one that returns what JavaScript can
\* reach, as napi_get_property.  There are always symbols (napi_create_symbol).
GetValue(v) ==
  /\ ~Idle
  /\ \/ /\ v \in Objects /\ heap[v] = "new" /\ ~Finalizing
        /\ heap' = [heap EXCEPT ![v] = "alive"]
     \/ v \in reachable \cup {Symbol} /\ UNCHANGED heap
  /\ Give(v)
  /\ UNCHANGED <<referenced, escaped, refVars, tsfn, reachable>>

\* napi_set_property on something JavaScript can reach.
SetProperty(h) ==
  /\ ~Idle /\ ValueOf(h) \in Objects \ reachable
  /\ reachable' = reachable \cup {ValueOf(h)}
  /\ UNCHANGED <<handleVars, stack, refVars, tsfn, heap, outlives>>

\* napi_escape_handle, from an escapable scope opened for it.  Only the
\* innermost scope asks whether a handle escaped, and forgets it.
Escape(h) ==
  /\ ~Idle /\ MayMake(1)
  /\ escaped' = escaped \cup {h}
  /\ outlives' = IF \E i, j \in Scopes : i # j /\ stack[i].start <= h
                                               /\ stack[j].start <= h
                 THEN outlives ELSE outlives \cup {h}
  /\ UNCHANGED <<handles, nextHandle, referenced, stack, refVars, tsfn, jsVars>>

-----------------------------------------------------------------------------
(* References.  Of napi_create_reference, and of napi_wrap and             *)
(* napi_add_finalizer, which record neither a value nor that it is weak.   *)

RefIds == DOMAIN refs
Deleted == [handle |-> 0, value |-> Undefined, weak |-> FALSE, count |-> 0,
            released |-> TRUE, token |-> NoToken, made |-> Undefined]
IsOpen(r) == r \in RefIds /\ refs[r] # Deleted
AddRef(h, value, weak, count, token, made) ==
  refs' = Append(refs, [handle |-> h, value |-> value, weak |-> weak,
                        count |-> count, released |-> FALSE,
                        token |-> token, made |-> made])

\* Up to version 9 only objects and symbols can be referenced.
MayRefer(v) == NapiVersion \in 1 .. 9 => IsObject(v) \/ v = Symbol
CreateReference(h, count) ==
  /\ ~Idle /\ MayMake(1) /\ MayRefer(ValueOf(h))
  /\ LET v == ValueOf(h)
         weak == count = 0 /\ IsObject(v)
     IN /\ AddRef(h, v, weak, count, NoToken, v)
  /\ referenced' = IF count > 0 THEN referenced \cup {h} ELSE referenced
  /\ UNCHANGED <<handles, nextHandle, escaped, stack, tokens, wraps, tsfn, jsVars, outlives>>

\* The value of a reference: a WeakRef is empty once its object is gone.
Deref(r) == IF refs[r].weak /\ refs[r].value \in Objects
               /\ heap[refs[r].value] = "gone" THEN Undefined
            ELSE refs[r].value

GetReferenceValue(r) ==
  /\ ~Idle /\ IsOpen(r) /\ ~refs[r].released
  /\ refs[r].weak => Deref(r) # Undefined  \* else the result is NULL
  /\ Give(Deref(r))
  /\ UNCHANGED <<referenced, escaped, refVars, tsfn, heap, reachable>>

StaysWeak(ref) == [ref EXCEPT !.count = @ + 1]  \* a bug: only counts
Strengthened(ref) == [ref EXCEPT !.count = @ + 1, !.weak = FALSE]
ReferenceRef(r) ==
  /\ ~Idle /\ IsOpen(r) /\ refs[r].count < 2  \* bound
  /\ LET turns == refs[r].count = 0 /\ refs[r].weak /\ Deref(r) # Undefined
     IN /\ refs' = IF turns THEN [refs EXCEPT ![r] = Strengthened(@)]
                   ELSE [refs EXCEPT ![r].count = @ + 1]
        /\ referenced' = IF turns THEN referenced \cup {refs[r].handle}
                         ELSE referenced
  /\ UNCHANGED <<handles, nextHandle, escaped, stack, tokens, wraps, tsfn, jsVars, outlives>>

\* napi_reference_unref and napi_delete_reference take the handle as well;
\* the guest, which may be using it, counts on it no longer.
BelowZero(n) == n - 1  \* a bug: Math.max is dropped
Less(n) == IF n > 0 THEN n - 1 ELSE 0
Weakened(ref) ==
  CASE IsObject(ref.value) -> [ref EXCEPT !.count = 0, !.weak = TRUE]
    [] ref.value = Symbol  -> [ref EXCEPT !.count = 0]  \* stays strong
    [] OTHER -> [ref EXCEPT !.count = 0, !.value = Undefined, !.released = TRUE]
Without(hs) == [i \in 1 .. Depth |-> [stack[i] EXCEPT !.got = @ \ hs]]
KeepHandle(h) ==  \* a bug: the handle is only no longer referenced
  UNCHANGED handles /\ stack' = Without({h}) /\ referenced' = referenced \ {h}
DropHandle(h) ==
  Remove({h}) /\ stack' = Without({h}) /\ referenced' = referenced \ {h}
ReferenceUnref(r) ==
  /\ ~Idle /\ IsOpen(r)
  /\ IF Less(refs[r].count) = 0 /\ ~refs[r].weak
     THEN /\ refs' = [refs EXCEPT ![r] = Weakened(@)]
          /\ DropHandle(refs[r].handle)
     ELSE /\ refs' = [refs EXCEPT ![r].count = Less(@)]
          /\ UNCHANGED <<handles, referenced, stack>>
  /\ UNCHANGED <<nextHandle, escaped, tokens, wraps, tsfn, jsVars, outlives>>

TokenStays(t) ==  \* a bug: removing a wrap leaves its finalizer registered
  [i \in DOMAIN tokens |-> IF i = t THEN [tokens[i] EXCEPT !.given = TRUE]
                           ELSE tokens[i]]
CancelledToken(t) ==
  [i \in DOMAIN tokens |->
     IF i = t THEN [tokens[i] EXCEPT !.given = TRUE,
                      !.state = IF @ = "done" THEN @ ELSE "cancelled"]
     ELSE tokens[i]]
DeleteReference(r) ==
  /\ ~Idle /\ IsOpen(r)
  /\ refs' = [refs EXCEPT ![r] = Deleted]
  /\ DropHandle(refs[r].handle)
  /\ tokens' = CancelledToken(refs[r].token)
  /\ UNCHANGED <<nextHandle, escaped, wraps, tsfn, jsVars, outlives>>

-----------------------------------------------------------------------------
(* Wraps and finalizers.                                                   *)

NextToken == Len(tokens) + 1
Register(o) == tokens' = Append(tokens, [object |-> o, state |-> "live",
                                         given |-> FALSE])

\* withCb: with a finalizer; withRef: the guest asks for a reference.
\* What is wrapped already is refused.
Registers(o, withCb) == withCb /\ IsObject(o)
TokenFor(o, withCb) == IF Registers(o, withCb) THEN NextToken ELSE NoToken
RegisterAndRefer(h, withCb, withRef) ==
  /\ MayMake((IF withCb THEN 1 ELSE 0) + (IF withRef THEN 1 ELSE 0))
  /\ IF Registers(ValueOf(h), withCb) THEN Register(ValueOf(h)) ELSE UNCHANGED tokens
  /\ IF withRef
     THEN AddRef(h, Undefined, FALSE, 0, TokenFor(ValueOf(h), withCb), Undefined)
     ELSE UNCHANGED refs

\* A reference made without a finalizer is not known to the wrap.
Wrap(h, withCb, withRef) ==
  LET o == ValueOf(h)
  IN /\ ~Idle /\ o \notin DOMAIN wraps
     /\ RegisterAndRefer(h, withCb, withRef)
     /\ wraps' = IF ~IsObject(o) THEN wraps
                 ELSE With(wraps, o, [token |-> TokenFor(o, withCb),
                   refs |-> IF withCb /\ withRef THEN {Len(refs) + 1} ELSE {}])
     /\ UNCHANGED <<handleVars, stack, tsfn, jsVars, outlives>>

RemoveWrap(h) ==
  LET o == ValueOf(h)
  IN /\ ~Idle /\ o \in DOMAIN wraps
     /\ tokens' = CancelledToken(wraps[o].token)
     /\ refs' = [r \in RefIds |->
                   IF r \in wraps[o].refs THEN [refs[r] EXCEPT !.released = TRUE]
                   ELSE refs[r]]
     /\ wraps' = [x \in DOMAIN wraps \ {o} |-> wraps[x]]
     /\ UNCHANGED <<handleVars, stack, tsfn, jsVars, outlives>>

AddFinalizer(h, withCb, withRef) ==
  /\ ~Idle
  /\ RegisterAndRefer(h, withCb, withRef)
  /\ UNCHANGED <<handleVars, stack, wraps, tsfn, jsVars, outlives>>

-----------------------------------------------------------------------------
(* Guest functions.  A callback gets a handle for its receiver; those for  *)
(* its arguments are like it, and the id that names its cb_info is the key *)
(* of no handle, so both are left out.                                     *)

Frame(kind, start, got, this) == [kind |-> kind, start |-> start, got |-> got,
                                  this |-> this]

\* A constructor is given a new object.
Enter(kind, this) ==
  /\ Depth < MaxDepth /\ Left > 0
  /\ kind = "ctor" => this \in Objects /\ heap[this] = "new"
  /\ handles' = Added(this)
  /\ nextHandle' = nextHandle + 1
  /\ heap' = [o \in Objects |-> IF o = this THEN "alive" ELSE heap[o]]
  /\ stack' = Append(stack, Frame(kind, nextHandle, {nextHandle}, this))
  /\ UNCHANGED <<referenced, escaped, refVars, tsfn, reachable, outlives>>

\* JavaScript calls a function of the guest, or constructs with one; so does
\* the guest, by napi_call_function and napi_new_instance.
CallsCallback ==
  \E v \in {Undefined} \cup (IF Idle THEN reachable
                             ELSE {ValueOf(h) : h \in Held}) : Enter("callback", v)
Constructs == \E o \in Objects : Enter("ctor", o)

\* Work, the registration of the module, or a slice of a worker.
RunPlain ==
  /\ Idle  \* bound
  /\ stack' = Append(stack, Frame("plain", 0, {}, Undefined))
  /\ UNCHANGED <<handleVars, refVars, tsfn, jsVars, outlives>>

\* _drainFinalizers, between guest functions or when one of them calls.
RunFinalizer(t) ==
  /\ Depth < MaxDepth /\ ~Finalizing
  /\ tokens[t].state = "posted"
  /\ tokens' = [tokens EXCEPT ![t].state = "done"]
  /\ stack' = Append(stack, Frame("finalizer", nextHandle, {}, Undefined))
  /\ UNCHANGED <<handleVars, refs, wraps, tsfn, jsVars, outlives>>

\* A function returns.  A callback looks its result up before its scope is
\* closed; the caller, if it is the guest, gets a new handle for it, and
\* JavaScript may keep it.  After a trap it is undefined (h = 0).
ResultOf(h) == IF Top.kind = "callback" THEN ValueOf(h) ELSE Top.this
Caller == IF Depth > 1 THEN stack[Depth - 1].kind ELSE "host"
KeptBy(v) == IF Caller = "host" /\ v \in Objects THEN {{}, {v}} ELSE {{}}
Return(h) ==
  /\ ~Idle
  /\ stack' = SubSeq(stack, 1, Depth - 1)
  /\ IF Top.start > 0 THEN PopScope(Top.start) ELSE UNCHANGED <<handles, escaped>>
  /\ \E held \in KeptBy(ResultOf(h)) : reachable' = reachable \cup held
  /\ UNCHANGED <<nextHandle, referenced, refVars, tsfn, heap, outlives>>

\* The same, and the guest that called it takes a handle for the result.
ReturnToGuest(h) ==
  /\ Depth > 1 /\ Top.kind \in Callee /\ Left > 0
  /\ escaped' = {e \in escaped : e < Top.start \/ e \in referenced}
  /\ handles' = With([x \in Live \ Released(Top.start) |-> handles[x]],
                     nextHandle, ResultOf(h))
  /\ nextHandle' = nextHandle + 1
  /\ stack' = [i \in 1 .. Depth - 1 |-> [stack[i] EXCEPT !.got =
                 IF i = Depth - 1 THEN @ \cup {nextHandle} ELSE @]]
  /\ outlives' = IF \A i \in Scopes : i = Depth THEN outlives \cup {nextHandle}
                 ELSE outlives
  /\ UNCHANGED <<referenced, refVars, tsfn, jsVars>>

-----------------------------------------------------------------------------
(* A thread-safe function keeps its own handle and that of its JavaScript  *)
(* function; its end takes the first away and only forgets the second.     *)

CreateTsfn(h) ==
  /\ ~Idle /\ tsfn.state = "none" /\ MayMake(1) /\ Left > 1
  /\ handles' = Added(Global)  \* its record, which is no object here
  /\ nextHandle' = nextHandle + 1
  /\ tsfn' = [state |-> "live", handle |-> nextHandle, func |-> h]
  /\ referenced' = referenced \cup {nextHandle, h}
  /\ UNCHANGED <<stack, escaped, refVars, jsVars, outlives>>

\* A handle that was deleted through a reference is passed all the same.
CallTsfn ==
  /\ tsfn.state = "live" /\ Depth < MaxDepth
  /\ stack' = Append(stack, Frame("plain", 0, {tsfn.func} \cap Live, Undefined))
  /\ UNCHANGED <<handleVars, refVars, tsfn, jsVars, outlives>>

EndTsfn ==
  /\ tsfn.state = "live"
  /\ tsfn' = [tsfn EXCEPT !.state = "ended"]
  /\ referenced' = referenced \ {tsfn.handle, tsfn.func}
  /\ Remove({tsfn.handle})
  /\ outlives' = outlives \cup {tsfn.func}
  /\ UNCHANGED <<nextHandle, escaped, stack, refVars, jsVars>>

-----------------------------------------------------------------------------
(* The collector.  It may take an object in the job in which a WeakRef     *)
(* gave it out, which an engine does not do: nothing here depends on it.   *)

\* Map, Set and the references that are not weak hold their values.
Reaches(o) ==
  \/ o \in reachable
  \/ \E h \in Live : handles[h] = o
  \/ \E i \in 1 .. Depth : stack[i].this = o
  \/ \E r \in RefIds : refs[r].value = o /\ ~refs[r].weak

JsForgets(o) ==
  /\ o \in reachable
  /\ reachable' = reachable \ {o}
  /\ UNCHANGED <<handleVars, stack, refVars, tsfn, heap, outlives>>

Collect(o) ==
  /\ heap[o] = "alive" /\ ~Reaches(o)
  /\ heap' = [heap EXCEPT ![o] = "gone"]
  /\ UNCHANGED <<handleVars, stack, refVars, tsfn, reachable, outlives>>

\* The FinalizationRegistry calls back in a task of its own.
Post(t) ==
  /\ Idle /\ tokens[t].state = "live" /\ tokens[t].object \in Objects
  /\ heap[tokens[t].object] = "gone"
  /\ tokens' = [tokens EXCEPT ![t].state = "posted"]
  /\ UNCHANGED <<handleVars, stack, refs, wraps, tsfn, jsVars, outlives>>

-----------------------------------------------------------------------------
Init ==
  /\ handles = [h \in {GlobalHandle} |-> Global]
  /\ nextHandle = GlobalHandle + 1
  /\ stack = <<>>
  /\ referenced = {} /\ escaped = {}
  /\ refs = <<>> /\ tokens = <<>> /\ wraps = <<>>
  /\ tsfn = [state |-> "none", handle |-> 0, func |-> 0]
  /\ heap = [o \in Objects |-> "new"]
  /\ reachable = {}
  /\ outlives = {GlobalHandle}

\* napi_get_global may give every function the handle of the global object.
UseHandles == \E h \in Held :
  \/ SetProperty(h) \/ Escape(h) \/ RemoveWrap(h) \/ CreateTsfn(h)
  \/ \E withRef \in BOOLEAN :
       \E withCb \in BOOLEAN : Wrap(h, withCb, withRef)
                               \/ AddFinalizer(h, withCb, withRef)
MakeReferences == \E h \in Held \cup {GlobalHandle}, count \in 0 .. 1 :
  CreateReference(h, count)
UseReferences == \E r \in RefIds :
  GetReferenceValue(r) \/ ReferenceRef(r) \/ ReferenceUnref(r) \/ DeleteReference(r)
Calls == \/ CallsCallback \/ Constructs
         \/ RunPlain \/ CallTsfn \/ EndTsfn
         \/ \E t \in DOMAIN tokens : RunFinalizer(t) \/ Post(t)
Returns == \E h \in Held \cup {0} : Return(h) \/ ReturnToGuest(h)
Collector == \E o \in Objects : JsForgets(o) \/ Collect(o)

Next == \/ \E v \in Objects \cup {Symbol} : GetValue(v)
        \/ UseHandles \/ MakeReferences \/ UseReferences \/ Calls \/ Returns \/ Collector

Spec == Init /\ [][Next]_vars

-----------------------------------------------------------------------------
(* Properties.                                                             *)

\* Every variable has its type, and the scopes on the stack are nested.
TypeOK ==
  /\ Live \subseteq 1 .. nextHandle - 1 /\ \A h \in Live : handles[h] \in Values
  /\ referenced \cup escaped \cup outlives \subseteq 1 .. nextHandle - 1
  /\ \A i, j \in Scopes : i < j => stack[i].start <= stack[j].start
  /\ \A r \in RefIds :
       /\ refs[r].value \in Values /\ refs[r].count \in Nat
       /\ refs[r].token \in {NoToken} \cup DOMAIN tokens
  /\ \A t \in DOMAIN tokens :
       tokens[t].state \in {"live", "posted", "cancelled", "done"}
  /\ DOMAIN wraps \subseteq Objects \cup {Global}
  /\ heap \in [Objects -> {"new", "alive", "gone"}]
  /\ reachable \subseteq Objects

\* What a scope leaves behind is wanted: a handle that is in no open scope is
\* referenced, or it escaped from the outermost one, was made in none or is
\* the function of a thread-safe function that ended.  Those three kinds stay
\* for ever.
OutliveOnly ==
  \A h \in Live : \/ h \in referenced \cup outlives
                  \/ \E i \in Scopes : stack[i].start <= h

\* Whatever returns, the handles that the functions still in progress hold
\* stay valid; the guest loses one only by giving up a reference to it.
HeldStay == /\ Held \subseteq Live
            /\ tsfn.state = "live" => tsfn.handle \in Live

\* A reference with a positive count keeps its object: it is not weak, and
\* the object is not collected, except when it was gone at reference_ref.
StrongKeeps ==
  \A r \in RefIds :
    LET ref == refs[r]
    IN ref.count > 0 /\ ref.made \in Objects =>
         IF ref.weak THEN heap[ref.made] = "gone"
         ELSE ref.value = ref.made /\ heap[ref.made] = "alive"

\* Once the guest removed the wrap or deleted the reference, the finalizer
\* does not begin, also when its object is collected and it is posted.
GivenUpNeverFinalized ==
  [][\A t \in DOMAIN tokens : tokens[t].given =>
       (tokens'[t].state = "done" <=> tokens[t].state = "done")]_vars
=============================================================================
