------------------------------ MODULE HostStart ------------------------------
(***************************************************************************)
(* From the bytes of a guest to its exports: kernel_load with the bridge   *)
(* of src/kernel/wasmkernel.c, and the start-up sequence of the three      *)
(* entries of packages/wasmkernel/src: instantiate.js ("esm"; its two      *)
(* functions do the same), entry-browser.js and entry-node.cjs.            *)
(*                                                                         *)
(* A function the guest imports is bound to a slot of the kernel's bridge, *)
(* by its name, and the slot to a function of the host, by the name the    *)
(* kernel tells of the slot.  While the guest is started it may call any   *)
(* of its imports.  The kernel may be given another guest afterwards; the  *)
(* package's entries make a kernel of their own for each.  Left out is     *)
(* what kernel_load does to the sizes of the guest's memory.               *)
(***************************************************************************)
EXTENDS WasiCalls, FiniteSets

CONSTANTS
  Guests,       \* each the sequence of its imported functions
  Registers,    \* sequences of the indices of __napi_register__ exports
  BridgeFuncs,  \* MAX_BRIDGE_FUNCS
  WasiFirst,    \* the slot of the first row for WASI
  FaultSlot,    \* PAGE_FAULT_BRIDGE_SLOT
  Cuts,         \* per name of more than 63 bytes, the first 63
  NapiMethods,  \* the methods of NapiRuntime
  HostWasi,     \* the functions of the caller's WASI
  UserWasi,     \* those of the caller's wasiBridges
  MaxLoads      \* bound: guests given to one kernel

ASSUME HostStartAssumption ==
  /\ {BridgeFuncs, WasiFirst, FaultSlot, MaxLoads} \subseteq Nat
  /\ WasiFirst + Len(Rows) <= FaultSlot /\ FaultSlot < BridgeFuncs
  /\ Guests \subseteq Seq([module : STRING, name : STRING])
  /\ Registers \subseteq Seq(Nat)
  /\ DOMAIN Cuts \subseteq STRING
  /\ \A name \in DOMAIN Cuts : Cuts[name] \in STRING \ DOMAIN Cuts

VARIABLES
  entry, paged,  \* how the kernel is used
  phase,         \* how far the start is
  guest,         \* the imports of the guest that is loaded
  slots, count,  \* the names of the bridge, and g_bridge_count
  natives,       \* per module with registered natives, the slots of these
  link,          \* what each import is bound to
  host,          \* bridgeFunctions
  registers,     \* the __napi_register__ exports, in the order of the file
  todo, called,  \* of these, those still to call and, history, those called
  loads,         \* history: kernel_load calls
  last           \* history: the last call into the host and its answer

kernelVars == <<guest, slots, count, natives, link, loads>>
startVars  == <<registers, todo, called>>
vars == <<entry, paged, phase, kernelVars, host, startVars, last>>

Wasi == "wasi_snapshot_preview1"
Threads == "wasi"
Spawn == "thread-spawn"
NapiModules == {"env", "emnapi", "napi"}
Slots == 0 .. BridgeFuncs - 1
Import(module, name) == [module |-> module, name |-> name]
NoName == Import("", "")
Handler(by, name) == [by |-> by, name |-> name]
Call(of, import, answer) == [of |-> of, import |-> import, answer |-> answer]
NoCall == Call("none", NoName, Handler("none", ""))

-----------------------------------------------------------------------------
(* kernel_load: the imports that are not the kernel's get a slot each.     *)

IsBridged(import) == import.module \notin {Wasi, Threads}
Wanted(g) == {i \in DOMAIN g : IsBridged(g[i])}
SlotFor(g, i) == count + Cardinality({j \in Wanted(g) : j < i})

\* The bridge keeps 63 bytes of a name.
IsLong(import) == {import.module, import.name} \cap DOMAIN Cuts # {}
Cut(name) == IF name \in DOMAIN Cuts THEN Cuts[name] ELSE name
Stored(import) == Import(Cut(import.module), Cut(import.name))

\* Those that fit; the rest is not bridged.
Taken(g) == {i \in Wanted(g) : SlotFor(g, i) < BridgeFuncs}
TakenSlots(g) == {SlotFor(g, i) : i \in Taken(g)}
Named(g) == [s \in Slots |->
               IF s \in TakenSlots(g)
               THEN Stored(g[CHOOSE i \in Taken(g) : SlotFor(g, i) = s])
               ELSE slots[s]]

\* The natives of a module are registered together, unless an earlier slot
\* has the name of the module: that of an earlier guest counts too.
IsNewModule(m) == \A s \in 0 .. count - 1 : slots[s].module # m
NewModules(g) ==
  {m \in {Stored(g[i]).module : i \in Taken(g)} : IsNewModule(m)}
Registered(g) ==
  [m \in DOMAIN natives \cup NewModules(g) |->
     IF m \in NewModules(g) THEN {s \in TakenSlots(g) : Named(g)[s].module = m}
     ELSE natives[m]]

\* The rows for WASI go over what is there.
WasiSlot(row) == WasiFirst + row - 1
WithRows(names) ==
  [s \in Slots |->
     IF \E row \in DOMAIN Rows : s = WasiSlot(row)
     THEN Import(Wasi, Rows[CHOOSE row \in DOMAIN Rows : s = WasiSlot(row)].name)
     ELSE names[s]]
ImportsOnly(g) == count + Cardinality(Taken(g))  \* a bug: the rows are not counted
CountAfter(g) ==
  LET imported == count + Cardinality(Taken(g))
  IN IF imported > WasiSlot(Len(Rows)) THEN imported ELSE WasiSlot(Len(Rows)) + 1

\* The interpreter binds an import by its name, all of it; of the module of
\* the threads it has one function.
ToSlot(s) == [to |-> "slot", slot |-> s]
Kernel == [to |-> "kernel", slot |-> 0]
Unlinked == [to |-> "nobody", slot |-> 0]
Candidates(import, names, registered) ==
  {s \in (IF import.module \in DOMAIN registered
          THEN registered[import.module] ELSE {}) : names[s].name = import.name}
LinkOf(import, names, registered) ==
  CASE import.module = Threads -> IF import.name = Spawn THEN Kernel ELSE Unlinked
    [] import.module = Wasi ->
         IF import.name \notin DOMAIN Symbols THEN Unlinked
         ELSE IF Symbols[import.name].row = NoRow THEN Kernel
         ELSE ToSlot(WasiSlot(Symbols[import.name].row))
    [] OTHER ->
         LET found == Candidates(import, names, registered)
         IN IF found = {} THEN Unlinked ELSE ToSlot(CHOOSE s \in found : TRUE)

MayLoad == phase \in {"new", "failed", "done"} /\ loads < MaxLoads
LoadGuest(g) ==
  /\ MayLoad
  /\ loads' = loads + 1
  /\ guest' = g
  /\ slots' = WithRows(Named(g))
  /\ count' = CountAfter(g)
  /\ natives' = Registered(g)
  /\ link' = [i \in DOMAIN g |-> LinkOf(g[i], Named(g), Registered(g))]
  /\ phase' \in {"start", "failed"}  \* wasm_runtime_instantiate may fail
  /\ registers' \in Registers /\ todo' = <<>> /\ called' = <<>>
  /\ last' = NoCall
  /\ UNCHANGED <<entry, paged, host>>

\* Bytes that are no module: the guest before is gone all the same.
LoadFails ==
  /\ MayLoad
  /\ loads' = loads + 1
  /\ guest' = <<>> /\ link' = <<>>
  /\ phase' = "failed" /\ last' = NoCall
  /\ UNCHANGED <<entry, paged, slots, count, natives, host, startVars>>

-----------------------------------------------------------------------------
(* The host wires the bridge.                                              *)

ArgsOf(name) == IF \E row \in DOMAIN Rows : Rows[row].name = name
                THEN Rows[CHOOSE row \in DOMAIN Rows : Rows[row].name = name].params
                ELSE 0

\* Three layers, the last wins; the CommonJS entry has one default.
Layer(name) ==
  CASE name \in UserWasi -> "user"
    [] entry # "cjs" /\ name \in HostWasi \cap Forwardable -> "passthrough"
    [] name \in (IF entry = "cjs" THEN {"random_get"} ELSE Defaults) -> "default"
    [] OTHER -> "unknown"

HandlerFor(import) ==
  CASE import.module \in NapiModules /\ import.name \in NapiMethods ->
         Handler("napi", import.name)
    [] import.module = Wasi -> Handler(Layer(import.name), import.name)
    [] OTHER -> Handler("unknown", import.name)

\* _wirePagedMemoryAfterLoad; nothing runs before the bridge is wired.
WirePaging ==
  /\ phase = "start"
  /\ phase' = "wiring"
  /\ host' = IF paged THEN [host EXCEPT ![FaultSlot] = Handler("fault", "")] ELSE host
  /\ UNCHANGED <<entry, paged, kernelVars, startVars, last>>

WireBridge ==
  /\ phase = "wiring"
  /\ phase' = "steps"
  /\ host' = [s \in Slots |-> IF s < count THEN HandlerFor(slots[s]) ELSE host[s]]
  /\ last' = NoCall
  /\ UNCHANGED <<entry, paged, kernelVars, startVars>>

-----------------------------------------------------------------------------
(* The guest calls.                                                        *)

\* host_func_call: where no handler is, the answer is 0.
NoHandler == Handler("zero", "")
Runs == phase \in {"start", "steps", "registers", "module", "done"}

CallImport(i) ==
  /\ Runs /\ i \in DOMAIN link
  /\ last' = Call("import", guest[i],
                  IF link[i].to = "slot" THEN host[link[i].slot]
                  ELSE Handler(link[i].to, guest[i].name))
  /\ UNCHANGED <<entry, paged, phase, kernelVars, host, startVars>>

PageFault ==
  /\ paged /\ Runs /\ phase # "start"
  /\ last' = Call("fault", NoName, host[FaultSlot])
  /\ UNCHANGED <<entry, paged, phase, kernelVars, host, startVars>>

-----------------------------------------------------------------------------
(* The rest of the start: steps until _start is over, the registrations of *)
(* the classes, that of the module.                                        *)

\* The sort is stable: equal ones stay in their order.
Before(r, j, i) == r[j] < r[i] \/ (r[j] = r[i] /\ j < i)
PlaceOf(r, i) == 1 + Cardinality({j \in DOMAIN r : Before(r, j, i)})
InOrder(r) ==
  [k \in DOMAIN r |-> r[CHOOSE i \in DOMAIN r : PlaceOf(r, i) = k]]
AsExported(r) == r  \* a bug: in the order of the export section
Sorted(r) == IF entry = "cjs" THEN r ELSE InOrder(r)

EndSteps ==
  /\ phase = "steps"
  /\ phase' = "registers"
  /\ todo' = Sorted(registers)
  /\ UNCHANGED <<entry, paged, kernelVars, host, registers, called, last>>

Register ==
  /\ phase = "registers" /\ todo # <<>>
  /\ called' = Append(called, Head(todo))
  /\ todo' = Tail(todo)
  /\ UNCHANGED <<entry, paged, phase, kernelVars, host, registers, last>>

\* napi_register_wasm_v1 or napi_register_module_v1.  An exception that any
\* of the functions left, a trap, or the lack of both ends the start.
RegisterModule ==
  /\ phase = "registers" /\ todo = <<>>
  /\ phase' = "module"
  /\ UNCHANGED <<entry, paged, kernelVars, host, startVars, last>>

EndStart ==
  /\ phase = "module"
  /\ phase' \in {"done", "failed"}
  /\ UNCHANGED <<entry, paged, kernelVars, host, startVars, last>>

-----------------------------------------------------------------------------
Init ==
  /\ entry \in {"esm", "browser", "cjs"}
  /\ paged \in BOOLEAN /\ (entry = "cjs" => ~paged)
  /\ phase = "new"
  /\ guest = <<>> /\ link = <<>>
  /\ slots = [s \in Slots |-> NoName] /\ count = 0
  /\ natives = [m \in {} |-> {}]
  /\ host = [s \in Slots |-> NoHandler]
  /\ registers = <<>> /\ todo = <<>> /\ called = <<>>
  /\ loads = 0
  /\ last = NoCall

Next == \/ \E g \in Guests : LoadGuest(g)
        \/ LoadFails
        \/ WirePaging \/ WireBridge
        \/ \E i \in DOMAIN link : CallImport(i)
        \/ PageFault
        \/ EndSteps \/ Register \/ RegisterModule \/ EndStart

Spec == Init /\ [][Next]_vars

\* What the properties are about: no import takes a slot of the rows for WASI
\* or that of the page faults, where the names of the two sides differ.
Reserved == {WasiSlot(row) : row \in DOMAIN Rows}
            \cup (IF paged THEN {FaultSlot} ELSE {})
Clashes(g) == TakenSlots(g) \cap Reserved # {}
KeptNext == Next /\ (loads' = loads \/ ~Clashes(guest'))
KeptSpec == Init /\ [][KeptNext]_vars

-----------------------------------------------------------------------------
(* Properties.                                                             *)

Wired == phase \notin {"start", "wiring"}
\* What no load binds: functions the kernel has not, and long names.
IsMissing(i) ==
  \/ i.module = Threads /\ i.name # Spawn
  \/ i.module = Wasi /\ i.name \notin DOMAIN Symbols
  \/ IsBridged(i) /\ IsLong(i)
OwnAnswer(i) ==
  IF IsBridged(i) \/ (i.module = Wasi /\ Symbols[i.name].row # NoRow)
  THEN HandlerFor(i) ELSE Handler("kernel", i.name)

\* Once the bridge is wired, a call of an import reaches the function of its
\* own name, and a page fault the page cache, whatever guests the kernel had
\* before.  Only what is missing is bound to nothing, and a function that a
\* later guest imports.
AnsweredByOwn ==
  Wired /\ last # NoCall =>
    CASE last.of = "fault" -> last.answer.by = "fault"
      [] last.answer.by = "nobody" ->
           loads > 1 \/ IsMissing(last.import)
      [] OTHER -> last.answer = OwnAnswer(last.import)

\* A call that reaches the host has all its arguments, those of 64 bits whole
\* when they are passed on, and a default handler writes its results where a
\* pointer is: three tables in two languages agree.
ArgumentsWhole ==
  Wired /\ last # NoCall /\ last.import.module = Wasi
  /\ last.answer.by \in {"passthrough", "default", "user"} =>
    LET name == last.import.name
        params == 0 .. Symbols[name].params - 1
    IN /\ ArgsOf(name) = Symbols[name].params
       /\ last.answer.by = "passthrough" =>
            \A i \in params : i \in Symbols[name].wide <=> Forwarded(name, i) = "whole"
       /\ last.answer.by = "default" =>
            \A i \in OutsOf(name) : i \in params /\ Forwarded(name, i) = "translated"

\* The classes are registered in the order of their declaration, each once,
\* before the module is (entry-node.cjs takes them as they come).
RegisteredInOrder ==
  phase \in {"module", "done"} /\ entry # "cjs" =>
    /\ \A i, j \in DOMAIN called : i < j => called[i] <= called[j]
    /\ \E p \in Bijection(DOMAIN registers, DOMAIN registers) :
         called = [k \in DOMAIN registers |-> registers[p[k]]]
=============================================================================
