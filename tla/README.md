# Verification of wasmkernel

wasmkernel runs a WebAssembly guest with threads inside another WebAssembly
module: `kernel.wasm` holds the WAMR interpreter, a cooperative scheduler, a
paging layer for guest memory and a small WASI, and a JavaScript host drives it
and gives the guest N-API. Everything runs on one host thread; what is
concurrent is the guest, whose threads are interleaved by the scheduler, and the
host and guest, which call each other while either is in the middle of something.

Paths below are relative to the repository.

## 1. Inventory

| component | state | operations |
|---|---|---|
| **Scheduler** `src/kernel/scheduler.c` | a table of 64 thread slots (state, exec_env, started, asyncify_unwound, wait address and timeout, I/O deadline), the round-robin index, the next thread id, a table of at most 64 pending notifies, proc_exit / trap / watchdog flags | add_main, register_thread (reclaims dead slots), block_on_wait, wake_waiters, block_on_poll_clock, reset_main_thread, one scheduler step with or without main |
| **Kernel entry points** `src/kernel/wasmkernel.c` | the guest instance and exec_env, `g_main_thread_asyncify_enabled`, exit code, requested sizes | kernel_load, kernel_step, kernel_call, kernel_call_indirect (with a cooperative loop that steps the workers), kernel_call_indirect_simple, the setters; the guest's WASI calls (poll_oneoff, sched_yield, proc_exit, fd_*) |
| **Paged memory** `src/kernel/paged_mem.c`, `paged_mem_hooks.h` | page table, slot_to_page, hot window base, logical size, one staged cross-page access | on_instantiate, fault, cross_page, flush, bulk fill / init / copy, on_grow; the macro every guest load and store goes through |
| **Page cache, backends** `packages/wasmkernel/src/page_cache.js`, `memory_backend.js`, `backends/` | slotToPage, refbits, clock hand; the stored pages | onPageFault (allocate, write back the victim, load) |
| **GuestMemory** `guest_memory.js` | none of its own | scalar and byte-range accesses of the host |
| **Start-up and bridge** `instantiate.js`, `kernel_load` and `bridge_dispatch` of `wasmkernel.c` | the names in the 256 slots of the bridge and their count, the natives registered with WAMR, the host's functions by slot, paging configuration | kernel_load, wiring of the bridge, wiring and seeding of paged memory, the start-up loop of kernel_steps, registration calls, `host_func_call` |
| **WASI** `wasmkernel.c`, `wasi_bridge.js`, `wasi_passthrough.js` | tables: the kernel's 20 functions, its nine rows of the bridge, pointer and 64-bit arguments | serving a call in the kernel or in one of three layers of the host |
| **N-API runtime** `napi_runtime.js` | handles, scopes, references, wraps, one pending exception, one last status, deferreds, async works and their queue, thread-safe functions, posted finalizers, the promise pump | about 150 N-API functions, `dispatch`, the drains, the pump |
| **Entry points** `entry-browser.js`, `entry-node.cjs`, `entry-node.js`, `entry-worker.js` | none of their own | finding the kernel's bytes; two further copies of the start-up sequence |
| **Platform layer** `platform_wasi/`, asyncify stubs | none that outlives a call | no-ops, allocation, clocks |

How they interact:

* The host calls `kernel_step`, which picks a thread and runs the interpreter
  until the thread yields, blocks, exits or traps. The interpreter calls back
  into the scheduler (wait, notify, spawn) through hooks patched into WAMR
  (`deps/wamr`, not in the repository: these callers are external here).
* Guest code calls imports, which go through `host_func_call` to a JavaScript
  handler; a handler may call the guest again through the `kernel_call*` entry
  points, on the main thread's exec_env, whichever thread made the outer call.
* `kernel_call_indirect` steps the other threads itself while its function is
  suspended, so scheduler steps nest inside calls and calls inside slices.
* A guest load that misses the page table calls the host in the middle of the
  opcode; the handler moves pages between the hot window and the backend, and
  the kernel enters the slot it returns into its own tables.

What is hard here, and what makes each part correct:

* *Scheduler.* Wakeups (notify before wait, timeouts, stalls, reclaimed slots)
  must each reach the thread they are for and no other; every ready thread runs
  again; the guest cannot hang although everybody waits; a finished guest has no
  live thread; a thread resumes by the mechanism that suspended it.
* *Entry points.* Whatever nesting of calls and slices happened, the main
  thread's slot, the YIELD flag and the asyncify flag are left so that the next
  call or step works; a suspended call is always picked up again.
* *Paged memory.* Guest and host must see one flat memory although pages move
  between and within accesses, and three tables on two sides must agree.
* *N-API.* Callbacks, completions and finalizers must each run once, in order,
  and not inside one another; promises must keep the scheduler running. A handle
  must live as long as a guest function in progress holds it and no longer, a
  finalizer that was given up must not run, an exception and a status must reach
  the function they are about.
* *Start-up.* Three tables in two languages (the kernel's names, the host's
  functions, WASI's arguments) must agree slot by slot for every guest the kernel is
  given.

The hazards of the code are listed, at their lines, in `PROJECT.json`.

## 2. Modules

| module | models | role |
|---|---|---|
| `Scheduler` | `scheduler.c`, `kernel_step`, the scheduler side of the WASI calls | core |
| `SchedulerOrder` | the same with a history variable (who was passed by) | fairness of the round robin |
| `Threads` | nothing of the code: what the scheduler promises a guest | abstract specification |
| `SchedulerThreads` | the refinement mapping from the slot table to `Threads` | refinement |
| `KernelCalls` | extends `Scheduler` with the `kernel_call*` entry points, their nesting, the cooperative loop and the host's use of them | composition |
| `PagedMem` | `paged_mem.c`, the load/store macro, `page_cache.js`, `guest_memory.js`, the seed in `instantiate.js` | core, both sides of the fault path |
| `FlatMemory` | nothing of the code: one linear memory | abstract specification |
| `PagedFlat` | `PagedMem` with history variables, and its mapping to `FlatMemory` | refinement |
| `NapiAsync` | `dispatch` and what `napi_runtime.js` runs later: async work, thread-safe functions, finalizers, the promise pump | core of the N-API runtime |
| `NapiHandles` | handles, scopes, references, wraps, finalizer tokens, and the collector | the other half of the N-API runtime |
| `NapiMethods` | the statuses and exceptions of each N-API method, a table | data of `NapiExceptions` |
| `NapiExceptions` | extends `NapiAsync` with the pending exception and the last status | composition |
| `WasiCalls` | the tables of WASI on both sides | data of `HostStart` |
| `HostStart` | `kernel_load` with the bridge, and the start-up of `instantiate.js`, `entry-browser.js`, `entry-node.cjs` | both sides of the bridge |
| `SchedulerProofs` | theorems about `Scheduler`, checked by TLAPS | proofs |
| `SchedulerThreadsProofs` | that `Scheduler` implements `Threads`, and that its round robin is fair | proofs |
| `KernelCallsProofs` | theorems about `KernelCalls`, on top of the lemmas of `SchedulerProofs` | proofs |
| `PagedMemProofs` | theorems about `PagedMem`, and that it implements `FlatMemory` | proofs |
| `NapiAsyncProofs`, `NapiHandlesProofs` | theorems about `NapiAsync` and `NapiHandles` | proofs |
| `NapiExceptionsProofs` | theorems about `NapiExceptions`, on top of those about `NapiAsync` | proofs |
| `HostStartProofs` | theorems about `HostStart` | proofs |
| `MCScheduler`, `MCPagedMem`, `MCPagedFlat`, `MCNapiAsync`, `MCNapiHandles`, `MCNapiExceptions`, `MCHostStart` | instances for TLC | |

A definition commented `a bug:` is not part of a specification: it is a mutated
form of the definition that follows it, and `PROJECT.json` names for each
checked property the mutation that breaks it.

### Scheduler

The slot table is one function per field, over `Slots == 0 .. MaxThreads-1`. A
blocked thread's two possible timers (`wait_start_us + wait_timeout_us`,
`io_deadline_us`) are one field `until`, since a thread blocks in one way at a
time. An exec_env is identified by the thread id it was registered with.

A scheduler step is split where guest code runs. `Dispatch` is `scheduler_step_internal`
up to the call of the interpreter: the timers are polled, the next ready slot from the
round-robin index is picked, stalls are broken, the slot becomes RUNNING. The slice then
is a sequence of actions, one per host call the guest makes (`Wait`, `Notify`, `Spawn`,
`Sleep`, `SchedYield`, `ProcExit`, ...) or `FuelOut`, `Trap`, `WorkerReturns`,
`MainReturns`; those that end the slice also model the rest of the step. `NothingLive`,
`WatchdogFires` and `Stuck` are the early returns; the last needs an exited main thread
beside sleeping workers, or a loop that skips main, and is a step of `KernelCalls` only.
`cur` is the slot whose slice executes. The clock ticks between any two actions.

`frame` is not a field of the table: it says how the interpreter left the
thread's frame (`none`, `yield`: the YIELD flag is set and the frame is kept in
the exec_env, `asyncify`: the C stack was unwound into the thread's buffer). It
is what the field `asyncify_unwound` is supposed to know.

`Wait` and `Notify` are calls of the scheduler's functions from WAMR's
`memory.atomic.wait32` and `notify` opcodes, which are outside the repository; their
comparison of the memory cell is left out (a wait whose comparison fails does not
reach the scheduler).

### KernelCalls

`calls` is the stack of calls in progress: its kind, the slot whose slice made it
(`NoSlot` for the host or an outer call), the saved asyncify flag, and whether
its function runs (`guest`), its loop is about to step (`step`) or has to look at
the result of the step (`check`). While a call's function runs, `cur = NoSlot`;
when it returns, `cur` goes back to `from`. The actions of `Scheduler` are reused
for the slices that a loop starts (`SchedulerMoves`). The host steps until its
start-up loop ends and calls only afterwards, as `instantiate.js` does; it may go
on stepping then (the promise pump does).

A thread that is terminated while its slice waits for a nested call only unwinds
(`SliceGoesOn`). Calls made by `_start` itself are left out of `Enter`.

### PagedMem

Memory is `PageSize` cells a page; two cells suffice to have accesses within a
page and across two. `phys` is `memory_data`, of which the first `HotWindow`
pages are the hot window. `cache` joins the kernel's page table and slot_to_page
with the host's slotToPage, refbits and hand. A fault is served inside the access
that met it: the program is single-threaded and the handler synchronous. A scalar
access is therefore one action (flush of the staged access, first fault, second
fault, staging); a bulk operation is one action to begin and one per chunk; its
`Blocks` are non-empty, as a length of zero leaves the loop of chunks at once. A load
through a table entry of 0xFFFF reads `Junk`, bytes from outside of `memory_data`. The
store macro stages like a load and the store overwrites the scratch, which the next
access writes back (`Flushed`).

`GuestMemory` goes through the same tables: `HostLoad` and `HostStore`
translate the first byte only, as the code does. It knows no bounds: a page beyond the
memory is `undefined` in its view of the page table, and the access ends at address 0 of
the kernel (`Reached`, `Reach`, `Nowhere`), where it reads `Junk` and writes nothing that
is modelled. `ReadBytes` and `WriteBytes` may begin inside and end there.

`up` says which operations of the backend work. A fault that needs a failing one
(`Needed`) answers slot 0 after the host has chosen its slot, and, when it is `readPage`
that throws, after the victim was flushed and its slot cleared (`OnPageFaultUnread`).

### NapiAsync

The host has one thread; what it is in the middle of is `stack`. A frame is of
the host (`dispatch`, `pump`, or `task`: the microtask that drains finalizers) or
of guest code that the host called (`callback`, `finalizer`, `execute`,
`complete`, `call_js`, `tsfn_end`), a `worker` whose slice runs inside
one of them, or `jsfn`, a JavaScript function called for a thread-safe function
without a `call_js_cb`. Only the innermost frame moves.

A `dispatch` frame goes through the phases of the code: `drain` (the posted
finalizers, at napi_runtime.js:2869), `method`, `async` (`drainAsyncQueue`) and
`tsfn` (`drainTsfnQueue`); a pump through `steps`, `drain`, `async`, `tsfn`. Each
turn of a drain's loop is an action, since it calls guest code, which
makes N-API calls of its own: `Call` pushes another `dispatch`. `HostCalls`,
`DrainTask`, `PromiseEnds`, `PumpRuns` are what the event loop may start when the
stack is empty; microtasks precede tasks.

`asked`, `done`, `sent`, `got` and `deferreds` are history: how many completions
are owed, which data were accepted and delivered, which promises are unsettled.

Left out: the status given to a completion; the deletion of a finalized function's
handle (it is answered as a closing one); a `jsFn` that is no function (its data are
dropped). `NothingWaits` is a
result that matters beyond this module: because every dispatch drains, no work
or data ever waits when guest code or nothing runs, so the pump's own drains and
the filter of `napi_cancel_async_work` never find anything, and work runs to its
completion inside the call that queued it.

`NapiAsync` takes a call of guest code to run until it returns; `KernelCalls` is
where it may not.

### NapiHandles

`handles` is the Map of that name; ids are never reused. `stack` holds the guest
functions in progress with the handles each was given (`got`) and, for a callback, a
constructor or a finalizer, the value of `nextHandle` when its scope was opened
(`start`, an element of `_scopeStack`). Work, thread-safe functions and worker slices
have no scope (`plain`). `Return` closes the scope (`_popScope`); its caller, if it is
the guest, gets a new handle for the result (`ReturnToGuest`). A guest function uses a
handle it was given, or that of the global object. A symbol stands for the values that
references keep although they are no objects; other primitives are `Undefined`.
`NapiVersion` is the field `_napiVersion`, which decides what may be referenced; nothing
in the package sets it (only `tests/emnapi/util.js:110` does), so the run has 0.

A reference is a record with the fields of the code; one made by `napi_wrap` or
`napi_add_finalizer` has no value. `tokens` are the finalizers registered, each
live, posted, cancelled or done. `heap` and `reachable` stand for the JavaScript
heap: an object may be collected when no handle, strong reference, frame or property
reaches it (`Reaches`), and its finalizer is then posted in a task of its own.

A guest that deletes or weakens a reference loses the handle the reference was
made from, even while it uses it (napi_runtime.js:631 and 645): the model takes this
as giving the handle up (`DropHandle`).

### NapiMethods and NapiExceptions

`NapiMethods` has a row for each of the N-API methods: which arguments must not be
NULL, what else is refused, and what becomes of a JavaScript exception. Nobody but
the guest reads a result, so a method is its possible outcomes (`OutcomesOf`).

`NapiExceptions` adds `pending`, who raised `lastException`, and `lastStatus` to
`NapiAsync`, and conjoins to each of its actions what it does to them. `results` are
the statuses of the methods that returned but whose dispatch is still draining;
`pending.at` is the frame the exception belongs to. How guest functions return is split by
what the code does with the flag: a callback hands the exception to its caller, a
completion and a finalizer report it, the others leave it.

### WasiCalls and HostStart

`Symbols` is `g_wasi_symbols`: parameters, which have 64 bits, and the row of the
bridge that serves the function, if one does. `Rows`, `Outs`, `Pointers`, `Wide` are the
other tables, and `Forwarded` is what becomes of an argument on its way to the host.

In `HostStart` a guest is the sequence of its imports. `LoadGuest` is `kernel_load`:
the imports take slots of the bridge, each the first free one plus the number of bridged
imports before it (`SlotFor`, `Named`), a module's natives are registered
unless the bridge has the module's name already (`Registered`), the WASI rows are
written (`WithRows`), and each import is bound (`LinkOf`). The bridge cuts names to 63
bytes (`Stored`, with `Cuts` for the long ones), so a longer one is bound to nothing; of
module `wasi` the kernel has `thread-spawn` only. `WirePaging` and `WireBridge`
give the slots the host's functions by the names the kernel tells; `phase` says how
far the start is, and `CallImport` is a call of any import in any phase in which
guest code runs; `last` tells whether the last call was of an import or a page fault, and
who answered. `entry` chooses among the three start-up sequences. The host's stable sort
of the registrations is by place: an export comes after those with a smaller index and
after its equals before it in the file (`InOrder`). The kernel
may be given another guest, as its interface allows; the package makes a kernel for
each guest.

### Abstract specifications

`Threads` has no slots: threads are absent, ready, running, waiting on an
address, sleeping or done. A notify releases exactly as many waiters of its
address as it asked for, or all; a waiting thread is released early only if
nobody could run otherwise; done threads stay done. `FlatMemory` is an array:
reads return what was last written, a copy is a memmove, growth adds zeros.

## 3. What the runs check

| run | specification | states | shows |
|---|---|---|---|
| `scheduler` | `HSpec` of `SchedulerOrder` | 185 000 | type invariant; one runner; searches by exec_env find the caller; wait addresses match states; no parked wakeup; resume matches suspend; the end of the guest leaves nobody alive; no resurrection of a dead slot; no thread runs twice while another stays ready; `Scheduler` implements `Threads` |
| `scheduler_live` | `FairSpec` | 20 600 | every ready thread runs or dies, a stalled guest goes on, every timer fires |
| `kernel_calls` | `FairKSpec` | 344 000 | no RUNNING slot is left behind, asyncify is off when no call is in progress, the main exec_env stays findable, the cooperative loop ends |
| `paged_memory` | `KeptSpec` | 191 000 | the three maps agree, second chance works, `PagedMem` implements `FlatMemory`, nothing is written outside of the hot window |
| `napi_async` | `Spec` of `NapiAsync` | 2 098 000 | nothing waits while guest code runs or nothing does, each request for work completes once, a thread-safe function delivers in order, once, and before its end, finalizers do not nest, and one that was entered or cancelled is not entered again, collected objects are finalized without a further call, one pump runs while promises are unsettled |
| `napi_handles` | `Spec` of `NapiHandles` | 616 000 | the handles of functions in progress stay valid, a scope leaves behind only what is referenced, escaped or outside of scopes, a positive count keeps its object, a finalizer that was given up does not run |
| `napi_exceptions` | `ExcSpec` | 494 000 | an exception does not survive the callback, completion or finalizer that raised it; no nested call comes between a failure and the guest that asks for its status |
| `host_start` | `KeptSpec` of `HostStart` | 76 000 | a call of an import reaches the function of its own name, whatever guests the kernel had before; arguments of WASI calls arrive whole; each class is registered once, in order, before the module |
| `call_rewind` | `KSpec` | violated | a reclaimed slot inherits `asyncify_unwound` of a worker that main's return killed (scheduler.h:58) |
| `paged_staged` | `Spec` | violated | a cross-page access stages an evicted page (paged_mem.c:188) |
| `napi_args` | `Spec` of `NapiAsync` | violated | a finalizer's call overwrites the arguments of the call that drained it (napi_runtime.js:738) |
| `napi_uncaught` | `ExcSpec` | violated | a completion reports the exception of the function it interrupted as its own (napi_runtime.js:2432) |

The four violations are what the code does against what the repository says of
it; `PROJECT.json` has a finding for each.

### Bounds

* `scheduler`: three slots, so that a stall, a reclaim and two waiters beside the
  running thread coexist; three thread ids beyond main's, so that slots are
  reclaimed and the table also fills up; two addresses and notifies of one waiter, so
  that a notify could wake too many or the wrong threads (with more counts the abstract
  notify, which does not say its count, would allow more); one pending
  notify, so that the table overflows; clock 0 to 2 with delay and watchdog
  budget 1, so that each timer is pending, due, and races a notify, and the watchdog
  (`now > deadline`) fires. Addresses are symmetric. The code's 64
  slots and 64 notifies differ in size only: the theorems below hold for all sizes.
* `scheduler_live`: one address and two spawned threads keep the graph small
  enough for the temporal check; notifies ask for two waiters; the clock stops at 2, and a guard keeps every
  deadline within it.
* `kernel_calls`: two slots, nesting depth 2 (a call inside a call, a call inside
  a slice inside a call's loop), two loop iterations (`MaxIters`): one that goes
  round and a last one.
* `paged_memory`: three pages growing to four over a hot window of two slots, the
  smallest in which an access across two pages meets a page that must be evicted;
  cells are 0 or 1, so that lost, stale and misplaced cells show; writes go to two
  addresses, the last cell of the second page and the last one there is before memory
  grows, from which the host writes beyond the end; bulk operations of three cells cover
  two or three chunks. `MCView` drops `ret` and `done`,
  which no action reads, and the history of a bulk operation that is over.

* `napi_async`: the stack holds five frames: a guest function, its dispatch, what
  the dispatch drains, the dispatch of that, and what this one drains or a worker's
  slice; a finalizer inside the drain of a call, calling out itself, fits. A run of a
  guest function makes one call, and further ones come from the next callback or from
  the nested frames. One work asked for twice (queued
  twice, cancelled before or while it executes), one thread-safe function with two
  data and two holders, one finalizer by an object and one posted, one promise and
  one worker: the properties are about one work, one function or one
  finalizer each, and what two of them share, the stack and the drains, is there with
  one of each kind. Whether the function has a `call_js_cb` is chosen in `Init`.
  `MCView` drops `argsOf`, which only `ReadsOwnArgs` looks at.

* `napi_handles`: one object, beside the global one, a symbol and undefined; four handles,
  references, finalizers, escapes and thread-safe functions together (`MaxTotal`), two
  of them other than handles (`MaxMade`); three functions on the stack, so that a scope
  lies inside one that lies inside another. The properties are about one handle or one
  reference, and what several share is `nextHandle`, the stack and the collector.
* `napi_exceptions`: the stack and the counts of `napi_async` with one of each kind and no
  worker, which has no part in exceptions.
* `host_start`: 17 slots with the rows for WASI from slot 3 and the fault slot last,
  in place of 256, 200 and 255: a guest may fill the slots up to the rows and, later
  ones, go past them. Three guests in turn, of four: one that imports all WASI rows,
  and three that share names and modules in different orders. Both a guest that fails
  to load and one that fails to instantiate are among the steps.

### Exclusions of the passing host_start run

`KeptSpec` leaves out guests whose imports take a slot of the WASI rows (with 256
slots: more than 200 imports) or the slot of the page faults: the first are
overwritten (wasmkernel.c:784), the second is handed out although instantiate.js:22
says it never clashes. What happens before the bridge is wired is in the model but not
claimed: calls made by a start section are answered with 0.

### Exclusions of the passing paged run

`KeptSpec` of `PagedFlat` leaves out what is wrong, and nothing else: an access across
two pages whose second fault evicts its first page (`paged_staged`); a failing backend,
whose exception becomes slot 0 (instantiate.js:124; set `MayFail` to see it); an
unseeded page, since the seed looks at every 64th byte only (instantiate.js:88; the
initial memory of the run has a non-zero cell at a sampled offset in each non-zero
page); `memory.grow` that moves `memory_data` under a staged access (paged_mem.c:434
flushes through the old base); and host scalars of more than one byte that cross a page
(guest_memory.js:110). The host's accesses beyond the end of memory are in the run, as
far as guest memory goes: what they read is `Junk`, and the cells of the kernel that
they overwrite (guest_memory.js:95) are not modelled.

### Fairness

* `scheduler_live`: weak fairness of `KernelStep` (the host loops over
  kernel_step, `instantiate.js:270` and the promise pump), of `EndsSlice` (each
  slice has finite fuel, counted down by the interpreter) and of `Tick`. No
  fairness is assumed of notifies or of any particular thread.
* `kernel_calls`: the cooperative loop is a C loop and goes on whenever it can;
  slices end. Nothing is assumed of the function of a call or of the host.

`CHECK_DEADLOCK` is left on everywhere but in `host_start`: a start that failed when
no further guest comes is the end.

## 4. What is proved

The theorems hold for every value of the constants that the named assumption of the
module admits: every size of the tables, every set of addresses, objects and works,
every bound. The assumptions ask for naturals where numbers are meant and for
tables that are not empty; TLC evaluates them in the runs. Hypotheses beyond that are
given with the theorem.

Each safety theorem follows from an inductive invariant, since hardly any of the
properties is inductive by itself. The proofs have a step per action and, where
actions share an operator, a lemma for its effect. Before an invariant was proved, TLC
checked it on the instance of the run.

### Scheduler (`SchedulerProofs`, `SchedulerThreadsProofs`)

| theorem | property |
|---|---|
| `Invariance` | `IInv` is invariant |
| `TypeCorrect` | `TypeOK` |
| `OneThreadRuns` | `OneRunner` |
| `SearchesFindTheirOwner` | `SlotsOwned` |
| `WaitersAreRegistered` | `WaitRegistered` |
| `ResumeMatchesSuspend` | `ResumesAsSuspended` |
| `EndIsReported` | `EndMeansDead` |
| `WakeupsReachWaiters` | `NoParkedWakeup`, assuming no guest notifies with count 0 |
| `NoResurrection` | `DeadStaysDead` |
| `SchedulerIsThreads` | `ImplementsThreads` |
| `RoundRobin` | `NobodyTwice` of `SchedulerOrder` |

That a search by exec_env finds its caller needs that ids are handed out once
(`env[s] < nextTid`) and that unused slots are exactly those beyond `numThreads`; that a
resumed thread is rewound rightly needs that only slots that ran can be suspended; that
no wakeup is parked needs that blocked slots lie inside the used part of the table,
where `wake_waiters` looks. `IInv` is their conjunction. Lemmas give the effect of the
operators that several actions share (`At`, `KillAll`, `Consume`, a full or a reclaimed
slot of `RegisterThread`).

The assumption of `WakeupsReachWaiters` is needed: with 0 among `Counts` TLC finds a
notify of nobody recorded as pending beside a blocked waiter.

That the table implements `Threads` is shown through `View`: what `Threads` sees of a
thread is read off the one live slot that it owns (`SlotsOwned`), and a thread without
one is done or was never created, depending on `nextTid`. Lemmas say how the threads
change when slots change alike (`ChangesLife`, `ChangesOn`, `ChangesDue`), when slots
leave the living (`EndsThreads`) and when one is reclaimed (`SpawnCreates`). A notify
wakes as many threads as slots since no two slots share an owner (`OwnersCounted`). One
more invariant is needed, `TimersKept`: only blocked slots have a deadline, and every
sleeper has one.

The round robin passes a ready thread at most once per slot because of `PassedAhead`:
whoever passed it is farther ahead of `current` than it is. A pick takes the index past
its slot, which is then the farthest (`PickMovesOn`), and a growing table moves the slots
before the index away together (`GrowthKeepsOrder`).

### Entry points (`KernelCallsProofs`)

| theorem | property |
|---|---|
| `CallInvariance` | `KIInv` is invariant |
| `CallsKeepTypes` | `TypeOK` of `Scheduler`, under `KSpec` |
| `OnlyProgressRuns` | `RunnersInProgress` |
| `AsyncifyIsSwitchedOff` | `AsyncifyOffWhenIdle` |
| `CallersAreFound` | `CallerHasSlot` |

The invariant of the scheduler alone does not hold here: a call makes main's slot ready
and ends slices from outside. What remains (`Base`: types, owned slots, a runner
inside of the table) is shown for each of the scheduler's actions again, together with
what it does to RUNNING slots (`RunnersFrom`). The stack of calls needs `LoopsIndirect`,
that only `kernel_call_indirect` suspends a call, `SlicesUsed`, that a call was made from
a slot in use, and `AsyncifyKnown`: asyncify is on, or remembered by a call as
having been on, only above a `kernel_call_indirect` in progress. The outermost call
therefore restores "off".

### Paged memory (`PagedMemProofs`)

| theorem | property | hypotheses |
|---|---|---|
| `AccessInvariance` | `AccessInv` is invariant | |
| `PagesKeepTypes` | `TypeOK` | |
| `MapsInvariance` | `AccessInv /\ up = Serves /\ CacheOK` is invariant | `~MayFail` |
| `MapsStayTogether` | `MapsAgree` | `~MayFail` |
| `LoadedPageStays` | `LastLoadedStays` | `~MayFail` |
| `FaultedPagesStay` | `FaultedPagesFit` of `PagedMemProofs` | `~MayFail` |
| `WindowIsAll` | `ColdUntouched` | `HostWidths \subseteq {1}` |
| `PagedIsFlat` | `ImplementsFlatMemory` | these two and `SeedFindsAll` |

An access is a sequence of faults and writes. `Reaches` says what such a sequence keeps
(types, maps, the memory behind the window), and that a fault or a write keeps it is
shown once; each action then owes the bounds of its accesses, for the guest's opcodes
from `AccessInv`, for the host's because a page beyond the memory is `Nowhere`. For the
maps, `CacheOK` adds to `MapsAgree` that the slot behind the clock hand is marked: a
fault that takes a slot moves the hand past it, so the next victim is another one
(`LoadedPageStays`), and two absent pages faulted in one after the other take two slots
(`FaultTurns`, `FaultedPagesStay`). This is no promise to a page that was resident
before: `paged_staged` shows one evicted by the fault of its neighbour.
`AccessInvariance` is about the guest: nothing bounds the host's accesses, of which
`PagedIsFlat` says that they change no more of guest memory than they may. Addresses are
not small numbers here, and the arithmetic of pages and offsets (`AddressIs`,
`SamePage`, `NextPage`) is proved from integer division.

`PagedIsFlat` follows what guest and host see through the tables (`Seen`): a fault
changes nothing of it, and a write in a resident page changes its own cells. A bulk
operation that is half done (`HalfDone`) has moved a known part of the memory there
was when it began, so that its last chunk is the one step `FlatMemory` sees and the
others stutter; memory beyond the logical size is seen as zero (`Beyond`), which is
what growth uncovers.

The hypotheses leave out what the code gets wrong. When the backend throws,
the page table gets slot 0 whatever that holds (instantiate.js:124); a host scalar of several
bytes at the end of a slot reads the next slot (guest_memory.js:110); a page whose
only non-zero bytes the seed steps over is never stored (instantiate.js:88). `MayFail`,
`HostWidths` and `SeedFindsAll` are values and facts of the run `paged_memory` too; the
steps left out by `KeptSpec` are described below the bounds.

### N-API (`NapiAsyncProofs`, `NapiHandlesProofs`, `NapiExceptionsProofs`)

| theorem | property |
|---|---|
| `AsyncInvariance` | `IInv` of `NapiAsyncProofs` is invariant |
| `AsyncKeepsTypes` | `TypeOK` |
| `NothingIsLeft` | `NothingWaits` |
| `CompletesAsAsked` | `WorkIsConserved` |
| `DeliversInOrder` | `TsfnDelivers` |
| `FinalizersTakeTurns` | `FinalizersInTurn` |
| `FinalizesOnce` | `FinalizedOnce` |
| `CollectedIsServed` | `CollectedAreDrained` |
| `PumpIsOne` | `OnePump` |
| `HandleInvariance` | `IInv` of `NapiHandlesProofs` is invariant |
| `HandlesKeepTypes` | `TypeOK` |
| `HeldHandlesStay` | `HeldStay` |
| `OnlyWantedOutlive` | `OutliveOnly` |
| `CountingKeeps` | `StrongKeeps` |
| `GivenUpIsKept` | `GivenUpNeverFinalized` |
| `ExceptionsAddOnly` | `ExcSpec` implements `Spec` of `NapiAsync` |
| `ExceptionLeaves` | `GoneWithItsFunction` |
| `StatusInvariance` | `EInv` is invariant |
| `FailureReachesCaller` | `FailureIsTold` |

*What runs later.* `OneWaits` is the heart: at most one work, completion, datum or end of
a thread-safe function waits, only while the dispatch that left it is the innermost
frame and drains, and the loop over the thread-safe functions has not passed it.
Every method is shown to leave at most one thing behind, and `Return` of an executed work too. From
`OneWaits` and the shape of the stack (`Stacked`: a JavaScript function of a thread-safe
function is entered from a dispatch, never from the pump) follows that an exception of
such a function ends no pump, which `OnePump` needs. Finalizers rest on `OneDrain` (one
frame drains them exactly while `_drainingFinalizers` is set), `PostedOnce` (nothing is
posted twice, nor after it ran) and `DrainComes`. Frames are counted as sets of indices,
and for each move of the stack a lemma says what becomes of the counts.

*Handles.* `ScopesAbove` is what `_popScope` relies on without saying so: a scope
begins above every handle that the functions below it were given, so taking back what
is newer takes nothing of theirs. `TsfnApart` (the handle of a thread-safe function
is in no other hands), `EscapedOnce`, `KnownAlive` (what anybody can look up was not
collected) and `RefsKeep` complete it.

*Exceptions.* Each step of `ExcSpec` is one of `NapiAsync`, so `IInv` holds. An exception
goes with its function since a frame that takes it leaves the stack only by returning
(`TakingStay`), and since the frame below a dispatch, to which a failing method hands its
exception, exists. For `FailureIsTold`, `EInv` says that a failed method's dispatch drains
for nothing: all queues are empty then (`OneWaits`), a failing method leaves them so,
and of all actions only the loops that find this out can go on. That a status of
`napi_pending_exception` has an exception to it is read off the table of methods
(`TableNeverPretends`).

### Start and bridge (`HostStartProofs`)

| theorem | property | specification |
|---|---|---|
| `ClassesInOrder` | `RegisteredInOrder` | `Spec` |
| `BridgeInvariance` | `BridgeInv` is invariant | `KeptSpec` |
| `CallsReachTheirOwn` | `AnsweredByOwn` | `KeptSpec` |
| `ArgumentsArrive` | `ArgumentsWhole` | `KeptSpec` |

`KeptSpec` is the specification of the run (its exclusions are below the bounds). The
assumption on the slots is that the rows for WASI end before the slot of the faults and
this one lies in the table: 200 to 208, 255 and 256 in the code.

Both the numbering of the imports and the sort of the host count what comes before an
element. For any order on a finite set such counts are distinct and leave no gap
(`RanksFill`: the count is an injection into as many numbers as there are elements, hence
onto). So the imports take the slots from `count` on, one each (`TakenFill`), and the
sort gives a permutation in ascending order (`Sorting`), which the registrations then
go through from its head (`Starting`). The model avoids `SelectSeq` and `SortSeq`
since tlapm knows nothing of their values.

`BridgeInv` goes through the tables in the order in which a call does. An import is bound
to the kernel, to the row of its name, or to a slot with its module and name
(`LinksKept`); it can miss its slot only if an earlier guest had the module, for the
bridge holds all imports of a first guest (`AllFit`: with more of them one would take a
slot of a row). What a module has registered are slots with its name, which neither later
guests nor the rows write over (`NativesKept`), and this is where clashes with the
reserved slots have to be excluded. Once wired, a slot has the handler for its name, and
that of the faults has the page cache's, as `count` stays below it (`HostWired`). That
the rows go over the same slots with each guest is `RowsThere`.

`ArgumentsWhole` is then a fact about the tables (`TablesAgree`): for each of the nine
functions that reach the host, the arguments, widths and pointers of the two languages
agree, whichever layers the caller supplies.

## 5. Only model-checked, and not modelled

Every safety property of a passing run is proved. Only TLC checks liveness and everything
under fairness (`scheduler_live`, the end of the cooperative loop), which is outside of
TLAPS's reach. The four violated properties are refuted by TLC and not
otherwise treated.

Not modelled:

* the interpreter itself, and the contents of guest memory as far as the
  scheduler is concerned (what a thread does after a wakeup is up to it);
* `block_on_io` and its READ completion: no code calls it;
* the identity mode of paging, in which no access ever faults, the diagnostic scan
  of the cold region, and growth beyond 32768 pages, which the code does not handle;
* a second `kernel_load` as the scheduler sees it (`HostStart` has its bridge);
* calls into the guest made by `_start`;
* what WASI functions do to guest memory and return, iovecs, the platform layer;
* of the N-API runtime: values and their conversions, where in guest memory results
  go, array buffers mirrored in guest memory and their pool, async_hooks contexts,
  exceptions of constructors, and the send queue of `_emnapi_async_send_js`, which
  nothing in the package drains;
* of the start: what `kernel_load` does to memory sizes, a `beforeInit` that replaces
  the registrations, the loader's result object;
* liveness of promises: that a promise a worker settles ends needs the pump, the
  scheduler and the event loop in one model; `OnePump` and `CollectedAreDrained`
  are its safety half.

### Known divergences without a run

What the code does otherwise than the repository says, met while modelling. The
models take the code's side, and no run is spent on these.

* Waiters are woken in slot order, not in the order of arrival (SPEC.md:499,
  scheduler.c:171).
* A sleep in an indirect call ends after one step of the workers (wasmkernel.c:614, 1146).
* Besides the two exclusions above: a failing backend and the stride of the seed.
* Accesses of the host beyond the end of guest memory go to address 0 of the kernel
  (guest_memory.js:95, 197, 221).
* `kernel_call` returns 0 for a function that was suspended (wasmkernel.c:978).
* "Every wasi function" is forwarded (instantiate.js, above `wasiPassthrough`), but only
  the nine rows of the bridge reach the host; eleven others are the kernel's own, and
  the rest, `fd_tell` and `path_unlink_file` among them, are bound to nothing: the "catch-all
  bridge entries" of wasmkernel.c:241 do not exist. `clock_time_get` of
  `wasi_bridge.js`, which writes through argument 3 where the convention has 2, is thus
  never reached.
* A second guest that imports a new name of a module an earlier guest had is not
  bound, although registrations are said to accumulate (wasmkernel.c:714).
* `entry-node.cjs` answers unknown imports with 0, does not sort the registrations,
  has one default for WASI and forwards nothing.
* Pointers that the passthrough translates ignore the page table (wasi_passthrough.js:219).
* A constructor never looks at the pending exception; `execute`, `call_js` and the end of a
  thread-safe function leave theirs to whoever is next.
* `dispatch` takes the first argument of any call as the guest's env, that of
  the thread-safe calls too (napi_runtime.js:2867), and reads `process.env`
  (napi_runtime.js:2862), which fails in hosts without `process`.

## 6. Plan

In order of importance; the first seven are done.

1. `Scheduler` with `Threads`, checked and its invariants proved.
2. `KernelCalls` on top of it.
3. `PagedMem` with `FlatMemory`.
4. `NapiAsync`: async work, thread-safe functions, finalizers, pump.
5. `NapiHandles` and `NapiExceptions`.
6. `WasiCalls` and `HostStart`.
7. Proofs: the safety invariants of all of these, that `PagedMem` implements
   `FlatMemory`, that `Scheduler` implements `Threads`, and its round robin.
8. `NapiAsync` over `KernelCalls`: guest calls that return suspended, and liveness
   of a promise that a worker settles.
9. A guest mutex over wait and notify, composed with `Scheduler`, to show that the
   spurious wakeups of a stall are harmless to code that re-checks its condition.
