------------------------------- MODULE PagedMem -------------------------------
(***************************************************************************)
(* Paged guest memory: the page table of the kernel                        *)
(* (src/kernel/paged_mem.c), the slot cache of the host that serves its    *)
(* faults (page_cache.js), the backend behind it, and the accesses of the  *)
(* guest, of the bulk opcodes and of the host (guest_memory.js).           *)
(*                                                                         *)
(* A page is PageSize cells and a guest address counts cells.  The program *)
(* is single-threaded here: a fault is served while the access that met it *)
(* is paused, so a scalar access is one action.  A bulk operation goes     *)
(* page by page, a step for each chunk.  Paging is on: without a hot       *)
(* window the table is the identity and nothing ever faults.               *)
(***************************************************************************)
EXTENDS Integers, Sequences, FiniteSets

CONSTANTS
  PageSize,        \* 65536, in cells
  InitialPages,    \* logical pages after wasm_runtime_instantiate
  HotWindow,       \* kernel_set_hot_window_pages, the slots there are
  MaxPages,        \* PAGED_MEM_MAX_LOGICAL_PAGES, the length of the table
  GrowLimit,       \* bound: the pages memory.grow may reach
  Values,          \* the values of a cell
  Zero,            \* the value of fresh memory
  Junk,            \* what a read outside guest memory yields
  Memories,        \* the contents WAMR may leave in memory_data
  Sampled,         \* the offsets of a page the sparse seed looks at
  GuestWidths,     \* the widths of guest scalars
  HostWidths,      \* the widths of the scalars of GuestMemory
  Targets,         \* bound: the addresses that are written to
  Blocks,          \* the data of bulk writes
  Lengths,         \* the lengths of bulk reads and copies
  MayFail          \* whether the backend may throw

Pages     == 0 .. MaxPages - 1
Offsets   == 0 .. PageSize - 1
Physical  == 0 .. GrowLimit * PageSize - 1
Slots     == 0 .. HotWindow - 1
Invalid   == -1
None      == -1
Contents  == Values \cup {Junk}
Serves    == {"readPage", "writePage"}

ASSUME PagedMemAssumption ==
  /\ PageSize \in Nat \ {0}
  /\ InitialPages \in Nat \ {0}
  /\ HotWindow \in 1 .. InitialPages - 1
  /\ GrowLimit \in InitialPages .. MaxPages
  /\ MaxPages \in Nat
  /\ Zero \in Values /\ Junk \notin Values
  /\ Memories \subseteq [0 .. InitialPages * PageSize - 1 -> Values]
  /\ Sampled \subseteq Offsets
  /\ GuestWidths \subseteq 1 .. PageSize
  /\ HostWidths \subseteq 1 .. PageSize
  /\ Targets \subseteq Nat
  /\ Blocks \subseteq Seq(Values) \ {<<>>}
  /\ Lengths \subseteq Nat \ {0}
  /\ MayFail \in BOOLEAN

VARIABLES
  phys,      \* memory_data: slot s of the hot window starts at s * PageSize
  cache,     \* the page tables, see CacheType
  backend,   \* the pages stored by the MemoryBackend
  up,        \* what the backend serves, see Serves
  pages,     \* g_logical_pages
  scratch,   \* the cross-page access staged in g_cross_scratch
  bulk,      \* the bulk operation in progress
  ret        \* the cells the last read returned

vars == <<phys, cache, backend, up, pages, scratch, bulk, ret>>

\* The state a fault may change.
mem  == [phys |-> phys, cache |-> cache, backend |-> backend]

CacheType ==
  [table  : [Pages -> Slots \cup {Invalid}],    \* g_page_table
   mapped : [Slots -> Pages \cup {None}],               \* g_slot_to_page
   owner  : [Slots -> Pages \cup {None}],               \* slotToPage
   refbit : [Slots -> BOOLEAN],
   hand   : Slots]

Nothing == [at |-> 0, cells |-> <<>>]
Idle    == [kind |-> "idle", at |-> 0, from |-> 0, left |-> 0, cells |-> <<>>]

PageOf(a) == a \div PageSize
Off(a)    == a % PageSize
Size      == pages * PageSize
Spans(a, n) == Off(a) + n > PageSize

-----------------------------------------------------------------------------
(* PageCache, on the host.                                                 *)

\* The slot s comes i-th when the clock hand of cache c sweeps.
Sweep(c, s) == IF s >= c.hand THEN s - c.hand ELSE s + HotWindow - c.hand
FirstOf(c, S) == CHOOSE s \in S : \A r \in S : Sweep(c, s) <= Sweep(c, r)

\* _allocateSlot: a free slot if there is one, else the first one whose
\* refbit is clear (or was cleared by a whole turn of the hand).
Free(c)      == {s \in Slots : c.owner[s] = None}
Victims(c, p) == {s \in Slots : c.owner[s] # p}
Cold(c, p)   == {s \in Victims(c, p) : ~c.refbit[s]}
AllocatedSlot(c, p) ==
  IF Free(c) # {} THEN FirstOf(c, Free(c))
  ELSE IF Cold(c, p) # {} THEN FirstOf(c, Cold(c, p))
  ELSE IF Victims(c, p) # {} THEN FirstOf(c, Victims(c, p))
  ELSE c.hand

\* The slots that lose their refbit on the way.
Passed(c, p) ==
  IF Free(c) # {} THEN {}
  ELSE IF Cold(c, p) # {}
       THEN {s \in Victims(c, p) : Sweep(c, s) < Sweep(c, AllocatedSlot(c, p))}
       ELSE Victims(c, p)

\* Two bugs: the hand does not wrap around; it stays on the slot it gave.
AllocateUnwrapped(c, p) ==
  [c EXCEPT !.hand   = AllocatedSlot(c, p) + 1,
            !.refbit = [s \in Slots |-> @[s] /\ s \notin Passed(c, p)]]
AllocateStays(c, p) ==
  [c EXCEPT !.hand   = AllocatedSlot(c, p),
            !.refbit = [s \in Slots |-> @[s] /\ s \notin Passed(c, p)]]
Allocate(c, p) ==
  [c EXCEPT !.hand   = (AllocatedSlot(c, p) + 1) % HotWindow,
            !.refbit = [s \in Slots |-> @[s] /\ s \notin Passed(c, p)]]

\* onPageFault: the victim is flushed, whether it was written to or not, and
\* the faulting page is loaded over the zeros that it leaves.
PageIn(ph, s) == [o \in Offsets |-> ph[s * PageSize + o]]
OnPageFaultDrops(m, p) ==  \* a bug: the victim is not flushed
  LET s == AllocatedSlot(m.cache, p)
  IN  [m EXCEPT !.phys  = [i \in Physical |-> IF PageOf(i) = s
                                              THEN m.backend[p][Off(i)] ELSE @[i]],
                !.cache = [Allocate(@, p) EXCEPT !.owner[s] = p, !.refbit[s] = TRUE]]
OnPageFault(m, p) ==
  LET s == AllocatedSlot(m.cache, p)
      v == m.cache.owner[s]
      b == IF v # None THEN [m.backend EXCEPT ![v] = PageIn(m.phys, s)]
                       ELSE m.backend
  IN  [phys    |-> [i \in Physical |-> IF PageOf(i) = s THEN b[p][Off(i)]
                                                        ELSE m.phys[i]],
       cache   |-> [Allocate(m.cache, p) EXCEPT !.owner[s] = p,
                                                !.refbit[s] = TRUE],
       backend |-> b]

\* The same when readPage throws, and what a fault needs of the backend.
OnPageFaultUnread(m, p) ==
  LET s == AllocatedSlot(m.cache, p)
  IN  [OnPageFault(m, p) EXCEPT
         !.phys  = [i \in Physical |->
                      IF PageOf(i) = s /\ s \notin Free(m.cache) THEN Zero ELSE m.phys[i]],
         !.cache = Allocate(m.cache, p)]
Needed(m, p) ==
  IF AllocatedSlot(m.cache, p) \in Free(m.cache) THEN {"readPage"} ELSE Serves

-----------------------------------------------------------------------------
(* The page table, in the kernel.                                          *)

\* A bug: the page that had the slot stays in the table.
ReconcileKeepsVictim(c, p, s) == [c EXCEPT !.table[p] = s, !.mapped[s] = p]

\* paged_mem_fault: the slot the host returned is taken over.  A handler
\* that throws returns 0 through host_func_call, after its slot was chosen,
\* and in readPage after the victim was flushed.
Reconcile(c, p, s) ==
  [c EXCEPT !.table  = [q \in Pages |-> IF q = p THEN s
                                        ELSE IF q = c.mapped[s] THEN Invalid
                                        ELSE @[q]],
            !.mapped[s] = p]

Handled(m, p) ==
  CASE Needed(m, p) \subseteq up         -> OnPageFault(m, p)
    [] Needed(m, p) \ up = {"readPage"} -> OnPageFaultUnread(m, p)
    [] OTHER                            -> [m EXCEPT !.cache = Allocate(@, p)]
Fault(m, p) ==
  LET slot == IF Needed(m, p) \subseteq up THEN AllocatedSlot(m.cache, p) ELSE 0
  IN  [Handled(m, p) EXCEPT !.cache = Reconcile(@, p, slot)]

Resident(m, p) == IF m.cache.table[p] = Invalid THEN Fault(m, p) ELSE m

\* g_hot_base + slot * 64K + po.  Slot 0xFFFF is outside of memory_data.
Untranslated(m, a) == a  \* a bug: the logical address is used
Native(m, a) == m.cache.table[PageOf(a)] * PageSize + Off(a)
Fetch(m, i)  == IF i \in Physical THEN m.phys[i] ELSE Junk
Poke(m, i, cells) ==
  [m EXCEPT !.phys = [j \in Physical |-> IF j \in i .. i + Len(cells) - 1
                                         THEN cells[j - i + 1] ELSE @[j]]]
Peek(m, i, n) == [j \in 1 .. n |-> Fetch(m, i + j - 1)]

\* Cells written within one page, which is made resident first.
Put(m, a, cells) ==
  LET r == Resident(m, PageOf(a)) IN Poke(r, Native(r, a), cells)

\* paged_mem_flush_cross_scratch: page by page, each made resident again.
Flushed ==
  IF scratch = Nothing THEN mem
  ELSE LET a == scratch.at
           n == PageSize - Off(a)
       IN  Put(Put(mem, a, SubSeq(scratch.cells, 1, n)),
               a + n, SubSeq(scratch.cells, n + 1, Len(scratch.cells)))

\* paged_mem_cross_page: both pages are made resident, one after the other,
\* and what the table then says of each cell is staged.
BothResident(m, a, n) == Resident(Resident(m, PageOf(a)), PageOf(a + n - 1))
Staged(m, a, n) == [j \in 1 .. n |-> Fetch(m, Native(m, a + j - 1))]

Become(m) ==
  /\ phys'    = m.phys
  /\ cache'   = m.cache
  /\ backend' = m.backend

-----------------------------------------------------------------------------
(* A scalar access of the guest (CHECK_MEMORY_OVERFLOW and the load or     *)
(* store that follows).                                                    *)

InBounds(a, n) == a + n <= Size

Load(a, n) ==
  /\ bulk = Idle
  /\ InBounds(a, n)
  /\ LET m == Resident(Flushed, PageOf(a))
     IN  \/ /\ ~Spans(a, n)
            /\ Become(m)
            /\ ret'     = Peek(m, Native(m, a), n)
            /\ scratch' = Nothing
         \/ /\ Spans(a, n)
            /\ LET r == BothResident(m, a, n)
               IN  /\ Become(r)
                   /\ ret'     = Staged(r, a, n)
                   /\ scratch' = [at |-> a, cells |-> Staged(r, a, n)]
  /\ UNCHANGED <<up, pages, bulk>>

Store(a, cells) ==
  /\ bulk = Idle
  /\ InBounds(a, Len(cells))
  /\ LET n == Len(cells)
         m == Resident(Flushed, PageOf(a))
     IN  \/ /\ ~Spans(a, n)
            /\ Become(Poke(m, Native(m, a), cells))
            /\ scratch' = Nothing
         \/ /\ Spans(a, n)
            /\ Become(BothResident(m, a, n))
            /\ scratch' = [at |-> a, cells |-> cells]
  /\ UNCHANGED <<up, pages, bulk, ret>>

-----------------------------------------------------------------------------
(* Bulk operations.                                                        *)

Begin(op) ==
  /\ bulk = Idle
  /\ Become(Flushed)
  /\ scratch' = Nothing
  /\ bulk'    = op
  /\ UNCHANGED <<up, pages, ret>>

\* memory.init and memory.fill of the guest
BulkWrite(a, cells) ==
  /\ InBounds(a, Len(cells))
  /\ Begin([Idle EXCEPT !.kind = "write", !.at = a, !.left = Len(cells),
                        !.cells = cells])

\* readBytes and writeBytes of the host, which knows no bounds
ReadBytes(a, n) ==
  Begin([Idle EXCEPT !.kind = "host_read", !.at = a, !.left = n])
WriteBytes(a, cells) ==
  Begin([Idle EXCEPT !.kind = "host_write", !.at = a, !.left = Len(cells),
                     !.cells = cells])

\* memory.copy: backwards when the destination overlaps the source from
\* above.
Overlaps(d, s, n) == d > s /\ d < s + n
BulkCopy(d, s, n) ==
  /\ InBounds(d, n) /\ InBounds(s, n)
  /\ Begin([Idle EXCEPT !.kind = IF Overlaps(d, s, n) THEN "copy_down" ELSE "copy_up",
                        !.at = d, !.from = s, !.left = n])

Least(S) == CHOOSE n \in S : \A k \in S : n <= k
Chunk(a, n)     == Least({n, PageSize - Off(a)})
LastChunk(a, n) == Least({n, Off(a + n - 1) + 1})

\* A page beyond the memory: the host, finding undefined in the page table,
\* ends at address 0 of the kernel.
Nowhere == -PageSize
Reached(m, a) == IF PageOf(a) < pages THEN Resident(m, PageOf(a)) ELSE m
Reach(m, a)   == IF PageOf(a) < pages THEN Native(m, a) ELSE Nowhere

WriteChunk ==
  /\ bulk.kind \in {"write", "host_write"}
  /\ LET n == Chunk(bulk.at, bulk.left)
         r == Reached(mem, bulk.at)
     IN  /\ Become(Poke(r, Reach(r, bulk.at), SubSeq(bulk.cells, 1, n)))
         /\ bulk' = IF n = bulk.left THEN Idle
                    ELSE [bulk EXCEPT !.at = @ + n, !.left = @ - n,
                                      !.cells = SubSeq(@, n + 1, Len(@))]
  /\ UNCHANGED <<up, pages, scratch, ret>>

ReadChunk ==
  /\ bulk.kind = "host_read"
  /\ LET n == Chunk(bulk.at, bulk.left)
         r == Reached(mem, bulk.at)
         out == bulk.cells \o Peek(r, Reach(r, bulk.at), n)
     IN  /\ Become(r)
         /\ IF n = bulk.left
            THEN ret' = out /\ bulk' = Idle
            ELSE /\ bulk' = [bulk EXCEPT !.at = @ + n, !.left = @ - n,
                                         !.cells = out]
                 /\ UNCHANGED ret
  /\ UNCHANGED <<up, pages, scratch>>

\* The guest's chunk lies in one page of the source and one of the destination; it is
\* staged in g_bulk_scratch before the destination page may be faulted in.
Moved(m, d, s, n) ==
  LET r == Resident(m, PageOf(s)) IN Put(r, d, Peek(r, Native(r, s), n))

CopyUpChunk ==
  /\ bulk.kind = "copy_up"
  /\ LET n == Least({Chunk(bulk.at, bulk.left), Chunk(bulk.from, bulk.left)})
     IN  /\ Become(Moved(mem, bulk.at, bulk.from, n))
         /\ bulk' = IF n = bulk.left THEN Idle
                    ELSE [bulk EXCEPT !.at = @ + n, !.from = @ + n, !.left = @ - n]
  /\ UNCHANGED <<up, pages, scratch, ret>>

CopyDownChunk ==
  /\ bulk.kind = "copy_down"
  /\ LET n == Least({LastChunk(bulk.at, bulk.left), LastChunk(bulk.from, bulk.left)})
         k == bulk.left - n
     IN  /\ Become(Moved(mem, bulk.at + k, bulk.from + k, n))
         /\ bulk' = IF k = 0 THEN Idle ELSE [bulk EXCEPT !.left = k]
  /\ UNCHANGED <<up, pages, scratch, ret>>

-----------------------------------------------------------------------------
(* A scalar access of the host: GuestMemory translates the first byte,     *)
(* wherever it is, and goes on from its physical address.                  *)

HostLoad(a, n) ==
  /\ bulk = Idle
  /\ LET m == Reached(Flushed, a)
     IN  /\ Become(m)
         /\ ret' = Peek(m, Reach(m, a), n)
  /\ scratch' = Nothing
  /\ UNCHANGED <<up, pages, bulk>>

HostStore(a, cells) ==
  /\ bulk = Idle
  /\ LET m == Reached(Flushed, a)
     IN  Become(Poke(m, Reach(m, a), cells))
  /\ scratch' = Nothing
  /\ UNCHANGED <<up, pages, bulk, ret>>

-----------------------------------------------------------------------------
(* memory.grow.  WAMR reallocates memory_data, which may move it, and then *)
(* calls paged_mem_on_grow: the flush still writes through the old base,   *)
(* so nothing of it reaches a buffer that has moved.                       *)

Grow(n, moves) ==
  /\ bulk = Idle
  /\ pages + n <= GrowLimit
  /\ LET m == Flushed
     IN  /\ phys'    = IF moves THEN phys ELSE m.phys
         /\ backend' = m.backend
         /\ cache'   = m.cache
  /\ scratch' = Nothing
  /\ pages'   = pages + n
  /\ UNCHANGED <<up, bulk, ret>>

BackendFails ==
  /\ MayFail
  /\ up' \in SUBSET Serves
  /\ UNCHANGED <<phys, cache, backend, pages, scratch, bulk, ret>>

-----------------------------------------------------------------------------
(* paged_mem_on_instantiate, then the sparse seed of the backend.          *)

Seeded(f, p) == /\ p < InitialPages
                /\ \E o \in Sampled : f[p * PageSize + o] # Zero

InitWith(f) ==
  /\ phys    = [i \in Physical |-> IF i \in DOMAIN f THEN f[i] ELSE Zero]
  /\ backend = [p \in Pages |-> [o \in Offsets |->
                  IF Seeded(f, p) THEN f[p * PageSize + o] ELSE Zero]]
  /\ cache   = [table  |-> [p \in Pages |-> Invalid],
                mapped |-> [s \in Slots |-> None],
                owner  |-> [s \in Slots |-> None],
                refbit |-> [s \in Slots |-> FALSE],
                hand   |-> 0]
  /\ up      = Serves
  /\ pages   = InitialPages
  /\ scratch = Nothing
  /\ bulk    = Idle
  /\ ret     = <<>>

Init == \E f \in Memories : InitWith(f)

\* Until memory has grown to its limit some are beyond its end.
Addresses == 0 .. GrowLimit * PageSize - 1
Cells(n)  == [1 .. n -> Values]

Guest == \/ \E a \in Addresses, n \in GuestWidths : Load(a, n)
         \/ \E n \in GuestWidths : \E a \in Targets, v \in Cells(n) : Store(a, v)
Bulk  == \/ \E a \in Targets, d \in Blocks : BulkWrite(a, d)
         \/ \E a \in Addresses, n \in Lengths : ReadBytes(a, n)
         \/ \E a \in Targets, d \in Blocks : WriteBytes(a, d)
         \/ \E d \in Targets, s \in Addresses, n \in Lengths : BulkCopy(d, s, n)
Step  == WriteChunk \/ ReadChunk \/ CopyUpChunk \/ CopyDownChunk
Host  == \/ \E a \in Addresses, n \in HostWidths : HostLoad(a, n)
         \/ \E n \in HostWidths : \E a \in Targets, v \in Cells(n) : HostStore(a, v)
Grows == \E n \in 1 .. GrowLimit, moves \in BOOLEAN : Grow(n, moves)

Next == Guest \/ Bulk \/ Step \/ Host \/ Grows \/ BackendFails

Spec == Init /\ [][Next]_vars

-----------------------------------------------------------------------------
(* Properties.                                                             *)

\* What the guest has at address a: its staged access, else the resident
\* page, else the stored one.
View(a) ==
  IF scratch # Nothing /\ a - scratch.at + 1 \in DOMAIN scratch.cells
  THEN scratch.cells[a - scratch.at + 1]
  ELSE IF cache.table[PageOf(a)] # Invalid THEN Fetch(mem, Native(mem, a))
  ELSE backend[PageOf(a)][Off(a)]

\* The table points into the hot window, and the staged access is one that
\* crosses a page.
TypeOK ==
  /\ phys \in [Physical -> Contents]
  /\ cache \in CacheType
  /\ backend \in [Pages -> [Offsets -> Contents]]
  /\ pages \in InitialPages .. GrowLimit
  /\ scratch # Nothing => Spans(scratch.at, Len(scratch.cells))
  /\ bulk # Idle => bulk.left > 0 /\ scratch = Nothing

\* The three maps of the paging layer say the same: the kernel's page table,
\* its slot_to_page and the host's slotToPage, which nothing but the slot
\* number that onPageFault returns keeps together (guest_memory.js:57,
\* page_cache.js:14).
MapsAgree ==
  /\ cache.owner = cache.mapped
  /\ \A p \in Pages, s \in Slots : cache.table[p] = s <=> cache.owner[s] = p

\* Second chance: the page loaded last, which is in the slot behind the
\* hand, is not the victim of the fault that comes next (page_cache.js:102).
LastLoadedStays ==
  HotWindow > 1 =>
    LET last == (cache.hand + HotWindow - 1) % HotWindow
    IN  \A p \in Pages : cache.table[p] = Invalid =>
          AllocatedSlot(cache, p) # last \/ cache.owner[last] = None

\* The hot window is all the memory the host commits: nothing is written
\* behind it (paged_mem.c:81-86).
ColdUntouched ==
  [][\A i \in Physical : i >= HotWindow * PageSize => phys'[i] = phys[i]]_vars

\* The staged cells are those of the two pages, never bytes from outside of
\* guest memory (paged_mem.c:188).
StagedFromPages == \A i \in DOMAIN scratch.cells : scratch.cells[i] # Junk
=============================================================================
