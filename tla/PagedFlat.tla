------------------------------- MODULE PagedFlat -------------------------------
(***************************************************************************)
(* PagedMem implements FlatMemory.  History variables name the operation   *)
(* that completes (done) and, while a bulk operation is in progress, the   *)
(* one asked for and the memory it started from: flat memory performs it   *)
(* in one step, when its last chunk is done.                               *)
(***************************************************************************)
EXTENDS PagedMem

VARIABLES
  done,      \* the operation completed last
  asked,     \* the bulk operation in progress
  before     \* guest memory when it began

hvars == <<vars, done, asked, before>>

Reads(a, n)     == [op |-> "read", at |-> a, len |-> n]
Writes(a, c)    == [op |-> "write", at |-> a, cells |-> c]
Copies(d, s, n) == [op |-> "copy", at |-> d, from |-> s, len |-> n]
GrowsBy(n)      == [op |-> "grow", by |-> n]

\* Guest memory, and zeros beyond it.
Image == [a \in Physical |-> IF a < Size THEN View(a) ELSE Zero]

Completes(op) == done' = op /\ UNCHANGED <<asked, before>>
Asks(op)      == asked' = op /\ before' = Image /\ UNCHANGED done

HInit == Init /\ done = [op |-> "none"] /\ asked = done /\ before = Image

\* The accesses that keep the page they translated first: a guest access
\* across two pages may evict it when it faults in the second one.
KeepsFirst(a, n) ==
  ~Spans(a, n)
    \/ LET r == BothResident(Resident(Flushed, PageOf(a)), a, n)
       IN  r.cache.table[PageOf(a)] # Invalid

HGuest ==
  \/ \E a \in Addresses, n \in GuestWidths :
       Load(a, n) /\ KeepsFirst(a, n) /\ Completes(Reads(a, n))
  \/ \E n \in GuestWidths : \E a \in Targets, v \in Cells(n) :
       Store(a, v) /\ KeepsFirst(a, n) /\ Completes(Writes(a, v))
HBulk ==
  \/ \E a \in Targets, d \in Blocks : BulkWrite(a, d) /\ Asks(Writes(a, d))
  \/ \E a \in Addresses, n \in Lengths : ReadBytes(a, n) /\ Asks(Reads(a, n))
  \/ \E a \in Targets, d \in Blocks : WriteBytes(a, d) /\ Asks(Writes(a, d))
  \/ \E d \in Targets, s \in Addresses, n \in Lengths :
       BulkCopy(d, s, n) /\ Asks(Copies(d, s, n))
HStep ==
  /\ Step
  /\ IF bulk' = Idle THEN Completes(asked) ELSE UNCHANGED <<done, asked, before>>
HHost ==
  \/ \E a \in Addresses, n \in HostWidths :
       HostLoad(a, n) /\ Completes(Reads(a, n))
  \/ \E n \in HostWidths : \E a \in Targets, v \in Cells(n) :
       HostStore(a, v) /\ Completes(Writes(a, v))
\* memory.grow, but not one that moves memory under a staged access.
HGrows ==
  \E n \in 1 .. GrowLimit, moves \in BOOLEAN :
    /\ moves => scratch = Nothing
    /\ Grow(n, moves)
    /\ Completes(GrowsBy(n))

KeptNext == HGuest \/ HBulk \/ HStep \/ HHost \/ HGrows
KeptSpec == HInit /\ [][KeptNext]_hvars

-----------------------------------------------------------------------------
Memory == INSTANCE FlatMemory WITH
            contents <- IF bulk = Idle THEN Image ELSE before,
            size     <- pages

\* Guest and host see one linear memory, however pages are faulted in and
\* evicted between and during their accesses.
ImplementsFlatMemory == Memory!Flat
=============================================================================
