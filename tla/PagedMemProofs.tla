---------------------------- MODULE PagedMemProofs ----------------------------
(***************************************************************************)
(* Proofs about PagedMem, for any size of the page, of the window and of   *)
(* the memory, and about PagedFlat: what implements linear memory.         *)
(*                                                                         *)
(* Every step is seen as faults and writes that lead from the old memory   *)
(* to the new one (Reaches), so what a fault or a write within a resident  *)
(* page preserves is shown once, and each step needs only the bounds of    *)
(* its accesses: those are the invariant AccessInv.                        *)
(*                                                                         *)
(* For the refinement the proof follows what guest and host see through    *)
(* the tables (Seen): a fault changes none of it, a write within a         *)
(* resident page changes its own cells, and a bulk operation has moved a   *)
(* known part of the old memory.                                           *)
(***************************************************************************)
EXTENDS PagedFlat, FiniteSetTheorems, SequenceTheorems, WellFoundedInduction, TLAPS

USE PagedMemAssumption DEF PagedMemAssumption

-----------------------------------------------------------------------------
(* Addresses.                                                              *)

\* An address is a page and an offset in it, in one way only.
LEMMA DivUnique ==
  ASSUME NEW P \in Nat \ {0}, NEW q \in Int, NEW r \in 0 .. P - 1
  PROVE  (q * P + r) \div P = q /\ (q * P + r) % P = r
  OBVIOUS

LEMMA Rest ==
  ASSUME NEW P \in Nat \ {0}, NEW r \in 0 .. P - 1
  PROVE  r % P = r /\ (r + P) % P = r
<1>1. \A q \in Int : (q * P + r) % P = r
  BY DivUnique
<1>2. 0 * P + r = r /\ 1 * P + r = r + P
  OBVIOUS
<1> QED
  BY <1>1, <1>2

LEMMA Divided ==
  ASSUME NEW P \in Nat \ {0}, NEW a \in Nat
  PROVE  /\ a \div P \in Nat /\ (a % P) \in 0 .. P - 1
         /\ a = (a \div P) * P + (a % P)
  OBVIOUS

LEMMA FewerPages ==
  ASSUME NEW P \in Nat \ {0}, NEW q \in Int, NEW g \in Int, q < g
  PROVE  q * P + P <= g * P
  OBVIOUS

LEMMA AddressIs ==
  ASSUME NEW a \in Nat
  PROVE  /\ PageOf(a) \in Nat /\ Off(a) \in Offsets
         /\ a = PageOf(a) * PageSize + Off(a)
  BY Divided DEF PageOf, Off, Offsets

LEMMA SamePage ==
  ASSUME NEW a \in Nat, NEW j \in Nat, Off(a) + j < PageSize
  PROVE  PageOf(a + j) = PageOf(a) /\ Off(a + j) = Off(a) + j
<1>1. /\ PageOf(a) \in Nat /\ Off(a) \in 0 .. PageSize - 1
      /\ a = PageOf(a) * PageSize + Off(a)
  BY AddressIs DEF Offsets
<1> DEFINE q == PageOf(a)
           r == Off(a) + j
<1>2. q \in Int /\ r \in 0 .. PageSize - 1 /\ a + j = q * PageSize + r
  BY <1>1
<1> HIDE DEF q, r
<1>3. (q * PageSize + r) \div PageSize = q /\ (q * PageSize + r) % PageSize = r
  BY <1>2, DivUnique
<1> QED
  BY <1>2, <1>3 DEF PageOf, Off, q, r

LEMMA NextPage ==
  ASSUME NEW a \in Nat
  PROVE  /\ PageOf(a + (PageSize - Off(a))) = PageOf(a) + 1
         /\ Off(a + (PageSize - Off(a))) = 0
<1>1. /\ PageOf(a) \in Nat /\ Off(a) \in 0 .. PageSize - 1
      /\ a = PageOf(a) * PageSize + Off(a)
  BY AddressIs DEF Offsets
<1> DEFINE q == PageOf(a) + 1
<1>2. q \in Int /\ 0 \in 0 .. PageSize - 1 /\ a + (PageSize - Off(a)) = q * PageSize + 0
  BY <1>1
<1> HIDE DEF q
<1>3. (q * PageSize + 0) \div PageSize = q /\ (q * PageSize + 0) % PageSize = 0
  BY <1>2, DivUnique
<1> QED
  BY <1>2, <1>3 DEF PageOf, Off, q

LEMMA PageInTable ==
  ASSUME NEW a \in Nat, a < GrowLimit * PageSize
  PROVE  PageOf(a) \in Pages /\ PageOf(a) < GrowLimit
<1>1. PageOf(a) \in Nat /\ PageOf(a) * PageSize <= a
  BY AddressIs DEF Offsets
<1>2. PageOf(a) < GrowLimit
  <2>1. ~ (GrowLimit < PageOf(a)) 
    <3> SUFFICES ASSUME GrowLimit < PageOf(a) PROVE FALSE
      OBVIOUS
    <3>1. GrowLimit * PageSize + PageSize <= PageOf(a) * PageSize
      BY <1>1, FewerPages
    <3> QED
      BY <1>1, <3>1
  <2>2. GrowLimit # PageOf(a)
    BY <1>1
  <2> QED
    BY <1>1, <2>1, <2>2
<1> QED
  BY <1>1, <1>2 DEF Pages

\* A slot of the hot window and an offset are an address below its end.
LEMMA WindowIs ==
  ASSUME NEW s \in Slots, NEW o \in Offsets
  PROVE  /\ s * PageSize + o \in Nat
         /\ s * PageSize + o < HotWindow * PageSize
         /\ s * PageSize + o \in Physical
         /\ PageOf(s * PageSize + o) = s /\ Off(s * PageSize + o) = o
<1> DEFINE x == s * PageSize
           w == HotWindow * PageSize
           g == GrowLimit * PageSize
<1>1. x + PageSize <= w /\ w + PageSize <= g
  BY FewerPages DEF Slots
<1>2. x \in Nat /\ w \in Nat /\ g \in Nat /\ o \in 0 .. PageSize - 1
  BY DEF Slots, Offsets
<1>3. PageOf(x + o) = s /\ Off(x + o) = o
  BY DivUnique DEF PageOf, Off, Slots, Offsets
<1>4. Physical = 0 .. g - 1
  BY DEF Physical
<1> HIDE DEF x, w, g
<1>5. x + o \in Nat /\ x + o < w /\ x + o \in Physical
  BY <1>1, <1>2, <1>4
<1> QED
  BY <1>3, <1>5 DEF x, w

\* The hot window does not reach beyond the memory there is.
LEMMA WindowInside == HotWindow * PageSize \in Nat /\ HotWindow * PageSize <= GrowLimit * PageSize
<1>1. HotWindow * PageSize + PageSize <= GrowLimit * PageSize
  BY FewerPages
<1> QED
  BY <1>1

-----------------------------------------------------------------------------
(* The slot that the cache gives to a fault.                               *)

LEMMA LeastOf ==
  ASSUME NEW S \in SUBSET Nat, S # {}
  PROVE  \E m \in S : \A k \in S : m <= k
<1>1. PICK m \in S : \A k \in S : ~ (<<k, m>> \in OpToRel(<, Nat))
  BY NatLessThanWellFounded, WFMin
<1>2. \A k \in S : ~ (k < m)
  BY <1>1 DEF OpToRel
<1> QED
  BY <1>2

LEMMA FirstOfIs ==
  ASSUME NEW c \in CacheType, NEW S \in SUBSET Slots, S # {}
  PROVE  /\ FirstOf(c, S) \in S
         /\ \A r \in S : Sweep(c, FirstOf(c, S)) <= Sweep(c, r)
<1>1. \A s \in Slots : Sweep(c, s) \in Nat
  BY DEF Sweep, Slots, CacheType
<1> DEFINE T == {Sweep(c, s) : s \in S}
<1>2. T \in SUBSET Nat /\ T # {}
  BY <1>1
<1>3. PICK m \in T : \A k \in T : m <= k
  BY <1>2, LeastOf
<1>4. PICK s \in S : m = Sweep(c, s)
  BY <1>3
<1>5. \A r \in S : Sweep(c, s) <= Sweep(c, r)
  BY <1>3, <1>4
<1> HIDE DEF T
<1> QED
  BY <1>5 DEF FirstOf

LEMMA AllocatedIs ==
  ASSUME NEW c \in CacheType, NEW p \in Pages
  PROVE  /\ AllocatedSlot(c, p) \in Slots
         /\ Free(c) # {} => AllocatedSlot(c, p) \in Free(c)
<1>1. Free(c) \in SUBSET Slots /\ Cold(c, p) \in SUBSET Slots
      /\ Victims(c, p) \in SUBSET Slots /\ c.hand \in Slots
  BY DEF Free, Cold, Victims, CacheType
<1>2. CASE Free(c) # {}
  BY <1>1, <1>2, FirstOfIs DEF AllocatedSlot
<1>3. CASE Free(c) = {} /\ Cold(c, p) # {}
  BY <1>1, <1>3, FirstOfIs DEF AllocatedSlot
<1>4. CASE Free(c) = {} /\ Cold(c, p) = {} /\ Victims(c, p) # {}
  BY <1>1, <1>4, FirstOfIs DEF AllocatedSlot
<1>5. CASE Free(c) = {} /\ Cold(c, p) = {} /\ Victims(c, p) = {}
  BY <1>1, <1>5 DEF AllocatedSlot
<1> QED
  BY <1>2, <1>3, <1>4, <1>5

\* What the cache has become.
LEMMA AllocateIs ==
  ASSUME NEW c \in CacheType, NEW p \in Pages
  PROVE  /\ Allocate(c, p) \in CacheType
         /\ Allocate(c, p).table = c.table
         /\ Allocate(c, p).mapped = c.mapped
         /\ Allocate(c, p).owner = c.owner
         /\ Allocate(c, p).hand = (AllocatedSlot(c, p) + 1) % HotWindow
<1>1. AllocatedSlot(c, p) \in Slots
  BY AllocatedIs
<1>2. (AllocatedSlot(c, p) + 1) % HotWindow \in Slots
  BY <1>1 DEF Slots
<1> QED
  BY <1>2 DEF Allocate, CacheType

-----------------------------------------------------------------------------
(* A fault.                                                                *)

MemType == [phys : [Physical -> Contents], cache : CacheType,
            backend : [Pages -> [Offsets -> Contents]]]

\* The three maps agree, and the slot behind the hand is marked as used.
MapsOK(c) ==
  /\ c.owner = c.mapped
  /\ \A p \in Pages, s \in Slots : c.table[p] = s <=> c.owner[s] = p
LastOf(c)     == (c.hand + HotWindow - 1) % HotWindow
LastMarked(c) == c.owner[LastOf(c)] # None => c.refbit[LastOf(c)]
CacheOK(c)    == MapsOK(c) /\ LastMarked(c)

\* The hand has just passed the slot it gave.
LEMMA HandPassed ==
  ASSUME NEW s \in Slots
  PROVE  (((s + 1) % HotWindow) + HotWindow - 1) % HotWindow = s
<1>1. HotWindow \in Nat \ {0} /\ s \in 0 .. HotWindow - 1
  BY DEF Slots
<1>2. CASE s = HotWindow - 1
  <2>1. 0 \in 0 .. HotWindow - 1 /\ s + 1 = 0 + HotWindow
    BY <1>1, <1>2
  <2>2. (0 + HotWindow) % HotWindow = 0
    BY <1>1, <2>1, Rest
  <2>3. s % HotWindow = s
    BY <1>1, Rest
  <2>4. ((s + 1) % HotWindow) + HotWindow - 1 = s
    BY <1>1, <1>2, <2>1, <2>2
  <2> QED
    BY <2>3, <2>4
<1>3. CASE s # HotWindow - 1
  <2>1. s + 1 \in 0 .. HotWindow - 1
    BY <1>1, <1>3
  <2>2. (s + 1) % HotWindow = s + 1
    BY <1>1, <2>1, Rest
  <2>3. (s + HotWindow) % HotWindow = s
    BY <1>1, Rest
  <2>4. ((s + 1) % HotWindow) + HotWindow - 1 = s + HotWindow
    BY <1>1, <2>2
  <2> QED
    BY <2>3, <2>4
<1> QED
  BY <1>2, <1>3

\* The slots of the cache once the host has loaded the page p.
Loaded(c, p) ==
  LET s == AllocatedSlot(c, p)
  IN  [Allocate(c, p) EXCEPT !.owner[s] = p, !.refbit[s] = TRUE]

LEMMA LoadedIs ==
  ASSUME NEW c \in CacheType, NEW p \in Pages, NEW s, s = AllocatedSlot(c, p)
  PROVE  /\ Loaded(c, p) \in CacheType
         /\ Loaded(c, p).table = c.table
         /\ Loaded(c, p).mapped = c.mapped
         /\ \A t \in Slots : Loaded(c, p).owner[t] = IF t = s THEN p ELSE c.owner[t]
         /\ Loaded(c, p).refbit[s]
         /\ Loaded(c, p).hand = (s + 1) % HotWindow
<1> DEFINE a == Allocate(c, p)
<1>1. /\ a \in CacheType /\ a.table = c.table /\ a.mapped = c.mapped
      /\ a.owner = c.owner /\ a.hand = (s + 1) % HotWindow
  BY AllocateIs
<1>2. s \in Slots
  BY AllocatedIs
<1>3. Loaded(c, p) = [a EXCEPT !.owner[s] = p, !.refbit[s] = TRUE]
  BY DEF Loaded
<1> HIDE DEF a
<1> DEFINE r == [a EXCEPT !.owner[s] = p, !.refbit[s] = TRUE]
<1>4. /\ r.table = a.table /\ r.mapped = a.mapped /\ r.hand = a.hand
      /\ r.owner = [a.owner EXCEPT ![s] = p]
      /\ r.refbit = [a.refbit EXCEPT ![s] = TRUE]
  BY <1>1 DEF CacheType
<1>5. r \in CacheType
  BY <1>1, <1>2 DEF CacheType
<1>6. a.refbit \in [Slots -> BOOLEAN] /\ a.owner \in [Slots -> Pages \cup {None}]
  BY <1>1 DEF CacheType
<1>7. Loaded(c, p) = r
  BY <1>3
<1> HIDE DEF r
<1>8. r.refbit[s] /\ \A t \in Slots : r.owner[t] = IF t = s THEN p ELSE c.owner[t]
  BY <1>1, <1>2, <1>4, <1>6
<1> QED
  BY <1>1, <1>4, <1>5, <1>7, <1>8

LEMMA ReconcileIs ==
  ASSUME NEW c \in CacheType, NEW p \in Pages, NEW s \in Slots
  PROVE  /\ Reconcile(c, p, s) \in CacheType
         /\ \A q \in Pages : Reconcile(c, p, s).table[q]
              = IF q = p THEN s ELSE IF q = c.mapped[s] THEN Invalid ELSE c.table[q]
         /\ \A t \in Slots : Reconcile(c, p, s).mapped[t]
                               = IF t = s THEN p ELSE c.mapped[t]
         /\ Reconcile(c, p, s).owner = c.owner
         /\ Reconcile(c, p, s).refbit = c.refbit
         /\ Reconcile(c, p, s).hand = c.hand
  BY DEF CacheType, Reconcile

\* Host and kernel take over the slot together: the maps agree again, and
\* the page just loaded is not the next victim.
LEMMA LoadKeepsMaps ==
  ASSUME NEW c \in CacheType, NEW p \in Pages, CacheOK(c), c.table[p] = Invalid,
         NEW s, s = AllocatedSlot(c, p),
         NEW r, r = Reconcile(Loaded(c, p), p, s)
  PROVE  r \in CacheType /\ CacheOK(r) /\ r.table[p] = s
<1>1. s \in Slots
  BY AllocatedIs
<1>2. /\ r \in CacheType
      /\ \A q \in Pages : r.table[q]
           = IF q = p THEN s ELSE IF q = c.mapped[s] THEN Invalid ELSE c.table[q]
      /\ \A t \in Slots : r.mapped[t] = IF t = s THEN p ELSE c.mapped[t]
      /\ \A t \in Slots : r.owner[t] = IF t = s THEN p ELSE c.owner[t]
      /\ r.refbit[s] /\ r.hand = (s + 1) % HotWindow
  <2> DEFINE l == Loaded(c, p)
  <2>1. /\ l \in CacheType /\ l.table = c.table /\ l.mapped = c.mapped
        /\ \A t \in Slots : l.owner[t] = IF t = s THEN p ELSE c.owner[t]
        /\ l.refbit[s] /\ l.hand = (s + 1) % HotWindow
    BY LoadedIs
  <2>2. r = Reconcile(l, p, s)
    OBVIOUS
  <2> HIDE DEF l
  <2>3. /\ r \in CacheType
        /\ \A q \in Pages : r.table[q]
             = IF q = p THEN s ELSE IF q = l.mapped[s] THEN Invalid ELSE l.table[q]
        /\ \A t \in Slots : r.mapped[t] = IF t = s THEN p ELSE l.mapped[t]
        /\ r.owner = l.owner /\ r.refbit = l.refbit /\ r.hand = l.hand
    BY <1>1, <2>1, <2>2, ReconcileIs
  <2> QED
    BY <2>1, <2>3
<1>3. /\ c.owner \in [Slots -> Pages \cup {None}] /\ c.mapped = c.owner
      /\ \A q \in Pages, t \in Slots : c.table[q] = t <=> c.owner[t] = q
  BY DEF CacheOK, MapsOK, CacheType
<1>4. r.owner = r.mapped
  <2>1. r.owner \in [Slots -> Pages \cup {None}] /\ r.mapped \in [Slots -> Pages \cup {None}]
    BY <1>2 DEF CacheType
  <2> QED
    BY <1>2, <1>3, <2>1
<1>5. \A q \in Pages, t \in Slots : r.table[q] = t <=> r.owner[t] = q
  <2> SUFFICES ASSUME NEW q \in Pages, NEW t \in Slots
               PROVE  r.table[q] = t <=> r.owner[t] = q
    OBVIOUS
  <2>1. Invalid \notin Slots
    BY DEF Invalid, Slots
  <2> HIDE DEF Pages, Slots, Invalid
  <2> QED
    BY <1>1, <1>2, <1>3, <2>1
<1>6. LastOf(r) = s
  BY <1>1, <1>2, HandPassed DEF LastOf
<1> QED
  BY <1>1, <1>2, <1>4, <1>5, <1>6 DEF CacheOK, MapsOK, LastMarked

\* What a fault, or several, may have made of the memory m: its types are
\* kept, the maps still agree if nothing failed, and nothing was written
\* behind the hot window.
Reaches(m, r) ==
  /\ r \in MemType
  /\ up = Serves /\ CacheOK(m.cache) => CacheOK(r.cache)
  /\ \A i \in Physical : i >= HotWindow * PageSize => r.phys[i] = m.phys[i]

LEMMA ReachesOn ==
  ASSUME NEW m, NEW r, NEW q, Reaches(m, r), Reaches(r, q)
  PROVE  Reaches(m, q)
  BY DEF Reaches

LEMMA ReachesSelf ==
  ASSUME NEW m \in MemType
  PROVE  Reaches(m, m)
  BY DEF Reaches

\* The victim is written back whole, the page read whole.
LEMMA OnPageFaultIs ==
  ASSUME NEW m \in MemType, NEW p \in Pages,
         NEW s, s = AllocatedSlot(m.cache, p)
  PROVE  /\ OnPageFault(m, p).phys \in [Physical -> Contents]
         /\ OnPageFault(m, p).backend \in [Pages -> [Offsets -> Contents]]
         /\ OnPageFault(m, p).cache = Loaded(m.cache, p)
         /\ \A q \in Pages, o \in Offsets :
              OnPageFault(m, p).backend[q][o]
                = IF q = m.cache.owner[s] THEN m.phys[s * PageSize + o]
                                          ELSE m.backend[q][o]
         /\ \A i \in Physical :
              OnPageFault(m, p).phys[i]
                = IF PageOf(i) = s THEN OnPageFault(m, p).backend[p][Off(i)]
                                   ELSE m.phys[i]
<1>1. s \in Slots /\ m.cache \in CacheType
  BY AllocatedIs DEF MemType
<1> DEFINE v == m.cache.owner[s]
           b == IF v # None THEN [m.backend EXCEPT ![v] = PageIn(m.phys, s)]
                            ELSE m.backend
           f == [i \in Physical |-> IF PageOf(i) = s THEN b[p][Off(i)] ELSE m.phys[i]]
           r == OnPageFault(m, p)
<1>2. r.phys = f /\ r.cache = Loaded(m.cache, p) /\ r.backend = b
  BY DEF OnPageFault, Loaded
<1>3. v \in Pages \cup {None} /\ None \notin Pages
  BY <1>1 DEF CacheType, None, Pages
<1>4. m.phys \in [Physical -> Contents] /\ m.backend \in [Pages -> [Offsets -> Contents]]
  BY DEF MemType
<1>5. \A o \in Offsets : s * PageSize + o \in Physical
  BY <1>1, WindowIs
<1>6. /\ PageIn(m.phys, s) \in [Offsets -> Contents]
      /\ \A o \in Offsets : PageIn(m.phys, s)[o] = m.phys[s * PageSize + o]
  BY <1>4, <1>5 DEF PageIn
<1>7. /\ b \in [Pages -> [Offsets -> Contents]]
      /\ \A q \in Pages, o \in Offsets :
           b[q][o] = IF q = v THEN m.phys[s * PageSize + o] ELSE m.backend[q][o]
  <2> HIDE DEF v
  <2> QED
    BY <1>3, <1>4, <1>6
<1> HIDE DEF b
<1>8. \A i \in Physical : Off(i) \in Offsets
  BY AddressIs DEF Physical
<1>9. f \in [Physical -> Contents]
  BY <1>4, <1>7, <1>8
<1> HIDE DEF r
<1> QED
  BY <1>2, <1>7, <1>9 DEF r

\* Without a failure the fault ends with what the host has loaded.
LEMMA FaultServed ==
  ASSUME NEW m \in MemType, NEW p \in Pages, Needed(m, p) \subseteq up,
         NEW s, s = AllocatedSlot(m.cache, p)
  PROVE  /\ Fault(m, p).phys = OnPageFault(m, p).phys
         /\ Fault(m, p).backend = OnPageFault(m, p).backend
         /\ Fault(m, p).cache = Reconcile(Loaded(m.cache, p), p, s)
         /\ Fault(m, p) = [phys |-> Fault(m, p).phys, cache |-> Fault(m, p).cache,
                           backend |-> Fault(m, p).backend]
<1> DEFINE f == OnPageFault(m, p)
           r == Fault(m, p)
<1>1. Handled(m, p) = f
  BY Zenon DEF Handled
<1>2. r = [f EXCEPT !.cache = Reconcile(f.cache, p, s)]
  BY <1>1 DEF Fault
<1>3. f = [phys |-> f.phys, cache |-> f.cache, backend |-> f.backend]
  BY DEF OnPageFault
<1>4. f.cache = Loaded(m.cache, p)
  BY DEF OnPageFault, Loaded
<1> HIDE DEF f, r
<1> QED
  BY <1>2, <1>3, <1>4 DEF f, r

\* With all of the backend up nothing fails.
LEMMA AllServed ==
  ASSUME up = Serves, NEW m, NEW p
  PROVE  Needed(m, p) \subseteq up
  BY DEF Needed, Serves

\* What a handler that throws leaves: the page tables of the host are as
\* before, and at most the slot it chose has changed.
LEMMA ThrownIs ==
  ASSUME NEW m \in MemType, NEW p \in Pages, ~(Needed(m, p) \subseteq up),
         NEW s, s = AllocatedSlot(m.cache, p)
  PROVE  /\ Handled(m, p) \in MemType
         /\ Handled(m, p).cache = Allocate(m.cache, p)
         /\ \A i \in Physical : PageOf(i) # s => Handled(m, p).phys[i] = m.phys[i]
<1> DEFINE a == Allocate(m.cache, p)
           f == OnPageFault(m, p)
           h == Handled(m, p)
<1>1. a \in CacheType /\ m.phys \in [Physical -> Contents]
  BY AllocateIs DEF MemType
<1>2. CASE Needed(m, p) \ up = {"readPage"}
  <2> DEFINE ph == [i \in Physical |->
                      IF PageOf(i) = s /\ s \notin Free(m.cache) THEN Zero ELSE m.phys[i]]
  <2>1. h = OnPageFaultUnread(m, p)
    BY <1>2, Zenon DEF Handled
  <2>2. h = [f EXCEPT !.phys = ph, !.cache = a]
    BY <2>1 DEF OnPageFaultUnread
  <2>3. f = [phys |-> f.phys, cache |-> f.cache, backend |-> f.backend]
    BY DEF OnPageFault
  <2>4. f.backend \in [Pages -> [Offsets -> Contents]]
    BY OnPageFaultIs
  <2> HIDE DEF f
  <2>5. ph \in [Physical -> Contents]
    BY <1>1 DEF Contents
  <2>6. \A i \in Physical : PageOf(i) # s => ph[i] = m.phys[i]
    OBVIOUS
  <2> HIDE DEF ph, a, h
  <2>7. h = [phys |-> ph, cache |-> a, backend |-> f.backend]
    BY <2>2, <2>3
  <2> QED
    BY <1>1, <2>4, <2>5, <2>6, <2>7 DEF MemType, h, a
<1>3. CASE Needed(m, p) \ up # {"readPage"}
  <2>1. h = [m EXCEPT !.cache = a]
    BY <1>3, Zenon DEF Handled
  <2> HIDE DEF a, h
  <2> QED
    BY <1>1, <2>1 DEF MemType, h, a
<1> QED
  BY <1>2, <1>3

LEMMA FaultReaches ==
  ASSUME NEW m \in MemType, NEW p \in Pages, m.cache.table[p] = Invalid
  PROVE  Reaches(m, Fault(m, p)) /\ Fault(m, p).cache.table[p] \in Slots
<1> DEFINE c == m.cache
           s == AllocatedSlot(c, p)
           r == Fault(m, p)
<1>1. s \in Slots /\ c \in CacheType
  BY AllocatedIs DEF MemType
<1>2. ASSUME NEW i \in Physical, i >= HotWindow * PageSize
      PROVE  PageOf(i) # s
  <2>1. i \in Nat
    BY DEF Physical
  <2>2. /\ PageOf(i) \in Nat /\ Off(i) \in Offsets
        /\ i = PageOf(i) * PageSize + Off(i)
    BY <2>1, AddressIs
  <2>3. PageOf(i) \in Slots => i < HotWindow * PageSize
    BY <2>2, WindowIs
  <2>4. HotWindow * PageSize \in Nat
    BY WindowInside
  <2> QED
    BY <1>1, <1>2, <2>1, <2>3, <2>4
<1>3. CASE Needed(m, p) \subseteq up
  <2> DEFINE f == OnPageFault(m, p)
             k == Reconcile(Loaded(c, p), p, s)
  <2>1. /\ r.phys = f.phys /\ r.cache = k /\ r.backend = f.backend
        /\ r = [phys |-> r.phys, cache |-> r.cache, backend |-> r.backend]
    BY <1>3, FaultServed
  <2>2. /\ f.phys \in [Physical -> Contents]
        /\ f.backend \in [Pages -> [Offsets -> Contents]]
        /\ \A i \in Physical : PageOf(i) # s => f.phys[i] = m.phys[i]
    BY OnPageFaultIs
  <2>3. k \in CacheType /\ k.table[p] = s
    BY <1>1, LoadedIs, ReconcileIs
  <2>4. CacheOK(c) => CacheOK(k)
    BY <1>1, LoadKeepsMaps
  <2> HIDE DEF f, k, r, c, s
  <2>5. r \in MemType
    BY <2>1, <2>2, <2>3 DEF MemType
  <2>6. Reaches(m, r)
    BY <1>2, <2>1, <2>2, <2>4, <2>5 DEF Reaches, c
  <2> QED
    BY <1>1, <2>1, <2>3, <2>6 DEF r
<1>4. CASE ~(Needed(m, p) \subseteq up)
  <2> DEFINE h == Handled(m, p)
             k == Reconcile(Allocate(c, p), p, 0)
  <2>1. 0 \in Slots
    BY DEF Slots
  <2>2. /\ h \in MemType /\ h.cache = Allocate(c, p)
        /\ \A i \in Physical : PageOf(i) # s => h.phys[i] = m.phys[i]
    BY <1>4, ThrownIs
  <2>3. Fault(m, p) = [h EXCEPT !.cache = Reconcile(h.cache, p, 0)]
    BY <1>4 DEF Fault
  <2>4. r = [h EXCEPT !.cache = k]
    BY <2>2, <2>3
  <2>5. k \in CacheType /\ k.table[p] = 0
    <3>1. Allocate(c, p) \in CacheType
      BY <1>1, AllocateIs
    <3> QED
      BY <2>1, <3>1, ReconcileIs
  <2>6. up # Serves
    BY <1>4, AllServed
  <2> HIDE DEF h, k, r, c, s
  <2>7. r \in MemType /\ r.phys = h.phys /\ r.cache = k
    BY <2>2, <2>4, <2>5 DEF MemType
  <2>8. Reaches(m, r)
    BY <1>2, <2>2, <2>6, <2>7 DEF Reaches
  <2> QED
    BY <2>1, <2>5, <2>7, <2>8 DEF r
<1> QED
  BY <1>3, <1>4

LEMMA ResidentReaches ==
  ASSUME NEW m \in MemType, NEW p \in Pages
  PROVE  /\ Resident(m, p) \in MemType
         /\ Reaches(m, Resident(m, p))
         /\ Resident(m, p).cache.table[p] \in Slots
<1>1. CASE m.cache.table[p] = Invalid
  BY <1>1, FaultReaches DEF Resident, Reaches
<1>2. CASE m.cache.table[p] # Invalid
  <2>1. m.cache.table[p] \in Slots
    BY <1>2 DEF MemType, CacheType
  <2> QED
    BY <1>2, <2>1, ReachesSelf DEF Resident
<1> QED
  BY <1>1, <1>2

\* Cells poked into memory_data change nothing else.
LEMMA PokeIs ==
  ASSUME NEW m \in MemType, NEW i \in Nat, NEW cells \in Seq(Contents)
  PROVE  /\ Poke(m, i, cells) \in MemType
         /\ Poke(m, i, cells).cache = m.cache
         /\ Poke(m, i, cells).backend = m.backend
         /\ \A j \in Physical :
              /\ i <= j /\ j < i + Len(cells) =>
                   Poke(m, i, cells).phys[j] = cells[j - i + 1]
              /\ ~(i <= j /\ j < i + Len(cells)) =>
                   Poke(m, i, cells).phys[j] = m.phys[j]
<1> DEFINE f == [j \in Physical |-> IF j \in i .. i + Len(cells) - 1
                                    THEN cells[j - i + 1] ELSE m.phys[j]]
           r == Poke(m, i, cells)
<1>1. Len(cells) \in Nat /\ \A k \in 1 .. Len(cells) : cells[k] \in Contents
  OBVIOUS
<1>2. \A j \in i .. i + Len(cells) - 1 : j - i + 1 \in 1 .. Len(cells)
  BY <1>1
<1>3. m.phys \in [Physical -> Contents]
  BY DEF MemType
<1>4. f \in [Physical -> Contents]
  BY <1>1, <1>2, <1>3
<1>5. r = [m EXCEPT !.phys = f]
  BY DEF Poke
<1>6. \A j \in Physical :
        /\ i <= j /\ j < i + Len(cells) => f[j] = cells[j - i + 1]
        /\ ~(i <= j /\ j < i + Len(cells)) => f[j] = m.phys[j]
  BY <1>1 DEF Physical
<1> HIDE DEF f
<1>7. r \in MemType /\ r.phys = f /\ r.cache = m.cache /\ r.backend = m.backend
  BY <1>4, <1>5 DEF MemType
<1> HIDE DEF r
<1> QED
  BY <1>6, <1>7 DEF r

\* Within a resident page the cells lie in the hot window.
LEMMA PokeReaches ==
  ASSUME NEW m \in MemType, NEW a \in Nat, PageOf(a) \in Pages,
         m.cache.table[PageOf(a)] \in Slots,
         NEW cells \in Seq(Contents), Off(a) + Len(cells) <= PageSize
  PROVE  Reaches(m, Poke(m, Native(m, a), cells))
<1> DEFINE s == m.cache.table[PageOf(a)]
           i == Native(m, a)
<1>1. Off(a) \in 0 .. PageSize - 1
  BY AddressIs DEF Offsets
<1>2. i \in Nat /\ i = s * PageSize + Off(a)
  BY <1>1, WindowIs DEF Native, Offsets
<1>3. s * PageSize + PageSize <= HotWindow * PageSize
  <2>1. s \in Int /\ s < HotWindow
    BY DEF Slots
  <2> HIDE DEF s
  <2> QED
    BY <2>1, FewerPages
<1>4. s * PageSize \in Nat /\ HotWindow * PageSize \in Nat /\ Len(cells) \in Nat
  BY DEF Slots
<1> HIDE DEF s, i
<1>5. i + Len(cells) <= HotWindow * PageSize
  BY <1>1, <1>2, <1>3, <1>4
<1>6. \A j \in Physical : j >= HotWindow * PageSize => ~(i <= j /\ j < i + Len(cells))
  BY <1>2, <1>4, <1>5 DEF Physical
<1>7. /\ Poke(m, i, cells) \in MemType /\ Poke(m, i, cells).cache = m.cache
      /\ \A j \in Physical : ~(i <= j /\ j < i + Len(cells)) =>
           Poke(m, i, cells).phys[j] = m.phys[j]
  BY <1>2, PokeIs
<1> QED
  BY <1>6, <1>7 DEF Reaches, i

LEMMA PutReaches ==
  ASSUME NEW m \in MemType, NEW a \in Nat, PageOf(a) \in Pages,
         NEW cells \in Seq(Contents), Off(a) + Len(cells) <= PageSize
  PROVE  Put(m, a, cells) \in MemType /\ Reaches(m, Put(m, a, cells))
<1> DEFINE r == Resident(m, PageOf(a))
<1>1. r \in MemType /\ Reaches(m, r) /\ r.cache.table[PageOf(a)] \in Slots
  BY ResidentReaches
<1>2. Put(m, a, cells) = Poke(r, Native(r, a), cells)
  BY DEF Put
<1> HIDE DEF r
<1>3. Reaches(r, Put(m, a, cells))
  BY <1>1, <1>2, PokeReaches
<1>4. Reaches(m, Put(m, a, cells))
  BY <1>1, <1>3, ReachesOn
<1> QED
  BY <1>4 DEF Reaches

LEMMA BothReach ==
  ASSUME NEW m \in MemType, NEW a \in Nat, NEW n \in Nat \ {0},
         PageOf(a) \in Pages, PageOf(a + n - 1) \in Pages
  PROVE  BothResident(m, a, n) \in MemType /\ Reaches(m, BothResident(m, a, n))
<1> DEFINE r == Resident(m, PageOf(a))
           q == Resident(r, PageOf(a + n - 1))
<1>1. r \in MemType /\ Reaches(m, r)
  BY ResidentReaches
<1>2. BothResident(m, a, n) = q
  BY DEF BothResident
<1> HIDE DEF r
<1>3. q \in MemType /\ Reaches(r, q)
  BY <1>1, ResidentReaches
<1> HIDE DEF q
<1> QED
  BY <1>1, <1>2, <1>3, ReachesOn

\* What is read is cells, or junk from outside of memory_data.
LEMMA PeekIs ==
  ASSUME NEW m \in MemType, NEW i, NEW n \in Nat
  PROVE  /\ Peek(m, i, n) \in Seq(Contents) /\ Len(Peek(m, i, n)) = n
         /\ \A j \in 1 .. n : Peek(m, i, n)[j] = Fetch(m, i + j - 1)
<1>1. \A j \in 1 .. n : Fetch(m, i + j - 1) \in Contents
  BY DEF Fetch, MemType, Contents
<1> HIDE DEF Fetch
<1> QED
  BY <1>1 DEF Peek

\* An address outside of memory_data is poked in vain.
LEMMA PokeNowhere ==
  ASSUME NEW m \in MemType, NEW cells \in Seq(Contents), Len(cells) <= PageSize
  PROVE  Poke(m, Nowhere, cells) = m
<1> DEFINE f == [j \in Physical |-> IF j \in Nowhere .. Nowhere + Len(cells) - 1
                                    THEN cells[j - Nowhere + 1] ELSE m.phys[j]]
<1>1. Len(cells) \in Nat
  OBVIOUS
<1>2. \A j \in Physical : j \notin Nowhere .. Nowhere + Len(cells) - 1
  BY <1>1 DEF Physical, Nowhere
<1>3. m.phys = [j \in Physical |-> m.phys[j]]
  BY DEF MemType
<1>4. f = m.phys
  BY <1>2, <1>3
<1>5. Poke(m, Nowhere, cells) = [m EXCEPT !.phys = f]
  BY DEF Poke
<1> HIDE DEF f
<1> QED
  BY <1>4, <1>5 DEF MemType

LEMMA StagedIs ==
  ASSUME NEW m \in MemType, NEW a, NEW n \in Nat
  PROVE  /\ Staged(m, a, n) \in Seq(Contents) /\ Len(Staged(m, a, n)) = n
         /\ \A j \in 1 .. n : Staged(m, a, n)[j] = Fetch(m, Native(m, a + j - 1))
<1>1. \A j \in 1 .. n : Fetch(m, Native(m, a + j - 1)) \in Contents
  BY DEF Fetch, MemType, Contents
<1> HIDE DEF Fetch, Native
<1> QED
  BY <1>1 DEF Staged

-----------------------------------------------------------------------------
(* The invariant of the accesses.                                          *)

\* A staged access crosses from one page of the guest to the next.
ScratchOK ==
  \/ scratch = Nothing
  \/ /\ scratch.at \in Nat /\ scratch.cells \in Seq(Contents)
     /\ Len(scratch.cells) <= PageSize
     /\ Spans(scratch.at, Len(scratch.cells))
     /\ scratch.at + Len(scratch.cells) <= Size

Copying == {"copy_up", "copy_down"}
Writing == {"write", "host_write"}
Kinds   == Copying \cup Writing \cup {"host_read"}
BulkType == [kind : Kinds, at : Nat, from : Nat, left : Nat \ {0},
             cells : Seq(Contents)]

\* What is left of a bulk operation of the guest lies inside of its memory.
Inside(op) ==
  /\ op.kind \in Copying \cup {"write"} => op.at + op.left <= Size
  /\ op.kind \in Copying => op.from + op.left <= Size
  /\ op.kind \in Writing => Len(op.cells) = op.left
BulkOK ==
  \/ bulk = Idle
  \/ scratch = Nothing /\ bulk \in BulkType /\ Inside(bulk)

AccessInv == /\ mem \in MemType
             /\ pages \in InitialPages .. GrowLimit
             /\ ScratchOK
             /\ BulkOK

\* A step keeps the invariant, and with the backend up the maps; with host
\* scalars of one cell it writes inside of the hot window only.
Safe == /\ AccessInv'
        /\ up = Serves /\ CacheOK(cache) => CacheOK(cache')
        /\ HostWidths \subseteq {1} =>
             \A i \in Physical : i >= HotWindow * PageSize => phys'[i] = phys[i]

LEMMA SizeIs ==
  ASSUME AccessInv
  PROVE  Size \in Nat /\ Size <= GrowLimit * PageSize
<1>1. pages \in Nat /\ pages <= GrowLimit
  BY DEF AccessInv
<1>2. pages < GrowLimit => pages * PageSize + PageSize <= GrowLimit * PageSize
  BY <1>1, FewerPages
<1> QED
  BY <1>1, <1>2 DEF Size

\* The pages of an access inside of guest memory are in the table.
LEMMA InsideIs ==
  ASSUME AccessInv, NEW a \in Nat, a < Size
  PROVE  PageOf(a) \in Pages /\ a \in Physical
<1>1. a < GrowLimit * PageSize /\ GrowLimit * PageSize \in Nat
  BY SizeIs
<1> QED
  BY <1>1, PageInTable DEF Physical

\* An address is inside if its page is, and then the whole page is.
LEMMA PageInside ==
  ASSUME AccessInv, NEW a \in Nat
  PROVE  /\ PageOf(a) < pages <=> a < Size
         /\ a < Size => a + (PageSize - Off(a)) <= Size
<1> DEFINE q == PageOf(a)
           x == q * PageSize
           y == pages * PageSize
<1>1. q \in Nat /\ Off(a) \in 0 .. PageSize - 1 /\ a = x + Off(a)
  BY AddressIs DEF Offsets
<1>2. pages \in Nat /\ Size = y
  BY DEF AccessInv, Size
<1> HIDE DEF q
<1>3. /\ q < pages => x + PageSize <= y
      /\ pages < q => y + PageSize <= x
      /\ q = pages => x = y
  <2>1. q \in Int /\ pages \in Int /\ PageSize \in Nat \ {0}
    BY <1>1, <1>2
  <2> QED
    BY <2>1, FewerPages
<1>4. x \in Nat /\ y \in Nat
  BY <1>1, <1>2
<1> HIDE DEF x, y
<1>5. /\ q < pages <=> a < Size
      /\ a < Size => a + (PageSize - Off(a)) <= Size
  BY <1>1, <1>2, <1>3, <1>4
<1> QED
  BY <1>5 DEF q

LEMMA CutIs ==
  ASSUME NEW T, NEW q \in Seq(T), NEW m \in Nat \ {0}, NEW n \in Nat,
         n <= Len(q), m <= n + 1
  PROVE  /\ SubSeq(q, m, n) \in Seq(T)
         /\ Len(SubSeq(q, m, n)) = n - m + 1
         /\ \A i \in 1 .. n - m + 1 : SubSeq(q, m, n)[i] = q[m + i - 1]
<1>1. \A i \in m .. n : q[i] \in T
  BY ElementOfSeq, LenProperties
<1> DEFINE w == SubSeq(q, m, n)
<1>2. /\ w \in Seq(T)
      /\ Len(w) = IF m <= n THEN n - m + 1 ELSE 0
      /\ \A i \in 1 .. n - m + 1 : w[i] = q[m + i - 1]
  BY <1>1, SubSeqProperties
<1> HIDE DEF w
<1>3. w \in Seq(T) /\ Len(w) = n - m + 1 /\ \A i \in 1 .. n - m + 1 : w[i] = q[m + i - 1]
  BY <1>2
<1> QED
  BY <1>3 DEF w

\* The two parts of a staged access, each within its page.
LEMMA StagedParts ==
  ASSUME AccessInv, scratch # Nothing,
         NEW n, n = PageSize - Off(scratch.at)
  PROVE  /\ scratch.at \in Nat /\ n \in Nat \ {0}
         /\ n < Len(scratch.cells) /\ Len(scratch.cells) <= PageSize
         /\ scratch.at + Len(scratch.cells) <= Size
         /\ scratch.cells \in Seq(Contents)
         /\ PageOf(scratch.at) \in Pages /\ PageOf(scratch.at + n) \in Pages
         /\ Off(scratch.at) + n = PageSize /\ Off(scratch.at + n) = 0
         /\ PageOf(scratch.at + n) = PageOf(scratch.at) + 1
         /\ SubSeq(scratch.cells, 1, n) \in Seq(Contents)
         /\ Len(SubSeq(scratch.cells, 1, n)) = n
         /\ SubSeq(scratch.cells, n + 1, Len(scratch.cells)) \in Seq(Contents)
         /\ Len(SubSeq(scratch.cells, n + 1, Len(scratch.cells)))
              = Len(scratch.cells) - n
<1> DEFINE a == scratch.at
           q == scratch.cells
           k == Len(q)
<1>1. /\ a \in Nat /\ q \in Seq(Contents) /\ k <= PageSize /\ Off(a) + k > PageSize
      /\ a + k <= Size /\ k \in Nat
  BY LenProperties DEF AccessInv, ScratchOK, Spans
<1>2. Off(a) \in 0 .. PageSize - 1
  BY <1>1, AddressIs DEF Offsets
<1>3. n \in Nat \ {0} /\ n < k /\ Off(a) + n = PageSize
  BY <1>1, <1>2
<1>4. PageOf(a + n) = PageOf(a) + 1 /\ Off(a + n) = 0
  BY <1>1, NextPage
<1>5. Size \in Nat
  BY SizeIs
<1> HIDE DEF a, q, k
<1>6. PageOf(a) \in Pages /\ PageOf(a + n) \in Pages
  <2>1. a \in Nat /\ a < Size /\ a + n \in Nat /\ a + n < Size
    BY <1>1, <1>3, <1>5
  <2> QED
    BY <2>1, InsideIs
<1>7. SubSeq(q, 1, n) \in Seq(Contents) /\ Len(SubSeq(q, 1, n)) = n
  <2>1. n - 1 + 1 = n /\ n <= Len(q) /\ 1 <= n + 1
    BY <1>1, <1>3 DEF k
  <2> QED
    BY <1>1, <1>3, <2>1, CutIs
<1>8. SubSeq(q, n + 1, k) \in Seq(Contents) /\ Len(SubSeq(q, n + 1, k)) = k - n
  <2>1. k - (n + 1) + 1 = k - n /\ k <= Len(q) /\ n + 1 <= k + 1 /\ n + 1 \in Nat \ {0}
    BY <1>1, <1>3 DEF k
  <2> QED
    BY <1>1, <2>1, CutIs
<1> QED
  BY <1>1, <1>3, <1>4, <1>6, <1>7, <1>8 DEF a, q, k

LEMMA FlushReaches ==
  ASSUME AccessInv
  PROVE  Flushed \in MemType /\ Reaches(mem, Flushed)
<1>1. mem \in MemType
  BY DEF AccessInv
<1>2. CASE scratch = Nothing
  BY <1>1, <1>2, ReachesSelf DEF Flushed
<1>3. CASE scratch # Nothing
  <2> DEFINE a == scratch.at
             n == PageSize - Off(a)
             x == SubSeq(scratch.cells, 1, n)
             y == SubSeq(scratch.cells, n + 1, Len(scratch.cells))
             f == Put(mem, a, x)
  <2>1. /\ a \in Nat /\ n \in Nat \ {0} /\ a + n \in Nat
        /\ Len(scratch.cells) - n <= PageSize
        /\ PageOf(a) \in Pages /\ PageOf(a + n) \in Pages
        /\ Off(a) + n = PageSize /\ Off(a + n) = 0
        /\ x \in Seq(Contents) /\ Len(x) = n
        /\ y \in Seq(Contents) /\ Len(y) = Len(scratch.cells) - n
    BY <1>3, StagedParts
  <2>2. Flushed = Put(f, a + n, y)
    BY <1>3 DEF Flushed
  <2> HIDE DEF a, n, x, y
  <2>3. f \in MemType /\ Reaches(mem, f)
    BY <1>1, <2>1, PutReaches
  <2> HIDE DEF f
  <2>4. Flushed \in MemType /\ Reaches(f, Flushed)
    BY <2>1, <2>2, <2>3, PutReaches
  <2> QED
    BY <2>3, <2>4, ReachesOn
<1> QED
  BY <1>2, <1>3

-----------------------------------------------------------------------------
(* The steps.                                                              *)

LEMMA BecomeIs ==
  ASSUME NEW m \in MemType, Become(m)
  PROVE  mem' = m /\ phys' = m.phys /\ cache' = m.cache
<1>1. m = [phys |-> m.phys, cache |-> m.cache, backend |-> m.backend]
  BY DEF MemType
<1> QED
  BY <1>1 DEF Become, mem

\* A step that makes memory what faults and writes in the window make of it.
LEMMA BecomeSafe ==
  ASSUME NEW m \in MemType, Reaches(mem, m), Become(m),
         pages' \in InitialPages .. GrowLimit, ScratchOK', BulkOK'
  PROVE  Safe
<1>1. mem' = m /\ phys' = m.phys /\ cache' = m.cache
  BY BecomeIs
<1>2. mem.phys = phys /\ mem.cache = cache
  BY DEF mem
<1>3. AccessInv'
  BY <1>1 DEF AccessInv
<1> QED
  BY <1>1, <1>2, <1>3 DEF Safe, Reaches

LEMMA AccessReaches ==
  ASSUME AccessInv, NEW p \in Pages
  PROVE  /\ Resident(Flushed, p) \in MemType
         /\ Reaches(mem, Resident(Flushed, p))
         /\ Resident(Flushed, p).cache.table[p] \in Slots
<1> DEFINE f == Flushed
<1>1. f \in MemType /\ Reaches(mem, f)
  BY FlushReaches
<1> HIDE DEF f
<1>2. /\ Resident(f, p) \in MemType /\ Reaches(f, Resident(f, p))
      /\ Resident(f, p).cache.table[p] \in Slots
  BY <1>1, ResidentReaches
<1>3. Reaches(mem, Resident(f, p))
  BY <1>1, <1>2, ReachesOn
<1> QED
  BY <1>2, <1>3 DEF f

\* Both pages of an access that spans are inside of guest memory.
LEMMA SpanReaches ==
  ASSUME AccessInv, NEW a \in Nat, NEW n \in Nat \ {0}, a + n <= Size,
         NEW m \in MemType, Reaches(mem, m)
  PROVE  BothResident(m, a, n) \in MemType /\ Reaches(mem, BothResident(m, a, n))
<1>1. Size \in Nat
  BY SizeIs
<1>2. a < Size /\ a + n - 1 \in Nat /\ a + n - 1 < Size
  BY <1>1
<1>3. PageOf(a) \in Pages /\ PageOf(a + n - 1) \in Pages
  BY <1>2, InsideIs
<1>4. BothResident(m, a, n) \in MemType /\ Reaches(m, BothResident(m, a, n))
  BY <1>3, BothReach
<1> QED
  BY <1>4, ReachesOn

\* The translation that asks for the page first: inside of memory the page
\* is resident after it, outside nothing is touched.
LEMMA ReachedIs ==
  ASSUME AccessInv, NEW m \in MemType, Reaches(mem, m), NEW a \in Nat,
         NEW r, r = Reached(m, a)
  PROVE  /\ r \in MemType /\ Reaches(mem, r)
         /\ a < Size => /\ PageOf(a) \in Pages /\ r = Resident(m, PageOf(a))
                        /\ r.cache.table[PageOf(a)] \in Slots
                        /\ Reach(r, a) = Native(r, a)
         /\ ~(a < Size) => r = m /\ Reach(r, a) = Nowhere
<1>1. PageOf(a) < pages <=> a < Size
  BY PageInside
<1>2. CASE a < Size
  <2>1. PageOf(a) \in Pages /\ r = Resident(m, PageOf(a)) /\ Reach(r, a) = Native(r, a)
    BY <1>1, <1>2, InsideIs DEF Reached, Reach
  <2>2. r \in MemType /\ Reaches(m, r) /\ r.cache.table[PageOf(a)] \in Slots
    BY <2>1, ResidentReaches
  <2>3. Reaches(mem, r)
    BY <2>2, ReachesOn
  <2> QED
    BY <1>2, <2>1, <2>2, <2>3
<1>3. CASE ~(a < Size)
  BY <1>1, <1>3 DEF Reached, Reach
<1> QED
  BY <1>2, <1>3

\* Cells that end with the page stay in the window.
LEMMA ReachPoked ==
  ASSUME AccessInv, NEW m \in MemType, Reaches(mem, m), NEW a \in Nat,
         NEW cells \in Seq(Contents), Off(a) + Len(cells) <= PageSize
  PROVE  LET r == Reached(m, a)
         IN  /\ Poke(r, Reach(r, a), cells) \in MemType
             /\ Reaches(mem, Poke(r, Reach(r, a), cells))
<1> DEFINE r == Reached(m, a)
<1>1. /\ r \in MemType /\ Reaches(mem, r)
      /\ a < Size => /\ PageOf(a) \in Pages /\ r = Resident(m, PageOf(a))
                     /\ r.cache.table[PageOf(a)] \in Slots
                     /\ Reach(r, a) = Native(r, a)
      /\ ~(a < Size) => r = m /\ Reach(r, a) = Nowhere
  BY ReachedIs, Zenon
<1> SUFFICES /\ Poke(r, Reach(r, a), cells) \in MemType
             /\ Reaches(mem, Poke(r, Reach(r, a), cells))
  OBVIOUS
<1> HIDE DEF r
<1>2. Len(cells) \in Nat /\ Off(a) \in 0 .. PageSize - 1
  BY AddressIs DEF Offsets
<1>3. CASE a < Size
  <2>1. Reaches(r, Poke(r, Reach(r, a), cells))
    BY <1>1, <1>3, PokeReaches
  <2>2. Reaches(mem, Poke(r, Reach(r, a), cells))
    BY <1>1, <2>1, ReachesOn
  <2> QED
    BY <2>2 DEF Reaches
<1>4. CASE ~(a < Size)
  <2>1. Len(cells) <= PageSize
    BY <1>2
  <2>2. Poke(r, Reach(r, a), cells) = r
    BY <1>1, <1>4, <2>1, PokeNowhere
  <2> QED
    BY <1>1, <2>2
<1> QED
  BY <1>3, <1>4

LEMMA ScratchKept == ASSUME ScratchOK, scratch' = scratch, pages' = pages PROVE ScratchOK'
  BY DEF ScratchOK, Size, Spans, Off

LEMMA BulkKept == ASSUME BulkOK, bulk' = bulk, bulk = Idle PROVE BulkOK'
  BY DEF BulkOK

LEMMA LoadSafe ==
  ASSUME AccessInv, NEW a \in Addresses, NEW n \in GuestWidths, Load(a, n)
  PROVE  Safe
<1> DEFINE m == Resident(Flushed, PageOf(a))
           r == BothResident(m, a, n)
<1>1. a \in Nat /\ n \in 1 .. PageSize /\ n \in Nat \ {0}
  BY DEF Addresses
<1>2. a + n <= Size /\ Size \in Nat /\ Size' = Size /\ pages' = pages /\ bulk = Idle
      /\ bulk' = bulk
  BY SizeIs DEF Load, InBounds, Size
<1>3. a < Size
  BY <1>1, <1>2
<1>4. PageOf(a) \in Pages
  BY <1>1, <1>3, InsideIs
<1>5. m \in MemType /\ Reaches(mem, m)
  BY <1>4, AccessReaches
<1>6. pages' \in InitialPages .. GrowLimit /\ BulkOK'
  BY <1>2 DEF AccessInv, BulkOK
<1>7. \/ ~Spans(a, n) /\ Become(m) /\ scratch' = Nothing
      \/ /\ Spans(a, n) /\ Become(r)
         /\ scratch' = [at |-> a, cells |-> Staged(r, a, n)]
  BY DEF Load
<1> HIDE DEF m
<1>8. CASE ~Spans(a, n)
  <2>1. ScratchOK'
    BY <1>7, <1>8 DEF ScratchOK
  <2> QED
    BY <1>5, <1>6, <1>7, <1>8, <2>1, BecomeSafe
<1>9. CASE Spans(a, n)
  <2>1. r \in MemType /\ Reaches(mem, r)
    BY <1>1, <1>2, <1>5, SpanReaches
  <2> DEFINE q == Staged(r, a, n)
  <2> HIDE DEF r
  <2>2. q \in Seq(Contents) /\ Len(q) = n
    BY <1>1, <2>1, StagedIs
  <2>3. scratch' = [at |-> a, cells |-> q] /\ Become(r)
    BY <1>7, <1>9
  <2> HIDE DEF q
  <2>4. scratch'.at = a /\ scratch'.cells = q
    BY <2>3
  <2>5. ScratchOK'
    BY <1>1, <1>2, <1>9, <2>2, <2>4 DEF ScratchOK, Spans, Off
  <2> QED
    BY <1>6, <2>1, <2>3, <2>5, BecomeSafe
<1> QED
  BY <1>8, <1>9

LEMMA StoreSafe ==
  ASSUME AccessInv, NEW a \in Nat, NEW n \in GuestWidths, NEW v \in Cells(n),
         Store(a, v)
  PROVE  Safe
<1> DEFINE m == Resident(Flushed, PageOf(a))
           r == BothResident(m, a, n)
           q == Poke(m, Native(m, a), v)
<1>1. n \in 1 .. PageSize /\ n \in Nat \ {0}
  OBVIOUS
<1>2. v \in Seq(Contents) /\ Len(v) = n
  BY <1>1 DEF Cells, Contents
<1>3. a + n <= Size /\ Size \in Nat /\ Size' = Size /\ pages' = pages /\ bulk = Idle
      /\ bulk' = bulk
  BY <1>2, SizeIs DEF Store, InBounds, Size
<1>4. a < Size
  BY <1>1, <1>3
<1>5. PageOf(a) \in Pages
  BY <1>4, InsideIs
<1>6. /\ m \in MemType /\ Reaches(mem, m)
      /\ m.cache.table[PageOf(a)] \in Slots
  BY <1>5, AccessReaches
<1>7. pages' \in InitialPages .. GrowLimit /\ BulkOK'
  BY <1>3 DEF AccessInv, BulkOK
<1>8. \/ ~Spans(a, n) /\ Become(q) /\ scratch' = Nothing
      \/ Spans(a, n) /\ Become(r) /\ scratch' = [at |-> a, cells |-> v]
  BY <1>2 DEF Store
<1> HIDE DEF m
<1>9. CASE ~Spans(a, n)
  <2>1. ScratchOK'
    BY <1>8, <1>9 DEF ScratchOK
  <2>2. Off(a) + Len(v) <= PageSize
    <3>1. Off(a) \in 0 .. PageSize - 1
      BY AddressIs DEF Offsets
    <3> QED
      BY <1>1, <1>2, <1>9, <3>1 DEF Spans
  <2>3. Reaches(m, q)
    BY <1>2, <1>5, <1>6, <2>2, PokeReaches
  <2>4. q \in MemType /\ Reaches(mem, q)
    BY <1>6, <2>3, ReachesOn DEF Reaches
  <2> HIDE DEF q
  <2> QED
    BY <1>7, <1>8, <1>9, <2>1, <2>4, BecomeSafe
<1>10. CASE Spans(a, n)
  <2>1. r \in MemType /\ Reaches(mem, r)
    BY <1>1, <1>3, <1>6, SpanReaches
  <2> HIDE DEF r
  <2>2. scratch'.at = a /\ scratch'.cells = v /\ Become(r)
    BY <1>8, <1>10
  <2>3. ScratchOK'
    BY <1>1, <1>2, <1>3, <1>10, <2>2 DEF ScratchOK, Spans, Off
  <2> QED
    BY <1>7, <2>1, <2>2, <2>3, BecomeSafe
<1> QED
  BY <1>9, <1>10

LEMMA IdleIs ==
  /\ Idle \in [kind : {"idle"}, at : Nat, from : Nat, left : Nat, cells : Seq(Contents)]
  /\ Idle.kind = "idle"
<1>1. <<>> \in Seq(Contents)
  OBVIOUS
<1> QED
  BY <1>1 DEF Idle

\* A bulk operation that begins, inside of guest memory if it is the guest's.
LEMMA BeginSafe ==
  ASSUME AccessInv, NEW op, Begin(op), op \in BulkType, Inside(op)
  PROVE  Safe
<1>1. Flushed \in MemType /\ Reaches(mem, Flushed)
  BY FlushReaches
<1>2. Become(Flushed) /\ scratch' = Nothing /\ bulk' = op /\ pages' = pages
  BY DEF Begin
<1>3. Size' = Size
  BY <1>2 DEF Size
<1>4. pages' \in InitialPages .. GrowLimit /\ ScratchOK'
  BY <1>2 DEF AccessInv, ScratchOK
<1>5. BulkOK'
  BY <1>2, <1>3 DEF BulkOK, Inside
<1> QED
  BY <1>1, <1>2, <1>4, <1>5, BecomeSafe

LEMMA BulkWriteSafe ==
  ASSUME AccessInv, NEW a \in Nat, NEW d \in Blocks, BulkWrite(a, d)
  PROVE  Safe
<1> DEFINE op == [Idle EXCEPT !.kind = "write", !.at = a, !.left = Len(d), !.cells = d]
<1>1. d \in Seq(Contents) /\ d # <<>> /\ Len(d) \in Nat \ {0}
  BY EmptySeq, LenProperties DEF Contents
<1>2. Begin(op) /\ a + Len(d) <= Size
  BY DEF BulkWrite, InBounds
<1>3. op \in BulkType /\ op.kind = "write" /\ op.at = a /\ op.left = Len(d) /\ op.cells = d
  BY <1>1, IdleIs DEF BulkType, Kinds, Writing
<1> HIDE DEF op
<1> QED
  BY <1>1, <1>2, <1>3, BeginSafe DEF Inside, Copying

LEMMA WriteBytesSafe ==
  ASSUME AccessInv, NEW a \in Nat, NEW d \in Blocks, WriteBytes(a, d)
  PROVE  Safe
<1> DEFINE op == [Idle EXCEPT !.kind = "host_write", !.at = a, !.left = Len(d),
                              !.cells = d]
<1>1. d \in Seq(Contents) /\ d # <<>> /\ Len(d) \in Nat \ {0}
  BY EmptySeq, LenProperties DEF Contents
<1>2. Begin(op)
  BY DEF WriteBytes
<1>3. op \in BulkType /\ op.kind = "host_write" /\ op.left = Len(d) /\ op.cells = d
  BY <1>1, IdleIs DEF BulkType, Kinds, Writing
<1> HIDE DEF op
<1> QED
  BY <1>1, <1>2, <1>3, BeginSafe DEF Inside, Copying

LEMMA ReadBytesSafe ==
  ASSUME AccessInv, NEW a \in Nat, NEW n \in Lengths, ReadBytes(a, n)
  PROVE  Safe
<1> DEFINE op == [Idle EXCEPT !.kind = "host_read", !.at = a, !.left = n]
<1>1. Begin(op)
  BY DEF ReadBytes
<1>2. op \in BulkType /\ op.kind = "host_read"
  BY IdleIs DEF BulkType, Kinds
<1> HIDE DEF op
<1> QED
  BY <1>1, <1>2, BeginSafe DEF Inside, Copying, Writing

LEMMA BulkCopySafe ==
  ASSUME AccessInv, NEW d \in Nat, NEW a \in Nat, NEW n \in Lengths,
         BulkCopy(d, a, n)
  PROVE  Safe
<1> DEFINE k == IF Overlaps(d, a, n) THEN "copy_down" ELSE "copy_up"
           op == [Idle EXCEPT !.kind = k, !.at = d, !.from = a, !.left = n]
<1>1. Begin(op) /\ d + n <= Size /\ a + n <= Size
  BY DEF BulkCopy, InBounds
<1>2. k \in Copying /\ k \notin Writing
  BY DEF Copying, Writing
<1> HIDE DEF k
<1>3. op \in BulkType /\ op.kind = k /\ op.at = d /\ op.from = a /\ op.left = n
  BY <1>2, IdleIs DEF BulkType, Kinds
<1> HIDE DEF op
<1> QED
  BY <1>1, <1>2, <1>3, BeginSafe DEF Inside

LEMMA LeastIs ==
  ASSUME NEW x \in Nat, NEW y \in Nat
  PROVE  Least({x, y}) \in {x, y} /\ Least({x, y}) <= x /\ Least({x, y}) <= y
<1>1. \E n \in {x, y} : \A k \in {x, y} : n <= k
  <2>1. CASE x <= y
    BY <2>1
  <2>2. CASE y <= x
    BY <2>2
  <2> QED
    BY <2>1, <2>2
<1>2. Least({x, y}) \in {x, y} /\ \A k \in {x, y} : Least({x, y}) <= k
  BY <1>1 DEF Least
<1> QED
  BY <1>2

\* A chunk is not empty and ends with the page, going up and going down.
LEMMA ChunkIs ==
  ASSUME NEW a \in Nat, NEW l \in Nat \ {0}
  PROVE  /\ Chunk(a, l) \in 1 .. l
         /\ Off(a) + Chunk(a, l) <= PageSize
<1>1. Off(a) \in 0 .. PageSize - 1
  BY AddressIs DEF Offsets
<1> DEFINE y == PageSize - Off(a)
<1>2. y \in Nat \ {0} /\ Off(a) + y = PageSize
  BY <1>1
<1>3. Chunk(a, l) = Least({l, y})
  BY DEF Chunk
<1> HIDE DEF y
<1> QED
  BY <1>1, <1>2, <1>3, LeastIs

LEMMA PageBefore ==
  ASSUME NEW a \in Nat, NEW j \in Nat, j <= Off(a)
  PROVE  a - j \in Nat /\ PageOf(a - j) = PageOf(a) /\ Off(a - j) = Off(a) - j
<1>1. /\ PageOf(a) \in Nat /\ Off(a) \in 0 .. PageSize - 1
      /\ a = PageOf(a) * PageSize + Off(a)
  BY AddressIs DEF Offsets
<1> DEFINE q == PageOf(a)
           r == Off(a) - j
<1>2. q \in Nat /\ r \in 0 .. PageSize - 1 /\ a - j = q * PageSize + r
  BY <1>1
<1> HIDE DEF q, r
<1>3. (q * PageSize + r) \div PageSize = q /\ (q * PageSize + r) % PageSize = r
  BY <1>2, DivUnique
<1>4. q * PageSize + r \in Nat
  BY <1>2
<1> QED
  BY <1>2, <1>3, <1>4 DEF PageOf, Off, q, r

LEMMA LastChunkIs ==
  ASSUME NEW a \in Nat, NEW l \in Nat \ {0}, NEW n \in 1 .. LastChunk(a, l)
  PROVE  /\ LastChunk(a, l) \in 1 .. l
         /\ a + (l - n) \in Nat
         /\ Off(a + (l - n)) + n <= PageSize
<1> DEFINE e == a + l - 1
           y == Off(e) + 1
<1>1. e \in Nat
  OBVIOUS
<1>2. Off(e) \in 0 .. PageSize - 1
  BY <1>1, AddressIs DEF Offsets
<1>3. LastChunk(a, l) = Least({l, y})
  BY DEF LastChunk
<1>4. y \in Nat \ {0}
  BY <1>2
<1> HIDE DEF y
<1>5. LastChunk(a, l) \in 1 .. l /\ LastChunk(a, l) <= y
  BY <1>3, <1>4, LeastIs
<1>6. n - 1 \in Nat /\ n - 1 <= Off(e) /\ n \in Nat /\ n <= l
  BY <1>2, <1>5 DEF y
<1>7. e - (n - 1) = a + (l - n) /\ a + (l - n) \in Nat
  BY <1>6
<1> HIDE DEF e
<1>8. Off(e - (n - 1)) = Off(e) - (n - 1)
  BY <1>1, <1>6, PageBefore
<1> QED
  BY <1>2, <1>5, <1>6, <1>7, <1>8

\* The operation that a chunk goes on with.
LEMMA BulkIs ==
  ASSUME AccessInv, bulk.kind \in Kinds
  PROVE  /\ bulk \in BulkType /\ scratch = Nothing /\ Inside(bulk)
         /\ bulk.at \in Nat /\ bulk.left \in Nat \ {0} /\ bulk.cells \in Seq(Contents)
  BY IdleIs DEF AccessInv, BulkOK, BulkType, Kinds, Copying, Writing

\* A step of an operation, which has more to do or is over.
LEMMA ChunkSafe ==
  ASSUME AccessInv, bulk.kind \in Kinds,
         NEW m \in MemType, Reaches(mem, m), Become(m),
         UNCHANGED <<up, pages, scratch>>,
         bulk' = Idle \/ (bulk' \in BulkType /\ Inside(bulk'))
  PROVE  Safe
<1>1. scratch = Nothing
  BY BulkIs
<1>2. Size' = Size
  BY DEF Size
<1>3. pages' \in InitialPages .. GrowLimit /\ ScratchOK'
  BY <1>1 DEF AccessInv, ScratchOK
<1>4. BulkOK'
  BY <1>1, <1>2 DEF BulkOK, Inside
<1> QED
  BY <1>3, <1>4, BecomeSafe

LEMMA WriteChunkSafe == ASSUME AccessInv, WriteChunk PROVE Safe
<1> DEFINE a == bulk.at
           l == bulk.left
           c == bulk.cells
           n == Chunk(a, l)
           x == SubSeq(c, 1, n)
           y == SubSeq(c, n + 1, Len(c))
           r == Reached(mem, a)
           m == Poke(r, Reach(r, a), x)
<1>1. /\ bulk.kind \in Writing /\ bulk.kind \in Kinds /\ bulk.kind \notin Copying
      /\ bulk \in BulkType /\ Inside(bulk) /\ Len(c) = l
      /\ a \in Nat /\ l \in Nat \ {0} /\ c \in Seq(Contents)
  BY BulkIs DEF WriteChunk, Writing, Kinds, Copying, Inside
<1>2. mem \in MemType /\ Reaches(mem, mem)
  BY ReachesSelf DEF AccessInv
<1>3. n \in 1 .. l /\ Off(a) + n <= PageSize
  BY <1>1, ChunkIs
<1>4. /\ Become(m) /\ UNCHANGED <<up, pages, scratch>>
      /\ bulk' = IF n = l THEN Idle
                 ELSE [bulk EXCEPT !.at = a + n, !.left = l - n, !.cells = y]
  BY <1>1 DEF WriteChunk, BulkType
<1> HIDE DEF n
<1>5. n \in Nat \ {0} /\ n <= l
  BY <1>1, <1>3
<1>6. x \in Seq(Contents) /\ Len(x) = n
  <2>1. n - 1 + 1 = n /\ n <= Len(c) /\ 1 <= n + 1
    BY <1>1, <1>5
  <2> QED
    BY <1>1, <1>5, <2>1, CutIs
<1>7. y \in Seq(Contents) /\ Len(y) = l - n
  <2>1. l - (n + 1) + 1 = l - n /\ l <= Len(c) /\ n + 1 <= l + 1 /\ n + 1 \in Nat \ {0}
    BY <1>1, <1>5
  <2> QED
    BY <1>1, <2>1, CutIs
<1> HIDE DEF x, y
<1>8. m \in MemType /\ Reaches(mem, m)
  BY <1>1, <1>2, <1>3, <1>6, ReachPoked
<1> HIDE DEF m
<1>9. bulk' = Idle \/ (bulk' \in BulkType /\ Inside(bulk'))
  <2>1. CASE n = l
    BY <1>4, <2>1
  <2>2. CASE n # l
    <3>1. bulk' = [bulk EXCEPT !.at = a + n, !.left = l - n, !.cells = y]
      BY <1>4, <2>2
    <3>2. l - n \in Nat \ {0} /\ a + n \in Nat /\ (a + n) + (l - n) = a + l
      BY <1>1, <1>5, <2>2
    <3>3. bulk.kind \in Copying \cup {"write"} => a + l <= Size
      BY <1>1 DEF Inside
    <3> HIDE DEF a, l, c
    <3>4. /\ bulk' \in BulkType /\ bulk'.at = a + n /\ bulk'.left = l - n
          /\ bulk'.kind = bulk.kind /\ bulk'.cells = y
      BY <1>1, <1>7, <3>1, <3>2 DEF BulkType
    <3> QED
      BY <1>1, <1>7, <3>2, <3>3, <3>4 DEF Inside
  <2> QED
    BY <2>1, <2>2
<1> QED
  BY <1>1, <1>4, <1>8, <1>9, ChunkSafe

LEMMA ReadChunkSafe == ASSUME AccessInv, ReadChunk PROVE Safe
<1> DEFINE a == bulk.at
           l == bulk.left
           n == Chunk(a, l)
           m == Reached(mem, a)
           k == Peek(m, Reach(m, a), n)
           y == bulk.cells \o k
<1>1. /\ bulk.kind = "host_read" /\ bulk.kind \in Kinds
      /\ bulk \in BulkType
      /\ a \in Nat /\ l \in Nat \ {0} /\ bulk.cells \in Seq(Contents)
  BY BulkIs DEF ReadChunk, Kinds
<1>2. mem \in MemType /\ Reaches(mem, mem)
  BY ReachesSelf DEF AccessInv
<1>3. n \in 1 .. l
  BY <1>1, ChunkIs
<1>4. /\ Become(m) /\ UNCHANGED <<up, pages, scratch>>
      /\ \/ bulk' = Idle
         \/ n # l /\ bulk' = [bulk EXCEPT !.at = a + n, !.left = l - n, !.cells = y]
  BY <1>1 DEF ReadChunk, BulkType
<1> HIDE DEF n
<1>5. n \in Nat \ {0} /\ n <= l
  BY <1>1, <1>3
<1>6. m \in MemType /\ Reaches(mem, m)
  BY <1>1, <1>2, ReachedIs
<1> HIDE DEF m
<1>7. k \in Seq(Contents)
  BY <1>5, <1>6, PeekIs
<1> HIDE DEF k
<1>8. y \in Seq(Contents)
  BY <1>1, <1>7
<1> HIDE DEF y
<1>9. bulk' = Idle \/ (bulk' \in BulkType /\ Inside(bulk'))
  <2>1. CASE bulk' = Idle
    BY <2>1
  <2>2. CASE n # l /\ bulk' = [bulk EXCEPT !.at = a + n, !.left = l - n, !.cells = y]
    <3>1. l - n \in Nat \ {0} /\ a + n \in Nat
      BY <1>1, <1>5, <2>2
    <3> HIDE DEF a, l
    <3>2. bulk' \in BulkType /\ bulk'.kind = "host_read"
      BY <1>1, <1>8, <2>2, <3>1 DEF BulkType
    <3> QED
      BY <3>2 DEF Inside, Copying, Writing
  <2> QED
    BY <1>4, <2>1, <2>2
<1> QED
  BY <1>1, <1>4, <1>6, <1>9, ChunkSafe

LEMMA MovedReaches ==
  ASSUME NEW m \in MemType, NEW d \in Nat, NEW a \in Nat, NEW n \in Nat,
         PageOf(d) \in Pages, PageOf(a) \in Pages, Off(d) + n <= PageSize
  PROVE  Moved(m, d, a, n) \in MemType /\ Reaches(m, Moved(m, d, a, n))
<1> DEFINE r == Resident(m, PageOf(a))
           k == Peek(r, Native(r, a), n)
           q == Put(r, d, k)
<1>1. r \in MemType /\ Reaches(m, r)
  BY ResidentReaches
<1>2. Moved(m, d, a, n) = q
  BY DEF Moved
<1> HIDE DEF r
<1>3. k \in Seq(Contents) /\ Len(k) = n
  BY <1>1, PeekIs
<1> HIDE DEF k
<1>4. q \in MemType /\ Reaches(r, q)
  BY <1>1, <1>3, PutReaches
<1> HIDE DEF q
<1> QED
  BY <1>1, <1>2, <1>4, ReachesOn

LEMMA CopyUpSafe == ASSUME AccessInv, CopyUpChunk PROVE Safe
<1> DEFINE a == bulk.at
           f == bulk.from
           l == bulk.left
           n == Least({Chunk(a, l), Chunk(f, l)})
           m == Moved(mem, a, f, n)
<1>1. /\ bulk \in BulkType /\ a + l <= Size /\ f + l <= Size
      /\ bulk.kind = "copy_up" /\ bulk.kind \in Kinds
      /\ a \in Nat /\ f \in Nat /\ l \in Nat \ {0}
  BY BulkIs DEF CopyUpChunk, BulkType, Kinds, Copying, Inside
<1>2. Size \in Nat /\ mem \in MemType
  BY SizeIs DEF AccessInv
<1>3. n \in Nat \ {0} /\ n <= l /\ Off(a) + n <= PageSize
  <2>1. /\ Chunk(a, l) \in 1 .. l /\ Chunk(f, l) \in 1 .. l
        /\ Off(a) + Chunk(a, l) <= PageSize
    BY <1>1, ChunkIs
  <2>2. n \in {Chunk(a, l), Chunk(f, l)} /\ n <= Chunk(a, l)
    BY <2>1, LeastIs
  <2>3. Off(a) \in 0 .. PageSize - 1
    BY <1>1, AddressIs DEF Offsets
  <2> HIDE DEF n
  <2> QED
    BY <1>1, <2>1, <2>2, <2>3
<1>4. /\ Become(m) /\ UNCHANGED <<up, pages, scratch>>
      /\ bulk' = IF n = l THEN Idle
                 ELSE [bulk EXCEPT !.at = a + n, !.from = f + n, !.left = l - n]
  BY <1>1 DEF CopyUpChunk, BulkType
<1> HIDE DEF n
<1>5. a < Size /\ f < Size
  BY <1>1, <1>2
<1>6. PageOf(a) \in Pages /\ PageOf(f) \in Pages
  BY <1>1, <1>5, InsideIs
<1>7. m \in MemType /\ Reaches(mem, m)
  BY <1>1, <1>2, <1>3, <1>6, MovedReaches
<1> HIDE DEF m
<1>8. \/ bulk' = Idle
      \/ /\ bulk' \in BulkType
         /\ bulk'.at + bulk'.left <= Size
         /\ bulk'.from + bulk'.left <= Size
         /\ bulk'.kind = "copy_up"
  <2>1. CASE n = l
    BY <1>4, <2>1
  <2>2. CASE n # l
    <3>1. bulk' = [bulk EXCEPT !.at = a + n, !.from = f + n, !.left = l - n]
      BY <1>4, <2>2
    <3>2. a \in Nat /\ f \in Nat /\ l \in Nat /\ n \in Nat /\ n <= l /\ n # l
      BY <1>1, <1>3, <2>2
    <3> HIDE DEF a, l, f
    <3>3. l - n \in Nat \ {0} /\ a + n \in Nat /\ f + n \in Nat
      BY <3>2
    <3>4. (a + n) + (l - n) = a + l /\ (f + n) + (l - n) = f + l
      BY <3>2
    <3>5. /\ bulk' \in BulkType /\ bulk'.at = a + n /\ bulk'.left = l - n
          /\ bulk'.kind = "copy_up" /\ bulk'.from = f + n
      BY <1>1, <3>1, <3>3 DEF BulkType
    <3> QED
      BY <1>1, <3>4, <3>5
  <2> QED
    BY <2>1, <2>2
<1>9. bulk' = Idle \/ (bulk' \in BulkType /\ Inside(bulk'))
  BY <1>8 DEF Inside, Copying, Writing
<1> QED
  BY <1>1, <1>2, <1>4, <1>7, <1>9, ChunkSafe

LEMMA CopyDownSafe == ASSUME AccessInv, CopyDownChunk PROVE Safe
<1> DEFINE a == bulk.at
           f == bulk.from
           l == bulk.left
           n == Least({LastChunk(a, l), LastChunk(f, l)})
           k == l - n
           m == Moved(mem, a + k, f + k, n)
<1>1. /\ bulk \in BulkType /\ a + l <= Size /\ f + l <= Size
      /\ bulk.kind = "copy_down" /\ bulk.kind \in Kinds
      /\ a \in Nat /\ f \in Nat /\ l \in Nat \ {0}
  BY BulkIs DEF CopyDownChunk, BulkType, Kinds, Copying, Inside
<1>2. Size \in Nat /\ mem \in MemType
  BY SizeIs DEF AccessInv
<1>3. n \in Nat \ {0} /\ n <= l /\ Off(a + (l - n)) + n <= PageSize
  <2>1. 1 \in 1 .. LastChunk(a, l) /\ 1 \in 1 .. LastChunk(f, l)
    <3>1. Off(a + l - 1) \in 0 .. PageSize - 1 /\ Off(f + l - 1) \in 0 .. PageSize - 1
      <4>1. a + l - 1 \in Nat /\ f + l - 1 \in Nat
        BY <1>1
      <4> QED
        BY <4>1, AddressIs DEF Offsets
    <3>2. l \in Nat /\ Off(a + l - 1) + 1 \in Nat /\ Off(f + l - 1) + 1 \in Nat
      BY <1>1, <3>1
    <3>3. /\ LastChunk(a, l) \in {l, Off(a + l - 1) + 1}
          /\ LastChunk(f, l) \in {l, Off(f + l - 1) + 1}
      BY <3>2, LeastIs DEF LastChunk
    <3> QED
      BY <1>1, <3>1, <3>3
  <2>2. LastChunk(a, l) \in 1 .. l /\ LastChunk(f, l) \in 1 .. l
    BY <1>1, <2>1, LastChunkIs
  <2>3. n \in {LastChunk(a, l), LastChunk(f, l)} /\ n <= LastChunk(a, l)
    BY <2>2, LeastIs
  <2> HIDE DEF n
  <2>4. n \in 1 .. LastChunk(a, l) /\ n \in Nat \ {0} /\ n <= l
    BY <1>1, <2>2, <2>3
  <2> QED
    BY <1>1, <2>4, LastChunkIs
<1>4. /\ Become(m) /\ UNCHANGED <<up, pages, scratch>>
      /\ bulk' = IF k = 0 THEN Idle ELSE [bulk EXCEPT !.left = k]
  BY DEF CopyDownChunk
<1> HIDE DEF n
<1>5. /\ n \in Nat /\ k \in Nat /\ a + k \in Nat /\ f + k \in Nat
      /\ a + k < Size /\ f + k < Size /\ a + k <= Size /\ f + k <= Size
  <2> HIDE DEF a, f, l, k
  <2>1. k \in Nat /\ k < l
    BY <1>1, <1>3 DEF k
  <2> QED
    BY <1>1, <1>2, <1>3, <2>1
<1>6. Off(a + k) + n <= PageSize
  BY <1>3
<1> HIDE DEF k
<1>7. PageOf(a + k) \in Pages /\ PageOf(f + k) \in Pages
  BY <1>5, InsideIs
<1>8. m \in MemType /\ Reaches(mem, m)
  BY <1>2, <1>5, <1>6, <1>7, MovedReaches
<1> HIDE DEF m
<1>9. \/ bulk' = Idle
      \/ /\ bulk' \in BulkType
         /\ bulk'.at + bulk'.left <= Size
         /\ bulk'.from + bulk'.left <= Size
         /\ bulk'.kind = "copy_down"
  <2>1. CASE k = 0
    BY <1>4, <2>1
  <2>2. CASE k # 0
    <3>1. bulk' = [bulk EXCEPT !.left = k]
      BY <1>4, <2>2
    <3>2. k \in Nat \ {0}
      BY <1>5, <2>2
    <3>3. /\ bulk' \in BulkType /\ bulk'.at = a /\ bulk'.left = k
          /\ bulk'.kind = "copy_down" /\ bulk'.from = f
      BY <1>1, <3>1, <3>2 DEF BulkType
    <3> QED
      BY <1>5, <3>3
  <2> QED
    BY <2>1, <2>2
<1>10. bulk' = Idle \/ (bulk' \in BulkType /\ Inside(bulk'))
  BY <1>9 DEF Inside, Copying, Writing
<1> QED
  BY <1>1, <1>2, <1>4, <1>8, <1>10, ChunkSafe

LEMMA HostLoadSafe ==
  ASSUME AccessInv, NEW a \in Addresses, NEW n \in HostWidths, HostLoad(a, n)
  PROVE  Safe
<1> DEFINE m == Reached(Flushed, a)
<1>1. a \in Nat /\ Flushed \in MemType /\ Reaches(mem, Flushed)
  BY FlushReaches DEF Addresses
<1>2. /\ pages' = pages /\ bulk = Idle /\ bulk' = bulk
      /\ Become(m) /\ scratch' = Nothing
  BY DEF HostLoad
<1>3. m \in MemType /\ Reaches(mem, m)
  BY <1>1, ReachedIs
<1> HIDE DEF m
<1>4. pages' \in InitialPages .. GrowLimit /\ BulkOK' /\ ScratchOK'
  BY <1>2 DEF AccessInv, BulkOK, ScratchOK
<1> QED
  BY <1>2, <1>3, <1>4, BecomeSafe

\* Only a scalar of one cell is sure to stay in the page it was translated
\* for: a wider one may go on behind the hot window.
LEMMA HostStoreSafe ==
  ASSUME AccessInv, NEW a \in Nat, NEW n \in HostWidths, NEW v \in Cells(n),
         HostStore(a, v)
  PROVE  Safe
<1> DEFINE m == Reached(Flushed, a)
           q == Poke(m, Reach(m, a), v)
<1>1. n \in 1 .. PageSize /\ v \in Seq(Contents) /\ Len(v) = n
  BY DEF Cells, Contents
<1>2. /\ pages' = pages /\ bulk = Idle /\ bulk' = bulk
      /\ Become(q) /\ scratch' = Nothing
  BY DEF HostStore
<1>3. Flushed \in MemType /\ Reaches(mem, Flushed)
  BY FlushReaches
<1>4. /\ m \in MemType /\ Reaches(mem, m)
      /\ a < Size => /\ PageOf(a) \in Pages /\ m = Resident(Flushed, PageOf(a))
                     /\ m.cache.table[PageOf(a)] \in Slots
                     /\ Reach(m, a) = Native(m, a)
      /\ ~(a < Size) => m = Flushed /\ Reach(m, a) = Nowhere
  BY <1>3, ReachedIs, Zenon
<1>5. pages' \in InitialPages .. GrowLimit /\ BulkOK' /\ ScratchOK'
  BY <1>2 DEF AccessInv, BulkOK, ScratchOK
<1>6. Off(a) \in 0 .. PageSize - 1 /\ Off(a) \in Offsets
  BY AddressIs DEF Offsets
<1>7. ASSUME HostWidths \subseteq {1} PROVE q \in MemType /\ Reaches(mem, q)
  <2>1. Off(a) + Len(v) <= PageSize
    BY <1>1, <1>6, <1>7
  <2> QED
    BY <1>1, <1>3, <2>1, ReachPoked
<1>8. q \in MemType /\ q.cache = m.cache
  <2>1. CASE a < Size
    <3>1. Native(m, a) \in Nat
      BY <1>4, <1>6, <2>1, WindowIs DEF Native
    <3> QED
      BY <1>1, <1>4, <2>1, <3>1, PokeIs
  <2>2. CASE ~(a < Size)
    <3>1. q = m
      BY <1>1, <1>4, <2>2, PokeNowhere
    <3> QED
      BY <1>4, <3>1
  <2> QED
    BY <2>1, <2>2
<1> HIDE DEF q, m
<1>9. CASE HostWidths \subseteq {1}
  BY <1>2, <1>5, <1>7, <1>9, BecomeSafe
<1>10. CASE ~(HostWidths \subseteq {1})
  <2>1. mem' = q /\ cache' = q.cache /\ mem.cache = cache
    BY <1>2, <1>8, BecomeIs DEF mem
  <2>2. AccessInv'
    BY <1>5, <1>8, <2>1 DEF AccessInv
  <2>3. up = Serves /\ CacheOK(cache) => CacheOK(cache')
    BY <1>4, <1>8, <2>1 DEF Reaches
  <2> QED
    BY <1>10, <2>2, <2>3 DEF Safe
<1> QED
  BY <1>9, <1>10

\* Memory that moves keeps what was not flushed: the types and the maps are
\* those after the flush all the same.
LEMMA GrowSafe ==
  ASSUME AccessInv, NEW n \in 1 .. GrowLimit, NEW moves \in BOOLEAN, Grow(n, moves)
  PROVE  Safe
<1> DEFINE m == Flushed
           r == [phys |-> IF moves THEN phys ELSE m.phys, cache |-> m.cache,
                 backend |-> m.backend]
<1>1. m \in MemType /\ Reaches(mem, m)
  BY FlushReaches
<1>2. /\ phys' = r.phys /\ cache' = r.cache /\ backend' = r.backend
      /\ scratch' = Nothing /\ bulk' = bulk /\ bulk = Idle
      /\ pages' = pages + n /\ pages + n <= GrowLimit
  BY DEF Grow
<1> HIDE DEF m
<1>3. mem \in MemType /\ mem.phys = phys /\ mem.cache = cache
  BY DEF AccessInv, mem
<1>4. r \in MemType /\ Reaches(mem, r)
  BY <1>1, <1>3 DEF MemType, Reaches
<1>5. pages' \in InitialPages .. GrowLimit
  BY <1>2 DEF AccessInv
<1>6. BulkOK' /\ ScratchOK'
  BY <1>2 DEF BulkOK, ScratchOK
<1>7. Become(r)
  BY <1>2 DEF Become
<1> HIDE DEF r
<1> QED
  BY <1>4, <1>5, <1>6, <1>7, BecomeSafe

LEMMA StutterSafe ==
  ASSUME AccessInv, UNCHANGED <<phys, cache, backend, pages, scratch, bulk>>
  PROVE  Safe
<1>1. mem' = mem
  BY DEF mem
<1>2. ScratchOK' /\ BulkOK'
  BY DEF AccessInv, ScratchOK, BulkOK, Inside, Size
<1> QED
  BY <1>1, <1>2 DEF Safe, AccessInv

LEMMA NextSafe == ASSUME AccessInv, [Next]_vars PROVE Safe
<1>1. Addresses \subseteq Nat /\ Targets \subseteq Nat
  BY DEF Addresses
<1>2. CASE Guest
  BY <1>1, <1>2, LoadSafe, StoreSafe DEF Guest
<1>3. CASE Bulk
  BY <1>1, <1>3, BulkWriteSafe, ReadBytesSafe, WriteBytesSafe, BulkCopySafe DEF Bulk
<1>4. CASE Step
  BY <1>4, WriteChunkSafe, ReadChunkSafe, CopyUpSafe, CopyDownSafe DEF Step
<1>5. CASE Host
  BY <1>1, <1>5, HostLoadSafe, HostStoreSafe DEF Host
<1>6. CASE Grows
  BY <1>6, GrowSafe DEF Grows
<1>7. CASE BackendFails
  BY <1>7, StutterSafe DEF BackendFails
<1>8. CASE UNCHANGED vars
  BY <1>8, StutterSafe DEF vars
<1> QED
  BY <1>2, <1>3, <1>4, <1>5, <1>6, <1>7, <1>8 DEF Next

\* Only the backend itself comes up or fails.
LEMMA UpStays == ASSUME [Next]_vars, ~MayFail PROVE up' = up
<1>1. CASE Guest
  BY <1>1 DEF Guest, Load, Store
<1>2. CASE Bulk
  BY <1>2 DEF Bulk, BulkWrite, ReadBytes, WriteBytes, BulkCopy, Begin
<1>3. CASE Step
  BY <1>3 DEF Step, WriteChunk, ReadChunk, CopyUpChunk, CopyDownChunk
<1>4. CASE Host \/ Grows \/ BackendFails
  BY <1>4 DEF Host, HostLoad, HostStore, Grows, Grow, BackendFails
<1>5. CASE UNCHANGED vars
  BY <1>5 DEF vars
<1> QED
  BY <1>1, <1>2, <1>3, <1>4, <1>5 DEF Next

-----------------------------------------------------------------------------
(* The initial states: nothing is loaded, and what the seed has found is   *)
(* in the backend.                                                         *)

LEMMA InitSafe == Init => AccessInv /\ up = Serves /\ CacheOK(cache)
<1> SUFFICES ASSUME NEW f \in Memories, InitWith(f)
             PROVE  AccessInv /\ up = Serves /\ CacheOK(cache)
  BY DEF Init
<1>1. /\ f \in [0 .. InitialPages * PageSize - 1 -> Values]
      /\ Values \subseteq Contents /\ Zero \in Contents
  BY DEF Contents
<1>2. phys \in [Physical -> Contents]
  BY <1>1 DEF InitWith
<1>3. ASSUME NEW p \in Pages, NEW o \in Offsets, p < InitialPages
      PROVE  f[p * PageSize + o] \in Contents
  <2>1. p * PageSize + PageSize <= InitialPages * PageSize
    BY <1>3, FewerPages DEF Pages
  <2>2. p * PageSize \in Nat /\ InitialPages * PageSize \in Nat
    BY DEF Pages
  <2> DEFINE x == p * PageSize
             y == InitialPages * PageSize
  <2>3. f \in [0 .. y - 1 -> Values]
    BY <1>1
  <2>4. o \in Nat /\ o < PageSize /\ x \in Nat /\ y \in Nat /\ x + PageSize <= y
    BY <2>1, <2>2 DEF Offsets
  <2> HIDE DEF x, y
  <2>5. x + o \in 0 .. y - 1
    BY <2>4
  <2>6. f[x + o] \in Contents
    BY <1>1, <2>3, <2>5
  <2> QED
    BY <2>6 DEF x
<1>4. backend \in [Pages -> [Offsets -> Contents]]
  <2>1. \A p \in Pages, o \in Offsets :
          (IF Seeded(f, p) THEN f[p * PageSize + o] ELSE Zero) \in Contents
    BY <1>1, <1>3 DEF Seeded
  <2> HIDE DEF Pages, Offsets
  <2>2. backend = [p \in Pages |-> [o \in Offsets |->
                     IF Seeded(f, p) THEN f[p * PageSize + o] ELSE Zero]]
    BY DEF InitWith
  <2> HIDE DEF Seeded
  <2> QED
    BY <2>1, <2>2
<1>5. /\ cache.table = [p \in Pages |-> Invalid]
      /\ cache.mapped = [s \in Slots |-> None]
      /\ cache.owner = [s \in Slots |-> None]
      /\ cache \in CacheType
  BY DEF InitWith, CacheType, Slots
<1>6. CacheOK(cache)
  <2>1. Invalid \notin Slots /\ None \notin Pages
    BY DEF Invalid, Slots, None, Pages
  <2>2. cache.hand \in Slots
    BY <1>5 DEF CacheType
  <2>3. LastOf(cache) \in Slots
    BY <2>2 DEF LastOf, Slots
  <2> QED
    BY <1>5, <2>1, <2>3 DEF CacheOK, MapsOK, LastMarked
<1>7. mem \in MemType
  BY <1>2, <1>4, <1>5 DEF mem, MemType
<1>8. pages \in InitialPages .. GrowLimit /\ scratch = Nothing /\ bulk = Idle /\ up = Serves
  BY DEF InitWith
<1> QED
  BY <1>6, <1>7, <1>8 DEF AccessInv, ScratchOK, BulkOK

-----------------------------------------------------------------------------
(* The theorems.                                                           *)

\* The guest's own accesses stay inside of guest memory to their last chunk
\* and their last staged cell, though memory may grow in between and reads
\* and writes of the backend may fail, each on its own; every table stays
\* inside of its bounds.  Of the host's accesses, which nothing keeps inside,
\* only the tables are claimed.  The type invariant follows from it.
THEOREM AccessInvariance == Spec => []AccessInv
<1>1. Init => AccessInv
  BY InitSafe
<1>2. AccessInv /\ [Next]_vars => AccessInv'
  BY NextSafe DEF Safe
<1> QED
  BY <1>1, <1>2, PTL DEF Spec

\* The page table never leads out of the hot window, a staged access is one
\* that crosses a page, and nothing is staged while a bulk operation runs
\* (paged_mem.c:86, paged_mem.c:188).
THEOREM PagesKeepTypes == Spec => []TypeOK
<1>1. AccessInv => TypeOK
  <2> SUFFICES ASSUME AccessInv PROVE TypeOK
    OBVIOUS
  <2>1. /\ phys \in [Physical -> Contents] /\ cache \in CacheType
        /\ backend \in [Pages -> [Offsets -> Contents]]
    BY DEF AccessInv, mem, MemType
  <2>2. bulk # Idle => bulk.left > 0 /\ scratch = Nothing
    BY DEF AccessInv, BulkOK, BulkType
  <2> QED
    BY <2>1, <2>2 DEF AccessInv, ScratchOK, TypeOK
<1> QED
  BY <1>1, AccessInvariance, PTL

\* As long as no fault fails, the three maps agree and the slot behind the
\* hand is marked.
THEOREM MapsInvariance ==
  ASSUME ~MayFail
  PROVE  Spec => [](AccessInv /\ up = Serves /\ CacheOK(cache))
<1> DEFINE Inv == AccessInv /\ up = Serves /\ CacheOK(cache)
<1>1. Init => Inv
  BY InitSafe
<1>2. Inv /\ [Next]_vars => Inv'
  <2> SUFFICES ASSUME AccessInv, up = Serves, CacheOK(cache), [Next]_vars PROVE Inv'
    OBVIOUS
  <2>1. Safe /\ up' = up
    BY NextSafe, UpStays
  <2> QED
    BY <2>1 DEF Safe
<1> QED
  BY <1>1, <1>2, PTL DEF Spec

\* The kernel's page table, its slot_to_page and the host's slotToPage agree
\* in every state of a run whose backend never throws (guest_memory.js:57).
THEOREM MapsStayTogether ==
  ASSUME ~MayFail
  PROVE  Spec => []MapsAgree
<1>1. CacheOK(cache) => MapsAgree
  BY DEF CacheOK, MapsOK, MapsAgree
<1> QED
  BY <1>1, MapsInvariance, PTL

\* The slot behind the hand is marked, and the hand comes to it last.
LEMMA MarkedIsNoVictim ==
  ASSUME NEW c \in CacheType, CacheOK(c), HotWindow > 1,
         NEW p \in Pages, c.table[p] = Invalid, c.owner[LastOf(c)] # None
  PROVE  AllocatedSlot(c, p) # LastOf(c)
<1> DEFINE last == LastOf(c)
           a == AllocatedSlot(c, p)
<1>1. c.hand \in Slots /\ last \in Slots /\ last # c.hand
  <2>1. c.hand \in 0 .. HotWindow - 1 /\ HotWindow \in Nat \ {0}
    BY DEF CacheType, Slots
  <2>2. CASE c.hand = 0
    <3>1. HotWindow - 1 \in 0 .. HotWindow - 1
      BY <2>1
    <3>2. (HotWindow - 1) % HotWindow = HotWindow - 1
      BY <2>1, <3>1, Rest
    <3>3. last = HotWindow - 1
      BY <2>1, <2>2, <3>2 DEF LastOf
    <3> QED
      BY <2>1, <2>2, <3>3 DEF Slots
  <2>3. CASE c.hand # 0
    <3> DEFINE r == c.hand - 1
    <3>1. r \in 0 .. HotWindow - 1 /\ c.hand + HotWindow - 1 = r + HotWindow
      BY <2>1, <2>3
    <3> HIDE DEF r
    <3>2. (r + HotWindow) % HotWindow = r
      BY <2>1, <3>1, Rest
    <3>3. last = r
      BY <3>1, <3>2 DEF LastOf
    <3> QED
      BY <2>1, <2>3, <3>1, <3>3 DEF Slots, r
  <2> QED
    BY <2>2, <2>3
<1>2. CASE Free(c) # {}
  <2>1. a \in Free(c)
    BY <1>2, AllocatedIs
  <2> QED
    BY <2>1 DEF Free
<1>3. CASE Free(c) = {}
  <2>1. Victims(c, p) = Slots
    <3>1. Invalid \notin Slots
      BY DEF Invalid, Slots
    <3>2. \A s \in Slots : c.owner[s] # p
      BY <3>1 DEF CacheOK, MapsOK
    <3> QED
      BY <3>2 DEF Victims
  <2>2. CASE Cold(c, p) # {}
    <3>1. Cold(c, p) \in SUBSET Slots
      BY DEF Cold, Victims
    <3>2. a \in Cold(c, p)
      BY <1>3, <2>2, <3>1, FirstOfIs DEF AllocatedSlot
    <3>3. ~c.refbit[a]
      BY <3>2 DEF Cold
    <3>4. c.refbit[last]
      BY DEF CacheOK, LastMarked
    <3> QED
      BY <3>3, <3>4
  <2>3. CASE Cold(c, p) = {}
    <3>1. a = FirstOf(c, Slots)
      BY <1>1, <1>3, <2>1, <2>3 DEF AllocatedSlot
    <3>2. a \in Slots /\ Sweep(c, a) <= Sweep(c, c.hand)
      BY <1>1, <3>1, FirstOfIs
    <3>3. a = c.hand
      BY <1>1, <3>2 DEF Sweep, Slots
    <3> QED
      BY <1>1, <3>3
  <2> QED
    BY <2>2, <2>3
<1> QED
  BY <1>2, <1>3

\* The page loaded last, and only that page, is never the victim of the
\* fault that comes next, for any size of the window above one and any
\* history of faults, sweeps of the hand and grown memory (page_cache.js:102).
THEOREM LoadedPageStays ==
  ASSUME ~MayFail
  PROVE  Spec => []LastLoadedStays
<1>1. AccessInv /\ CacheOK(cache) => LastLoadedStays
  BY MarkedIsNoVictim DEF LastLoadedStays, LastOf, AccessInv, mem, MemType
<1> QED
  BY <1>1, MapsInvariance, PTL

\* Two pages faulted in one after the other are both there, if the window has
\* two slots: what paged_mem_cross_page counts on, and a page that was there
\* before does not get (StagedFromPages).
FaultedPagesFit ==
  HotWindow > 1 =>
    \A p, q \in {p \in Pages : cache.table[p] = Invalid} :
      LET m == Resident(Resident(mem, p), q)
      IN  p # q => Invalid \notin {m.cache.table[p], m.cache.table[q]}

\* What a fault that is served makes of the maps.
LEMMA FaultTurns ==
  ASSUME up = Serves, NEW m \in MemType, CacheOK(m.cache),
         NEW p \in Pages, m.cache.table[p] = Invalid,
         NEW s, s = AllocatedSlot(m.cache, p),
         NEW r, r = Fault(m, p)
  PROVE  /\ r \in MemType /\ CacheOK(r.cache)
         /\ s \in Slots /\ r.cache.table[p] = s /\ r.cache.owner[s] = p
         /\ LastOf(r.cache) = s
         /\ \A q \in Pages : q # p =>
              r.cache.table[q] = IF q = m.cache.owner[s] THEN Invalid
                                 ELSE m.cache.table[q]
<1> DEFINE c == m.cache
           l == Loaded(c, p)
<1>1. c \in CacheType /\ s \in Slots /\ c.mapped = c.owner
  BY AllocatedIs DEF MemType, CacheOK, MapsOK
<1>2. r.cache = Reconcile(l, p, s)
  BY AllServed, FaultServed
<1>3. r \in MemType /\ CacheOK(r.cache) /\ r.cache.table[p] = s
  <2>1. Reaches(m, r)
    BY FaultReaches
  <2>2. r.cache.table[p] = s
    BY <1>1, <1>2, LoadKeepsMaps
  <2> QED
    BY <2>1, <2>2 DEF Reaches
<1>4. l \in CacheType /\ l.table = c.table /\ l.mapped = c.mapped
      /\ l.hand = (s + 1) % HotWindow
  BY <1>1, LoadedIs
<1> HIDE DEF l, c
<1>5. /\ \A q \in Pages : r.cache.table[q]
           = IF q = p THEN s ELSE IF q = l.mapped[s] THEN Invalid ELSE l.table[q]
      /\ r.cache.hand = l.hand
  BY <1>1, <1>2, <1>4, ReconcileIs
<1>6. LastOf(r.cache) = s
  BY <1>1, <1>4, <1>5, HandPassed DEF LastOf
<1>7. r.cache.owner[s] = p
  BY <1>1, <1>3 DEF CacheOK, MapsOK
<1> QED
  BY <1>1, <1>3, <1>4, <1>5, <1>6, <1>7 DEF c

\* Two pages that are both absent are both there after their faults, if the
\* window has two slots (paged_mem.c:188, page_cache.js:14): the second fault
\* takes another slot than the first, whatever the hand has passed.  Nothing
\* is said of a page that was resident before the faults.
THEOREM FaultedPagesStay ==
  ASSUME ~MayFail
  PROVE  Spec => []FaultedPagesFit
<1>1. AccessInv /\ up = Serves /\ CacheOK(cache) => FaultedPagesFit
  <2> SUFFICES ASSUME mem \in MemType, up = Serves, CacheOK(mem.cache), HotWindow > 1,
                      NEW p \in Pages, NEW q \in Pages, p # q,
                      mem.cache.table[p] = Invalid, mem.cache.table[q] = Invalid
               PROVE  LET m == Resident(Resident(mem, p), q)
                      IN  /\ m.cache.table[p] # Invalid
                          /\ m.cache.table[q] # Invalid
    BY DEF FaultedPagesFit, AccessInv, mem
  <2> DEFINE m == Fault(mem, p)
             r == Fault(m, q)
             s == AllocatedSlot(mem.cache, p)
             t == AllocatedSlot(m.cache, q)
  <2>1. /\ m \in MemType /\ CacheOK(m.cache) /\ s \in Slots
        /\ m.cache.table[p] = s /\ m.cache.owner[s] = p /\ LastOf(m.cache) = s
        /\ m.cache.table[q] = Invalid
    BY FaultTurns
  <2>2. Resident(Resident(mem, p), q) = r
    BY <2>1 DEF Resident
  <2> HIDE DEF m, s
  <2>3. /\ t \in Slots /\ r.cache.table[q] = t
        /\ r.cache.table[p] = IF p = m.cache.owner[t] THEN Invalid
                              ELSE m.cache.table[p]
    BY <2>1, FaultTurns
  <2>4. Invalid \notin Slots /\ None \notin Pages
    BY DEF Invalid, Slots, None, Pages
  <2>5. t # s
    BY <2>1, <2>4, MarkedIsNoVictim DEF MemType
  <2>6. m.cache.owner[t] # p
    <3>1. m.cache.owner[t] = p => m.cache.table[p] = t
      BY <2>1, <2>3 DEF CacheOK, MapsOK
    <3> QED
      BY <2>1, <2>5, <3>1
  <2> HIDE DEF r, t
  <2>7. r.cache.table[p] # Invalid /\ r.cache.table[q] # Invalid
    BY <2>1, <2>3, <2>4, <2>6
  <2> QED
    BY <2>2, <2>7
<1> QED
  BY <1>1, MapsInvariance, PTL

\* A host that reads and writes single cells never touches memory behind
\* the hot window, even if faults fail (paged_mem.c:81-86).
THEOREM WindowIsAll ==
  ASSUME HostWidths \subseteq {1}
  PROVE  Spec => ColdUntouched
<1>1. AccessInv /\ [Next]_vars =>
        [\A i \in Physical : i >= HotWindow * PageSize => phys'[i] = phys[i]]_vars
  BY NextSafe DEF Safe
<1> QED
  BY <1>1, AccessInvariance, PTL DEF Spec, ColdUntouched

-----------------------------------------------------------------------------
(* Paged memory is linear memory: KeptSpec implements FlatMemory.  First,   *)
(* what the tables of a memory m show at address a.                        *)

Seen(m, a) ==
  IF m.cache.table[PageOf(a)] # Invalid THEN Fetch(m, Native(m, a))
  ELSE m.backend[PageOf(a)][Off(a)]

Sound(m) == m \in MemType /\ CacheOK(m.cache)

\* Two memories show the same.
Alike(m, r) == Sound(r) /\ \A x \in Physical : Seen(r, x) = Seen(m, x)

In(x, a, n) == a <= x /\ x < a + n

\* The memory r shows the cells c at address a, and what m shows elsewhere.
Pasted(m, r, a, c) ==
  /\ Sound(r)
  /\ \A x \in Physical : /\ In(x, a, Len(c)) => Seen(r, x) = c[x - a + 1]
                         /\ ~In(x, a, Len(c)) => Seen(r, x) = Seen(m, x)

\* Where pages and slots start.
LEMMA BaseIs ==
  ASSUME NEW q \in Nat
  PROVE  q * PageSize \in Nat
  OBVIOUS

LEMMA BasesApart ==
  ASSUME NEW q \in Nat, NEW g \in Nat, q < g
  PROVE  q * PageSize + PageSize <= g * PageSize
  BY FewerPages

LEMMA PageIs ==
  ASSUME NEW x \in Physical
  PROVE  /\ x \in Nat /\ PageOf(x) \in Pages /\ Off(x) \in Offsets
         /\ x = PageOf(x) * PageSize + Off(x)
<1>1. x \in Nat /\ x < GrowLimit * PageSize
  BY DEF Physical
<1> QED
  BY <1>1, AddressIs, PageInTable

\* A resident page is seen in its slot, any other one in the backend.
LEMMA SeenIs ==
  ASSUME NEW m \in MemType, NEW x \in Physical
  PROVE  /\ \A s \in Slots : m.cache.table[PageOf(x)] = s =>
              /\ Seen(m, x) = m.phys[s * PageSize + Off(x)]
              /\ Native(m, x) = s * PageSize + Off(x)
              /\ Native(m, x) \in Physical
         /\ m.cache.table[PageOf(x)] = Invalid =>
              Seen(m, x) = m.backend[PageOf(x)][Off(x)]
<1>1. Off(x) \in Offsets
  BY PageIs
<1>2. ASSUME NEW s \in Slots, m.cache.table[PageOf(x)] = s
      PROVE  /\ Seen(m, x) = m.phys[s * PageSize + Off(x)]
             /\ Native(m, x) = s * PageSize + Off(x)
             /\ Native(m, x) \in Physical
  <2>1. s # Invalid
    BY DEF Slots, Invalid
  <2>2. Native(m, x) = s * PageSize + Off(x)
    BY <1>2 DEF Native
  <2>3. Native(m, x) \in Physical
    BY <1>1, <2>2, WindowIs
  <2> QED
    BY <1>2, <2>1, <2>2, <2>3 DEF Seen, Fetch
<1>3. m.cache.table[PageOf(x)] = Invalid =>
        Seen(m, x) = m.backend[PageOf(x)][Off(x)]
  BY DEF Seen
<1> QED
  BY <1>2, <1>3

\* The host writes the victim back before it reads the page, and the kernel
\* forgets the victim: nobody sees the fault.
LEMMA FaultUnseen ==
  ASSUME up = Serves, NEW m, Sound(m), NEW p \in Pages, m.cache.table[p] = Invalid
  PROVE  Alike(m, Fault(m, p))
<1> DEFINE c == m.cache
           s == AllocatedSlot(c, p)
           v == c.owner[s]
           f == OnPageFault(m, p)
           k == Reconcile(Loaded(c, p), p, s)
           r == Fault(m, p)
<1>1. m \in MemType /\ CacheOK(c) /\ c \in CacheType
  BY DEF Sound, MemType
<1>2. s \in Slots
  BY <1>1, AllocatedIs
<1>3. /\ r \in MemType /\ CacheOK(r.cache)
  BY <1>1, FaultReaches DEF Reaches
<1>4. r.phys = f.phys /\ r.cache = k /\ r.backend = f.backend
  <2>1. Needed(m, p) \subseteq up
    BY AllServed
  <2> QED
    BY <1>1, <2>1, FaultServed
<1>5. \A q \in Pages : k.table[q] = IF q = p THEN s ELSE IF q = v THEN Invalid
                                     ELSE c.table[q]
  <2>1. c.mapped = c.owner
    BY <1>1 DEF CacheOK, MapsOK
  <2> DEFINE l == Loaded(c, p)
  <2>2. l \in CacheType /\ l.table = c.table /\ l.mapped = c.mapped
    BY <1>1, LoadedIs
  <2> HIDE DEF l
  <2>3. \A q \in Pages : Reconcile(l, p, s).table[q]
          = IF q = p THEN s ELSE IF q = l.mapped[s] THEN Invalid ELSE l.table[q]
    BY <1>2, <2>2, ReconcileIs
  <2> QED
    BY <2>1, <2>2, <2>3 DEF l
<1>6. /\ \A q \in Pages, o \in Offsets :
           f.backend[q][o] = IF q = v THEN m.phys[s * PageSize + o]
                                       ELSE m.backend[q][o]
      /\ \A i \in Physical :
           f.phys[i] = IF PageOf(i) = s THEN f.backend[p][Off(i)] ELSE m.phys[i]
  BY <1>1, OnPageFaultIs
<1>7. \A q \in Pages, t \in Slots : c.table[q] = t <=> c.owner[t] = q
  BY <1>1 DEF CacheOK, MapsOK
<1>8. \A q \in Pages : c.table[q] \in Slots \cup {Invalid}
  BY <1>1 DEF CacheType
<1>9. Invalid \notin Slots
  BY DEF Slots, Invalid
<1> HIDE DEF f, k, r, s, v
<1>10. v # p
  BY <1>2, <1>7, <1>9 DEF v
<1> SUFFICES ASSUME NEW x \in Physical PROVE Seen(r, x) = Seen(m, x)
  BY <1>3 DEF Alike, Sound, r
<1> DEFINE q == PageOf(x)
           o == Off(x)
<1>11. q \in Pages /\ o \in Offsets
  BY PageIs
<1>12. CASE q = p
  <2>1. Seen(r, x) = r.phys[s * PageSize + o]
    BY <1>2, <1>3, <1>4, <1>5, <1>11, <1>12, SeenIs
  <2>2. /\ s * PageSize + o \in Physical /\ PageOf(s * PageSize + o) = s
        /\ Off(s * PageSize + o) = o
    BY <1>2, <1>11, WindowIs
  <2>3. r.phys[s * PageSize + o] = m.backend[p][o]
    BY <1>4, <1>6, <1>10, <1>11, <2>2
  <2>4. Seen(m, x) = m.backend[q][o]
    BY <1>1, <1>12, SeenIs
  <2> QED
    BY <1>12, <2>1, <2>3, <2>4
<1>13. CASE q # p /\ q = v
  <2>1. c.table[q] = s
    BY <1>2, <1>7, <1>11, <1>13 DEF v
  <2>2. Seen(m, x) = m.phys[s * PageSize + o]
    BY <1>1, <1>2, <2>1, SeenIs
  <2>3. Seen(r, x) = r.backend[q][o]
    BY <1>3, <1>4, <1>5, <1>11, <1>13, SeenIs
  <2> QED
    BY <1>4, <1>6, <1>11, <1>13, <2>2, <2>3
<1>14. CASE q # p /\ q # v
  <2>1. k.table[q] = c.table[q]
    BY <1>5, <1>11, <1>14
  <2>2. CASE c.table[q] = Invalid
    <3>1. Seen(m, x) = m.backend[q][o] /\ Seen(r, x) = r.backend[q][o]
      BY <1>1, <1>3, <1>4, <2>1, <2>2, SeenIs
    <3> QED
      BY <1>4, <1>6, <1>11, <1>14, <3>1
  <2>3. CASE c.table[q] # Invalid
    <3> DEFINE t == c.table[q]
    <3>1. t \in Slots /\ t # s
      BY <1>2, <1>7, <1>8, <1>11, <1>14, <2>3 DEF v
    <3>2. Seen(m, x) = m.phys[t * PageSize + o] /\ Seen(r, x) = r.phys[t * PageSize + o]
      BY <1>1, <1>3, <1>4, <2>1, <3>1, SeenIs
    <3>3. t * PageSize + o \in Physical /\ PageOf(t * PageSize + o) = t
      BY <1>11, <3>1, WindowIs
    <3> QED
      BY <1>4, <1>6, <3>1, <3>2, <3>3
  <2> QED
    BY <2>2, <2>3
<1> QED
  BY <1>12, <1>13, <1>14

LEMMA ResidentUnseen ==
  ASSUME up = Serves, NEW m, Sound(m), NEW p \in Pages
  PROVE  Alike(m, Resident(m, p)) /\ Resident(m, p).cache.table[p] \in Slots
<1>1. Resident(m, p).cache.table[p] \in Slots
  BY ResidentReaches DEF Sound
<1>2. Alike(m, Resident(m, p))
  BY FaultUnseen DEF Resident, Alike
<1> QED
  BY <1>1, <1>2

\* A write within a resident page is seen where it was written.
LEMMA PokeSeen ==
  ASSUME NEW m, Sound(m), NEW a \in Physical, m.cache.table[PageOf(a)] \in Slots,
         NEW c \in Seq(Contents), Off(a) + Len(c) <= PageSize
  PROVE  Pasted(m, Poke(m, Native(m, a), c), a, c)
<1> DEFINE s == m.cache.table[PageOf(a)]
           i == Native(m, a)
           r == Poke(m, i, c)
<1>1. m \in MemType /\ CacheOK(m.cache)
  BY DEF Sound
<1>2. s \in Slots /\ i = s * PageSize + Off(a) /\ i \in Physical /\ i \in Nat
  BY <1>1, SeenIs DEF Physical
<1> HIDE DEF i, s
<1>3. /\ r \in MemType /\ r.cache = m.cache /\ r.backend = m.backend
      /\ \A j \in Physical :
           /\ In(j, i, Len(c)) => r.phys[j] = c[j - i + 1]
           /\ ~In(j, i, Len(c)) => r.phys[j] = m.phys[j]
  <2> HIDE DEF r
  <2>1. i \in Nat /\ c \in Seq(Contents)
    BY <1>2
  <2>2. r \in MemType /\ r.cache = m.cache /\ r.backend = m.backend
    BY <1>1, <2>1, PokeIs DEF r
  <2>3. \A j \in Physical : i <= j /\ j < i + Len(c) => r.phys[j] = c[j - i + 1]
    BY <1>1, <2>1, PokeIs DEF r
  <2>4. \A j \in Physical : ~(i <= j /\ j < i + Len(c)) => r.phys[j] = m.phys[j]
    BY <1>1, <2>1, PokeIs DEF r
  <2> QED
    BY <2>2, <2>3, <2>4 DEF In
<1> HIDE DEF r
<1> SUFFICES ASSUME NEW x \in Physical
             PROVE  /\ In(x, a, Len(c)) => Seen(r, x) = c[x - a + 1]
                    /\ ~In(x, a, Len(c)) => Seen(r, x) = Seen(m, x)
  BY <1>1, <1>3 DEF Pasted, Sound, r, i
<1>4. /\ a \in Nat /\ Off(a) \in 0 .. PageSize - 1 /\ PageOf(a) \in Nat
      /\ a = PageOf(a) * PageSize + Off(a)
      /\ x \in Nat /\ Off(x) \in 0 .. PageSize - 1 /\ PageOf(x) \in Nat
      /\ x = PageOf(x) * PageSize + Off(x)
  BY PageIs DEF Offsets, Pages
<1>5. PageOf(x) \in Pages /\ PageOf(a) \in Pages /\ Off(x) \in Offsets
  BY PageIs
<1>6. CASE PageOf(x) = PageOf(a)
  <2> DEFINE j == s * PageSize + Off(x)
  <2>1. Seen(r, x) = r.phys[j] /\ Seen(m, x) = m.phys[j]
    BY <1>1, <1>2, <1>3, <1>6, SeenIs DEF s
  <2>2. j \in Physical
    BY <1>2, <1>5, WindowIs
  <2>3. j - i = x - a
    <3> DEFINE y == s * PageSize
               z == PageOf(a) * PageSize
    <3>1. i = y + Off(a) /\ j = y + Off(x) /\ a = z + Off(a) /\ x = z + Off(x)
      BY <1>2, <1>4, <1>6
    <3>2. y \in Int /\ z \in Int
      <4>1. s \in Nat /\ PageOf(a) \in Nat
        BY <1>2, <1>4 DEF Slots
      <4> QED
        BY <4>1, BaseIs
    <3> HIDE DEF y, z, j
    <3> QED
      BY <1>4, <3>1, <3>2
  <2>4. j \in Int /\ i \in Int
    BY <1>2, <2>2 DEF Physical
  <2> HIDE DEF j
  <2>5. In(x, a, Len(c)) <=> In(j, i, Len(c))
    BY <1>4, <2>3, <2>4 DEF In
  <2> QED
    BY <1>3, <2>1, <2>2, <2>3, <2>5
<1>7. CASE PageOf(x) # PageOf(a)
  <2>1. ~In(x, a, Len(c))
    <3> DEFINE z == PageOf(a) * PageSize
    <3>1. z \in Nat /\ a = z + Off(a)
      BY <1>4
    <3>2. PageOf(x) < PageOf(a) => x < z
      <4> DEFINE y == PageOf(x) * PageSize
      <4>1. PageOf(x) \in Nat /\ PageOf(a) \in Nat
        BY <1>4
      <4>2. PageOf(x) < PageOf(a) => y + PageSize <= z
        BY <4>1, BasesApart
      <4>3. y \in Nat /\ x = y + Off(x)
        BY <1>4, <4>1, BaseIs
      <4>4. Off(x) \in 0 .. PageSize - 1
        BY <1>4
      <4> HIDE DEF y, z
      <4> QED
        BY <3>1, <4>2, <4>3, <4>4
    <3>3. PageOf(a) < PageOf(x) => z + PageSize <= x
      <4> DEFINE y == PageOf(x) * PageSize
      <4>1. PageOf(x) \in Nat /\ PageOf(a) \in Nat
        BY <1>4
      <4>2. PageOf(a) < PageOf(x) => z + PageSize <= y
        BY <4>1, BasesApart
      <4>3. y \in Nat /\ x = y + Off(x)
        BY <1>4, <4>1, BaseIs
      <4>4. Off(x) \in 0 .. PageSize - 1
        BY <1>4
      <4> HIDE DEF y, z
      <4> QED
        BY <3>1, <4>2, <4>3, <4>4
    <3> HIDE DEF z
    <3> QED
      BY <1>4, <1>7, <3>1, <3>2, <3>3 DEF In
  <2>2. CASE m.cache.table[PageOf(x)] = Invalid
    BY <1>1, <1>3, <2>1, <2>2, SeenIs
  <2>3. CASE m.cache.table[PageOf(x)] # Invalid
    <3> DEFINE t == m.cache.table[PageOf(x)]
               j == t * PageSize + Off(x)
    <3>1. t \in Slots
      BY <1>1, <1>5, <2>3 DEF MemType, CacheType
    <3>2. t # s
      <4>1. \A q \in Pages, u \in Slots :
              m.cache.table[q] = u <=> m.cache.owner[u] = q
        BY <1>1 DEF CacheOK, MapsOK
      <4> QED
        BY <1>2, <1>5, <1>7, <3>1, <4>1 DEF s
    <3>3. Seen(r, x) = r.phys[j] /\ Seen(m, x) = m.phys[j]
      BY <1>1, <1>3, <3>1, SeenIs
    <3>4. j \in Physical
      BY <1>5, <3>1, WindowIs
    <3>5. ~In(j, i, Len(c))
      <4> DEFINE y == s * PageSize
                 z == t * PageSize
      <4>1. s \in Nat /\ t \in Nat /\ i = y + Off(a) /\ j = z + Off(x)
        BY <1>2, <3>1 DEF Slots
      <4> HIDE DEF t
      <4>2. t < s => z + PageSize <= y
        BY <4>1, BasesApart
      <4>3. s < t => y + PageSize <= z
        BY <4>1, BasesApart
      <4>4. y \in Nat /\ z \in Nat
        BY <4>1, BaseIs
      <4>5. /\ Off(a) \in 0 .. PageSize - 1 /\ Off(x) \in 0 .. PageSize - 1
            /\ Len(c) \in Nat
        BY <1>4
      <4>6. s < t \/ t < s
        BY <3>2, <4>1
      <4> HIDE DEF y, z, j
      <4> QED
        BY <4>1, <4>2, <4>3, <4>4, <4>5, <4>6 DEF In
    <3> QED
      BY <1>3, <2>1, <3>3, <3>4, <3>5
  <2> QED
    BY <2>2, <2>3
<1> QED
  BY <1>6, <1>7

LEMMA PutSeen ==
  ASSUME up = Serves, NEW m, Sound(m), NEW a \in Physical,
         NEW c \in Seq(Contents), Off(a) + Len(c) <= PageSize
  PROVE  Pasted(m, Put(m, a, c), a, c)
<1> DEFINE r == Resident(m, PageOf(a))
           q == Put(m, a, c)
<1>1. PageOf(a) \in Pages
  BY PageIs
<1>2. Alike(m, r) /\ r.cache.table[PageOf(a)] \in Slots
  BY <1>1, ResidentUnseen
<1>3. q = Poke(r, Native(r, a), c)
  BY DEF Put
<1> HIDE DEF r, q
<1>4. Sound(r)
  BY <1>2 DEF Alike
<1>5. Pasted(r, q, a, c)
  BY <1>2, <1>3, <1>4, PokeSeen
<1> QED
  BY <1>2, <1>5 DEF Pasted, Alike, q

\* What is read within a resident page is what is seen there.
LEMMA PeekSeen ==
  ASSUME NEW m, Sound(m), NEW a \in Physical, m.cache.table[PageOf(a)] \in Slots,
         NEW n \in Nat, Off(a) + n <= PageSize
  PROVE  /\ Peek(m, Native(m, a), n) \in Seq(Contents)
         /\ Len(Peek(m, Native(m, a), n)) = n
         /\ \A j \in 1 .. n : /\ a + j - 1 \in Physical
                              /\ Peek(m, Native(m, a), n)[j] = Seen(m, a + j - 1)
<1> DEFINE s == m.cache.table[PageOf(a)]
           k == Peek(m, Native(m, a), n)
<1>1. m \in MemType
  BY DEF Sound
<1>2. k \in Seq(Contents) /\ Len(k) = n
  BY <1>1, PeekIs
<1> SUFFICES ASSUME NEW j \in 1 .. n
             PROVE  a + j - 1 \in Physical /\ k[j] = Seen(m, a + j - 1)
  BY <1>2
<1>3. k[j] = Fetch(m, Native(m, a) + j - 1)
  BY <1>1, PeekIs
<1>4. a \in Nat /\ Off(a) \in 0 .. PageSize - 1 /\ PageOf(a) \in Pages
  BY PageIs DEF Offsets
<1> DEFINE x == a + (j - 1)
<1>5. PageOf(x) = PageOf(a) /\ Off(x) = Off(a) + (j - 1) /\ x \in Nat
  BY <1>4, SamePage
<1>6. x \in Physical
  <2>1. PageOf(a) < GrowLimit
    BY <1>4, PageInTable DEF Physical
  <2>2. PageOf(a) * PageSize + PageSize <= GrowLimit * PageSize
    <3>1. PageOf(a) \in Nat /\ GrowLimit \in Nat
      BY <1>4 DEF Pages
    <3> QED
      BY <2>1, <3>1, BasesApart
  <2>3. a = PageOf(a) * PageSize + Off(a)
    BY PageIs
  <2> DEFINE y == PageOf(a) * PageSize
             g == GrowLimit * PageSize
  <2>4. y \in Int /\ g \in Int /\ Physical = 0 .. g - 1
    BY <1>4 DEF Pages, Physical
  <2> HIDE DEF y, g
  <2>5. x < g
    BY <1>4, <2>2, <2>3, <2>4 DEF y, g
  <2> QED
    BY <1>5, <2>4, <2>5
<1> HIDE DEF x
<1>7. /\ Native(m, x) = s * PageSize + Off(x) /\ Native(m, x) \in Physical
      /\ Seen(m, x) = m.phys[s * PageSize + Off(x)]
  BY <1>1, <1>5, <1>6, SeenIs
<1>8. Native(m, a) + j - 1 = Native(m, x)
  <2>1. Native(m, a) = s * PageSize + Off(a)
    BY DEF Native
  <2>2. s * PageSize \in Int
    BY DEF Slots
  <2> DEFINE y == s * PageSize
  <2> HIDE DEF y
  <2> QED
    BY <1>4, <1>5, <1>7, <2>1, <2>2 DEF y
<1>9. a + j - 1 = x
  BY <1>4 DEF x
<1> QED
  BY <1>3, <1>6, <1>7, <1>8, <1>9 DEF Fetch

-----------------------------------------------------------------------------
(* What guest and host see before and after a step.                        *)

\* The memory is in order and no fault fails.
Steady == AccessInv /\ up = Serves /\ CacheOK(cache)

Keeps == \A x \in Physical : View(x)' = View(x)
\* The cells c are written at address a, as far as memory reaches.
PutsAt(a, c) ==
  \A x \in Physical :
    /\ In(x, a, Len(c)) /\ x < Size => View(x)' = c[x - a + 1]
    /\ ~(In(x, a, Len(c)) /\ x < Size) => View(x)' = View(x)
MovesTo(d, s, n) ==
  \A x \in Physical : /\ In(x, d, n) => View(x)' = View(x - d + s)
                      /\ ~In(x, d, n) => View(x)' = View(x)
\* The cells q are those seen from address a on, and junk beyond memory.
Shown(x) == IF x < Size THEN View(x) ELSE Junk
ReadAt(q, a, n) == /\ q \in Seq(Contents) /\ Len(q) = n
                   /\ \A j \in 1 .. n : q[j] = Shown(a + j - 1)

LEMMA SteadySound == ASSUME Steady PROVE Sound(mem) /\ up = Serves /\ mem \in MemType
  BY DEF Steady, Sound, AccessInv, mem

LEMMA NothingStaged ==
  ASSUME scratch = Nothing, NEW x \in Physical
  PROVE  View(x) = Seen(mem, x)
  BY DEF View, Seen, mem

LEMMA NothingStagedNext ==
  ASSUME scratch' = Nothing, NEW m \in MemType, Become(m), NEW x \in Physical
  PROVE  View(x)' = Seen(m, x)
<1>1. mem' = m /\ cache' = m.cache
  BY BecomeIs
<1>2. m.backend = backend'
  BY DEF Become
<1> QED
  BY <1>1, <1>2 DEF View, Seen, Native, PageOf, Off

LEMMA StagedNext ==
  ASSUME NEW a \in Nat, NEW c \in Seq(Contents), c # <<>>,
         scratch' = [at |-> a, cells |-> c],
         NEW m \in MemType, Become(m), NEW x \in Physical
  PROVE  /\ In(x, a, Len(c)) => View(x)' = c[x - a + 1]
         /\ ~In(x, a, Len(c)) => View(x)' = Seen(m, x)
<1>1. mem' = m /\ cache' = m.cache
  BY BecomeIs
<1>2. m.backend = backend'
  BY DEF Become
<1>3. scratch'.at = a /\ scratch'.cells = c /\ scratch' # Nothing
  BY DEF Nothing
<1>4. x - a + 1 \in DOMAIN c <=> In(x, a, Len(c))
  <2>1. x \in Int /\ Len(c) \in Nat /\ DOMAIN c = 1 .. Len(c)
    BY DEF Physical
  <2> QED
    BY <2>1 DEF In
<1>5. View(x)' = IF x - a + 1 \in DOMAIN c THEN c[x - a + 1] ELSE Seen(m, x)
  BY <1>1, <1>2, <1>3 DEF View, Seen, Native, PageOf, Off
<1> QED
  BY <1>4, <1>5

\* The staged access is seen before it is flushed, and after.
LEMMA FlushSeen ==
  ASSUME Steady
  PROVE  Sound(Flushed) /\ \A x \in Physical : Seen(Flushed, x) = View(x)
<1>1. Sound(mem) /\ up = Serves
  BY SteadySound
<1>2. CASE scratch = Nothing
  BY <1>1, <1>2, NothingStaged DEF Flushed
<1>3. CASE scratch # Nothing
  <2> DEFINE a == scratch.at
             q == scratch.cells
             n == PageSize - Off(a)
             k == Len(q)
             y == SubSeq(q, 1, n)
             z == SubSeq(q, n + 1, k)
             f == Put(mem, a, y)
             g == Put(f, a + n, z)
  <2>1. AccessInv
    BY DEF Steady
  <2>2. /\ a \in Nat /\ n \in Nat \ {0} /\ n < k /\ k <= PageSize /\ a + k <= Size
        /\ q \in Seq(Contents) /\ Off(a) + n = PageSize /\ Off(a + n) = 0
        /\ y \in Seq(Contents) /\ Len(y) = n /\ z \in Seq(Contents) /\ Len(z) = k - n
    BY <1>3, <2>1, StagedParts
  <2>3. k \in Nat /\ Size \in Nat
    BY <2>1, <2>2, SizeIs
  <2>4. /\ \A i \in 1 .. n : y[i] = q[i]
        /\ \A i \in 1 .. k - n : z[i] = q[n + i]
    <3>1. n - 1 + 1 = n /\ n <= Len(q) /\ 1 <= n + 1
      BY <2>2, <2>3
    <3>2. \A i \in 1 .. n : y[i] = q[1 + i - 1]
      BY <2>2, <3>1, CutIs
    <3>3. k - (n + 1) + 1 = k - n /\ k <= Len(q) /\ n + 1 <= k + 1 /\ n + 1 \in Nat \ {0}
      BY <2>2, <2>3
    <3>4. \A i \in 1 .. k - n : z[i] = q[n + 1 + i - 1]
      BY <2>2, <2>3, <3>3, CutIs
    <3>5. \A i \in Int : 1 + i - 1 = i /\ n + 1 + i - 1 = n + i
      BY <2>2
    <3> HIDE DEF y, z, n, k, q
    <3> QED
      BY <2>2, <2>3, <3>2, <3>4, <3>5
  <2>5. Flushed = g
    BY <1>3 DEF Flushed
  <2>7. \A x \in Physical :
          View(x) = IF x - a + 1 \in 1 .. k THEN q[x - a + 1] ELSE Seen(mem, x)
    <3>1. DOMAIN q = 1 .. k
      BY <2>2
    <3> QED
      BY <1>3, <3>1 DEF View, Seen, mem
  <2> HIDE DEF n, k, y, z, q, a
  <2>8. a \in Physical /\ a + n \in Physical
    <3>1. a < Size /\ a + n < Size /\ a + n \in Nat
      BY <2>2, <2>3
    <3> QED
      BY <2>1, <2>2, <3>1, InsideIs
  <2>9. Pasted(mem, f, a, y)
    BY <1>1, <2>2, <2>8, PutSeen
  <2>10. Sound(f)
    BY <2>9 DEF Pasted
  <2> HIDE DEF f
  <2>11. Pasted(f, g, a + n, z)
    <3>1. Off(a + n) + Len(z) <= PageSize
      BY <2>2, <2>3
    <3> QED
      BY <1>1, <2>2, <2>8, <2>10, <3>1, PutSeen
  <2> HIDE DEF g
  <2>12. ASSUME NEW x \in Physical PROVE Seen(g, x) = View(x)
    <3>1. x \in Int
      BY DEF Physical
    <3>2. CASE In(x, a + n, k - n)
      <4>1. Seen(g, x) = z[x - (a + n) + 1]
        BY <2>2, <2>11, <3>2 DEF Pasted
      <4>2. x - (a + n) + 1 \in 1 .. k - n /\ n + (x - (a + n) + 1) = x - a + 1
            /\ x - a + 1 \in 1 .. k
        BY <2>2, <2>3, <3>1, <3>2 DEF In
      <4> QED
        BY <2>4, <2>7, <4>1, <4>2
    <3>3. CASE In(x, a, n)
      <4>1. ~In(x, a + n, k - n)
        BY <2>2, <2>3, <3>1, <3>3 DEF In
      <4>2. Seen(g, x) = y[x - a + 1]
        BY <2>2, <2>9, <2>11, <3>3, <4>1 DEF Pasted
      <4>3. x - a + 1 \in 1 .. n /\ x - a + 1 \in 1 .. k
        BY <2>2, <2>3, <3>1, <3>3 DEF In
      <4> QED
        BY <2>4, <2>7, <4>2, <4>3
    <3>4. CASE ~In(x, a, n) /\ ~In(x, a + n, k - n)
      <4>1. Seen(g, x) = Seen(mem, x)
        BY <2>2, <2>9, <2>11, <3>4 DEF Pasted
      <4>2. ~(x - a + 1 \in 1 .. k)
        BY <2>2, <2>3, <3>1, <3>4 DEF In
      <4> QED
        BY <2>7, <4>1, <4>2
    <3> QED
      BY <3>2, <3>3, <3>4
  <2>13. Sound(g)
    BY <2>11 DEF Pasted
  <2> QED
    BY <2>5, <2>12, <2>13
<1> QED
  BY <1>2, <1>3

\* Both pages of an access inside of guest memory, after the flush.
LEMMA AccessSeen ==
  ASSUME Steady, NEW p \in Pages
  PROVE  /\ Sound(Resident(Flushed, p))
         /\ \A x \in Physical : Seen(Resident(Flushed, p), x) = View(x)
         /\ Resident(Flushed, p).cache.table[p] \in Slots
<1> DEFINE f == Flushed
           r == Resident(f, p)
<1>1. Sound(f) /\ \A x \in Physical : Seen(f, x) = View(x)
  BY FlushSeen
<1>2. up = Serves
  BY DEF Steady
<1> HIDE DEF f
<1>3. Alike(f, r) /\ r.cache.table[p] \in Slots
  BY <1>1, <1>2, ResidentUnseen
<1> HIDE DEF r
<1>4. Sound(r) /\ \A x \in Physical : Seen(r, x) = View(x)
  BY <1>1, <1>3 DEF Alike
<1> QED
  BY <1>3, <1>4 DEF r, f

LEMMA BothSeen ==
  ASSUME up = Serves, NEW m, Sound(m), NEW a \in Nat, NEW n \in Nat \ {0},
         PageOf(a) \in Pages, PageOf(a + n - 1) \in Pages
  PROVE  /\ Alike(m, BothResident(m, a, n))
         /\ BothResident(m, a, n).cache.table[PageOf(a + n - 1)] \in Slots
<1> DEFINE r == Resident(m, PageOf(a))
           q == Resident(r, PageOf(a + n - 1))
<1>1. Alike(m, r)
  BY ResidentUnseen
<1>2. BothResident(m, a, n) = q
  BY DEF BothResident
<1> HIDE DEF r
<1>3. Alike(r, q) /\ q.cache.table[PageOf(a + n - 1)] \in Slots
  BY <1>1, ResidentUnseen DEF Alike
<1> HIDE DEF q
<1> QED
  BY <1>1, <1>2, <1>3 DEF Alike

\* The cells of an access that spans are in its first page or in its last.
LEMMA TwoPages ==
  ASSUME NEW a \in Nat, NEW n \in 1 .. PageSize, NEW j \in 0 .. n - 1
  PROVE  PageOf(a + j) \in {PageOf(a), PageOf(a + n - 1)}
<1>1. Off(a) \in 0 .. PageSize - 1
  BY AddressIs DEF Offsets
<1>2. CASE Off(a) + j < PageSize
  BY <1>2, SamePage
<1>3. CASE ~(Off(a) + j < PageSize)
  <2> DEFINE k == PageSize - Off(a)
             b == a + k
  <2>1. PageOf(b) = PageOf(a) + 1 /\ Off(b) = 0
    BY NextPage
  <2> DEFINE u == j - k
             w == n - 1 - k
  <2>2. k \in Nat /\ b \in Nat /\ k <= j /\ j <= n - 1 /\ n <= PageSize /\ n \in Nat
        /\ j \in Nat /\ k # 0
    BY <1>1, <1>3
  <2>3. b = a + k
    OBVIOUS
  <2> HIDE DEF b, k
  <2>4. u \in Nat /\ w \in Nat /\ u < PageSize /\ w < PageSize
    BY <2>2
  <2>5. b + u = a + j /\ b + w = a + n - 1
    BY <2>2, <2>3
  <2> HIDE DEF u, w
  <2>6. Off(b) + u < PageSize /\ Off(b) + w < PageSize
    BY <2>1, <2>4
  <2>7. PageOf(b + u) = PageOf(b) /\ PageOf(b + w) = PageOf(b)
    BY <2>2, <2>4, <2>6, SamePage
  <2> QED
    BY <2>5, <2>7
<1> QED
  BY <1>2, <1>3

LEMMA InsideNow ==
  ASSUME Steady, NEW a \in Nat, NEW n \in Nat \ {0}, a + n <= Size
  PROVE  a \in Physical /\ PageOf(a) \in Pages /\ PageOf(a + n - 1) \in Pages
<1>1. AccessInv
  BY DEF Steady
<1>2. Size \in Nat
  BY <1>1, SizeIs
<1>3. a < Size /\ a + n - 1 \in Nat /\ a + n - 1 < Size
  BY <1>2
<1> QED
  BY <1>1, <1>3, InsideIs

\* Reading and writing within the page that was made resident.
LEMMA OnePageRead ==
  ASSUME Steady, NEW a \in Nat, NEW n \in Nat \ {0}, a + n <= Size,
         Off(a) + n <= PageSize,
         NEW m, m = Resident(Flushed, PageOf(a)),
         Become(m), scratch' = Nothing
  PROVE  Keeps /\ ReadAt(Peek(m, Native(m, a), n), a, n)
<1>1. a \in Physical /\ PageOf(a) \in Pages
  BY InsideNow
<1>2. /\ Sound(m) /\ m.cache.table[PageOf(a)] \in Slots
      /\ \A x \in Physical : Seen(m, x) = View(x)
  BY <1>1, AccessSeen
<1>3. m \in MemType
  BY <1>2 DEF Sound
<1>4. Keeps
  BY <1>2, <1>3, NothingStagedNext DEF Keeps
<1> DEFINE q == Peek(m, Native(m, a), n)
<1>5. /\ q \in Seq(Contents) /\ Len(q) = n
      /\ \A j \in 1 .. n : a + j - 1 \in Physical /\ q[j] = Seen(m, a + j - 1)
  BY <1>1, <1>2, PeekSeen
<1> HIDE DEF q
<1>6. ReadAt(q, a, n)
  <2>1. \A j \in 1 .. n : a + j - 1 < Size
    BY SizeIs DEF Steady
  <2> QED
    BY <1>2, <1>5, <2>1 DEF ReadAt, Shown
<1> QED
  BY <1>4, <1>6 DEF q

LEMMA OnePageWrite ==
  ASSUME Steady, NEW a \in Nat, NEW c \in Seq(Contents), c # <<>>,
         a + Len(c) <= Size, Off(a) + Len(c) <= PageSize,
         NEW m, m = Resident(Flushed, PageOf(a)),
         Become(Poke(m, Native(m, a), c)), scratch' = Nothing
  PROVE  PutsAt(a, c)
<1> DEFINE q == Poke(m, Native(m, a), c)
<1>1. Len(c) \in Nat \ {0}
  BY EmptySeq, LenProperties
<1>2. a \in Physical /\ PageOf(a) \in Pages
  BY <1>1, InsideNow
<1>3. /\ Sound(m) /\ m.cache.table[PageOf(a)] \in Slots
      /\ \A x \in Physical : Seen(m, x) = View(x)
  BY <1>2, AccessSeen
<1>4. Pasted(m, q, a, c)
  BY <1>2, <1>3, PokeSeen
<1> HIDE DEF q
<1>5. q \in MemType
  BY <1>4 DEF Pasted, Sound
<1>6. \A x \in Physical : View(x)' = Seen(q, x)
  BY <1>5, NothingStagedNext DEF q
<1>7. \A x \in Physical : In(x, a, Len(c)) => x < Size
  BY <1>1, SizeIs DEF Steady, In, Physical
<1> QED
  BY <1>3, <1>4, <1>6, <1>7 DEF Pasted, PutsAt

LEMMA LoadSeen ==
  ASSUME Steady, NEW a \in Addresses, NEW n \in GuestWidths, Load(a, n),
         KeepsFirst(a, n)
  PROVE  Keeps /\ ReadAt(ret', a, n)
<1> DEFINE m == Resident(Flushed, PageOf(a))
           r == BothResident(m, a, n)
           q == Staged(r, a, n)
<1>1. a \in Nat /\ n \in 1 .. PageSize /\ n \in Nat \ {0}
  BY DEF Addresses
<1>2. a + n <= Size
  BY DEF Load, InBounds
<1>3. a \in Physical /\ PageOf(a) \in Pages /\ PageOf(a + n - 1) \in Pages
  BY <1>1, <1>2, InsideNow
<1>4. Off(a) \in 0 .. PageSize - 1
  BY <1>1, AddressIs DEF Offsets
<1>5. CASE ~Spans(a, n)
  <2>1. /\ Become(m) /\ scratch' = Nothing /\ ret' = Peek(m, Native(m, a), n)
    BY <1>5 DEF Load
  <2>2. Off(a) + n <= PageSize
    BY <1>1, <1>4, <1>5 DEF Spans
  <2> HIDE DEF m
  <2>3. Keeps /\ ReadAt(Peek(m, Native(m, a), n), a, n)
    BY <1>1, <1>2, <2>1, <2>2, OnePageRead DEF m
  <2> QED
    BY <2>1, <2>3
<1>6. CASE Spans(a, n)
  <2>1. /\ Become(r) /\ scratch' = [at |-> a, cells |-> q] /\ ret' = q
    BY <1>6 DEF Load
  <2>2. /\ Sound(m) /\ \A x \in Physical : Seen(m, x) = View(x)
    BY <1>3, AccessSeen
  <2>3. r.cache.table[PageOf(a)] # Invalid
    BY <1>6 DEF KeepsFirst
  <2> HIDE DEF m
  <2>4. Alike(m, r) /\ r.cache.table[PageOf(a + n - 1)] \in Slots
    BY <1>1, <1>3, <2>2, BothSeen DEF Steady
  <2>5. r.cache.table[PageOf(a + n - 1)] # Invalid
    BY <2>4 DEF Slots, Invalid
  <2> HIDE DEF r
  <2>6. Sound(r) /\ r \in MemType /\ \A x \in Physical : Seen(r, x) = View(x)
    BY <2>2, <2>4 DEF Alike, Sound
  <2>7. /\ q \in Seq(Contents) /\ Len(q) = n
        /\ \A j \in 1 .. n : q[j] = Fetch(r, Native(r, a + j - 1))
    BY <1>1, <2>6, StagedIs
  <2> HIDE DEF q
  <2>8. ASSUME NEW j \in 1 .. n
        PROVE  a + j - 1 \in Physical /\ q[j] = View(a + j - 1)
    <3> DEFINE x == a + (j - 1)
    <3>1. j - 1 \in 0 .. n - 1 /\ j - 1 \in Nat /\ x \in Nat
      BY <1>1
    <3>2. PageOf(x) \in {PageOf(a), PageOf(a + n - 1)}
      BY <1>1, <3>1, TwoPages
    <3>3. x \in Physical
      <4>1. Size \in Nat /\ AccessInv
        BY SizeIs DEF Steady
      <4>2. x < Size
        BY <1>1, <1>2, <3>1, <4>1
      <4> QED
        BY <3>1, <4>1, <4>2, InsideIs
    <3>4. a + j - 1 = x
      BY <1>1
    <3> HIDE DEF x
    <3>5. r.cache.table[PageOf(x)] # Invalid
      BY <2>3, <2>5, <3>2
    <3>6. q[j] = Seen(r, x)
      BY <2>7, <3>4, <3>5 DEF Seen
    <3> QED
      BY <2>6, <3>3, <3>4, <3>6
  <2>9. ReadAt(q, a, n)
    <3>1. \A j \in 1 .. n : a + j - 1 < Size
      BY <1>1, <1>2, SizeIs DEF Steady
    <3> QED
      BY <2>7, <2>8, <3>1 DEF ReadAt, Shown
  <2>10. Keeps
    <3> SUFFICES ASSUME NEW x \in Physical PROVE View(x)' = View(x)
      BY DEF Keeps
    <3>1. q # <<>>
      BY <1>1, <2>7
    <3>2. /\ In(x, a, n) => View(x)' = q[x - a + 1]
          /\ ~In(x, a, n) => View(x)' = Seen(r, x)
      BY <1>1, <2>1, <2>6, <2>7, <3>1, StagedNext
    <3>3. In(x, a, n) => x - a + 1 \in 1 .. n /\ a + (x - a + 1) - 1 = x
      BY <1>1 DEF In, Physical
    <3>4. In(x, a, n) => q[x - a + 1] = View(x)
      BY <2>8, <3>3
    <3> QED
      BY <2>6, <3>2, <3>4
  <2> QED
    BY <2>1, <2>9, <2>10
<1> QED
  BY <1>5, <1>6

LEMMA StoreSeen ==
  ASSUME Steady, NEW a \in Nat, NEW n \in GuestWidths, NEW v \in Cells(n),
         Store(a, v)
  PROVE  PutsAt(a, v) /\ v \in Seq(Contents) /\ Len(v) = n /\ a + n <= Size
<1> DEFINE m == Resident(Flushed, PageOf(a))
           r == BothResident(m, a, n)
<1>1. n \in 1 .. PageSize /\ n \in Nat \ {0}
  OBVIOUS
<1>2. v \in Seq(Contents) /\ Len(v) = n /\ v # <<>>
  BY <1>1 DEF Cells, Contents
<1>3. a + n <= Size
  BY <1>2 DEF Store, InBounds
<1>4. a \in Physical /\ PageOf(a) \in Pages /\ PageOf(a + n - 1) \in Pages
  BY <1>1, <1>3, InsideNow
<1>5. Off(a) \in 0 .. PageSize - 1
  BY AddressIs DEF Offsets
<1>6. CASE ~Spans(a, n)
  <2>1. Become(Poke(m, Native(m, a), v)) /\ scratch' = Nothing
    BY <1>2, <1>6 DEF Store
  <2>2. Off(a) + n <= PageSize
    BY <1>1, <1>5, <1>6 DEF Spans
  <2> HIDE DEF m
  <2>3. PutsAt(a, v)
    BY <1>2, <1>3, <2>1, <2>2, OnePageWrite DEF m
  <2> QED
    BY <1>2, <1>3, <2>3
<1>7. CASE Spans(a, n)
  <2>1. Become(r) /\ scratch' = [at |-> a, cells |-> v]
    BY <1>2, <1>7 DEF Store
  <2>2. Sound(m) /\ \A x \in Physical : Seen(m, x) = View(x)
    BY <1>4, AccessSeen
  <2> HIDE DEF m
  <2>3. Alike(m, r)
    BY <1>1, <1>4, <2>2, BothSeen DEF Steady
  <2> HIDE DEF r
  <2>4. r \in MemType /\ \A x \in Physical : Seen(r, x) = View(x)
    BY <2>2, <2>3 DEF Alike, Sound
  <2>5. PutsAt(a, v)
    <3>0. \A x \in Physical : In(x, a, Len(v)) => x < Size
      BY <1>1, <1>2, <1>3, SizeIs DEF Steady, In, Physical
    <3> SUFFICES ASSUME NEW x \in Physical
                 PROVE  /\ In(x, a, Len(v)) => View(x)' = v[x - a + 1]
                        /\ ~In(x, a, Len(v)) => View(x)' = View(x)
      BY <3>0 DEF PutsAt
    <3>1. /\ In(x, a, Len(v)) => View(x)' = v[x - a + 1]
          /\ ~In(x, a, Len(v)) => View(x)' = Seen(r, x)
      BY <1>2, <2>1, <2>4, StagedNext
    <3> QED
      BY <2>4, <3>1
  <2> QED
    BY <1>2, <1>3, <2>5
<1> QED
  BY <1>6, <1>7

\* The host reads within a page: what is seen there, or junk.
LEMMA ReachSeen ==
  ASSUME Steady, NEW m, Sound(m), Reaches(mem, m),
         \A x \in Physical : Seen(m, x) = View(x),
         NEW a \in Nat, NEW n \in Nat \ {0}, Off(a) + n <= PageSize
  PROVE  LET r == Reached(m, a)
         IN  /\ Sound(r) /\ \A x \in Physical : Seen(r, x) = View(x)
             /\ ReadAt(Peek(r, Reach(r, a), n), a, n)
<1> DEFINE r == Reached(m, a)
           q == Peek(r, Reach(r, a), n)
<1> SUFFICES /\ Sound(r) /\ \A x \in Physical : Seen(r, x) = View(x)
             /\ ReadAt(q, a, n)
  OBVIOUS
<1>1. m \in MemType /\ AccessInv /\ up = Serves /\ Size \in Nat
      /\ Off(a) \in 0 .. PageSize - 1
  BY SizeIs, AddressIs DEF Sound, Steady, Offsets
<1>2. /\ r \in MemType /\ Reaches(mem, r)
      /\ a < Size => /\ PageOf(a) \in Pages /\ r = Resident(m, PageOf(a))
                     /\ r.cache.table[PageOf(a)] \in Slots
                     /\ Reach(r, a) = Native(r, a)
      /\ ~(a < Size) => r = m /\ Reach(r, a) = Nowhere
  BY <1>1, ReachedIs, Zenon
<1> HIDE DEF r
<1>3. CASE a < Size
  <2>1. Alike(m, r)
    BY <1>1, <1>2, <1>3, ResidentUnseen
  <2>2. Sound(r) /\ \A x \in Physical : Seen(r, x) = View(x)
    BY <2>1 DEF Alike
  <2>3. a \in Physical /\ q = Peek(r, Native(r, a), n)
    BY <1>1, <1>2, <1>3, InsideIs
  <2> HIDE DEF q
  <2>4. /\ q \in Seq(Contents) /\ Len(q) = n
        /\ \A j \in 1 .. n : a + j - 1 \in Physical /\ q[j] = Seen(r, a + j - 1)
    BY <1>2, <1>3, <2>2, <2>3, PeekSeen
  <2>5. \A j \in 1 .. n : a + j - 1 < Size
    <3>1. a + (PageSize - Off(a)) <= Size
      BY <1>1, <1>3, PageInside
    <3> QED
      BY <1>1, <3>1
  <2>6. ReadAt(q, a, n)
    BY <2>2, <2>4, <2>5 DEF ReadAt, Shown
  <2> QED
    BY <2>2, <2>6
<1>4. CASE ~(a < Size)
  <2>1. q = Peek(m, Nowhere, n) /\ r = m
    BY <1>2, <1>4
  <2> HIDE DEF q
  <2>2. /\ q \in Seq(Contents) /\ Len(q) = n
        /\ \A j \in 1 .. n : q[j] = Fetch(m, Nowhere + j - 1)
    BY <1>1, <2>1, PeekIs
  <2>3. ASSUME NEW j \in 1 .. n PROVE q[j] = Shown(a + j - 1)
    <3>1. Nowhere + j - 1 \notin Physical
      BY <1>1 DEF Nowhere, Physical
    <3>2. ~(a + j - 1 < Size)
      BY <1>1, <1>4
    <3> QED
      BY <2>2, <3>1, <3>2 DEF Fetch, Shown
  <2> QED
    BY <2>1, <2>2, <2>3 DEF ReadAt
<1> QED
  BY <1>3, <1>4

\* The memory q shows the cells c at address a, as far as memory reaches.
Written(q, a, c) ==
  /\ Sound(q)
  /\ \A x \in Physical :
       /\ In(x, a, Len(c)) /\ x < Size => Seen(q, x) = c[x - a + 1]
       /\ ~(In(x, a, Len(c)) /\ x < Size) => Seen(q, x) = View(x)

\* The host writes within a page, and beyond the end to no cell of memory.
LEMMA ReachWrites ==
  ASSUME Steady, NEW m, Sound(m), Reaches(mem, m),
         \A x \in Physical : Seen(m, x) = View(x),
         NEW a \in Nat, NEW c \in Seq(Contents), Off(a) + Len(c) <= PageSize
  PROVE  Written(Poke(Reached(m, a), Reach(Reached(m, a), a), c), a, c)
<1> DEFINE r == Reached(m, a)
           q == Poke(r, Reach(r, a), c)
<1> SUFFICES /\ Sound(q)
             /\ \A x \in Physical :
                  /\ In(x, a, Len(c)) /\ x < Size => Seen(q, x) = c[x - a + 1]
                  /\ ~(In(x, a, Len(c)) /\ x < Size) => Seen(q, x) = View(x)
  BY DEF Written
<1>1. m \in MemType /\ AccessInv /\ up = Serves /\ Size \in Nat
      /\ Off(a) \in 0 .. PageSize - 1 /\ Len(c) \in Nat
  BY SizeIs, AddressIs DEF Sound, Steady, Offsets
<1>2. /\ r \in MemType /\ Reaches(mem, r)
      /\ a < Size => /\ PageOf(a) \in Pages /\ r = Resident(m, PageOf(a))
                     /\ r.cache.table[PageOf(a)] \in Slots
                     /\ Reach(r, a) = Native(r, a)
      /\ ~(a < Size) => r = m /\ Reach(r, a) = Nowhere
  BY <1>1, ReachedIs, Zenon
<1> HIDE DEF r
<1>3. CASE a < Size
  <2>1. Alike(m, r)
    BY <1>1, <1>2, <1>3, ResidentUnseen
  <2>2. Sound(r) /\ \A x \in Physical : Seen(r, x) = View(x)
    BY <2>1 DEF Alike
  <2>3. a \in Physical /\ q = Poke(r, Native(r, a), c)
    BY <1>1, <1>2, <1>3, InsideIs
  <2> HIDE DEF q
  <2>4. Pasted(r, q, a, c)
    BY <1>2, <1>3, <2>2, <2>3, PokeSeen
  <2>5. \A x \in Physical : In(x, a, Len(c)) => x < Size
    <3>1. a + (PageSize - Off(a)) <= Size
      BY <1>1, <1>3, PageInside
    <3> QED
      BY <1>1, <3>1 DEF In, Physical
  <2> QED
    BY <2>2, <2>4, <2>5 DEF Pasted
<1>4. CASE ~(a < Size)
  <2>1. q = Poke(m, Nowhere, c) /\ Len(c) <= PageSize
    BY <1>1, <1>2, <1>4
  <2>2. q = m
    BY <1>1, <2>1, PokeNowhere
  <2> HIDE DEF q
  <2>3. \A x \in Physical : ~(In(x, a, Len(c)) /\ x < Size)
    BY <1>1, <1>4 DEF In, Physical
  <2> QED
    BY <2>2, <2>3
<1> QED
  BY <1>3, <1>4

\* A host scalar of one cell is one of its page.
LEMMA HostLoadSeen ==
  ASSUME Steady, HostWidths \subseteq {1},
         NEW a \in Addresses, NEW n \in HostWidths, HostLoad(a, n)
  PROVE  Keeps /\ ReadAt(ret', a, n)
<1> DEFINE m == Reached(Flushed, a)
<1>1. a \in Nat /\ n = 1 /\ Reaches(mem, Flushed)
  BY FlushReaches DEF Addresses, Steady
<1>2. Off(a) + n <= PageSize
  <2>1. Off(a) \in 0 .. PageSize - 1
    BY <1>1, AddressIs DEF Offsets
  <2> QED
    BY <1>1, <2>1
<1>3. Become(m) /\ scratch' = Nothing /\ ret' = Peek(m, Reach(m, a), n)
  BY DEF HostLoad
<1>4. Sound(Flushed) /\ \A x \in Physical : Seen(Flushed, x) = View(x)
  BY FlushSeen
<1>5. /\ Sound(m) /\ \A x \in Physical : Seen(m, x) = View(x)
      /\ ReadAt(Peek(m, Reach(m, a), n), a, n)
  <2> DEFINE g == Flushed
  <2> HIDE DEF g
  <2>1. Sound(g) /\ Reaches(mem, g) /\ \A x \in Physical : Seen(g, x) = View(x)
    BY <1>1, <1>4 DEF g
  <2>2. m = Reached(g, a) /\ n \in Nat \ {0}
    BY <1>1 DEF g
  <2> HIDE DEF m
  <2> QED
    BY <1>1, <1>2, <2>1, <2>2, ReachSeen
<1> HIDE DEF m
<1>6. Keeps
  BY <1>3, <1>5, NothingStagedNext DEF Keeps, Sound
<1> QED
  BY <1>3, <1>5, <1>6

LEMMA HostStoreSeen ==
  ASSUME Steady, HostWidths \subseteq {1},
         NEW a \in Nat, NEW n \in HostWidths, NEW v \in Cells(n), HostStore(a, v)
  PROVE  PutsAt(a, v) /\ v \in Seq(Contents) /\ Len(v) = n
<1> DEFINE q == Poke(Reached(Flushed, a), Reach(Reached(Flushed, a), a), v)
<1>1. n = 1 /\ v \in Seq(Contents) /\ Len(v) = n /\ Reaches(mem, Flushed)
  BY FlushReaches DEF Cells, Contents, Steady
<1>2. Off(a) + Len(v) <= PageSize
  <2>1. Off(a) \in 0 .. PageSize - 1
    BY AddressIs DEF Offsets
  <2> QED
    BY <1>1, <2>1
<1>3. Become(q) /\ scratch' = Nothing
  BY DEF HostStore
<1>4. Sound(Flushed) /\ \A x \in Physical : Seen(Flushed, x) = View(x)
  BY FlushSeen
<1>5. Written(q, a, v)
  <2> DEFINE g == Flushed
  <2> HIDE DEF g
  <2>1. Sound(g) /\ Reaches(mem, g) /\ \A x \in Physical : Seen(g, x) = View(x)
    BY <1>1, <1>4 DEF g
  <2> DEFINE p == Poke(Reached(g, a), Reach(Reached(g, a), a), v)
  <2>2. Written(p, a, v)
    BY <1>1, <1>2, <2>1, ReachWrites
  <2>3. p = q
    BY DEF g
  <2> HIDE DEF p, q
  <2> QED
    BY <2>2, <2>3
<1> HIDE DEF q
<1>6. \A x \in Physical : View(x)' = Seen(q, x)
  BY <1>3, <1>5, NothingStagedNext DEF Written, Sound
<1> QED
  BY <1>1, <1>5, <1>6 DEF PutsAt, Written

\* A bulk operation begins with the flush, and memory that moves was flushed
\* before.
LEMMA BeginSeen ==
  ASSUME Steady, NEW op, Begin(op)
  PROVE  Keeps
<1>1. Flushed \in MemType /\ \A x \in Physical : Seen(Flushed, x) = View(x)
  BY FlushSeen DEF Sound
<1>2. Become(Flushed) /\ scratch' = Nothing
  BY DEF Begin
<1> DEFINE f == Flushed
<1> HIDE DEF f
<1> QED
  BY <1>1, <1>2, NothingStagedNext DEF Keeps

LEMMA GrowSeen ==
  ASSUME Steady, NEW n, NEW moves \in BOOLEAN, moves => scratch = Nothing,
         Grow(n, moves)
  PROVE  Keeps
<1>1. Flushed \in MemType /\ \A x \in Physical : Seen(Flushed, x) = View(x)
  BY FlushSeen DEF Sound
<1>2. Become(Flushed) /\ scratch' = Nothing
  <2>1. moves => Flushed = mem
    BY DEF Flushed
  <2> QED
    BY <2>1 DEF Grow, Become, mem
<1> DEFINE f == Flushed
<1> HIDE DEF f
<1> QED
  BY <1>1, <1>2, NothingStagedNext DEF Keeps

-----------------------------------------------------------------------------
(* The chunks of a bulk operation.                                         *)

LEMMA MovedSeen ==
  ASSUME up = Serves, NEW m, Sound(m), NEW d \in Physical, NEW a \in Physical, NEW n \in Nat,
         Off(d) + n <= PageSize, Off(a) + n <= PageSize
  PROVE  /\ Sound(Moved(m, d, a, n))
         /\ \A x \in Physical :
              /\ In(x, d, n) => Seen(Moved(m, d, a, n), x) = Seen(m, x - d + a)
              /\ ~In(x, d, n) => Seen(Moved(m, d, a, n), x) = Seen(m, x)
<1> DEFINE r == Resident(m, PageOf(a))
           k == Peek(r, Native(r, a), n)
           q == Put(r, d, k)
<1>1. PageOf(a) \in Pages
  BY PageIs
<1>2. Alike(m, r) /\ r.cache.table[PageOf(a)] \in Slots
  BY <1>1, ResidentUnseen
<1>3. Moved(m, d, a, n) = q
  BY DEF Moved
<1> HIDE DEF r
<1>4. Sound(r) /\ \A x \in Physical : Seen(r, x) = Seen(m, x)
  BY <1>2 DEF Alike
<1>5. /\ k \in Seq(Contents) /\ Len(k) = n
      /\ \A j \in 1 .. n : a + j - 1 \in Physical /\ k[j] = Seen(r, a + j - 1)
  BY <1>2, <1>4, PeekSeen
<1> HIDE DEF k
<1>6. Pasted(r, q, d, k)
  BY <1>4, <1>5, PutSeen
<1> HIDE DEF q
<1> SUFFICES ASSUME NEW x \in Physical
             PROVE  /\ In(x, d, n) => Seen(q, x) = Seen(m, x - d + a)
                    /\ ~In(x, d, n) => Seen(q, x) = Seen(m, x)
  BY <1>3, <1>6 DEF Pasted
<1>7. ~In(x, d, n) => Seen(q, x) = Seen(m, x)
  BY <1>4, <1>5, <1>6 DEF Pasted
<1>8. ASSUME In(x, d, n) PROVE Seen(q, x) = Seen(m, x - d + a)
  <2> DEFINE j == x - d + 1
  <2>1. Seen(q, x) = k[j]
    BY <1>5, <1>6, <1>8 DEF Pasted
  <2>2. j \in 1 .. n /\ a + j - 1 = x - d + a
    BY <1>8 DEF In, Physical
  <2> HIDE DEF j
  <2> QED
    BY <1>4, <1>5, <2>1, <2>2
<1> QED
  BY <1>7, <1>8

\* A chunk in progress; the guest's is inside of its memory.
LEMMA ChunkInside ==
  ASSUME Steady, bulk.kind \in Kinds
  PROVE  /\ bulk \in BulkType /\ scratch = Nothing
         /\ bulk.at \in Nat /\ bulk.from \in Nat /\ bulk.left \in Nat \ {0}
         /\ bulk.cells \in Seq(Contents) /\ Size \in Nat
         /\ bulk.kind \in Copying => /\ bulk.at + bulk.left <= Size
                                     /\ bulk.from + bulk.left <= Size
         /\ bulk.kind \in Writing => Len(bulk.cells) = bulk.left
<1>1. AccessInv
  BY DEF Steady
<1>2. Size \in Nat
  BY <1>1, SizeIs
<1>3. bulk \in BulkType /\ scratch = Nothing /\ Inside(bulk)
  BY <1>1, BulkIs
<1>4. /\ bulk.at \in Nat /\ bulk.from \in Nat /\ bulk.left \in Nat \ {0}
      /\ bulk.cells \in Seq(Contents)
  BY <1>3 DEF BulkType
<1> QED
  BY <1>2, <1>3, <1>4 DEF Inside

LEMMA AtInside ==
  ASSUME Steady, NEW a \in Nat, a < Size
  PROVE  a \in Physical
  BY InsideIs DEF Steady

LEMMA WriteChunkSeen ==
  ASSUME Steady, WriteChunk, NEW n, n = Chunk(bulk.at, bulk.left)
  PROVE  /\ n \in 1 .. bulk.left
         /\ \A x \in Physical :
              /\ In(x, bulk.at, n) /\ x < Size =>
                   View(x)' = bulk.cells[x - bulk.at + 1]
              /\ ~(In(x, bulk.at, n) /\ x < Size) => View(x)' = View(x)
         /\ n = bulk.left => bulk' = Idle
         /\ n # bulk.left =>
              /\ bulk'.kind = bulk.kind /\ bulk'.at = bulk.at + n
              /\ bulk'.left = bulk.left - n
              /\ \A j \in 1 .. bulk.left - n : bulk'.cells[j] = bulk.cells[n + j]
<1> DEFINE a == bulk.at
           l == bulk.left
           c == bulk.cells
           y == SubSeq(c, 1, n)
           z == SubSeq(c, n + 1, Len(c))
           r == Reached(mem, a)
           m == Poke(r, Reach(r, a), y)
<1>1. /\ bulk \in BulkType /\ scratch = Nothing /\ a \in Nat /\ l \in Nat \ {0}
      /\ c \in Seq(Contents) /\ Len(c) = l
  BY ChunkInside DEF WriteChunk, Writing, Kinds
<1>2. n \in 1 .. l /\ Off(a) + n <= PageSize
  BY <1>1, ChunkIs
<1>3. /\ Become(m) /\ scratch' = scratch
      /\ bulk' = IF n = l THEN Idle
                 ELSE [bulk EXCEPT !.at = a + n, !.left = l - n, !.cells = z]
  BY <1>1 DEF WriteChunk, BulkType
<1>4. n \in Nat \ {0} /\ n <= l
  BY <1>1, <1>2
<1>5. y \in Seq(Contents) /\ Len(y) = n /\ \A j \in 1 .. n : y[j] = c[j]
  <2>1. n - 1 + 1 = n /\ n <= Len(c) /\ 1 <= n + 1
    BY <1>1, <1>4
  <2>2. y \in Seq(Contents) /\ Len(y) = n /\ \A j \in 1 .. n : y[j] = c[1 + j - 1]
    BY <1>1, <1>4, <2>1, CutIs
  <2>3. \A j \in Int : 1 + j - 1 = j
    OBVIOUS
  <2> HIDE DEF y
  <2> QED
    BY <2>2, <2>3
<1>6. z \in Seq(Contents) /\ \A j \in 1 .. l - n : z[j] = c[n + j]
  <2> DEFINE h == n + 1
  <2>1. h \in Nat \ {0} /\ l <= Len(c) /\ h <= l + 1 /\ l - h + 1 = l - n /\ l \in Nat
    BY <1>1, <1>4
  <2>2. z = SubSeq(c, h, l)
    BY <1>1
  <2>3. \A j \in Int : h + j - 1 = n + j
    BY <1>4
  <2> HIDE DEF z, h, c, l
  <2>4. z \in Seq(Contents)
    BY <1>1, <2>1, <2>2, CutIs
  <2>5. \A j \in 1 .. l - h + 1 : z[j] = c[h + j - 1]
    BY <1>1, <2>1, <2>2, CutIs
  <2>6. ASSUME NEW j \in 1 .. l - n PROVE z[j] = c[n + j]
    <3>1. j \in 1 .. l - h + 1 /\ h + j - 1 = n + j
      BY <2>1, <2>3
    <3> QED
      BY <2>5, <3>1
  <2> QED
    BY <2>4, <2>6
<1> HIDE DEF y, z
<1>7. /\ Sound(mem) /\ mem \in MemType /\ Reaches(mem, mem)
      /\ \A x \in Physical : Seen(mem, x) = View(x)
  BY <1>1, SteadySound, ReachesSelf, NothingStaged
<1>8. Written(m, a, y)
  <2> DEFINE g == mem
  <2> HIDE DEF g
  <2>1. Sound(g) /\ Reaches(mem, g) /\ \A x \in Physical : Seen(g, x) = View(x)
    BY <1>7 DEF g
  <2>2. m = Poke(Reached(g, a), Reach(Reached(g, a), a), y) /\ Off(a) + Len(y) <= PageSize
    BY <1>2, <1>5 DEF g
  <2> HIDE DEF m, a
  <2> QED
    BY <1>1, <1>5, <2>1, <2>2, ReachWrites
<1> HIDE DEF m
<1>9. m \in MemType
  BY <1>8 DEF Written, Sound
<1>10. \A x \in Physical : View(x)' = Seen(m, x)
  BY <1>1, <1>3, <1>9, NothingStagedNext
<1>11. ASSUME NEW x \in Physical
       PROVE  /\ In(x, a, n) /\ x < Size => View(x)' = c[x - a + 1]
              /\ ~(In(x, a, n) /\ x < Size) => View(x)' = View(x)
  <2>1. In(x, a, n) => x - a + 1 \in 1 .. n
    BY <1>1, <1>4 DEF In, Physical
  <2> QED
    BY <1>5, <1>8, <1>10, <2>1 DEF Written
<1>12. ASSUME n # l
       PROVE  /\ bulk'.kind = bulk.kind /\ bulk'.at = a + n /\ bulk'.left = l - n
              /\ bulk'.cells = z
  <2>1. bulk' = [bulk EXCEPT !.at = a + n, !.left = l - n, !.cells = z]
    BY <1>3, <1>12
  <2> QED
    BY <1>1, <2>1 DEF BulkType
<1> QED
  BY <1>2, <1>3, <1>6, <1>11, <1>12

LEMMA ReadChunkSeen ==
  ASSUME Steady, ReadChunk, NEW n, n = Chunk(bulk.at, bulk.left)
  PROVE  /\ n \in 1 .. bulk.left
         /\ Keeps
         /\ \E k : /\ ReadAt(k, bulk.at, n)
                   /\ n = bulk.left => bulk' = Idle /\ ret' = bulk.cells \o k
                   /\ n # bulk.left =>
                        /\ bulk'.kind = "host_read" /\ bulk'.at = bulk.at + n
                        /\ bulk'.left = bulk.left - n
                        /\ bulk'.cells = bulk.cells \o k /\ ret' = ret
<1> DEFINE a == bulk.at
           l == bulk.left
           m == Reached(mem, a)
           k == Peek(m, Reach(m, a), n)
           y == bulk.cells \o k
<1>1. /\ bulk \in BulkType /\ scratch = Nothing /\ a \in Nat /\ l \in Nat \ {0}
      /\ bulk.cells \in Seq(Contents) /\ bulk.kind = "host_read"
  BY ChunkInside DEF ReadChunk, Kinds
<1>2. n \in 1 .. l /\ Off(a) + n <= PageSize
  BY <1>1, ChunkIs
<1>3. /\ Become(m) /\ scratch' = scratch
      /\ n = l => ret' = y /\ bulk' = Idle
      /\ n # l => /\ bulk' = [bulk EXCEPT !.at = a + n, !.left = l - n, !.cells = y]
                  /\ ret' = ret
  BY <1>1 DEF ReadChunk, BulkType
<1>4. n \in Nat \ {0} /\ n <= l
  BY <1>1, <1>2
<1>5. /\ Sound(mem) /\ mem \in MemType /\ Reaches(mem, mem)
      /\ \A x \in Physical : Seen(mem, x) = View(x)
  BY <1>1, SteadySound, ReachesSelf, NothingStaged
<1>6. Sound(m) /\ (\A x \in Physical : Seen(m, x) = View(x)) /\ ReadAt(k, a, n)
  <2> DEFINE g == mem
  <2> HIDE DEF g
  <2>1. Sound(g) /\ Reaches(mem, g) /\ \A x \in Physical : Seen(g, x) = View(x)
    BY <1>5 DEF g
  <2>2. m = Reached(g, a)
    BY DEF g
  <2> HIDE DEF m, a
  <2> QED
    BY <1>1, <1>2, <1>4, <2>1, <2>2, ReachSeen
<1> HIDE DEF m, k
<1>7. Keeps
  BY <1>1, <1>3, <1>6, NothingStagedNext DEF Keeps, Sound
<1>8. ASSUME n # l
      PROVE  /\ bulk'.kind = "host_read" /\ bulk'.at = a + n /\ bulk'.left = l - n
              /\ bulk'.cells = y /\ ret' = ret
  <2> HIDE DEF y
  <2> QED
    BY <1>1, <1>3, <1>8 DEF BulkType
<1> QED
  BY <1>2, <1>3, <1>6, <1>7, <1>8

LEMMA CopyUpSeen ==
  ASSUME Steady, CopyUpChunk,
         NEW n, n = Least({Chunk(bulk.at, bulk.left), Chunk(bulk.from, bulk.left)})
  PROVE  /\ n \in 1 .. bulk.left
         /\ MovesTo(bulk.at, bulk.from, n)
         /\ n = bulk.left => bulk' = Idle
         /\ n # bulk.left =>
              /\ bulk'.kind = "copy_up" /\ bulk'.at = bulk.at + n
              /\ bulk'.from = bulk.from + n /\ bulk'.left = bulk.left - n
<1> DEFINE a == bulk.at
           f == bulk.from
           l == bulk.left
           m == Moved(mem, a, f, n)
<1>1. /\ bulk \in BulkType /\ scratch = Nothing /\ a \in Nat /\ f \in Nat
      /\ l \in Nat \ {0} /\ Size \in Nat /\ a + l <= Size /\ f + l <= Size
      /\ bulk.kind = "copy_up"
  BY ChunkInside DEF CopyUpChunk, Kinds, Copying
<1>2. n \in 1 .. l /\ n \in Nat /\ Off(a) + n <= PageSize /\ Off(f) + n <= PageSize
  <2>1. /\ Chunk(a, l) \in 1 .. l /\ Off(a) + Chunk(a, l) <= PageSize
        /\ Chunk(f, l) \in 1 .. l /\ Off(f) + Chunk(f, l) <= PageSize
    BY <1>1, ChunkIs
  <2>2. n \in {Chunk(a, l), Chunk(f, l)} /\ n <= Chunk(a, l) /\ n <= Chunk(f, l)
    BY <2>1, LeastIs
  <2>3. Off(a) \in 0 .. PageSize - 1 /\ Off(f) \in 0 .. PageSize - 1
    BY <1>1, AddressIs DEF Offsets
  <2> QED
    BY <1>1, <2>1, <2>2, <2>3
<1>3. /\ Become(m) /\ scratch' = scratch
      /\ bulk' = IF n = l THEN Idle
                 ELSE [bulk EXCEPT !.at = a + n, !.from = f + n, !.left = l - n]
  BY <1>1 DEF CopyUpChunk, BulkType
<1>4. a \in Physical /\ f \in Physical
  BY <1>1, AtInside
<1>5. /\ Sound(m)
      /\ \A x \in Physical : /\ In(x, a, n) => Seen(m, x) = Seen(mem, x - a + f)
                             /\ ~In(x, a, n) => Seen(m, x) = Seen(mem, x)
  <2> HIDE DEF a, f
  <2>1. Sound(mem) /\ up = Serves
    BY SteadySound
  <2>2. Sound(m)
    BY <1>2, <1>4, <2>1, MovedSeen
  <2>3. \A x \in Physical : In(x, a, n) => Seen(m, x) = Seen(mem, x - a + f)
    BY <1>2, <1>4, <2>1, MovedSeen
  <2>4. \A x \in Physical : ~In(x, a, n) => Seen(m, x) = Seen(mem, x)
    BY <1>2, <1>4, <2>1, MovedSeen
  <2> QED
    BY <2>2, <2>3, <2>4
<1> HIDE DEF m
<1>6. m \in MemType
  BY <1>5 DEF Sound
<1>7. \A x \in Physical : View(x)' = Seen(m, x) /\ View(x) = Seen(mem, x)
  BY <1>1, <1>3, <1>6, NothingStaged, NothingStagedNext
<1>8. ASSUME NEW x \in Physical, In(x, a, n) PROVE x - a + f \in Physical
  <2>1. x - a + f \in Nat /\ x - a + f < Size
    BY <1>1, <1>2, <1>8 DEF In, Physical
  <2> QED
    BY <2>1, AtInside
<1>9. MovesTo(a, f, n)
  BY <1>5, <1>7, <1>8 DEF MovesTo
<1>10. ASSUME n # l
       PROVE  /\ bulk'.kind = "copy_up" /\ bulk'.at = a + n /\ bulk'.from = f + n
              /\ bulk'.left = l - n
  BY <1>1, <1>3, <1>10 DEF BulkType
<1> QED
  BY <1>2, <1>3, <1>9, <1>10

LEMMA CopyDownSeen ==
  ASSUME Steady, CopyDownChunk,
         NEW n, n = Least({LastChunk(bulk.at, bulk.left),
                           LastChunk(bulk.from, bulk.left)}),
         NEW k, k = bulk.left - n
  PROVE  /\ n \in 1 .. bulk.left
         /\ MovesTo(bulk.at + k, bulk.from + k, n)
         /\ k = 0 => bulk' = Idle
         /\ k # 0 => /\ bulk'.kind = "copy_down" /\ bulk'.at = bulk.at
                     /\ bulk'.from = bulk.from /\ bulk'.left = k
<1> DEFINE a == bulk.at
           f == bulk.from
           l == bulk.left
           m == Moved(mem, a + k, f + k, n)
<1>1. /\ bulk \in BulkType /\ scratch = Nothing /\ a \in Nat /\ f \in Nat
      /\ l \in Nat \ {0} /\ Size \in Nat /\ a + l <= Size /\ f + l <= Size
      /\ bulk.kind = "copy_down"
  BY ChunkInside DEF CopyDownChunk, Kinds, Copying
<1>2. /\ n \in 1 .. l /\ n \in Nat
      /\ Off(a + k) + n <= PageSize /\ Off(f + k) + n <= PageSize
  <2>1. 1 \in 1 .. LastChunk(a, l) /\ 1 \in 1 .. LastChunk(f, l)
    <3>1. Off(a + l - 1) \in 0 .. PageSize - 1 /\ Off(f + l - 1) \in 0 .. PageSize - 1
      <4>1. a + l - 1 \in Nat /\ f + l - 1 \in Nat
        BY <1>1
      <4> QED
        BY <4>1, AddressIs DEF Offsets
    <3>2. l \in Nat /\ Off(a + l - 1) + 1 \in Nat /\ Off(f + l - 1) + 1 \in Nat
      BY <1>1, <3>1
    <3>3. /\ LastChunk(a, l) \in {l, Off(a + l - 1) + 1}
          /\ LastChunk(f, l) \in {l, Off(f + l - 1) + 1}
      BY <3>2, LeastIs DEF LastChunk
    <3> QED
      BY <1>1, <3>1, <3>3
  <2>2. LastChunk(a, l) \in 1 .. l /\ LastChunk(f, l) \in 1 .. l
    BY <1>1, <2>1, LastChunkIs
  <2>3. /\ n \in {LastChunk(a, l), LastChunk(f, l)}
        /\ n <= LastChunk(a, l) /\ n <= LastChunk(f, l)
    BY <2>2, LeastIs
  <2>4. n \in 1 .. LastChunk(a, l) /\ n \in 1 .. LastChunk(f, l) /\ n \in 1 .. l
    BY <1>1, <2>2, <2>3
  <2>5. Off(a + k) + n <= PageSize /\ Off(f + k) + n <= PageSize
    BY <1>1, <2>4, LastChunkIs
  <2> QED
    BY <2>4, <2>5
<1>3. /\ Become(m) /\ scratch' = scratch
      /\ bulk' = IF k = 0 THEN Idle ELSE [bulk EXCEPT !.left = k]
  BY DEF CopyDownChunk
<1>4. k = l - n
  OBVIOUS
<1>5. /\ k \in Nat /\ k + n = l /\ a + k \in Nat /\ f + k \in Nat
      /\ a + k < Size /\ f + k < Size
  <2> HIDE DEF a, f, l
  <2> QED
    BY <1>1, <1>2, <1>4
<1>6. a + k \in Physical /\ f + k \in Physical
  BY <1>5, AtInside
<1> DEFINE b == a + k
           g == f + k
<1>7. /\ Sound(m)
      /\ \A x \in Physical : /\ In(x, b, n) => Seen(m, x) = Seen(mem, x - b + g)
                             /\ ~In(x, b, n) => Seen(m, x) = Seen(mem, x)
  <2>1. Sound(mem) /\ up = Serves
    BY SteadySound
  <2>2. Off(b) + n <= PageSize /\ Off(g) + n <= PageSize /\ n \in Nat
    BY <1>2
  <2>3. b \in Physical /\ g \in Physical
    BY <1>6
  <2> HIDE DEF b, g
  <2>4. Sound(m)
    BY <2>1, <2>2, <2>3, MovedSeen DEF b, g
  <2>5. m = Moved(mem, b, g, n)
    BY DEF b, g
  <2> HIDE DEF m
  <2>6. \A x \in Physical : In(x, b, n) => Seen(m, x) = Seen(mem, x - b + g)
    BY <2>1, <2>2, <2>3, <2>5, MovedSeen
  <2>7. \A x \in Physical : ~In(x, b, n) => Seen(m, x) = Seen(mem, x)
    BY <2>1, <2>2, <2>3, <2>5, MovedSeen
  <2> QED
    BY <2>4, <2>6, <2>7
<1> HIDE DEF m
<1>8. m \in MemType
  BY <1>7 DEF Sound
<1>9. \A x \in Physical : View(x)' = Seen(m, x) /\ View(x) = Seen(mem, x)
  BY <1>1, <1>3, <1>8, NothingStaged, NothingStagedNext
<1>10. ASSUME NEW x \in Physical, In(x, b, n) PROVE x - b + g \in Physical
  <2>1. x - b + g \in Nat /\ x - b + g < Size
    <3> HIDE DEF a, f, l
    <3>1. x \in Int /\ x - b \in 0 .. n - 1
      BY <1>2, <1>5, <1>10 DEF In, Physical
    <3> DEFINE y == x - b
    <3>2. y \in 0 .. n - 1
      BY <3>1
    <3> HIDE DEF y
    <3>3. g \in Nat /\ g + n <= Size /\ n \in Nat
      <4>1. g = f + k
        BY DEF g
      <4>2. f \in Nat /\ k \in Nat /\ l \in Nat /\ Size \in Nat /\ n \in Nat
        BY <1>1, <1>2, <1>5
      <4>3. k + n = l /\ f + l <= Size
        BY <1>1, <1>5
      <4> QED
        BY <4>1, <4>2, <4>3
    <3> HIDE DEF g
    <3>4. y + g \in Nat /\ y + g < Size
      BY <1>1, <3>2, <3>3
    <3> QED
      BY <3>4 DEF y
  <2> QED
    BY <2>1, AtInside
<1> HIDE DEF b, g
<1>11. MovesTo(b, g, n)
  BY <1>7, <1>9, <1>10 DEF MovesTo
<1>12. ASSUME k # 0
       PROVE  /\ bulk'.kind = "copy_down" /\ bulk'.at = a /\ bulk'.from = f
              /\ bulk'.left = k
  BY <1>1, <1>3, <1>12 DEF BulkType
<1> QED
  BY <1>2, <1>3, <1>11, <1>12 DEF b, g

-----------------------------------------------------------------------------
(* Flat memory takes the same step.                                        *)

\* The contents that the refinement mapping gives to flat memory.
Was == IF bulk = Idle THEN Image ELSE before

\* Memory that was never reached is zero, so that memory.grow adds zeros.
Beyond == \A x \in Physical : x >= Size => View(x) = Zero

LEMMA ReadIsFlat ==
  ASSUME NEW a, NEW n, done' = Reads(a, n), pages' = pages, bulk' = Idle,
         Image' = Was,
         ret' = [i \in 1 .. n |-> IF a + i - 1 < Size THEN Was[a + i - 1] ELSE Junk]
  PROVE  Memory!Next
<1>1. done'.op = "read" /\ done'.at = a /\ done'.len = n
  BY DEF Reads
<1>2. Memory!Read(a, n)
  BY DEF Memory!Read, Memory!Cut, Was, Size
<1> QED
  BY <1>1, <1>2 DEF Memory!Next

LEMMA WriteIsFlat ==
  ASSUME NEW a, NEW c, done' = Writes(a, c), pages' = pages, bulk' = Idle,
         ret' = ret, Image' = Memory!Paste(Was, a, c)
  PROVE  Memory!Next
<1>1. done'.op = "write" /\ done'.at = a /\ done'.cells = c
  BY DEF Writes
<1>2. Memory!Write(a, c)
  BY DEF Memory!Write, Was
<1> QED
  BY <1>1, <1>2 DEF Memory!Next

LEMMA CopyIsFlat ==
  ASSUME NEW d, NEW a, NEW n, done' = Copies(d, a, n), pages' = pages, bulk' = Idle,
         ret' = ret, Image' = Memory!Paste(Was, d, Memory!Cut(Was, a, n))
  PROVE  Memory!Next
<1>1. done'.op = "copy" /\ done'.at = d /\ done'.from = a /\ done'.len = n
  BY DEF Copies
<1>2. Memory!Copy(d, a, n)
  BY DEF Memory!Copy, Was
<1> QED
  BY <1>1, <1>2 DEF Memory!Next

LEMMA GrowIsFlat ==
  ASSUME NEW n, done' = GrowsBy(n), pages' = pages + n, bulk' = Idle,
         ret' = ret, Image' = Was
  PROVE  Memory!Next
<1>1. done'.op = "grow" /\ done'.by = n
  BY DEF GrowsBy
<1>2. Memory!Grow(n)
  BY DEF Memory!Grow, Was
<1> QED
  BY <1>1, <1>2 DEF Memory!Next

LEMMA StutterIsFlat ==
  ASSUME Was' = Was, pages' = pages, ret' = ret, done' = done
  PROVE  UNCHANGED Memory!vars
  BY DEF Memory!vars, Was

\* The image of guest memory, cell by cell.
LEMMA ImageIs ==
  /\ DOMAIN Image = Physical /\ DOMAIN Image' = Physical
  /\ \A x \in Physical : /\ Image[x] = IF x < Size THEN View(x) ELSE Zero
                         /\ Image'[x] = IF x < Size' THEN View(x)' ELSE Zero
  BY DEF Image

\* The image once the cells c have been pasted into f.
LEMMA PasteIs ==
  ASSUME NEW f, DOMAIN f = Physical, NEW a \in Nat, NEW c \in Seq(Contents),
         Size' = Size, Size \in Nat,
         \A x \in Physical : x >= Size => f[x] = Zero,
         \A x \in Physical : x < Size =>
           View(x)' = IF In(x, a, Len(c)) THEN c[x - a + 1] ELSE f[x]
  PROVE  Image' = Memory!Paste(f, a, c)
<1> DEFINE g == Memory!Paste(f, a, c)
<1>1. Len(c) \in Nat /\ Physical \subseteq Nat
  BY DEF Physical
<1>2. g = [x \in Physical |-> IF x \in a .. a + Len(c) - 1 /\ x < Size
                             THEN c[x - a + 1] ELSE f[x]]
  BY DEF Memory!Paste, Size
<1>3. ASSUME NEW x \in Physical
      PROVE  (IF x \in a .. a + Len(c) - 1 /\ x < Size THEN c[x - a + 1] ELSE f[x])
               = IF x < Size' THEN View(x)' ELSE Zero
  <2>1. x \in a .. a + Len(c) - 1 <=> In(x, a, Len(c))
    BY <1>1 DEF In
  <2>2. x >= Size \/ x < Size
    BY <1>1
  <2> QED
    BY <1>1, <2>1, <2>2
<1> QED
  BY <1>2, <1>3 DEF Image

LEMMA ViewTyped ==
  ASSUME Steady, NEW x \in Physical
  PROVE  View(x) \in Contents
<1> DEFINE f == Flushed
<1>1. f \in MemType /\ Seen(f, x) = View(x)
  BY FlushSeen DEF Sound
<1> HIDE DEF f
<1>2. PageOf(x) \in Pages /\ Off(x) \in Offsets
  BY PageIs
<1>3. Fetch(f, Native(f, x)) \in Contents
  BY <1>1 DEF Fetch, MemType, Contents
<1>4. f.backend[PageOf(x)][Off(x)] \in Contents
  BY <1>1, <1>2 DEF MemType
<1> QED
  BY <1>1, <1>3, <1>4 DEF Seen

LEMMA ImageTyped ==
  ASSUME Steady
  PROVE  Image \in [Physical -> Contents]
  BY ViewTyped DEF Image, Contents

\* A sequence is the function of its cells.
LEMMA SeqIs ==
  ASSUME NEW q \in Seq(Contents), NEW n \in Nat, Len(q) = n,
         NEW f, NEW a \in Nat,
         \A j \in 1 .. n : q[j] = IF a + j - 1 < Size THEN f[a + j - 1] ELSE Junk
  PROVE  q = [i \in 1 .. n |-> IF a + i - 1 < Size THEN f[a + i - 1] ELSE Junk]
<1>1. q = [i \in 1 .. n |-> q[i]]
  OBVIOUS
<1> QED
  BY <1>1

-----------------------------------------------------------------------------
(* Scalar accesses and memory.grow.                                        *)

LEMMA SizeInside ==
  ASSUME Steady
  PROVE  Size \in Nat /\ Size <= GrowLimit * PageSize /\ AccessInv
  BY SizeIs DEF Steady

\* The cells of an access are in the image.
LEMMA CellsInside ==
  ASSUME Steady, NEW a \in Nat, NEW n \in Nat, a + n <= Size, NEW j \in 1 .. n
  PROVE  a + j - 1 \in Physical /\ a + j - 1 < Size
<1>1. Size \in Nat
  BY SizeInside
<1>2. a + j - 1 \in Nat /\ a + j - 1 < Size
  BY <1>1
<1> QED
  BY <1>2, AtInside

LEMMA ScalarRead ==
  ASSUME Steady, Beyond, bulk = Idle, bulk' = Idle, pages' = pages,
         NEW a \in Nat, NEW n \in Nat,
         Keeps, ReadAt(ret', a, n), done' = Reads(a, n)
  PROVE  Memory!Next /\ Beyond'
<1>1. Size' = Size /\ Was = Image /\ Size \in Nat
  BY SizeInside DEF Size, Was
<1>2. Image' = Image
  BY <1>1 DEF Image, Keeps
<1>3. \A j \in 1 .. n :
        ret'[j] = IF a + j - 1 < Size THEN Image[a + j - 1] ELSE Junk
  <2> SUFFICES ASSUME NEW j \in 1 .. n
               PROVE  ret'[j] = IF a + j - 1 < Size THEN Image[a + j - 1] ELSE Junk
    OBVIOUS
  <2> DEFINE x == a + j - 1
  <2>1. ret'[j] = Shown(x)
    BY DEF ReadAt
  <2>2. x \in Nat
    OBVIOUS
  <2> HIDE DEF x
  <2>3. x < Size => Image[x] = View(x)
    BY <2>2, AtInside, ImageIs
  <2> QED
    BY <2>1, <2>3 DEF x, Shown
<1>4. ret' = [i \in 1 .. n |-> IF a + i - 1 < Size THEN Was[a + i - 1] ELSE Junk]
  BY <1>1, <1>3, SeqIs DEF ReadAt
<1>5. Beyond'
  BY <1>1 DEF Beyond, Keeps
<1> QED
  BY <1>1, <1>2, <1>4, <1>5, ReadIsFlat

LEMMA ScalarWrite ==
  ASSUME Steady, Beyond, bulk = Idle, bulk' = Idle, pages' = pages, ret' = ret,
         NEW a \in Nat, NEW c \in Seq(Contents),
         PutsAt(a, c), done' = Writes(a, c)
  PROVE  Memory!Next /\ Beyond'
<1>1. Size' = Size /\ Was = Image /\ Size \in Nat
  BY SizeInside DEF Size, Was
<1>2. \A x \in Physical : x >= Size => Image[x] = Zero
  BY <1>1, ImageIs DEF Physical
<1>3. \A x \in Physical : x < Size =>
        View(x)' = IF In(x, a, Len(c)) THEN c[x - a + 1] ELSE Image[x]
  BY ImageIs DEF PutsAt
<1>4. Image' = Memory!Paste(Image, a, c)
  BY <1>1, <1>2, <1>3, ImageIs, PasteIs
<1>5. Beyond'
  <2> SUFFICES ASSUME NEW x \in Physical, x >= Size PROVE View(x)' = Zero
    BY <1>1 DEF Beyond
  <2>1. ~(x < Size)
    BY <1>1 DEF Physical
  <2> QED
    BY <2>1 DEF PutsAt, Beyond
<1> QED
  BY <1>1, <1>4, <1>5, WriteIsFlat

LEMMA Growing ==
  ASSUME Steady, Beyond, bulk = Idle, bulk' = Idle, NEW n \in Nat,
         pages' = pages + n, ret' = ret, Keeps, done' = GrowsBy(n)
  PROVE  Memory!Next /\ Beyond'
<1>1. Size \in Nat /\ Size' \in Nat /\ Size <= Size'
  <2>1. pages \in Nat /\ pages' \in Nat /\ (pages = pages' \/ pages < pages')
    BY DEF Steady, AccessInv
  <2>2. pages < pages' => pages * PageSize + PageSize <= pages' * PageSize
    BY <2>1, BasesApart
  <2>3. pages * PageSize \in Nat /\ pages' * PageSize \in Nat
    BY <2>1, BaseIs
  <2>4. Size = pages * PageSize /\ Size' = pages' * PageSize
    BY DEF Size
  <2>5. pages = pages' => Size = Size'
    BY DEF Size
  <2> HIDE DEF Size
  <2> DEFINE y == pages * PageSize
             z == pages' * PageSize
  <2> HIDE DEF y, z
  <2>6. Size = y /\ Size' = z /\ y \in Nat /\ z \in Nat
        /\ (pages < pages' => y + PageSize <= z)
    BY <2>2, <2>3, <2>4 DEF y, z
  <2> QED
    BY <2>1, <2>5, <2>6
<1>2. Image' = Image
  <2> SUFFICES ASSUME NEW x \in Physical
               PROVE  (IF x < Size' THEN View(x)' ELSE Zero)
                        = IF x < Size THEN View(x) ELSE Zero
    BY DEF Image
  <2>1. View(x)' = View(x) /\ (x >= Size => View(x) = Zero)
    BY DEF Keeps, Beyond
  <2> QED
    BY <1>1, <2>1 DEF Physical
<1>3. Beyond'
  BY <1>1 DEF Beyond, Keeps, Physical
<1>4. Was = Image
  BY DEF Was
<1> QED
  BY <1>2, <1>3, <1>4, GrowIsFlat

-----------------------------------------------------------------------------
(* Bulk operations: what was moved so far.                                 *)

\* The first k cells of c are written, and the others are still to come.
HalfWritten(a, c, k) ==
  /\ bulk.kind \in Writing /\ asked = Writes(a, c)
  /\ bulk.at = a + k /\ bulk.left = Len(c) - k
  /\ \A j \in 1 .. Len(c) - k : bulk.cells[j] = c[k + j]
  /\ \A x \in Physical :
       /\ In(x, a, k) /\ x < Size => View(x) = c[x - a + 1]
       /\ ~(In(x, a, k) /\ x < Size) => View(x) = before[x]

\* The first k of n cells are read.
HalfRead(a, n, k) ==
  /\ bulk.kind = "host_read" /\ asked = Reads(a, n)
  /\ bulk.at = a + k /\ bulk.left = n - k
  /\ Len(bulk.cells) = k
  /\ \A j \in 1 .. k :
       bulk.cells[j] = IF a + j - 1 < Size THEN before[a + j - 1] ELSE Junk
  /\ \A x \in Physical : View(x) = before[x]

\* The first k of n cells are copied; none of the others was overwritten.
HalfCopiedUp(d, s, n, k) ==
  /\ bulk.kind = "copy_up" /\ asked = Copies(d, s, n) /\ ~Overlaps(d, s, n)
  /\ d + n <= Size /\ s + n <= Size
  /\ bulk.at = d + k /\ bulk.from = s + k /\ bulk.left = n - k
  /\ \A x \in Physical : /\ In(x, d, k) => View(x) = before[x - d + s]
                         /\ ~In(x, d, k) => View(x) = before[x]

\* All but the first k of n cells are copied.
HalfCopiedDown(d, s, n, k) ==
  /\ bulk.kind = "copy_down" /\ asked = Copies(d, s, n) /\ Overlaps(d, s, n)
  /\ d + n <= Size /\ s + n <= Size
  /\ bulk.at = d /\ bulk.from = s /\ bulk.left = k /\ k <= n
  /\ \A x \in Physical : /\ In(x, d + k, n - k) => View(x) = before[x - d + s]
                         /\ ~In(x, d + k, n - k) => View(x) = before[x]

HalfDone ==
  /\ before \in [Physical -> Contents]
  /\ \A x \in Physical : x >= Size => before[x] = Zero
  /\ \/ \E a \in Nat, c \in Seq(Contents), k \in Nat : HalfWritten(a, c, k)
     \/ \E a \in Nat, n \in Nat, k \in Nat : HalfRead(a, n, k)
     \/ \E d \in Nat, s \in Nat, n \in Nat, k \in Nat : HalfCopiedUp(d, s, n, k)
     \/ \E d \in Nat, s \in Nat, n \in Nat, k \in Nat : HalfCopiedDown(d, s, n, k)

KeptInv == Steady /\ Beyond /\ (bulk # Idle => HalfDone)

\* A step of flat memory, or none.
FlatStep == Beyond' /\ (bulk' # Idle => HalfDone') /\ [Memory!Next]_Memory!vars

\* What every step of a bulk operation leaves alone.
LEMMA HalfFacts ==
  ASSUME KeptInv, bulk.kind \in Kinds,
         pages' = pages
  PROVE  /\ Steady /\ bulk # Idle /\ HalfDone /\ Was = before
         /\ before \in [Physical -> Contents]
         /\ \A x \in Physical : x >= Size => before[x] = Zero
         /\ Size' = Size /\ Size \in Nat
<1>1. bulk # Idle
  BY IdleIs DEF Kinds, Copying, Writing
<1>2. Size \in Nat
  BY SizeInside DEF KeptInv
<1> QED
  BY <1>1, <1>2 DEF KeptInv, HalfDone, Was, Size

\* A chunk that is not the last one.
LEMMA GoesOn ==
  ASSUME KeptInv, bulk.kind \in Kinds,
         bulk'.kind \in Kinds,
         pages' = pages, ret' = ret, UNCHANGED <<done, asked, before>>,
         \/ \E a \in Nat, c \in Seq(Contents), k \in Nat : HalfWritten(a, c, k)'
         \/ \E a \in Nat, n \in Nat, k \in Nat : HalfRead(a, n, k)'
         \/ \E d \in Nat, s \in Nat, n \in Nat, k \in Nat : HalfCopiedUp(d, s, n, k)'
         \/ \E d \in Nat, s \in Nat, n \in Nat, k \in Nat : HalfCopiedDown(d, s, n, k)',
         Beyond'
  PROVE  FlatStep
<1>1. /\ bulk # Idle /\ bulk' # Idle /\ HalfDone /\ Size' = Size
      /\ before \in [Physical -> Contents]
      /\ \A x \in Physical : x >= Size => before[x] = Zero
  BY IdleIs, HalfFacts DEF Kinds, Copying, Writing
<1>2. HalfDone'
  <2>1. before' = before
    OBVIOUS
  <2>2. \A x \in Physical : x >= Size' => before'[x] = Zero
    BY <1>1, <2>1
  <2> HIDE DEF HalfWritten, HalfRead, HalfCopiedUp, HalfCopiedDown
  <2> QED
    BY <1>1, <2>1, <2>2 DEF HalfDone
<1>3. Was' = Was
  BY <1>1 DEF Was
<1> QED
  BY <1>2, <1>3, StutterIsFlat DEF FlatStep

LEMMA NewOp ==
  ASSUME KeptInv, bulk = Idle, NEW op, Begin(op),
         op.kind \in Kinds,
         NEW q, Asks(q)
  PROVE  /\ bulk' = op /\ bulk' # Idle /\ asked' = q /\ pages' = pages
         /\ Size' = Size /\ Size \in Nat
         /\ before' = Image /\ Image \in [Physical -> Contents]
         /\ \A x \in Physical : x >= Size => before'[x] = Zero
         /\ \A x \in Physical : View(x)' = before'[x]
         /\ Beyond' /\ Was' = Was /\ UNCHANGED <<ret, done>>
<1>1. Steady /\ Beyond
  BY DEF KeptInv
<1>2. Keeps
  BY <1>1, BeginSeen
<1>3. /\ bulk' = op /\ bulk' # Idle /\ asked' = q /\ pages' = pages
      /\ before' = Image /\ UNCHANGED <<ret, done>>
  BY IdleIs DEF Begin, Asks, Kinds, Copying, Writing
<1>4. Size' = Size /\ Size \in Nat
  BY <1>1, <1>3, SizeInside DEF Size
<1>5. Image \in [Physical -> Contents]
  BY <1>1, ImageTyped
<1>6. ASSUME NEW x \in Physical, x >= Size PROVE Image[x] = Zero
  <2>1. x \in Nat /\ ~(x < Size)
    BY <1>4, <1>6 DEF Physical
  <2> QED
    BY <2>1, ImageIs
<1>7. ASSUME NEW x \in Physical PROVE View(x)' = Image[x]
  <2>1. Image[x] = IF x < Size THEN View(x) ELSE Zero
    BY ImageIs
  <2>2. x >= Size => View(x) = Zero
    BY <1>1 DEF Beyond
  <2>3. View(x)' = View(x)
    BY <1>2 DEF Keeps
  <2>4. x < Size \/ x >= Size
    BY <1>4 DEF Physical
  <2> QED
    BY <2>1, <2>2, <2>3, <2>4
<1>8. Beyond'
  BY <1>1, <1>2, <1>4 DEF Beyond, Keeps
<1>9. Was' = Was
  BY <1>3 DEF Was
<1> QED
  BY <1>3, <1>4, <1>5, <1>6, <1>7, <1>8, <1>9

\* A write begins: the guest's or the host's.
LEMMA WriteBegins ==
  ASSUME KeptInv, NEW a \in Nat, NEW c \in Blocks, NEW op, Begin(op), Asks(Writes(a, c)),
         op.kind \in Writing, op.at = a, op.left = Len(c), op.cells = c
  PROVE  FlatStep
<1>1. c \in Seq(Contents) /\ Len(c) \in Nat /\ bulk = Idle /\ op.kind \in Kinds
  BY DEF Contents, Begin, Kinds
<1>2. /\ bulk' = op /\ bulk' # Idle /\ asked' = Writes(a, c) /\ pages' = pages
      /\ Size' = Size /\ Size \in Nat
      /\ before' = Image /\ Image \in [Physical -> Contents]
      /\ \A x \in Physical : x >= Size => before'[x] = Zero
      /\ \A x \in Physical : View(x)' = before'[x]
      /\ Beyond' /\ Was' = Was /\ UNCHANGED <<ret, done>>
  BY <1>1, NewOp
<1>3. HalfWritten(a, c, 0)'
  <2>1. \A x \in Physical : ~In(x, a, 0)
    BY DEF In, Physical
  <2> QED
    BY <1>1, <1>2, <2>1 DEF HalfWritten
<1>4. HalfDone'
  <2> HIDE DEF HalfWritten
  <2>1. \E b \in Nat, d \in Seq(Contents), k \in Nat : HalfWritten(b, d, k)'
    BY <1>1, <1>3
  <2> QED
    BY <1>2, <2>1 DEF HalfDone
<1> QED
  BY <1>2, <1>4, StutterIsFlat DEF FlatStep

LEMMA BulkWriteFlat ==
  ASSUME KeptInv, NEW a \in Nat, NEW c \in Blocks, BulkWrite(a, c), Asks(Writes(a, c))
  PROVE  FlatStep
<1> DEFINE op == [Idle EXCEPT !.kind = "write", !.at = a, !.left = Len(c), !.cells = c]
<1>1. Begin(op)
  BY DEF BulkWrite
<1>2. op.kind \in Writing /\ op.at = a /\ op.left = Len(c) /\ op.cells = c
  BY IdleIs DEF Writing
<1> HIDE DEF op
<1> QED
  BY <1>1, <1>2, WriteBegins

LEMMA WriteBytesFlat ==
  ASSUME KeptInv, NEW a \in Nat, NEW c \in Blocks, WriteBytes(a, c), Asks(Writes(a, c))
  PROVE  FlatStep
<1> DEFINE op == [Idle EXCEPT !.kind = "host_write", !.at = a, !.left = Len(c),
                              !.cells = c]
<1>1. Begin(op)
  BY DEF WriteBytes
<1>2. op.kind \in Writing /\ op.at = a /\ op.left = Len(c) /\ op.cells = c
  BY IdleIs DEF Writing
<1> HIDE DEF op
<1> QED
  BY <1>1, <1>2, WriteBegins

LEMMA ReadBytesFlat ==
  ASSUME KeptInv, NEW a \in Nat, NEW n \in Lengths, ReadBytes(a, n), Asks(Reads(a, n))
  PROVE  FlatStep
<1> DEFINE op == [Idle EXCEPT !.kind = "host_read", !.at = a, !.left = n]
<1>1. n \in Nat
  OBVIOUS
<1>2. Begin(op) /\ bulk = Idle
  BY DEF ReadBytes, Begin
<1>3. /\ op.kind = "host_read" /\ op.kind \in Kinds
      /\ op.at = a /\ op.left = n /\ op.cells = <<>>
  BY DEF Idle, Kinds
<1> HIDE DEF op
<1>4. /\ bulk' = op /\ bulk' # Idle /\ asked' = Reads(a, n) /\ pages' = pages
      /\ Size' = Size /\ Size \in Nat
      /\ before' = Image /\ Image \in [Physical -> Contents]
      /\ \A x \in Physical : x >= Size => before'[x] = Zero
      /\ \A x \in Physical : View(x)' = before'[x]
      /\ Beyond' /\ Was' = Was /\ UNCHANGED <<ret, done>>
  BY <1>2, <1>3, NewOp
<1>5. HalfRead(a, n, 0)'
  BY <1>1, <1>3, <1>4 DEF HalfRead
<1>6. HalfDone'
  <2>1. \E b \in Nat, m \in Nat, k \in Nat : HalfRead(b, m, k)'
    BY <1>1, <1>5
  <2> QED
    BY <1>4, <2>1 DEF HalfDone
<1> QED
  BY <1>4, <1>6, StutterIsFlat DEF FlatStep

LEMMA BulkCopyFlat ==
  ASSUME KeptInv, NEW d \in Nat, NEW a \in Nat, NEW n \in Lengths, BulkCopy(d, a, n),
         Asks(Copies(d, a, n))
  PROVE  FlatStep
<1> DEFINE k == IF Overlaps(d, a, n) THEN "copy_down" ELSE "copy_up"
           op == [Idle EXCEPT !.kind = k, !.at = d, !.from = a, !.left = n]
<1>1. n \in Nat
  OBVIOUS
<1>2. Begin(op) /\ d + n <= Size /\ a + n <= Size /\ bulk = Idle
  BY DEF BulkCopy, InBounds, Begin
<1>3. op.kind = k /\ op.kind \in Kinds /\ op.at = d /\ op.from = a /\ op.left = n
  <2>1. k \in Kinds
    BY DEF Kinds, Copying
  <2> HIDE DEF k
  <2> QED
    BY <2>1, IdleIs
<1> HIDE DEF op
<1>4. /\ bulk' = op /\ bulk' # Idle /\ asked' = Copies(d, a, n) /\ pages' = pages
      /\ Size' = Size /\ Size \in Nat
      /\ before' = Image /\ Image \in [Physical -> Contents]
      /\ \A x \in Physical : x >= Size => before'[x] = Zero
      /\ \A x \in Physical : View(x)' = before'[x]
      /\ Beyond' /\ Was' = Was /\ UNCHANGED <<ret, done>>
  BY <1>2, <1>3, NewOp
<1>5. HalfDone'
  <2>1. CASE Overlaps(d, a, n)
    <3>1. HalfCopiedDown(d, a, n, n)'
      <4>1. \A x \in Physical : ~In(x, d + n, n - n)
        BY <1>1 DEF In, Physical
      <4> QED
        BY <1>1, <1>2, <1>3, <1>4, <2>1, <4>1 DEF HalfCopiedDown, Overlaps
    <3>2. \E e \in Nat, b \in Nat, m \in Nat, i \in Nat : HalfCopiedDown(e, b, m, i)'
      BY <1>1, <3>1
    <3> QED
      BY <1>4, <3>2 DEF HalfDone
  <2>2. CASE ~Overlaps(d, a, n)
    <3>1. HalfCopiedUp(d, a, n, 0)'
      <4>1. \A x \in Physical : ~In(x, d, 0)
        BY DEF In, Physical
      <4> QED
        BY <1>1, <1>2, <1>3, <1>4, <2>2, <4>1 DEF HalfCopiedUp, Overlaps
    <3>2. \E e \in Nat, b \in Nat, m \in Nat, i \in Nat : HalfCopiedUp(e, b, m, i)'
      BY <1>1, <3>1
    <3> QED
      BY <1>4, <3>2 DEF HalfDone
  <2> QED
    BY <2>1, <2>2
<1> QED
  BY <1>4, <1>5, StutterIsFlat DEF FlatStep

-----------------------------------------------------------------------------
(* A chunk moves the operation on, and the last one is a step of flat      *)
(* memory.                                                                 *)

Tells == IF bulk' = Idle THEN Completes(asked) ELSE UNCHANGED <<done, asked, before>>

\* Cells beyond the memory are not touched.
LEMMA BeyondStays ==
  ASSUME Beyond, Size' = Size, Size \in Nat,
         NEW a \in Nat, NEW n \in Nat, a + n <= Size,
         \A x \in Physical : ~In(x, a, n) => View(x)' = View(x)
  PROVE  Beyond'
<1> SUFFICES ASSUME NEW x \in Physical, x >= Size PROVE View(x)' = Zero
  BY DEF Beyond
<1>1. ~In(x, a, n)
  BY DEF In, Physical
<1> QED
  BY <1>1 DEF Beyond

LEMMA WriteChunkFlat ==
  ASSUME KeptInv, WriteChunk, Tells
  PROVE  FlatStep
<1>1. /\ bulk.kind \in Writing /\ bulk.kind \in Kinds /\ bulk.kind \notin Copying
      /\ bulk.kind # "host_read" /\ pages' = pages /\ ret' = ret
  BY DEF WriteChunk, Writing, Kinds, Copying
<1>2. /\ Steady /\ bulk # Idle /\ HalfDone /\ Was = before /\ Beyond
      /\ before \in [Physical -> Contents]
      /\ \A x \in Physical : x >= Size => before[x] = Zero
      /\ Size' = Size /\ Size \in Nat
  BY <1>1, HalfFacts DEF KeptInv
<1>3. PICK a \in Nat, c \in Seq(Contents), k \in Nat : HalfWritten(a, c, k)
  BY <1>1, <1>2 DEF HalfDone, HalfRead, HalfCopiedUp, HalfCopiedDown, Copying
<1> DEFINE l == Len(c)
<1>0. PICK n : n = Chunk(bulk.at, bulk.left)
  OBVIOUS
<1>4. /\ n \in 1 .. bulk.left
      /\ \A x \in Physical :
           /\ In(x, bulk.at, n) /\ x < Size => View(x)' = bulk.cells[x - bulk.at + 1]
           /\ ~(In(x, bulk.at, n) /\ x < Size) => View(x)' = View(x)
      /\ n = bulk.left => bulk' = Idle
      /\ n # bulk.left =>
           /\ bulk'.kind = bulk.kind /\ bulk'.at = bulk.at + n
           /\ bulk'.left = bulk.left - n
           /\ \A j \in 1 .. bulk.left - n : bulk'.cells[j] = bulk.cells[n + j]
  BY <1>0, <1>2, WriteChunkSeen
<1>5. /\ asked = Writes(a, c)
      /\ bulk.at = a + k /\ bulk.left = l - k
      /\ \A j \in 1 .. l - k : bulk.cells[j] = c[k + j]
      /\ \A x \in Physical :
           /\ In(x, a, k) /\ x < Size => View(x) = c[x - a + 1]
           /\ ~(In(x, a, k) /\ x < Size) => View(x) = before[x]
  BY <1>3 DEF HalfWritten
<1>6. l \in Nat /\ n \in Nat \ {0} /\ n <= l - k /\ k + n <= l /\ a + k \in Nat
  BY <1>4, <1>5
<1>7. ASSUME NEW x \in Physical
      PROVE  /\ In(x, a, k + n) /\ x < Size => View(x)' = c[x - a + 1]
             /\ ~(In(x, a, k + n) /\ x < Size) => View(x)' = before[x]
  <2> HIDE DEF l
  <2>1. x \in Nat
    BY DEF Physical
  <2>2. CASE In(x, a + k, n) /\ x < Size
    <3>1. View(x)' = bulk.cells[x - (a + k) + 1]
      BY <1>4, <1>5, <2>2
    <3>2. In(x, a, k + n)
      BY <1>6, <2>1, <2>2 DEF In
    <3>3. x - (a + k) + 1 \in 1 .. l - k
      BY <1>6, <2>1, <2>2 DEF In
    <3>4. k + (x - (a + k) + 1) = x - a + 1
      BY <1>6, <2>1
    <3>5. bulk.cells[x - (a + k) + 1] = c[x - a + 1]
      BY <1>5, <3>3, <3>4
    <3> QED
      BY <2>2, <3>1, <3>2, <3>5
  <2>3. CASE ~(In(x, a + k, n) /\ x < Size)
    <3>1. View(x)' = View(x)
      BY <1>4, <1>5, <2>3
    <3>2. x < Size => (In(x, a, k + n) <=> In(x, a, k))
      BY <1>6, <2>1, <2>3 DEF In
    <3> QED
      BY <1>5, <3>1, <3>2
  <2> QED
    BY <2>2, <2>3
<1>8. Beyond'
  <2> SUFFICES ASSUME NEW x \in Physical, x >= Size PROVE View(x)' = Zero
    BY <1>2 DEF Beyond
  <2>1. ~(x < Size)
    BY <1>2 DEF Physical
  <2> QED
    BY <1>2, <1>4, <2>1 DEF Beyond
<1>9. CASE n # bulk.left
  <2>1. /\ bulk'.kind = bulk.kind /\ bulk'.at = a + k + n /\ bulk'.left = l - k - n
        /\ \A j \in 1 .. l - k - n : bulk'.cells[j] = bulk.cells[n + j]
    BY <1>4, <1>5, <1>9
  <2>2. UNCHANGED <<done, asked, before>>
    BY <1>1, <2>1, IdleIs DEF Tells, Writing
  <2>3. \A j \in 1 .. l - (k + n) : bulk'.cells[j] = c[(k + n) + j]
    <3> HIDE DEF l
    <3> TAKE j \in 1 .. l - (k + n)
    <3>1. n + j \in 1 .. l - k /\ k + (n + j) = (k + n) + j /\ j \in 1 .. l - k - n
      BY <1>6
    <3> QED
      BY <1>5, <2>1, <3>1
  <2>4. a + k + n = a + (k + n) /\ l - k - n = l - (k + n) /\ k + n \in Nat
    BY <1>6
  <2>5. HalfWritten(a, c, k + n)'
    BY <1>1, <1>2, <1>5, <1>7, <2>1, <2>2, <2>3, <2>4 DEF HalfWritten
  <2>6. \E b \in Nat, d \in Seq(Contents), i \in Nat : HalfWritten(b, d, i)'
    BY <2>4, <2>5
  <2> HIDE DEF l
  <2> QED
    BY <1>1, <1>8, <2>1, <2>2, <2>6, GoesOn
<1>10. CASE n = bulk.left
  <2>1. bulk' = Idle /\ k + n = l /\ done' = Writes(a, c)
    BY <1>4, <1>5, <1>6, <1>10 DEF Tells, Completes
  <2>2. \A x \in Physical : x < Size =>
          View(x)' = IF In(x, a, Len(c)) THEN c[x - a + 1] ELSE before[x]
    BY <1>7, <2>1
  <2>3. Image' = Memory!Paste(before, a, c)
    BY <1>2, <1>5, <2>2, PasteIs
  <2>4. Memory!Next
    BY <1>1, <1>2, <2>1, <2>3, WriteIsFlat
  <2> QED
    BY <1>8, <2>1, <2>4 DEF FlatStep
<1> QED
  BY <1>9, <1>10

LEMMA ReadChunkFlat ==
  ASSUME KeptInv, ReadChunk, Tells
  PROVE  FlatStep
<1>1. bulk.kind = "host_read" /\ bulk.kind \in Kinds /\ pages' = pages
  BY DEF ReadChunk, Kinds
<1>2. /\ Steady /\ bulk # Idle /\ HalfDone /\ Was = before /\ Beyond
      /\ before \in [Physical -> Contents]
      /\ \A x \in Physical : x >= Size => before[x] = Zero
      /\ Size' = Size /\ Size \in Nat
  BY <1>1, HalfFacts DEF KeptInv
<1>3. PICK a \in Nat, l \in Nat, k \in Nat : HalfRead(a, l, k)
  BY <1>1, <1>2 DEF HalfDone, HalfWritten, HalfCopiedUp, HalfCopiedDown, Writing
<1>0. PICK n : n = Chunk(bulk.at, bulk.left)
  OBVIOUS
<1>4. n \in 1 .. bulk.left /\ Keeps
  BY <1>0, <1>2, ReadChunkSeen
<1>5. PICK q : /\ ReadAt(q, bulk.at, n)
               /\ n = bulk.left => bulk' = Idle /\ ret' = bulk.cells \o q
               /\ n # bulk.left =>
                    /\ bulk'.kind = "host_read" /\ bulk'.at = bulk.at + n
                    /\ bulk'.left = bulk.left - n
                    /\ bulk'.cells = bulk.cells \o q /\ ret' = ret
  BY <1>0, <1>2, ReadChunkSeen
<1>6. /\ asked = Reads(a, l)
      /\ bulk.at = a + k /\ bulk.left = l - k
      /\ Len(bulk.cells) = k
      /\ \A j \in 1 .. k :
           bulk.cells[j] = IF a + j - 1 < Size THEN before[a + j - 1] ELSE Junk
      /\ \A x \in Physical : View(x) = before[x]
  BY <1>3 DEF HalfRead
<1>7. n \in Nat \ {0} /\ n <= l - k /\ k + n <= l
  BY <1>4, <1>6
<1>8. bulk.cells \in Seq(Contents)
  BY <1>1, <1>2, ChunkInside
<1> DEFINE y == bulk.cells \o q
<1>9. y \in Seq(Contents) /\ Len(y) = k + n
  <2> DEFINE c == bulk.cells
  <2>1. c \in Seq(Contents) /\ Len(c) = k /\ q \in Seq(Contents) /\ Len(q) = n
    BY <1>5, <1>6, <1>8 DEF ReadAt
  <2>2. y = c \o q
    OBVIOUS
  <2> HIDE DEF c, y
  <2> QED
    BY <2>1, <2>2, ConcatProperties
<1>10. ASSUME NEW j \in 1 .. k + n
       PROVE  y[j] = IF a + j - 1 < Size THEN before[a + j - 1] ELSE Junk
  <2>1. CASE j \in 1 .. k
    <3>1. y[j] = bulk.cells[j]
      BY <1>5, <1>6, <1>7, <1>8, <2>1 DEF ReadAt
    <3> QED
      BY <1>6, <2>1, <3>1
  <2>2. CASE j \notin 1 .. k
    <3> DEFINE i == j - k
    <3>1. i \in 1 .. n /\ j = k + i
      BY <1>7, <2>2
    <3>2. y[j] = q[i]
      <4> DEFINE c == bulk.cells
      <4>1. c \in Seq(Contents) /\ Len(c) = k /\ q \in Seq(Contents) /\ Len(q) = n
        BY <1>5, <1>6, <1>8 DEF ReadAt
      <4>2. y = c \o q /\ j \in 1 .. Len(c) + Len(q) /\ ~(j <= Len(c)) /\ i = j - Len(c)
        BY <1>7, <2>2, <4>1
      <4> HIDE DEF c, y, i
      <4> QED
        BY <4>1, <4>2
    <3>3. q[i] = Shown(a + k + i - 1)
      BY <1>5, <1>6, <3>1 DEF ReadAt
    <3>4. a + k + i - 1 = a + j - 1 /\ a + j - 1 \in Nat
      BY <1>7, <3>1
    <3> HIDE DEF i
    <3>5. a + j - 1 < Size => a + j - 1 \in Physical
      BY <1>2, <3>4, AtInside
    <3> QED
      BY <1>6, <3>2, <3>3, <3>4, <3>5 DEF Shown
  <2> QED
    BY <2>1, <2>2
<1>11. Beyond'
  BY <1>2, <1>4 DEF Beyond, Keeps
<1>12. \A x \in Physical : View(x)' = before[x]
  BY <1>4, <1>6 DEF Keeps
<1> HIDE DEF y
<1>13. CASE n # bulk.left
  <2>1. /\ bulk'.kind = "host_read" /\ bulk'.at = a + k + n /\ bulk'.left = l - k - n
        /\ bulk'.cells = y /\ ret' = ret
    BY <1>5, <1>6, <1>13 DEF y
  <2>2. UNCHANGED <<done, asked, before>>
    BY <2>1, IdleIs DEF Tells
  <2>3. a + k + n = a + (k + n) /\ l - k - n = l - (k + n) /\ k + n \in Nat
    BY <1>7
  <2>4. HalfRead(a, l, k + n)'
    BY <1>2, <1>6, <1>9, <1>10, <1>12, <2>1, <2>2, <2>3 DEF HalfRead
  <2>5. \E b \in Nat, d \in Nat, i \in Nat : HalfRead(b, d, i)'
    BY <2>3, <2>4
  <2> QED
    BY <1>1, <1>11, <2>1, <2>2, <2>5, GoesOn
<1>14. CASE n = bulk.left
  <2>1. bulk' = Idle /\ k + n = l /\ done' = Reads(a, l) /\ ret' = y
    BY <1>5, <1>6, <1>7, <1>14 DEF Tells, Completes, y
  <2>2. Image' = before
    <3>1. ASSUME NEW x \in Physical
          PROVE  before[x] = IF x < Size' THEN View(x)' ELSE Zero
      BY <1>2, <1>12 DEF Physical
    <3>2. before = [x \in Physical |-> before[x]]
      BY <1>2
    <3> QED
      BY <3>1, <3>2 DEF Image
  <2>3. y = [i \in 1 .. l |-> IF a + i - 1 < Size THEN before[a + i - 1] ELSE Junk]
    BY <1>9, <1>10, <2>1, SeqIs
  <2>4. Memory!Next
    BY <1>1, <1>2, <2>1, <2>2, <2>3, ReadIsFlat
  <2> QED
    BY <1>11, <2>1, <2>4 DEF FlatStep
<1> QED
  BY <1>13, <1>14

\* The last chunk of a copy.
LEMMA CopyEnds ==
  ASSUME Steady, Was = before, before \in [Physical -> Contents],
         \A x \in Physical : x >= Size => before[x] = Zero,
         Size' = Size, Size \in Nat, pages' = pages, ret' = ret, bulk' = Idle,
         NEW d \in Nat, NEW s \in Nat, NEW n \in Nat, d + n <= Size, s + n <= Size,
         done' = Copies(d, s, n),
         \A x \in Physical : /\ In(x, d, n) => View(x)' = before[x - d + s]
                             /\ ~In(x, d, n) => View(x)' = before[x]
  PROVE  Memory!Next
<1> DEFINE c == Memory!Cut(before, s, n)
<1>1. c = [i \in 1 .. n |-> before[s + i - 1]]
  <2>1. \A i \in 1 .. n : s + i - 1 < pages * PageSize
    BY DEF Size
  <2> QED
    BY <2>1 DEF Memory!Cut
<1> HIDE DEF c
<1>2. \A i \in 1 .. n : before[s + i - 1] \in Contents
  BY CellsInside
<1>3. c \in Seq(Contents) /\ Len(c) = n /\ \A i \in 1 .. n : c[i] = before[s + i - 1]
  BY <1>1, <1>2
<1>4. ASSUME NEW x \in Physical
      PROVE  View(x)' = IF In(x, d, Len(c)) THEN c[x - d + 1] ELSE before[x]
  <2>1. In(x, d, n) => x - d + 1 \in 1 .. n /\ s + (x - d + 1) - 1 = x - d + s
    BY DEF In, Physical
  <2> QED
    BY <1>3, <2>1
<1>5. Image' = Memory!Paste(before, d, c)
  <2>1. DOMAIN before = Physical
    OBVIOUS
  <2> QED
    BY <1>3, <1>4, <2>1, PasteIs
<1> QED
  BY <1>5, CopyIsFlat DEF c

LEMMA CopyUpFlat ==
  ASSUME KeptInv, CopyUpChunk, Tells
  PROVE  FlatStep
<1>1. bulk.kind = "copy_up" /\ bulk.kind \in Kinds /\ pages' = pages /\ ret' = ret
  BY DEF CopyUpChunk, Kinds, Copying
<1>2. /\ Steady /\ bulk # Idle /\ HalfDone /\ Was = before /\ Beyond
      /\ before \in [Physical -> Contents]
      /\ \A x \in Physical : x >= Size => before[x] = Zero
      /\ Size' = Size /\ Size \in Nat
  BY <1>1, HalfFacts DEF KeptInv
<1>3. PICK d \in Nat, s \in Nat, l \in Nat, k \in Nat : HalfCopiedUp(d, s, l, k)
  BY <1>1, <1>2 DEF HalfDone, HalfWritten, HalfRead, HalfCopiedDown, Writing
<1>4. PICK n : n = Least({Chunk(bulk.at, bulk.left), Chunk(bulk.from, bulk.left)})
  OBVIOUS
<1>5. /\ n \in 1 .. bulk.left
      /\ MovesTo(bulk.at, bulk.from, n)
      /\ n = bulk.left => bulk' = Idle
      /\ n # bulk.left =>
           /\ bulk'.kind = "copy_up" /\ bulk'.at = bulk.at + n
           /\ bulk'.from = bulk.from + n /\ bulk'.left = bulk.left - n
  BY <1>2, <1>4, CopyUpSeen
<1>6. /\ asked = Copies(d, s, l) /\ ~Overlaps(d, s, l)
      /\ d + l <= Size /\ s + l <= Size
      /\ bulk.at = d + k /\ bulk.from = s + k /\ bulk.left = l - k
      /\ \A x \in Physical : /\ In(x, d, k) => View(x) = before[x - d + s]
                             /\ ~In(x, d, k) => View(x) = before[x]
  BY <1>3 DEF HalfCopiedUp
<1>7. n \in Nat \ {0} /\ n <= l - k /\ k + n <= l
  BY <1>5, <1>6
<1>8. \A x \in Physical : /\ In(x, d + k, n) => View(x)' = View(x - (d + k) + (s + k))
                          /\ ~In(x, d + k, n) => View(x)' = View(x)
  BY <1>5, <1>6 DEF MovesTo
<1>9. ASSUME NEW x \in Physical
      PROVE  /\ In(x, d, k + n) => View(x)' = before[x - d + s]
             /\ ~In(x, d, k + n) => View(x)' = before[x]
  <2>1. x \in Nat
    BY DEF Physical
  <2>2. CASE In(x, d + k, n)
    <3> DEFINE y == x - d + s
    <3>1. x - (d + k) + (s + k) = y /\ In(x, d, k + n) /\ y \in Nat /\ y < Size
      BY <1>2, <1>6, <1>7, <2>1, <2>2 DEF In
    <3>2. View(x)' = View(y)
      BY <1>8, <2>2, <3>1
    <3>3. ~In(y, d, k)
      BY <1>6, <1>7, <2>1, <2>2 DEF In, Overlaps
    <3> HIDE DEF y
    <3>4. y \in Physical
      BY <1>2, <3>1, AtInside
    <3>5. View(y) = before[y]
      BY <1>6, <3>3, <3>4
    <3> QED
      BY <3>1, <3>2, <3>5 DEF y
  <2>3. CASE ~In(x, d + k, n)
    <3>1. View(x)' = View(x)
      BY <1>8, <2>3
    <3>2. In(x, d, k + n) <=> In(x, d, k)
      BY <1>7, <2>1, <2>3 DEF In
    <3> QED
      BY <1>6, <3>1, <3>2
  <2> QED
    BY <2>2, <2>3
<1>10. Beyond'
  <2>1. PICK b \in Nat : b = d + k
    BY <1>7
  <2>2. b + n <= Size /\ n \in Nat
    BY <1>2, <1>6, <1>7, <2>1
  <2>3. \A x \in Physical : ~In(x, b, n) => View(x)' = View(x)
    BY <1>8, <2>1
  <2> QED
    BY <1>2, <2>2, <2>3, BeyondStays
<1>11. CASE n # bulk.left
  <2>1. /\ bulk'.kind = "copy_up" /\ bulk'.at = d + k + n /\ bulk'.from = s + k + n
        /\ bulk'.left = l - k - n
    BY <1>5, <1>6, <1>11
  <2>2. UNCHANGED <<done, asked, before>>
    BY <2>1, IdleIs DEF Tells
  <2>3. /\ d + k + n = d + (k + n) /\ s + k + n = s + (k + n)
        /\ l - k - n = l - (k + n) /\ k + n \in Nat
    BY <1>7
  <2>4. HalfCopiedUp(d, s, l, k + n)'
    BY <1>2, <1>6, <1>9, <2>1, <2>2, <2>3 DEF HalfCopiedUp, Overlaps
  <2>5. \E b \in Nat, e \in Nat, m \in Nat, i \in Nat : HalfCopiedUp(b, e, m, i)'
    BY <2>3, <2>4
  <2> QED
    BY <1>1, <1>10, <2>1, <2>2, <2>5, GoesOn
<1>12. CASE n = bulk.left
  <2>1. bulk' = Idle /\ k + n = l /\ done' = Copies(d, s, l)
    BY <1>5, <1>6, <1>7, <1>12 DEF Tells, Completes
  <2>2. \A x \in Physical : /\ In(x, d, l) => View(x)' = before[x - d + s]
                            /\ ~In(x, d, l) => View(x)' = before[x]
    BY <1>9, <2>1
  <2>3. d + l <= Size /\ s + l <= Size
    BY <1>6
  <2>4. Memory!Next
    BY <1>1, <1>2, <2>1, <2>2, <2>3, CopyEnds
  <2> QED
    BY <1>10, <2>1, <2>4 DEF FlatStep
<1> QED
  BY <1>11, <1>12

LEMMA CopyDownFlat ==
  ASSUME KeptInv, CopyDownChunk, Tells
  PROVE  FlatStep
<1>1. bulk.kind = "copy_down" /\ bulk.kind \in Kinds /\ pages' = pages /\ ret' = ret
  BY DEF CopyDownChunk, Kinds, Copying
<1>2. /\ Steady /\ bulk # Idle /\ HalfDone /\ Was = before /\ Beyond
      /\ before \in [Physical -> Contents]
      /\ \A x \in Physical : x >= Size => before[x] = Zero
      /\ Size' = Size /\ Size \in Nat
  BY <1>1, HalfFacts DEF KeptInv
<1>3. PICK d \in Nat, s \in Nat, l \in Nat, h \in Nat : HalfCopiedDown(d, s, l, h)
  BY <1>1, <1>2 DEF HalfDone, HalfWritten, HalfRead, HalfCopiedUp, Writing
<1>4. PICK n : n = Least({LastChunk(bulk.at, bulk.left), LastChunk(bulk.from, bulk.left)})
  OBVIOUS
<1>5. PICK k : k = bulk.left - n
  OBVIOUS
<1>6. /\ n \in 1 .. bulk.left
      /\ MovesTo(bulk.at + k, bulk.from + k, n)
      /\ k = 0 => bulk' = Idle
      /\ k # 0 => /\ bulk'.kind = "copy_down" /\ bulk'.at = bulk.at
                  /\ bulk'.from = bulk.from /\ bulk'.left = k
  BY <1>2, <1>4, <1>5, CopyDownSeen
<1>7. /\ asked = Copies(d, s, l) /\ Overlaps(d, s, l)
      /\ d + l <= Size /\ s + l <= Size
      /\ bulk.at = d /\ bulk.from = s /\ bulk.left = h /\ h <= l
      /\ \A x \in Physical : /\ In(x, d + h, l - h) => View(x) = before[x - d + s]
                             /\ ~In(x, d + h, l - h) => View(x) = before[x]
  BY <1>3 DEF HalfCopiedDown
<1>8. n \in Nat \ {0} /\ k \in Nat /\ k + n = h /\ h <= l
  BY <1>5, <1>6, <1>7
<1>9. \A x \in Physical : /\ In(x, d + k, n) => View(x)' = View(x - (d + k) + (s + k))
                          /\ ~In(x, d + k, n) => View(x)' = View(x)
  BY <1>6, <1>7 DEF MovesTo
<1>10. ASSUME NEW x \in Physical
       PROVE  /\ In(x, d + k, l - k) => View(x)' = before[x - d + s]
              /\ ~In(x, d + k, l - k) => View(x)' = before[x]
  <2>1. x \in Nat
    BY DEF Physical
  <2>2. CASE In(x, d + k, n)
    <3> DEFINE y == x - d + s
    <3>1. x - (d + k) + (s + k) = y /\ In(x, d + k, l - k) /\ y \in Nat /\ y < Size
      BY <1>2, <1>7, <1>8, <2>1, <2>2 DEF In
    <3>2. View(x)' = View(y)
      BY <1>9, <2>2, <3>1
    <3>3. ~In(y, d + h, l - h)
      BY <1>7, <1>8, <2>1, <2>2 DEF In, Overlaps
    <3> HIDE DEF y
    <3>4. y \in Physical
      BY <1>2, <3>1, AtInside
    <3>5. View(y) = before[y]
      BY <1>7, <3>3, <3>4
    <3> QED
      BY <3>1, <3>2, <3>5 DEF y
  <2>3. CASE ~In(x, d + k, n)
    <3>1. View(x)' = View(x)
      BY <1>9, <2>3
    <3>2. In(x, d + k, l - k) <=> In(x, d + h, l - h)
      BY <1>8, <2>1, <2>3 DEF In
    <3> QED
      BY <1>7, <3>1, <3>2
  <2> QED
    BY <2>2, <2>3
<1>11. Beyond'
  <2>1. PICK b \in Nat : b = d + k
    BY <1>8
  <2>2. b + n <= Size /\ n \in Nat
    BY <1>2, <1>7, <1>8, <2>1
  <2>3. \A x \in Physical : ~In(x, b, n) => View(x)' = View(x)
    BY <1>9, <2>1
  <2> QED
    BY <1>2, <2>2, <2>3, BeyondStays
<1>12. CASE k # 0
  <2>1. /\ bulk'.kind = "copy_down" /\ bulk'.at = d /\ bulk'.from = s
        /\ bulk'.left = k
    BY <1>6, <1>7, <1>12
  <2>2. UNCHANGED <<done, asked, before>>
    BY <2>1, IdleIs DEF Tells
  <2>3. k <= l
    BY <1>8
  <2>4. HalfCopiedDown(d, s, l, k)'
    BY <1>2, <1>7, <1>10, <2>1, <2>2, <2>3 DEF HalfCopiedDown, Overlaps
  <2>5. \E b \in Nat, e \in Nat, m \in Nat, i \in Nat : HalfCopiedDown(b, e, m, i)'
    BY <1>8, <2>4
  <2> QED
    BY <1>1, <1>11, <2>1, <2>2, <2>5, GoesOn
<1>13. CASE k = 0
  <2>1. bulk' = Idle /\ done' = Copies(d, s, l) /\ d + k = d /\ l - k = l
    BY <1>6, <1>7, <1>13 DEF Tells, Completes
  <2>2. \A x \in Physical : /\ In(x, d, l) => View(x)' = before[x - d + s]
                            /\ ~In(x, d, l) => View(x)' = before[x]
    BY <1>10, <2>1
  <2>3. d + l <= Size /\ s + l <= Size
    BY <1>7
  <2>4. Memory!Next
    BY <1>1, <1>2, <2>1, <2>2, <2>3, CopyEnds
  <2> QED
    BY <1>11, <2>1, <2>4 DEF FlatStep
<1> QED
  BY <1>12, <1>13

-----------------------------------------------------------------------------
(* Every step is one of flat memory, or none.                              *)

LEMMA LoadFlat ==
  ASSUME KeptInv, NEW a \in Addresses, NEW n \in GuestWidths, Load(a, n),
         KeepsFirst(a, n), Completes(Reads(a, n))
  PROVE  FlatStep
<1>1. /\ Steady /\ Beyond /\ bulk = Idle /\ bulk' = Idle /\ pages' = pages
      /\ a \in Nat /\ n \in Nat /\ done' = Reads(a, n)
  BY DEF KeptInv, Load, Completes, Addresses
<1>2. Keeps /\ ReadAt(ret', a, n)
  BY <1>1, LoadSeen
<1>3. Memory!Next /\ Beyond'
  BY <1>1, <1>2, ScalarRead
<1> QED
  BY <1>1, <1>3 DEF FlatStep

LEMMA StoreFlat ==
  ASSUME KeptInv, NEW n \in GuestWidths, NEW a \in Targets, NEW v \in Cells(n),
         Store(a, v), Completes(Writes(a, v))
  PROVE  FlatStep
<1>1. /\ Steady /\ Beyond /\ bulk = Idle /\ bulk' = Idle /\ pages' = pages
      /\ ret' = ret /\ a \in Nat /\ done' = Writes(a, v)
  BY DEF KeptInv, Store, Completes
<1>2. PutsAt(a, v) /\ v \in Seq(Contents)
  BY <1>1, StoreSeen
<1>3. Memory!Next /\ Beyond'
  BY <1>1, <1>2, ScalarWrite
<1> QED
  BY <1>1, <1>3 DEF FlatStep

LEMMA HostLoadFlat ==
  ASSUME KeptInv, HostWidths \subseteq {1},
         NEW a \in Addresses, NEW n \in HostWidths, HostLoad(a, n),
         Completes(Reads(a, n))
  PROVE  FlatStep
<1>1. /\ Steady /\ Beyond /\ bulk = Idle /\ bulk' = Idle /\ pages' = pages
      /\ a \in Nat /\ n \in Nat /\ done' = Reads(a, n)
  BY DEF KeptInv, HostLoad, Completes, Addresses
<1>2. Keeps /\ ReadAt(ret', a, n)
  BY <1>1, HostLoadSeen
<1>3. Memory!Next /\ Beyond'
  BY <1>1, <1>2, ScalarRead
<1> QED
  BY <1>1, <1>3 DEF FlatStep

LEMMA HostStoreFlat ==
  ASSUME KeptInv, HostWidths \subseteq {1},
         NEW n \in HostWidths, NEW a \in Targets, NEW v \in Cells(n),
         HostStore(a, v), Completes(Writes(a, v))
  PROVE  FlatStep
<1>1. /\ Steady /\ Beyond /\ bulk = Idle /\ bulk' = Idle /\ pages' = pages
      /\ ret' = ret /\ a \in Nat /\ done' = Writes(a, v)
  BY DEF KeptInv, HostStore, Completes
<1>2. PutsAt(a, v) /\ v \in Seq(Contents)
  BY <1>1, HostStoreSeen
<1>3. Memory!Next /\ Beyond'
  BY <1>1, <1>2, ScalarWrite
<1> QED
  BY <1>1, <1>3 DEF FlatStep

LEMMA GrowFlat ==
  ASSUME KeptInv, NEW n \in Nat, NEW moves \in BOOLEAN, moves => scratch = Nothing,
         Grow(n, moves), Completes(GrowsBy(n))
  PROVE  FlatStep
<1>1. /\ Steady /\ Beyond /\ bulk = Idle /\ bulk' = Idle /\ pages' = pages + n
      /\ ret' = ret /\ done' = GrowsBy(n)
  BY DEF KeptInv, Grow, Completes
<1>2. Keeps
  BY <1>1, GrowSeen
<1>3. Memory!Next /\ Beyond'
  BY <1>1, <1>2, Growing
<1> QED
  BY <1>1, <1>3 DEF FlatStep

LEMMA StutterFlat ==
  ASSUME KeptInv, UNCHANGED hvars
  PROVE  FlatStep
<1>1. /\ phys' = phys /\ cache' = cache /\ backend' = backend /\ pages' = pages
      /\ scratch' = scratch /\ bulk' = bulk /\ ret' = ret
      /\ done' = done /\ asked' = asked /\ before' = before
  BY DEF hvars, vars
<1>2. \A x \in Physical : View(x)' = View(x)
  BY <1>1 DEF View, Native, mem
<1>3. Size' = Size
  BY <1>1 DEF Size
<1>4. Beyond'
  BY <1>2, <1>3 DEF KeptInv, Beyond
<1>5. Image' = Image
  BY <1>2, <1>3 DEF Image
<1>6. UNCHANGED Memory!vars
  BY <1>1, <1>5, StutterIsFlat DEF Was
<1>7. ASSUME bulk' # Idle PROVE HalfDone'
  <2>1. HalfDone
    BY <1>1, <1>7 DEF KeptInv
  <2>2. \A x \in Physical : x >= Size' => before'[x] = Zero
    BY <1>1, <1>3, <2>1 DEF HalfDone
  <2>3. \A a \in Nat, c \in Seq(Contents), k \in Nat :
          HalfWritten(a, c, k) => HalfWritten(a, c, k)'
    BY <1>1, <1>2, <1>3 DEF HalfWritten
  <2>4. \A a \in Nat, n \in Nat, k \in Nat : HalfRead(a, n, k) => HalfRead(a, n, k)'
    BY <1>1, <1>2, <1>3 DEF HalfRead
  <2>5. \A d \in Nat, s \in Nat, n \in Nat, k \in Nat :
          HalfCopiedUp(d, s, n, k) => HalfCopiedUp(d, s, n, k)'
    BY <1>1, <1>2, <1>3 DEF HalfCopiedUp
  <2>6. \A d \in Nat, s \in Nat, n \in Nat, k \in Nat :
          HalfCopiedDown(d, s, n, k) => HalfCopiedDown(d, s, n, k)'
    BY <1>1, <1>2, <1>3 DEF HalfCopiedDown
  <2> QED
    BY <1>1, <2>1, <2>2, <2>3, <2>4, <2>5, <2>6 DEF HalfDone
<1> QED
  BY <1>4, <1>6, <1>7 DEF FlatStep

LEMMA NextFlat ==
  ASSUME KeptInv, HostWidths \subseteq {1}, [KeptNext]_hvars
  PROVE  FlatStep
<1>1. Addresses \subseteq Nat
  BY DEF Addresses
<1>2. CASE HGuest
  BY <1>2, LoadFlat, StoreFlat DEF HGuest
<1>3. CASE HBulk
  BY <1>1, <1>3, BulkWriteFlat, ReadBytesFlat, WriteBytesFlat, BulkCopyFlat DEF HBulk
<1>4. CASE HStep
  BY <1>4, WriteChunkFlat, ReadChunkFlat, CopyUpFlat, CopyDownFlat DEF HStep, Step, Tells
<1>5. CASE HHost
  BY <1>5, HostLoadFlat, HostStoreFlat DEF HHost
<1>6. CASE HGrows
  BY <1>6, GrowFlat DEF HGrows
<1>7. CASE UNCHANGED hvars
  BY <1>7, StutterFlat
<1> QED
  BY <1>2, <1>3, <1>4, <1>5, <1>6, <1>7 DEF KeptNext

\* KeptSpec takes steps of Spec.
LEMMA KeptIsNext ==
  ASSUME [KeptNext]_hvars
  PROVE  [Next]_vars
<1>1. HGuest => Guest
  BY DEF HGuest, Guest
<1>2. HBulk => Bulk
  BY DEF HBulk, Bulk
<1>3. HStep => Step
  BY DEF HStep
<1>4. HHost => Host
  BY DEF HHost, Host
<1>5. HGrows => Grows
  BY DEF HGrows, Grows
<1>6. UNCHANGED hvars => UNCHANGED vars
  BY DEF hvars
<1> QED
  BY <1>1, <1>2, <1>3, <1>4, <1>5, <1>6 DEF KeptNext, Next

LEMMA KeptStep ==
  ASSUME KeptInv, ~MayFail, HostWidths \subseteq {1}, [KeptNext]_hvars
  PROVE  KeptInv' /\ [Memory!Next]_Memory!vars
<1>1. [Next]_vars
  BY KeptIsNext
<1>2. Safe /\ up' = up
  BY <1>1, NextSafe, UpStays DEF KeptInv, Steady
<1>3. Steady'
  BY <1>2 DEF KeptInv, Steady, Safe
<1>4. FlatStep
  BY NextFlat
<1> QED
  BY <1>3, <1>4 DEF KeptInv, FlatStep

\* Every page of the image with something in it is one the seed finds.
SeedFindsAll ==
  \A f \in Memories, p \in Pages :
    p < InitialPages /\ (\E o \in Offsets : f[p * PageSize + o] # Zero) => Seeded(f, p)

LEMMA KeptInit ==
  ASSUME HInit, SeedFindsAll
  PROVE  KeptInv /\ Memory!Init
<1>1. Steady
  BY InitSafe DEF HInit, Steady
<1>2. PICK f \in Memories : InitWith(f)
  BY DEF HInit, Init
<1>3. /\ scratch = Nothing /\ bulk = Idle /\ pages = InitialPages /\ ret = <<>>
      /\ \A p \in Pages : cache.table[p] = Invalid
      /\ \A p \in Pages, o \in Offsets :
           backend[p][o] = IF Seeded(f, p) THEN f[p * PageSize + o] ELSE Zero
  BY <1>2 DEF InitWith
<1>4. DOMAIN f = 0 .. InitialPages * PageSize - 1
  OBVIOUS
<1>5. ASSUME NEW x \in Physical
      PROVE  /\ x < Size => x \in DOMAIN f /\ View(x) = f[x]
             /\ x >= Size => x \notin DOMAIN f /\ View(x) = Zero
  <2>1. /\ PageOf(x) \in Pages /\ Off(x) \in Offsets /\ x \in Nat
        /\ x = PageOf(x) * PageSize + Off(x)
    BY PageIs
  <2>2. View(x) = backend[PageOf(x)][Off(x)]
    BY <1>3, <2>1 DEF View, Nothing
  <2>3. View(x) = IF Seeded(f, PageOf(x)) THEN f[x] ELSE Zero
    BY <1>3, <2>1, <2>2
  <2>4. Size = InitialPages * PageSize /\ Size \in Nat
    BY <1>1, <1>3, SizeInside DEF Size
  <2>5. x < Size <=> PageOf(x) < InitialPages
    <3> DEFINE y == PageOf(x) * PageSize
               z == InitialPages * PageSize
    <3>1. PageOf(x) \in Nat /\ InitialPages \in Nat /\ Off(x) \in 0 .. PageSize - 1
      BY <2>1 DEF Pages, Offsets
    <3>2. PageOf(x) < InitialPages => y + PageSize <= z
      BY <3>1, BasesApart
    <3>3. InitialPages < PageOf(x) => z + PageSize <= y
      BY <3>1, BasesApart
    <3>4. InitialPages = PageOf(x) => z = y
      OBVIOUS
    <3>5. y \in Nat /\ z \in Nat /\ x = y + Off(x) /\ Size = z
      BY <2>1, <2>4, <3>1, BaseIs
    <3> HIDE DEF y, z
    <3> QED
      BY <3>1, <3>2, <3>3, <3>4, <3>5
  <2>6. x < Size /\ ~Seeded(f, PageOf(x)) => f[x] = Zero
    BY <2>1, <2>5 DEF SeedFindsAll
  <2>7. Seeded(f, PageOf(x)) => PageOf(x) < InitialPages
    BY DEF Seeded
  <2>8. x \in DOMAIN f <=> x < Size
    BY <1>4, <2>1, <2>4
  <2>9. x >= Size => ~(x < Size)
    BY <2>1, <2>4
  <2> QED
    BY <2>3, <2>5, <2>6, <2>7, <2>8, <2>9
<1>6. Beyond
  BY <1>5 DEF Beyond
<1>7. Image = [i \in 0 .. GrowLimit * PageSize - 1 |->
                 IF i \in DOMAIN f THEN f[i] ELSE Zero]
  <2>1. Size \in Nat
    BY <1>1, SizeInside
  <2>2. ASSUME NEW x \in Physical
        PROVE  (IF x < Size THEN View(x) ELSE Zero) = IF x \in DOMAIN f THEN f[x] ELSE Zero
    BY <1>5, <2>1 DEF Physical
  <2> QED
    BY <2>2 DEF Image, Physical
<1>8. Memory!Init
  BY <1>2, <1>3, <1>7 DEF Memory!Init, HInit
<1> QED
  BY <1>1, <1>3, <1>6, <1>8 DEF KeptInv

\* Paged memory is linear memory.  The hypotheses leave out what KeptSpec's
\* comments and the README name, which does break the promise: a backend that
\* fails (the page becomes slot 0), a host scalar of several bytes across the
\* end of its page (guest_memory.js:110), and a page the seed has not found.
THEOREM PagedIsFlat ==
  ASSUME ~MayFail, HostWidths \subseteq {1}, SeedFindsAll
  PROVE  KeptSpec => ImplementsFlatMemory
<1>1. HInit => KeptInv /\ Memory!Init
  BY KeptInit
<1>2. KeptInv /\ [KeptNext]_hvars => KeptInv' /\ [Memory!Next]_Memory!vars
  BY KeptStep
<1> QED
  BY <1>1, <1>2, PTL DEF KeptSpec, ImplementsFlatMemory, Memory!Flat

=============================================================================
