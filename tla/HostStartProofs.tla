--------------------------- MODULE HostStartProofs ---------------------------
(***************************************************************************)
(* Proofs about HostStart, for every size of the bridge, all guests and    *)
(* any number of loads.                                                    *)
(***************************************************************************)
EXTENDS HostStart, FiniteSetTheorems, SequenceTheorems, TLAPS

\* What the assumption says of the bridge.
LEMMA Sizes ==
  /\ BridgeFuncs \in Nat /\ WasiFirst \in Nat /\ FaultSlot \in Nat
  /\ Len(Rows) = 9 /\ DOMAIN Rows = 1 .. 9
  /\ WasiFirst + 9 <= FaultSlot /\ FaultSlot < BridgeFuncs
<1>1. Len(Rows) = 9 /\ DOMAIN Rows = 1 .. 9
  BY DEF Rows
<1>2. /\ BridgeFuncs \in Nat /\ WasiFirst \in Nat /\ FaultSlot \in Nat
      /\ WasiFirst + Len(Rows) <= FaultSlot /\ FaultSlot < BridgeFuncs
  BY HostStartAssumption DEF HostStartAssumption
<1> QED
  BY <1>1, <1>2

-----------------------------------------------------------------------------
(* Ranks.  The kernel numbers the imports in their order, and the sort of  *)
(* the host gives each export its place: both count what comes before.     *)

\* R orders the finite set S strictly.
Orders(R, S) ==
  /\ IsFiniteSet(S)
  /\ \A x \in S : <<x, x>> \notin R
  /\ \A x, y, z \in S : <<x, y>> \in R /\ <<y, z>> \in R => <<x, z>> \in R
  /\ \A x, y \in S : x = y \/ <<x, y>> \in R \/ <<y, x>> \in R
RankIn(R, S, x) == Cardinality({y \in S : <<y, x>> \in R})

\* A finite set has more members than a part that lacks one.
LEMMA FewerBelow ==
  ASSUME NEW S, IsFiniteSet(S), NEW T \in SUBSET S, NEW x \in S, x \notin T
  PROVE  /\ IsFiniteSet(T) /\ Cardinality(T) \in Nat /\ Cardinality(S) \in Nat
         /\ Cardinality(T) < Cardinality(S)
<1>1. /\ IsFiniteSet(T) /\ Cardinality(T) <= Cardinality(S)
      /\ (Cardinality(S) = Cardinality(T) => S = T)
  BY FS_Subset
<1>2. Cardinality(T) \in Nat /\ Cardinality(S) \in Nat
  BY <1>1, FS_CardinalityType
<1> QED
  BY <1>1, <1>2

\* A rank is less than the number of members.
LEMMA RankType ==
  ASSUME NEW R, NEW S, Orders(R, S), NEW x \in S
  PROVE  RankIn(R, S, x) \in 0 .. Cardinality(S) - 1
<1> DEFINE T == {y \in S : <<y, x>> \in R}
<1>1. T \in SUBSET S /\ x \notin T /\ IsFiniteSet(S)
  BY DEF Orders
<1>2. Cardinality(T) \in Nat /\ Cardinality(S) \in Nat /\ Cardinality(T) < Cardinality(S)
  BY <1>1, FewerBelow
<1> QED
  BY <1>2 DEF RankIn

LEMMA RankGrows ==
  ASSUME NEW R, NEW S, Orders(R, S), NEW x \in S, NEW y \in S, <<x, y>> \in R
  PROVE  RankIn(R, S, x) < RankIn(R, S, y)
<1> DEFINE T == {z \in S : <<z, x>> \in R}
           U == {z \in S : <<z, y>> \in R}
<1>1. IsFiniteSet(U)
  BY FS_Subset DEF Orders
<1>2. T \in SUBSET U /\ x \in U /\ x \notin T
  BY DEF Orders
<1>3. Cardinality(T) < Cardinality(U)
  BY <1>1, <1>2, FewerBelow
<1> QED
  BY <1>3 DEF RankIn

\* The ranks tell the members apart, and leave no gap.
LEMMA RanksFill ==
  ASSUME NEW R, NEW S, Orders(R, S)
  PROVE  /\ \A x, y \in S : RankIn(R, S, x) = RankIn(R, S, y) => x = y
         /\ \A k \in 0 .. Cardinality(S) - 1 : \E x \in S : RankIn(R, S, x) = k
<1> DEFINE n == Cardinality(S)
           f == [x \in S |-> RankIn(R, S, x)]
<1>1. n \in Nat /\ IsFiniteSet(S)
  BY FS_CardinalityType DEF Orders
<1>2. f \in [S -> 0 .. n - 1]
  BY RankType
<1>3. ASSUME NEW x \in S, NEW y \in S, RankIn(R, S, x) = RankIn(R, S, y)
      PROVE  x = y
  <2>1. RankIn(R, S, x) \in Int /\ RankIn(R, S, y) \in Int
    BY RankType, <1>1
  <2>2. ~(<<x, y>> \in R) /\ ~(<<y, x>> \in R)
    BY <1>3, <2>1, RankGrows
  <2> QED
    BY <2>2 DEF Orders
<1>4. f \in Injection(S, 0 .. n - 1)
  BY <1>2, <1>3 DEF Injection, IsInjective
<1>5. ASSUME NEW m \in Nat
      PROVE  IsFiniteSet(0 .. m - 1) /\ Cardinality(0 .. m - 1) = m
  <2>1. /\ IsFiniteSet(0 .. m - 1)
        /\ Cardinality(0 .. m - 1) = IF 0 > m - 1 THEN 0 ELSE m - 1 - 0 + 1
    BY FS_Interval
  <2> QED
    BY <2>1
<1>6. f \in Surjection(S, 0 .. n - 1)
  BY <1>1, <1>4, <1>5, FS_Injection
<1>7. \A k \in 0 .. n - 1 : \E x \in S : f[x] = k
  BY <1>6 DEF Surjection
<1> QED
  BY <1>3, <1>7

-----------------------------------------------------------------------------
(* The slots of the imports.                                               *)

Imports == [module : STRING, name : STRING]
Earlier == {p \in Nat \X Nat : p[1] < p[2]}

\* Indices are ordered by their size.
LEMMA EarlierOrders ==
  ASSUME NEW S \in SUBSET Nat, IsFiniteSet(S)
  PROVE  Orders(Earlier, S)
  BY DEF Orders, Earlier

\* The rank of an index is the number of those before it.
LEMMA RankIsCount ==
  ASSUME NEW S \in SUBSET Nat, NEW i \in S
  PROVE  RankIn(Earlier, S, i) = Cardinality({j \in S : j < i})
<1>1. {j \in S : <<j, i>> \in Earlier} = {j \in S : j < i}
  BY DEF Earlier
<1> QED
  BY <1>1 DEF RankIn

LEMMA WantedFinite ==
  ASSUME NEW g \in Seq(Imports)
  PROVE  Wanted(g) \in SUBSET Nat /\ IsFiniteSet(Wanted(g))
<1>1. Len(g) \in Nat /\ DOMAIN g = 1 .. Len(g)
  OBVIOUS
<1>2. IsFiniteSet(1 .. Len(g))
  BY <1>1, FS_Interval
<1>3. Wanted(g) \in SUBSET (1 .. Len(g))
  BY <1>1 DEF Wanted
<1> QED
  BY <1>1, <1>2, <1>3, FS_Subset

\* The imports that fit are the first ones, and fill the slots from count on.
LEMMA TakenFill ==
  ASSUME NEW g \in Seq(Imports), count \in Nat
  PROVE  /\ IsFiniteSet(Taken(g)) /\ Cardinality(Taken(g)) \in Nat
         /\ Taken(g) \in SUBSET Wanted(g)
         /\ TakenSlots(g) = count .. count + Cardinality(Taken(g)) - 1
         /\ \A i, j \in Taken(g) : SlotFor(g, i) = SlotFor(g, j) => i = j
<1> DEFINE W == Wanted(g)
           T == Taken(g)
<1>1. W \in SUBSET Nat /\ IsFiniteSet(W) /\ Orders(Earlier, W)
  BY WantedFinite, EarlierOrders
<1>2. T \in SUBSET W /\ IsFiniteSet(T)
  BY <1>1, FS_Subset DEF Taken
<1>3. Orders(Earlier, T) /\ Cardinality(T) \in Nat
  BY <1>1, <1>2, EarlierOrders, FS_CardinalityType
<1>4. \A i \in W : SlotFor(g, i) = count + RankIn(Earlier, W, i)
  BY <1>1, RankIsCount DEF SlotFor
<1>5. \A i \in W : RankIn(Earlier, W, i) \in Nat
  BY <1>1, RankType, FS_CardinalityType
<1>6. ASSUME NEW i \in T, NEW j \in W, j < i
      PROVE  j \in T
  <2>1. i \in W /\ <<j, i>> \in Earlier
    BY <1>1, <1>2, <1>6 DEF Earlier
  <2>2. RankIn(Earlier, W, j) < RankIn(Earlier, W, i)
    BY <1>1, <2>1, RankGrows
  <2>3. SlotFor(g, i) < BridgeFuncs
    BY DEF Taken
  <2>4. SlotFor(g, j) < BridgeFuncs
    BY <1>4, <1>5, <2>1, <2>2, <2>3, Sizes
  <2> QED
    BY <2>4 DEF Taken
<1>7. ASSUME NEW i \in T
      PROVE  RankIn(Earlier, T, i) = RankIn(Earlier, W, i)
  <2>1. {j \in T : j < i} = {j \in W : j < i}
    BY <1>2, <1>6
  <2> QED
    BY <1>1, <1>2, <2>1, RankIsCount
<1>8. \A i \in T : SlotFor(g, i) = count + RankIn(Earlier, T, i)
  BY <1>2, <1>4, <1>7
<1>9. \A i \in T : RankIn(Earlier, T, i) \in 0 .. Cardinality(T) - 1
  BY <1>3, RankType
<1> HIDE DEF T, W
<1>10. TakenSlots(g) = {SlotFor(g, i) : i \in T}
  BY DEF TakenSlots, T
<1>11. TakenSlots(g) = count .. count + Cardinality(T) - 1
  <2>1. ASSUME NEW s \in count .. count + Cardinality(T) - 1
        PROVE  s \in TakenSlots(g)
    <3>1. s - count \in 0 .. Cardinality(T) - 1
      BY <1>3
    <3>2. PICK i \in T : RankIn(Earlier, T, i) = s - count
      BY <1>3, <3>1, RanksFill
    <3> QED
      BY <1>8, <1>10, <3>2
  <2>2. ASSUME NEW i \in T
        PROVE  SlotFor(g, i) \in count .. count + Cardinality(T) - 1
    BY <1>3, <1>8, <1>9
  <2> QED
    BY <1>10, <2>1, <2>2
<1>12. ASSUME NEW i \in T, NEW j \in T, SlotFor(g, i) = SlotFor(g, j)
       PROVE  i = j
  <2>1. RankIn(Earlier, T, i) = RankIn(Earlier, T, j)
    BY <1>3, <1>8, <1>9, <1>12
  <2> QED
    BY <1>3, <2>1, RanksFill
<1> QED
  BY <1>2, <1>3, <1>11, <1>12 DEF T, W

\* As long as no import takes a slot of the rows, the first guest gets a slot
\* for each of its imports.
LEMMA AllFit ==
  ASSUME NEW g \in Seq(Imports), count = 0, ~Clashes(g)
  PROVE  Taken(g) = Wanted(g)
<1> DEFINE W == Wanted(g)
<1>1. W \in SUBSET Nat /\ IsFiniteSet(W) /\ Orders(Earlier, W)
  BY WantedFinite, EarlierOrders
<1>2. \A i \in W : SlotFor(g, i) = RankIn(Earlier, W, i)
  <2>1. \A i \in W : RankIn(Earlier, W, i) \in Nat
    BY <1>1, RankType, FS_CardinalityType
  <2>2. \A i \in W : SlotFor(g, i) = count + RankIn(Earlier, W, i)
    BY <1>1, RankIsCount DEF SlotFor
  <2> QED
    BY <2>1, <2>2
<1>3. SUFFICES ASSUME NEW i \in W, i \notin Taken(g)
               PROVE  FALSE
  BY DEF Taken
<1>4. RankIn(Earlier, W, i) \in 0 .. Cardinality(W) - 1 /\ Cardinality(W) \in Nat
  BY <1>1, RankType, FS_CardinalityType
<1>5. RankIn(Earlier, W, i) >= BridgeFuncs
  BY <1>2, <1>3, <1>4, Sizes DEF Taken
<1>6. WasiFirst \in 0 .. Cardinality(W) - 1 /\ WasiFirst < BridgeFuncs
  BY <1>4, <1>5, Sizes
<1>7. PICK j \in W : RankIn(Earlier, W, j) = WasiFirst
  BY <1>1, <1>6, RanksFill
<1>8. WasiFirst \in TakenSlots(g)
  BY <1>2, <1>6, <1>7 DEF Taken, TakenSlots
<1>9. WasiFirst \in Reserved
  <2>1. 1 \in DOMAIN Rows /\ WasiSlot(1) = WasiFirst
    BY Sizes DEF WasiSlot
  <2> QED
    BY <2>1 DEF Reserved
<1> QED
  BY <1>8, <1>9 DEF Clashes

-----------------------------------------------------------------------------
(* The sort of the host.                                                   *)

\* It orders the exports and drops and doubles none.
LEMMA Sorting ==
  ASSUME NEW r \in Seq(Nat)
  PROVE  /\ InOrder(r) \in Seq(Nat) /\ DOMAIN InOrder(r) = DOMAIN r
         /\ \A k, l \in DOMAIN r : k < l => InOrder(r)[k] <= InOrder(r)[l]
         /\ \E p \in Bijection(DOMAIN r, DOMAIN r) :
              InOrder(r) = [k \in DOMAIN r |-> r[p[k]]]
<1> DEFINE D == DOMAIN r
           R == {x \in D \X D : Before(r, x[1], x[2])}
           p == [k \in D |-> CHOOSE i \in D : PlaceOf(r, i) = k]
<1>1. D = 1 .. Len(r) /\ Len(r) \in Nat /\ \A i \in D : r[i] \in Nat
  OBVIOUS
<1>2. IsFiniteSet(D) /\ Cardinality(D) = Len(r)
  <2>1. /\ IsFiniteSet(1 .. Len(r))
        /\ Cardinality(1 .. Len(r)) = IF 1 > Len(r) THEN 0 ELSE Len(r) - 1 + 1
    BY <1>1, FS_Interval
  <2> QED
    BY <1>1, <2>1
<1>3. Orders(R, D)
  BY <1>1, <1>2 DEF Orders, Before
<1>4. \A i \in D : PlaceOf(r, i) = 1 + RankIn(R, D, i)
  <2>1. \A i \in D : {j \in D : <<j, i>> \in R} = {j \in D : Before(r, j, i)}
    OBVIOUS
  <2> QED
    BY <2>1 DEF PlaceOf, RankIn
<1>5. \A i \in D : RankIn(R, D, i) \in 0 .. Len(r) - 1
  BY <1>2, <1>3, RankType
<1> HIDE DEF D, R, p
<1>6. \A i, j \in D : PlaceOf(r, i) = PlaceOf(r, j) => i = j
  <2>1. \A i, j \in D : RankIn(R, D, i) = RankIn(R, D, j) => i = j
    BY <1>3, RanksFill
  <2> QED
    BY <1>4, <1>5, <2>1
<1>7. ASSUME NEW k \in D
      PROVE  \E i \in D : PlaceOf(r, i) = k
  <2>1. k - 1 \in 0 .. Cardinality(D) - 1
    BY <1>1, <1>2
  <2>2. PICK i \in D : RankIn(R, D, i) = k - 1
    BY <1>3, <2>1, RanksFill
  <2> QED
    BY <1>1, <1>4, <2>2
<1>8. ASSUME NEW i \in D
      PROVE  PlaceOf(r, i) \in D
  BY <1>1, <1>4, <1>5
<1>9. ASSUME NEW i \in D, NEW j \in D, r[i] < r[j]
      PROVE  PlaceOf(r, i) < PlaceOf(r, j)
  <2>1. <<i, j>> \in R
    BY <1>9 DEF Before, R
  <2>2. RankIn(R, D, i) < RankIn(R, D, j)
    BY <1>3, <2>1, RankGrows
  <2> QED
    BY <1>4, <1>5, <2>2
<1>10. \A k \in D : p[k] \in D /\ PlaceOf(r, p[k]) = k
  BY <1>7 DEF p
<1>11. InOrder(r) = [k \in D |-> r[p[k]]]
  BY DEF InOrder, D, p
<1>12. p \in [D -> D]
  BY <1>10 DEF p
<1>13. p \in Bijection(D, D)
  <2>1. \A k, l \in D : p[k] = p[l] => k = l
    BY <1>10
  <2>2. \A i \in D : p[PlaceOf(r, i)] = i
    BY <1>6, <1>8, <1>10
  <2> QED
    BY <1>8, <1>12, <2>1, <2>2 DEF Bijection, Injection, Surjection, IsInjective
<1>14. ASSUME NEW k \in D, NEW l \in D, k < l
       PROVE  InOrder(r)[k] <= InOrder(r)[l]
  <2>1. ~(r[p[l]] < r[p[k]])
    BY <1>1, <1>9, <1>10, <1>14
  <2> QED
    BY <1>1, <1>10, <1>11, <2>1
<1>15. InOrder(r) \in Seq(Nat)
  <2>1. InOrder(r) \in [1 .. Len(r) -> Nat]
    BY <1>1, <1>10, <1>11
  <2> QED
    BY <1>1, <2>1
<1>16. DOMAIN InOrder(r) = D
  BY <1>11
<1> QED
  BY <1>11, <1>13, <1>14, <1>15, <1>16 DEF D

-----------------------------------------------------------------------------
(* The three tables of the WASI calls.                                     *)

Served == {name \in DOMAIN Symbols : Symbols[name].row # NoRow}

\* The WASI functions that the host serves are the names of the rows.
LEMMA ServedNames ==
  Served = {"fd_read", "path_open", "fd_readdir", "fd_filestat_get",
            "path_filestat_get", "fd_prestat_dir_name", "random_get",
            "fd_prestat_get", "fd_close"}
  BY DEF Served, Symbols, Symbol, InKernel, NoRow

LEMMA RowIs ==
  ASSUME NEW name \in Served
  PROVE  /\ Symbols[name].row \in DOMAIN Rows
         /\ Rows[Symbols[name].row].name = name
         /\ Rows[Symbols[name].row].params = Symbols[name].params
  BY ServedNames DEF Symbols, Symbol, InKernel, NoRow, Rows, Row

LEMMA RowsApart ==
  \A r, q \in DOMAIN Rows : Rows[r].name = Rows[q].name => r = q
  BY DEF Rows, Row

\* Parameters of 64 bits are forwarded whole, results are pointers.
Arrives(name) ==
  /\ \A i \in 0 .. Symbols[name].params - 1 :
       i \in Symbols[name].wide <=> Forwarded(name, i) = "whole"
  /\ \A i \in OutsOf(name) : /\ i \in 0 .. Symbols[name].params - 1
                             /\ Forwarded(name, i) = "translated"

LEMMA AllArrive == \A name \in Served : Arrives(name)
<1> USE DEF Arrives, Symbols, Symbol, InKernel, Forwarded, IsIn, Wide, Pointers, OutsOf, Outs
<1>1. Arrives("fd_read")
  OBVIOUS
<1>2. Arrives("path_open")
  OBVIOUS
<1>3. Arrives("fd_readdir")
  OBVIOUS
<1>4. Arrives("fd_filestat_get")
  OBVIOUS
<1>5. Arrives("path_filestat_get")
  OBVIOUS
<1>6. Arrives("fd_prestat_dir_name")
  OBVIOUS
<1>7. Arrives("random_get")
  OBVIOUS
<1>8. Arrives("fd_prestat_get")
  OBVIOUS
<1>9. Arrives("fd_close")
  OBVIOUS
<1> HIDE DEF Arrives
<1> QED
  BY <1>1, <1>2, <1>3, <1>4, <1>5, <1>6, <1>7, <1>8, <1>9, ServedNames

\* What ArgumentsWhole asks of a call, the tables give for any layers.
LEMMA TablesAgree ==
  ASSUME NEW name \in Served
  PROVE  ArgsOf(name) = Symbols[name].params /\ Arrives(name)
<1>1. PICK r \in DOMAIN Rows : Rows[r].name = name /\ Rows[r].params = Symbols[name].params
  BY RowIs
<1> DEFINE q == CHOOSE q \in DOMAIN Rows : Rows[q].name = name
<1>2. q \in DOMAIN Rows /\ Rows[q].name = name
  BY <1>1
<1>3. q = r
  BY <1>1, <1>2, RowsApart
<1>4. ArgsOf(name) = Rows[q].params
  BY <1>1 DEF ArgsOf
<1> QED
  BY <1>1, <1>3, <1>4, AllArrive

-----------------------------------------------------------------------------
(* The registrations.                                                      *)

Wiring == {"start", "wiring", "steps"}
Phases == Wiring \cup {"new", "failed", "registers", "module", "done"}

\* What was called and what is still to call are the exports in their order.
Starting ==
  /\ phase \in Phases
  /\ registers \in Seq(Nat) /\ todo \in Seq(Nat) /\ called \in Seq(Nat)
  /\ phase \in Wiring => called = <<>>
  /\ phase = "registers" => called \o todo = Sorted(registers)
  /\ phase \in {"module", "done"} => called = Sorted(registers)

\* Sorted exports are exports.
LEMMA SortedType ==
  ASSUME NEW r \in Seq(Nat)
  PROVE  Sorted(r) \in Seq(Nat)
  BY Sorting DEF Sorted

LEMMA StartingStep == Starting /\ [Next]_vars => Starting'
<1> SUFFICES ASSUME Starting, [Next]_vars
             PROVE  Starting'
  OBVIOUS
<1> USE DEF Starting, Phases, Wiring
<1>1. ASSUME NEW g \in Guests, LoadGuest(g)
      PROVE  Starting'
  <2>1. registers' \in Seq(Nat)
    BY <1>1, HostStartAssumption DEF LoadGuest, HostStartAssumption
  <2> QED
    BY <1>1, <2>1 DEF LoadGuest, MayLoad
<1>2. CASE LoadFails
  BY <1>2 DEF LoadFails, MayLoad, startVars
<1>3. CASE WirePaging
  BY <1>3 DEF WirePaging, startVars
<1>4. CASE WireBridge
  BY <1>4 DEF WireBridge, startVars
<1>5. ASSUME NEW i \in DOMAIN link, CallImport(i)
      PROVE  Starting'
  BY <1>5 DEF CallImport, startVars, Sorted
<1>6. CASE PageFault
  BY <1>6 DEF PageFault, startVars, Sorted
<1>7. CASE EndSteps
  <2>1. Sorted(registers)' = Sorted(registers)
    BY <1>7 DEF EndSteps, Sorted
  <2>2. called' \o todo' = Sorted(registers)
    BY <1>7, SortedType DEF EndSteps
  <2> QED
    BY <1>7, <2>1, <2>2, SortedType DEF EndSteps
<1>8. CASE Register
  <2>1. Sorted(registers)' = Sorted(registers)
    BY <1>8 DEF Register, Sorted
  <2>2. /\ todo' \in Seq(Nat) /\ called' \in Seq(Nat)
        /\ called' \o todo' = called \o todo
    BY <1>8 DEF Register
  <2> QED
    BY <1>8, <2>1, <2>2 DEF Register
<1>9. CASE RegisterModule
  <2>1. Sorted(registers)' = Sorted(registers)
    BY <1>9 DEF RegisterModule, startVars, Sorted
  <2>2. called \o todo = called
    BY <1>9 DEF RegisterModule
  <2> QED
    BY <1>9, <2>1, <2>2 DEF RegisterModule, startVars
<1>10. CASE EndStart
  BY <1>10 DEF EndStart, startVars, Sorted
<1>11. CASE UNCHANGED vars
  BY <1>11 DEF vars, startVars, Sorted
<1> QED
  BY <1>1, <1>2, <1>3, <1>4, <1>5, <1>6, <1>7, <1>8, <1>9, <1>10, <1>11 DEF Next

\* The classes of every guest, in the order of their declaration, each once,
\* before its module is registered.
THEOREM ClassesInOrder == Spec => []RegisteredInOrder
<1>1. Init => Starting
  BY DEF Init, Starting, Phases
<1>2. ASSUME Starting, phase \in {"module", "done"}, entry # "cjs"
      PROVE  /\ \A i, j \in DOMAIN called : i < j => called[i] <= called[j]
             /\ \E p \in Bijection(DOMAIN registers, DOMAIN registers) :
                  called = [k \in DOMAIN registers |-> registers[p[k]]]
  <2>1. registers \in Seq(Nat) /\ called = InOrder(registers)
    BY <1>2 DEF Starting, Sorted
  <2> QED
    BY <2>1, Sorting
<1>3. Starting => RegisteredInOrder
  BY <1>2 DEF RegisteredInOrder
<1> QED
  BY <1>1, <1>3, StartingStep, PTL DEF Spec

-----------------------------------------------------------------------------
(* The bridge.                                                             *)

\* The variables have their types, and while memory is paged the table ends
\* below the slot of the faults.
BridgeTyped ==
  /\ phase \in Phases /\ loads \in Nat /\ paged \in BOOLEAN
  /\ guest \in Seq(Imports) /\ link = [i \in DOMAIN guest |-> link[i]]
  /\ count \in 0 .. BridgeFuncs /\ (paged => count <= FaultSlot)
  /\ slots = [s \in Slots |-> slots[s]]
  /\ host = [s \in Slots |-> host[s]]

\* The rows for WASI are there as soon as a guest is.
RowsThere ==
  /\ loads = 0 => count = 0
  /\ count = 0 => DOMAIN natives = {}
  /\ count > 0 =>
       /\ WasiFirst + 9 <= count
       /\ \A row \in DOMAIN Rows : slots[WasiSlot(row)] = Import(Wasi, Rows[row].name)

\* What a module has registered are slots with its name, for good.
NativesKept ==
  \A m \in DOMAIN natives : \A s \in natives[m] :
    s \in 0 .. count - 1 /\ s \notin Reserved /\ slots[s].module = m

\* An import is bound to the kernel, to its row or to a slot with its name;
\* to nothing, what is missing.
Bound(import, to) ==
  \/ import.module = Threads /\ import.name = Spawn /\ to = Kernel
  \/ IsMissing(import) /\ to = Unlinked
  \/ import.module = Wasi /\ import.name \in DOMAIN Symbols \ Served /\ to = Kernel
  \/ /\ import.module = Wasi /\ import.name \in Served
     /\ to = ToSlot(WasiSlot(Symbols[import.name].row)) /\ count > 0
  \/ IsBridged(import) /\ to = Unlinked /\ loads > 1
  \/ /\ IsBridged(import)
     /\ \E s \in 0 .. count - 1 :
          /\ to = ToSlot(s)
          /\ slots[s].module = import.module /\ slots[s].name = import.name
LinksKept == \A i \in DOMAIN link : Bound(guest[i], link[i])

\* Once wired, a slot has the handler of its name.
HostWired ==
  /\ paged /\ phase \in Phases \ {"new", "start", "failed"} =>
       host[FaultSlot] = Handler("fault", "")
  /\ phase \in Phases \ {"new", "start", "wiring", "failed"} =>
       \A s \in 0 .. count - 1 : host[s] = HandlerFor(slots[s])

\* Who answers a WASI call that the kernel's table has not is nobody.
KnownCall ==
  last.import.module = Wasi /\ last.answer.by # "nobody" =>
    last.import.name \in DOMAIN Symbols

\* The inductive invariant.
BridgeInv == /\ BridgeTyped
             /\ RowsThere
             /\ NativesKept
             /\ LinksKept
             /\ HostWired
             /\ KnownCall
             /\ AnsweredByOwn

LEMMA ReservedAre ==
  /\ \A row \in DOMAIN Rows : /\ WasiSlot(row) \in Reserved
                              /\ WasiSlot(row) \in WasiFirst .. WasiFirst + 8
  /\ Reserved \subseteq Slots
  /\ paged => FaultSlot \in Reserved
  /\ \A r, q \in DOMAIN Rows : WasiSlot(r) = WasiSlot(q) => r = q
  BY Sizes DEF Reserved, WasiSlot, Slots

\* kernel_load gives each import that fits a slot with its name.
LEMMA NamedIs ==
  ASSUME NEW g \in Seq(Imports), BridgeTyped
  PROVE  /\ TakenSlots(g) \subseteq Slots
         /\ Named(g) = [s \in Slots |-> Named(g)[s]]
         /\ \A s \in Slots \ TakenSlots(g) : Named(g)[s] = slots[s]
         /\ \A i \in Taken(g) : Named(g)[SlotFor(g, i)] = Stored(g[i])
<1>1. count \in Nat /\ BridgeFuncs \in Nat
  BY Sizes DEF BridgeTyped
<1>3. \A i \in Taken(g) : SlotFor(g, i) < BridgeFuncs
  BY DEF Taken
<1>4. \A i \in Taken(g) : SlotFor(g, i) \in Nat
  BY <1>1, TakenFill DEF TakenSlots
<1>5. TakenSlots(g) \subseteq Slots
  BY <1>1, <1>3, <1>4 DEF TakenSlots, Slots
<1> DEFINE at(s) == CHOOSE i \in Taken(g) : SlotFor(g, i) = s
<1>6. \A s \in TakenSlots(g) : at(s) \in Taken(g) /\ SlotFor(g, at(s)) = s
  BY DEF TakenSlots
<1>7. \A s \in Slots : Named(g)[s] = IF s \in TakenSlots(g) THEN Stored(g[at(s)]) ELSE slots[s]
  BY DEF Named
<1> HIDE DEF at
<1>8. Named(g) = [s \in Slots |-> Named(g)[s]]
  BY DEF Named
<1>9. ASSUME NEW i \in Taken(g)
      PROVE  Named(g)[SlotFor(g, i)] = Stored(g[i])
  <2>1. SlotFor(g, i) \in TakenSlots(g)
    BY DEF TakenSlots
  <2>2. at(SlotFor(g, i)) = i
    BY <1>1, <1>6, <2>1, TakenFill
  <2> QED
    BY <1>5, <1>7, <2>1, <2>2
<1> QED
  BY <1>5, <1>7, <1>8, <1>9

\* The rows go over the reserved slots and no others.
LEMMA WithRowsIs ==
  ASSUME NEW names
  PROVE  /\ WithRows(names) = [s \in Slots |-> WithRows(names)[s]]
         /\ \A s \in Slots \ Reserved : WithRows(names)[s] = names[s]
         /\ \A row \in DOMAIN Rows :
              WithRows(names)[WasiSlot(row)] = Import(Wasi, Rows[row].name)
<1> DEFINE on(s) == CHOOSE row \in DOMAIN Rows : s = WasiSlot(row)
<1>1. \A s \in Slots :
        WithRows(names)[s] = IF \E row \in DOMAIN Rows : s = WasiSlot(row)
                             THEN Import(Wasi, Rows[on(s)].name) ELSE names[s]
  BY DEF WithRows
<1>2. \A row \in DOMAIN Rows : on(WasiSlot(row)) = row
  BY ReservedAre
<1> HIDE DEF on
<1>3. WithRows(names) = [s \in Slots |-> WithRows(names)[s]]
  BY DEF WithRows
<1> QED
  BY <1>1, <1>2, <1>3, ReservedAre

\* The table only grows, and ends below the slot of the faults.
LEMMA CountGrows ==
  ASSUME NEW g \in Seq(Imports), BridgeTyped, ~Clashes(g)
  PROVE  /\ CountAfter(g) \in 0 .. BridgeFuncs
         /\ WasiFirst + 9 <= CountAfter(g) /\ count <= CountAfter(g)
         /\ \A s \in TakenSlots(g) : s \in 0 .. CountAfter(g) - 1 /\ count <= s
         /\ paged => CountAfter(g) <= FaultSlot
<1> DEFINE n == Cardinality(Taken(g))
<1>1. count \in 0 .. BridgeFuncs /\ n \in Nat /\ TakenSlots(g) = count .. count + n - 1
  BY TakenFill, Sizes DEF BridgeTyped
<1>2. TakenSlots(g) \subseteq 0 .. BridgeFuncs - 1
  BY NamedIs DEF Slots
<1> HIDE DEF n
<1>3. count + n <= BridgeFuncs
  <2>1. CASE n = 0
    BY <1>1, <2>1
  <2>2. CASE n # 0
    <3>1. count + n - 1 \in TakenSlots(g)
      BY <1>1, <2>2
    <3> QED
      BY <1>1, <1>2, <3>1, Sizes
  <2> QED
    BY <2>1, <2>2
<1>4. paged => count + n <= FaultSlot
  <2>1. SUFFICES ASSUME paged, FaultSlot < count + n
                 PROVE  FALSE
    BY <1>1, Sizes
  <2>2. count <= FaultSlot
    BY <2>1 DEF BridgeTyped
  <2>3. FaultSlot \in TakenSlots(g) /\ FaultSlot \in Reserved
    BY <1>1, <2>1, <2>2, Sizes, ReservedAre
  <2> QED
    BY <2>3 DEF Clashes
<1>5. CountAfter(g) = IF count + n > WasiFirst + 8 THEN count + n ELSE WasiFirst + 9
  BY Sizes, <1>1 DEF CountAfter, WasiSlot, n
<1> QED
  BY <1>1, <1>3, <1>4, <1>5, Sizes

\* The slots of a module are its own: those it had keep their names.
LEMMA RegisteredIs ==
  ASSUME NEW g \in Seq(Imports), BridgeTyped, NativesKept, ~Clashes(g),
         NEW m \in DOMAIN Registered(g), NEW s \in Registered(g)[m]
  PROVE  /\ s \in 0 .. CountAfter(g) - 1 /\ s \in Slots \ Reserved
         /\ Named(g)[s].module = m
<1>1. CASE m \in NewModules(g)
  <2>1. s \in TakenSlots(g) /\ Named(g)[s].module = m
    BY <1>1 DEF Registered
  <2> QED
    BY <2>1, CountGrows, NamedIs DEF Clashes
<1>2. CASE m \notin NewModules(g)
  <2>1. m \in DOMAIN natives /\ s \in natives[m]
    BY <1>2 DEF Registered
  <2>2. s \in 0 .. count - 1 /\ s \notin Reserved /\ slots[s].module = m
    BY <2>1 DEF NativesKept
  <2>3. count \in 0 .. BridgeFuncs /\ BridgeFuncs \in Nat /\ CountAfter(g) \in Int
    BY Sizes, CountGrows DEF BridgeTyped
  <2>4. s \notin TakenSlots(g) /\ s \in 0 .. CountAfter(g) - 1
    BY <2>2, <2>3, CountGrows
  <2>5. s \in Slots
    BY <2>2, <2>3 DEF Slots
  <2> QED
    BY <2>2, <2>4, <2>5, NamedIs
<1> QED
  BY <1>1, <1>2

\* Whatever a guest imports is bound to what has its name, and of the first
\* guest every import that is not the kernel's and not missing.
LEMMA BoundOnLoad ==
  ASSUME BridgeInv, NEW g \in Guests, LoadGuest(g), ~Clashes(g), NEW i \in DOMAIN g
  PROVE  Bound(guest[i], link[i])'
<1> DEFINE own == g[i]
           found == Candidates(own, Named(g), Registered(g))
<1>1. g \in Seq(Imports)
  BY HostStartAssumption DEF HostStartAssumption, Imports
<1>2. /\ guest'[i] = own
      /\ link'[i] = LinkOf(own, Named(g), Registered(g))
      /\ slots' = WithRows(Named(g)) /\ count' = CountAfter(g) /\ loads' = loads + 1
  BY DEF LoadGuest
<1> HIDE DEF own
<1>3. BridgeTyped /\ NativesKept /\ RowsThere /\ loads \in Nat /\ count \in Nat
  BY Sizes DEF BridgeInv, BridgeTyped
<1>4. count' > 0
  BY <1>1, <1>2, <1>3, CountGrows, Sizes
<1>5. CASE own.module = Threads
  <2>1. own.module # Wasi
    BY <1>5 DEF Wasi, Threads
  <2>2. link'[i] = IF own.name = Spawn THEN Kernel ELSE Unlinked
    BY <1>2, <1>5, <2>1 DEF LinkOf
  <2> QED
    BY <1>2, <1>5, <2>2 DEF Bound, IsMissing
<1>6. CASE own.module = Wasi
  <2>1. own.module # Threads
    BY <1>6 DEF Wasi, Threads
  <2>2. link'[i] = IF own.name \notin DOMAIN Symbols THEN Unlinked
                   ELSE IF Symbols[own.name].row = NoRow THEN Kernel
                   ELSE ToSlot(WasiSlot(Symbols[own.name].row))
    BY <1>2, <1>6, <2>1 DEF LinkOf
  <2> QED
    BY <1>2, <1>4, <1>6, <2>2 DEF Bound, Served, IsMissing
<1>7. CASE IsBridged(own)
  <2>1. link'[i] = IF found = {} THEN Unlinked ELSE ToSlot(CHOOSE s \in found : TRUE)
    BY <1>2, <1>7 DEF LinkOf, IsBridged
  <2>2. CASE found = {}
    <3>1. SUFFICES loads # 0 \/ IsLong(own)
      BY <1>2, <1>3, <1>7, <2>1, <2>2 DEF Bound, IsMissing
    <3>2. SUFFICES ASSUME loads = 0, ~IsLong(own)
                   PROVE  found # {}
      BY <2>2
    <3>9. own.module = Stored(own).module /\ own.name = Stored(own).name
      BY <3>2 DEF IsLong, Stored, Cut, Import
    <3>3. count = 0 /\ Taken(g) = Wanted(g)
      BY <1>1, <1>3, <3>2, AllFit DEF RowsThere
    <3>4. i \in Taken(g)
      BY <1>7, <3>3 DEF Wanted, own
    <3>5. own.module \in NewModules(g)
      BY <3>3, <3>4, <3>9 DEF NewModules, IsNewModule, own
    <3>6. SlotFor(g, i) \in TakenSlots(g) /\ Named(g)[SlotFor(g, i)] = Stored(own)
      BY <1>1, <1>3, <3>4, NamedIs DEF TakenSlots, own
    <3>7. SlotFor(g, i) \in Registered(g)[own.module]
      BY <3>5, <3>6, <3>9 DEF Registered
    <3>8. own.module \in DOMAIN Registered(g)
      BY <3>5 DEF Registered
    <3> QED
      BY <3>6, <3>7, <3>8, <3>9 DEF Candidates
  <2>3. CASE found # {}
    <3>1. PICK s \in found : link'[i] = ToSlot(s)
      BY <2>1, <2>3
    <3>2. /\ own.module \in DOMAIN Registered(g)
          /\ s \in Registered(g)[own.module] /\ Named(g)[s].name = own.name
      BY <3>1 DEF Candidates
    <3>3. /\ s \in 0 .. CountAfter(g) - 1 /\ s \in Slots \ Reserved
          /\ Named(g)[s].module = own.module
      BY <1>1, <1>3, <3>2, RegisteredIs
    <3>4. slots'[s] = Named(g)[s]
      BY <1>1, <1>2, <1>3, <3>3, NamedIs, WithRowsIs
    <3> QED
      BY <1>2, <1>7, <3>1, <3>2, <3>3, <3>4 DEF Bound
  <2> QED
    BY <2>2, <2>3
<1> QED
  BY <1>5, <1>6, <1>7 DEF IsBridged

LEMMA LoadGuestInv ==
  ASSUME BridgeInv, NEW g \in Guests, LoadGuest(g), ~Clashes(g)
  PROVE  BridgeInv'
<1>1. g \in Seq(Imports)
  BY HostStartAssumption DEF HostStartAssumption, Imports
<1>2. BridgeTyped /\ NativesKept /\ loads \in Nat
  BY DEF BridgeInv, BridgeTyped
<1>3. /\ slots' = WithRows(Named(g)) /\ count' = CountAfter(g) /\ loads' = loads + 1
      /\ natives' = Registered(g) /\ guest' = g /\ DOMAIN link' = DOMAIN g
      /\ link' = [i \in DOMAIN g |-> link'[i]]
      /\ phase' \in {"start", "failed"} /\ last' = NoCall
      /\ UNCHANGED <<paged, host>>
  BY DEF LoadGuest
<1>4. Reserved' = Reserved
  BY <1>3 DEF Reserved
<1>5. /\ slots' = [s \in Slots |-> slots'[s]]
      /\ \A s \in Slots \ Reserved : slots'[s] = Named(g)[s]
      /\ \A row \in DOMAIN Rows : slots'[WasiSlot(row)] = Import(Wasi, Rows[row].name)
  BY <1>1, <1>2, <1>3, NamedIs, WithRowsIs
<1>6. /\ count' \in 0 .. BridgeFuncs /\ WasiFirst + 9 <= count'
      /\ paged' => count' <= FaultSlot
  BY <1>1, <1>2, <1>3, CountGrows
<1>7. BridgeTyped'
  BY <1>1, <1>2, <1>3, <1>5, <1>6 DEF BridgeTyped, Phases, Wiring
<1>8. RowsThere'
  BY <1>2, <1>3, <1>5, <1>6, Sizes DEF RowsThere
<1>9. NativesKept'
  <2> SUFFICES ASSUME NEW m \in DOMAIN Registered(g), NEW s \in Registered(g)[m]
               PROVE  s \in 0 .. count' - 1 /\ s \notin Reserved /\ slots'[s].module = m
    BY <1>3, <1>4 DEF NativesKept
  <2> QED
    BY <1>1, <1>2, <1>3, <1>5, RegisteredIs
<1>10. LinksKept'
  BY <1>3, BoundOnLoad DEF LinksKept
<1>11. HostWired'
  BY <1>3 DEF HostWired
<1>12. KnownCall' /\ AnsweredByOwn'
  BY <1>3 DEF KnownCall, AnsweredByOwn, NoCall, Call, NoName, Import, Wasi
<1> QED
  BY <1>7, <1>8, <1>9, <1>10, <1>11, <1>12 DEF BridgeInv

\* A step that leaves what was loaded alone, and of last and the host's table
\* says only what the invariant says of them.
LEMMA KeepsLoaded ==
  ASSUME BridgeInv, UNCHANGED <<paged, guest, slots, count, natives, link, loads>>,
         phase' \in Phases, host' = [s \in Slots |-> host'[s]],
         HostWired', KnownCall', AnsweredByOwn'
  PROVE  BridgeInv'
<1>1. Reserved' = Reserved
  BY DEF Reserved
<1>2. BridgeTyped'
  BY DEF BridgeInv, BridgeTyped
<1>3. RowsThere'
  BY DEF BridgeInv, RowsThere
<1>4. NativesKept'
  BY <1>1 DEF BridgeInv, NativesKept
<1>5. LinksKept'
  BY DEF BridgeInv, LinksKept, Bound
<1> QED
  BY <1>2, <1>3, <1>4, <1>5 DEF BridgeInv

\* Layers are fixed for an entry.
LEMMA SameHandlers ==
  ASSUME entry' = entry
  PROVE  \A import : HandlerFor(import)' = HandlerFor(import) /\ OwnAnswer(import)' = OwnAnswer(import)
  BY DEF HandlerFor, Layer, OwnAnswer

LEMMA LoadFailsInv ==
  ASSUME BridgeInv, LoadFails
  PROVE  BridgeInv'
<1>1. /\ UNCHANGED <<paged, slots, count, natives, host>>
      /\ loads' = loads + 1 /\ guest' = <<>> /\ link' = <<>>
      /\ phase' = "failed" /\ last' = NoCall
  BY DEF LoadFails
<1>2. Reserved' = Reserved
  BY <1>1 DEF Reserved
<1>3. BridgeTyped'
  <2>1. guest' \in Seq(Imports) /\ link' = [i \in DOMAIN guest' |-> link'[i]]
    BY <1>1
  <2> QED
    BY <1>1, <2>1 DEF BridgeInv, BridgeTyped, Phases
<1>4. RowsThere'
  <2>1. loads \in Nat /\ RowsThere
    BY DEF BridgeInv, BridgeTyped
  <2>2. loads' # 0 /\ UNCHANGED <<count, natives, slots>>
    BY <1>1, <2>1
  <2> QED
    BY <2>1, <2>2 DEF RowsThere
<1>5. NativesKept'
  BY <1>1, <1>2 DEF BridgeInv, NativesKept
<1>6. LinksKept'
  BY <1>1 DEF LinksKept
<1>7. HostWired'
  BY <1>1 DEF HostWired
<1>8. KnownCall' /\ AnsweredByOwn'
  BY <1>1 DEF KnownCall, AnsweredByOwn, NoCall, Call, NoName, Import, Wasi
<1> QED
  BY <1>3, <1>4, <1>5, <1>6, <1>7, <1>8 DEF BridgeInv

LEMMA WiringInv ==
  ASSUME BridgeInv, WirePaging \/ WireBridge
  PROVE  BridgeInv'
<1>1. /\ FaultSlot \in Slots /\ HostWired /\ KnownCall
      /\ count \in 0 .. BridgeFuncs /\ paged \in BOOLEAN /\ (paged => count <= FaultSlot)
      /\ host = [s \in Slots |-> host[s]]
  BY Sizes DEF Slots, BridgeInv, BridgeTyped
<1>2. CASE WirePaging
  <2>1. /\ phase' = "wiring" /\ (paged => host'[FaultSlot] = Handler("fault", ""))
        /\ host' = [s \in Slots |-> host'[s]]
        /\ UNCHANGED <<entry, paged, guest, slots, count, natives, link, loads, last>>
    BY <1>1, <1>2 DEF WirePaging, kernelVars
  <2>2. HostWired'
    BY <2>1 DEF HostWired, Phases, Wiring
  <2>3. KnownCall'
    BY <1>1, <2>1 DEF KnownCall
  <2>4. AnsweredByOwn'
    BY <2>1 DEF AnsweredByOwn, Wired
  <2>5. phase' \in Phases
    BY <2>1 DEF Phases, Wiring
  <2> QED
    BY <2>1, <2>2, <2>3, <2>4, <2>5, KeepsLoaded
<1>3. CASE WireBridge
  <2>1. /\ phase = "wiring" /\ phase' = "steps" /\ last' = NoCall
        /\ host' = [s \in Slots |-> IF s < count THEN HandlerFor(slots[s]) ELSE host[s]]
        /\ UNCHANGED <<entry, paged, guest, slots, count, natives, link, loads>>
    BY <1>3 DEF WireBridge, kernelVars
  <2>2. host' = [s \in Slots |-> host'[s]]
    BY <2>1
  <2>3. paged' => host'[FaultSlot] = Handler("fault", "")
    <3>1. SUFFICES ASSUME paged
                   PROVE  host'[FaultSlot] = Handler("fault", "")
      BY <2>1
    <3>2. host[FaultSlot] = Handler("fault", "")
      BY <1>1, <2>1, <3>1 DEF HostWired, Phases, Wiring
    <3>3. ~(FaultSlot < count)
      BY <1>1, <3>1, Sizes
    <3> QED
      BY <1>1, <2>1, <3>2, <3>3
  <2>4. \A s \in 0 .. count - 1 : host'[s] = HandlerFor(slots[s])
    BY <1>1, <2>1, Sizes DEF Slots
  <2>5. HostWired'
    BY <2>1, <2>3, <2>4, SameHandlers DEF HostWired
  <2>6. KnownCall' /\ AnsweredByOwn'
    BY <2>1 DEF KnownCall, AnsweredByOwn, NoCall, Call, NoName, Import, Wasi
  <2>7. phase' \in Phases
    BY <2>1 DEF Phases, Wiring
  <2> QED
    BY <2>1, <2>2, <2>5, <2>6, <2>7, KeepsLoaded
<1> QED
  BY <1>2, <1>3

\* A handler of the bridge is not one of the answers given without it.
LEMMA HandlerBy ==
  ASSUME NEW import
  PROVE  HandlerFor(import).by \in {"napi", "user", "passthrough", "default", "unknown"}
  BY DEF HandlerFor, Handler, Layer

\* A call goes where its import is bound to, and finds the handler of its name.
LEMMA CallImportInv ==
  ASSUME BridgeInv, NEW i \in DOMAIN link, CallImport(i)
  PROVE  BridgeInv'
<1> DEFINE own == guest[i]
           to == link[i]
<1>1. /\ UNCHANGED <<entry, paged, phase, guest, slots, count, natives, link, loads, host>>
      /\ phase \in {"start", "steps", "registers", "module", "done"}
      /\ last' = Call("import", own, IF to.to = "slot" THEN host[to.slot]
                                     ELSE Handler(to.to, own.name))
  BY DEF CallImport, kernelVars, Runs
<1>2. Bound(own, to) /\ BridgeTyped /\ RowsThere /\ HostWired
  BY DEF BridgeInv, LinksKept
<1> HIDE DEF own, to
<1>3. last'.of = "import" /\ last'.import = own /\ last' # NoCall
  BY <1>1 DEF Call, NoCall
<1>4. phase' \in Phases /\ host' = [s \in Slots |-> host'[s]]
  BY <1>1, <1>2 DEF BridgeTyped
<1>5. HostWired'
  BY <1>1, <1>2, SameHandlers DEF HostWired
<1>6. Threads # Wasi
  BY DEF Threads, Wasi
<1>7. CASE to = Kernel
  <2>1. \/ own.module = Threads
        \/ own.module = Wasi /\ own.name \in DOMAIN Symbols \ Served
    BY <1>2, <1>7 DEF Bound, Kernel, Unlinked, ToSlot
  <2>2. last'.answer = Handler("kernel", own.name)
    BY <1>1, <1>7 DEF Kernel, Call
  <2>3. last'.answer.by = "kernel"
    BY <2>2 DEF Handler
  <2>4. OwnAnswer(own) = Handler("kernel", own.name)
    BY <1>6, <2>1 DEF OwnAnswer, IsBridged, Served
  <2>5. KnownCall'
    BY <1>3, <1>6, <2>1 DEF KnownCall
  <2>6. AnsweredByOwn'
    BY <1>1, <1>3, <2>2, <2>3, <2>4, SameHandlers DEF AnsweredByOwn
  <2> QED
    BY <1>1, <1>4, <1>5, <2>5, <2>6, KeepsLoaded
<1>8. CASE to = Unlinked
  <2>1. last'.answer.by = "nobody"
    BY <1>1, <1>8 DEF Unlinked, Call, Handler
  <2>2. loads > 1 \/ IsMissing(own)
    BY <1>2, <1>8 DEF Bound, Unlinked, Kernel, ToSlot
  <2>3. KnownCall'
    BY <2>1 DEF KnownCall
  <2>4. AnsweredByOwn'
    BY <1>1, <1>3, <2>1, <2>2 DEF AnsweredByOwn, IsMissing
  <2> QED
    BY <1>1, <1>4, <1>5, <2>3, <2>4, KeepsLoaded
<1>9. CASE /\ IsBridged(own) \/ (own.module = Wasi /\ own.name \in Served)
           /\ to # Unlinked
  <2>1. PICK s \in 0 .. count - 1 :
          to = ToSlot(s) /\ slots[s].module = own.module /\ slots[s].name = own.name
    <3>1. CASE IsBridged(own)
      BY <1>2, <1>6, <1>9, <3>1 DEF Bound, IsBridged
    <3>2. CASE own.module = Wasi /\ own.name \in Served
      <4> DEFINE row == Symbols[own.name].row
      <4>1. to = ToSlot(WasiSlot(row)) /\ count > 0
        BY <1>2, <1>6, <1>9, <3>2 DEF Bound, IsBridged, Served
      <4>2. row \in DOMAIN Rows /\ Rows[row].name = own.name
        BY <3>2, RowIs
      <4>3. /\ WasiFirst + 9 <= count
            /\ slots[WasiSlot(row)] = Import(Wasi, Rows[row].name)
        BY <1>2, <4>1, <4>2 DEF RowsThere
      <4>4. WasiSlot(row) \in 0 .. count - 1
        <5>1. WasiSlot(row) \in WasiFirst .. WasiFirst + 8
          BY <4>2, ReservedAre
        <5>2. count \in Nat /\ WasiFirst \in Nat
          BY <1>2, Sizes DEF BridgeTyped
        <5> HIDE DEF row
        <5> QED
          BY <4>3, <5>1, <5>2
      <4> QED
        BY <3>2, <4>1, <4>2, <4>3, <4>4 DEF Import
    <3> QED
      BY <1>9, <3>1, <3>2
  <2>2. HandlerFor(slots[s]) = HandlerFor(own)
    BY <2>1 DEF HandlerFor
  <2>3. last'.answer = host[s]
    BY <1>1, <2>1 DEF ToSlot, Call
  <2>4. OwnAnswer(own) = HandlerFor(own)
    BY <1>9 DEF OwnAnswer, Served
  <2>5. KnownCall'
    BY <1>3, <1>9 DEF KnownCall, IsBridged, Served
  <2>6. CASE phase = "start"
    <3>1. AnsweredByOwn'
      BY <1>1, <2>6 DEF AnsweredByOwn, Wired
    <3> QED
      BY <1>1, <1>4, <1>5, <2>5, <3>1, KeepsLoaded
  <2>7. CASE phase # "start"
    <3>1. host[s] = HandlerFor(own)
      BY <1>1, <1>2, <2>1, <2>2, <2>7 DEF HostWired, Phases, Wiring
    <3>2. last'.answer.by # "nobody"
      BY <2>3, <3>1, HandlerBy
    <3>3. OwnAnswer(last.import)' = OwnAnswer(last'.import)
      BY <1>1 DEF OwnAnswer, HandlerFor, Layer
    <3>4. last'.answer = OwnAnswer(last.import)'
      BY <1>3, <2>3, <2>4, <3>1, <3>3
    <3>5. AnsweredByOwn'
      BY <1>1, <1>3, <3>2, <3>4 DEF AnsweredByOwn
    <3> QED
      BY <1>1, <1>4, <1>5, <2>5, <3>5, KeepsLoaded
  <2> QED
    BY <2>6, <2>7
<1> QED
  BY <1>2, <1>7, <1>8, <1>9 DEF Bound

LEMMA PageFaultInv ==
  ASSUME BridgeInv, PageFault
  PROVE  BridgeInv'
<1>1. /\ UNCHANGED <<entry, paged, phase, guest, slots, count, natives, link, loads, host>>
      /\ phase \in {"steps", "registers", "module", "done"}
  BY DEF PageFault, kernelVars, Runs
<1>2. BridgeTyped /\ HostWired
  BY DEF BridgeInv
<1>3. phase' \in Phases /\ host' = [s \in Slots |-> host'[s]]
  BY <1>1, <1>2 DEF BridgeTyped
<1>4. HostWired'
  BY <1>1, <1>2, SameHandlers DEF HostWired
<1>5. paged /\ last' = Call("fault", NoName, host[FaultSlot])
  BY DEF PageFault
<1>6. last'.of = "fault" /\ last'.answer.by = "fault" /\ last'.import = NoName
  <2>1. phase \in Phases \ {"new", "start", "failed"}
    BY <1>1 DEF Phases, Wiring
  <2>2. host[FaultSlot] = Handler("fault", "")
    BY <1>2, <1>5, <2>1 DEF HostWired
  <2>3. last' = Call("fault", NoName, Handler("fault", ""))
    BY <1>5, <2>2
  <2> QED
    BY <2>3 DEF Call, Handler
<1>7. KnownCall'
  <2>1. NoName.module # Wasi
    BY DEF NoName, Import, Wasi
  <2> QED
    BY <1>6, <2>1 DEF KnownCall
<1>8. AnsweredByOwn'
  BY <1>6 DEF AnsweredByOwn
<1> QED
  BY <1>1, <1>3, <1>4, <1>7, <1>8, KeepsLoaded

\* The steps of the start and of its end.
LEMMA StartInv ==
  ASSUME BridgeInv, EndSteps \/ Register \/ RegisterModule \/ EndStart \/ UNCHANGED vars
  PROVE  BridgeInv'
<1>1. /\ UNCHANGED <<entry, paged, guest, slots, count, natives, link, loads, host, last>>
      /\ \/ phase' = phase
         \/ /\ phase \in {"steps", "registers", "module"}
            /\ phase' \in {"registers", "module", "done", "failed"}
  BY DEF EndSteps, Register, RegisterModule, EndStart, vars, kernelVars, startVars
<1>2. BridgeTyped /\ HostWired /\ KnownCall /\ AnsweredByOwn
  BY DEF BridgeInv
<1>3. phase' \in Phases /\ host' = [s \in Slots |-> host'[s]]
  BY <1>1, <1>2 DEF BridgeTyped, Phases, Wiring
<1>4. HostWired'
  BY <1>1, <1>2, SameHandlers DEF HostWired, Phases, Wiring
<1>5. KnownCall'
  BY <1>1, <1>2 DEF KnownCall
<1>6. Wired' => Wired
  BY <1>1 DEF Wired
<1>7. AnsweredByOwn'
  BY <1>1, <1>2, <1>6, SameHandlers DEF AnsweredByOwn
<1> QED
  BY <1>1, <1>3, <1>4, <1>5, <1>7, KeepsLoaded

LEMMA BridgeInit == Init => BridgeInv
<1> SUFFICES ASSUME Init PROVE BridgeInv
  OBVIOUS
<1>1. BridgeTyped
  <2>1. guest \in Seq(Imports) /\ link = [i \in DOMAIN guest |-> link[i]]
    BY DEF Init
  <2>2. paged \in BOOLEAN /\ phase \in Phases /\ loads \in Nat
    BY DEF Init, Phases
  <2>3. count \in 0 .. BridgeFuncs /\ (paged => count <= FaultSlot)
    BY Sizes DEF Init
  <2>4. slots = [s \in Slots |-> slots[s]] /\ host = [s \in Slots |-> host[s]]
    BY DEF Init
  <2> QED
    BY <2>1, <2>2, <2>3, <2>4 DEF BridgeTyped
<1>2. RowsThere
  BY DEF Init, RowsThere
<1>3. NativesKept /\ LinksKept
  BY DEF Init, NativesKept, LinksKept
<1>4. HostWired
  BY DEF Init, HostWired
<1>5. KnownCall /\ AnsweredByOwn
  BY DEF Init, KnownCall, AnsweredByOwn, NoCall, Call, NoName, Import, Wasi
<1> QED
  BY <1>1, <1>2, <1>3, <1>4, <1>5 DEF BridgeInv

\* The invariant is inductive under the steps the run keeps.
LEMMA BridgeStep == BridgeInv /\ [KeptNext]_vars => BridgeInv'
<1> SUFFICES ASSUME BridgeInv, [KeptNext]_vars
             PROVE  BridgeInv'
  OBVIOUS
<1>1. ASSUME NEW g \in Guests, LoadGuest(g), KeptNext
      PROVE  BridgeInv'
  <2>1. loads' # loads
    BY <1>1 DEF LoadGuest, BridgeInv, BridgeTyped
  <2>2. ~Clashes(g)
    BY <1>1, <2>1 DEF KeptNext, LoadGuest
  <2> QED
    BY <1>1, <2>2, LoadGuestInv
<1> QED
  BY <1>1, LoadFailsInv, WiringInv, CallImportInv, PageFaultInv, StartInv DEF KeptNext, Next

\* BridgeInv holds throughout.
THEOREM BridgeInvariance == KeptSpec => []BridgeInv
  BY BridgeInit, BridgeStep, PTL DEF KeptSpec

\* Whatever guests a kernel is given, a call of an import is answered by the
\* function of its own name and a page fault by the page cache.
THEOREM CallsReachTheirOwn == KeptSpec => []AnsweredByOwn
<1>1. BridgeInv => AnsweredByOwn
  BY DEF BridgeInv
<1> QED
  BY <1>1, BridgeInvariance, PTL

\* The calls of WASI the host serves lose no argument.
THEOREM ArgumentsArrive == KeptSpec => []ArgumentsWhole
<1>1. ASSUME BridgeInv PROVE ArgumentsWhole
  <2> DEFINE name == last.import.name
             by == last.answer.by
  <2>1. SUFFICES ASSUME Wired, last # NoCall, last.import.module = Wasi,
                        by \in {"passthrough", "default", "user"}
                 PROVE  name \in Served
    BY TablesAgree DEF ArgumentsWhole, Arrives
  <2>2. name \in DOMAIN Symbols
    BY <1>1, <2>1 DEF BridgeInv, KnownCall
  <2>3. last.answer = OwnAnswer(last.import)
    BY <1>1, <2>1 DEF BridgeInv, AnsweredByOwn
  <2>4. SUFFICES ASSUME Symbols[name].row = NoRow
                 PROVE  FALSE
    BY <2>2 DEF Served
  <2>5. last.answer = Handler("kernel", name)
    BY <2>1, <2>3, <2>4 DEF OwnAnswer, IsBridged
  <2> QED
    BY <2>1, <2>5 DEF Handler
<1> QED
  BY <1>1, BridgeInvariance, PTL

=============================================================================
