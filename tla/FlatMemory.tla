------------------------------ MODULE FlatMemory ------------------------------
(***************************************************************************)
(* What paged memory promises to the guest and the host: one linear        *)
(* memory.  Each access names its operation in done; a read returns the    *)
(* cells last written, a copy is a memmove, memory.grow adds zeros.  Of    *)
(* what the host asks for beyond the end, nothing is of this memory.       *)
(***************************************************************************)
EXTENDS Integers, Sequences

CONSTANTS PageSize, InitialPages, GrowLimit, Zero, Junk, Memories

VARIABLES
  contents,  \* the cells of the linear memory, Zero beyond its size
  size,      \* its size in pages
  ret,       \* the cells the last read returned
  done       \* the last operation

vars == <<contents, size, ret, done>>

Cut(f, a, n) ==
  [i \in 1 .. n |-> IF a + i - 1 < size * PageSize THEN f[a + i - 1] ELSE Junk]
Paste(f, a, cells) ==
  [j \in DOMAIN f |->
     IF j \in a .. a + Len(cells) - 1 /\ j < size * PageSize
     THEN cells[j - a + 1] ELSE f[j]]

Read(a, n) ==
  /\ ret' = Cut(contents, a, n)
  /\ UNCHANGED <<contents, size>>

Write(a, cells) ==
  /\ contents' = Paste(contents, a, cells)
  /\ UNCHANGED <<size, ret>>

Copy(d, s, n) ==
  /\ contents' = Paste(contents, d, Cut(contents, s, n))
  /\ UNCHANGED <<size, ret>>

Grow(n) ==
  /\ size' = size + n
  /\ UNCHANGED <<contents, ret>>

Init ==
  /\ \E f \in Memories :
       contents = [i \in 0 .. GrowLimit * PageSize - 1 |->
                     IF i \in DOMAIN f THEN f[i] ELSE Zero]
  /\ size = InitialPages
  /\ ret  = <<>>
  /\ done = [op |-> "none"]

\* The operation named by done' takes place.
Next == \/ done'.op = "read"  /\ Read(done'.at, done'.len)
        \/ done'.op = "write" /\ Write(done'.at, done'.cells)
        \/ done'.op = "copy"  /\ Copy(done'.at, done'.from, done'.len)
        \/ done'.op = "grow"  /\ Grow(done'.by)

Flat == Init /\ [][Next]_vars
=============================================================================
