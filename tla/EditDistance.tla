---------------------------- MODULE EditDistance -----------------------------
(***************************************************************************)
(* edit_distance() of guest.rs: Levenshtein's distance of two paths in one   *)
(* row, by which an unknown path is answered with the closest listed ones.   *)
(***************************************************************************)
EXTENDS Integers, Sequences, FiniteSetsExt

CONSTANTS Bytes, MaxLength
EditDistanceAssumption == MaxLength \in Nat

VARIABLES a, b,            \* the two paths
          i, j,            \* enumerate() of their bytes, from 0
          row, diagonal,   \* row is indexed from 0
          at

vars == <<a, b, i, j, row, diagonal, at>>

Paths == UNION {[1 .. n -> Bytes] : n \in 0 .. MaxLength}

Init ==
  /\ a \in Paths /\ b \in Paths
  /\ i = 0 /\ j = 0 /\ diagonal = 0
  /\ row = [k \in 0 .. Len(b) |-> k]
  /\ at = "outer"

Cheapest(x, y, z) == Min({x, y, z})

Outer ==
  /\ at = "outer" /\ i < Len(a)
  /\ diagonal' = row[0] /\ row' = [row EXCEPT ![0] = i + 1]
  /\ j' = 0 /\ at' = "inner"
  /\ UNCHANGED <<a, b, i>>

Diagonal_Overwritten == row'[j + 1]
Diagonal == row[j + 1]

Inner ==
  /\ at = "inner" /\ j < Len(b)
  /\ row' = [row EXCEPT ![j + 1] =
       Cheapest(row[j] + 1, row[j + 1] + 1, diagonal + (IF a[i + 1] = b[j + 1] THEN 0 ELSE 1))]
  /\ diagonal' = Diagonal
  /\ j' = j + 1
  /\ UNCHANGED <<a, b, i, at>>

NextByte == at = "inner" /\ j = Len(b) /\ i' = i + 1 /\ at' = "outer" /\ UNCHANGED <<a, b, j, row, diagonal>>
Return == at = "outer" /\ i = Len(a) /\ at' = "done" /\ UNCHANGED <<a, b, i, j, row, diagonal>>
Over == at = "done" /\ UNCHANGED vars

Next == Outer \/ Inner \/ NextByte \/ Return \/ Over
Spec == Init /\ [][Next]_vars

-----------------------------------------------------------------------------
(* The distance by what it means (a trace, as Wagner and Fischer call it): bytes
   of s stand for bytes of t, in order.  Where the two differ the byte is
   replaced; any other byte of s is deleted, any other of t inserted.        *)
Alignments(m, n) ==
  {f \in UNION {[kept -> 1 .. n] : kept \in SUBSET (1 .. m)} :
     \A x, y \in DOMAIN f : x < y => f[x] < f[y]}

Cost(s, t, f) ==
  LET kept == Cardinality(DOMAIN f)
  IN (Len(s) - kept) + (Len(t) - kept) + Cardinality({x \in DOMAIN f : s[x] # t[f[x]]})

Distance(s, t) == Min({Cost(s, t, f) : f \in Alignments(Len(s), Len(t))})

TypeOK ==
  /\ i \in 0 .. Len(a) /\ j \in 0 .. Len(b) /\ DOMAIN row = 0 .. Len(b)
  /\ \A k \in DOMAIN row : row[k] \in 0 .. Max({Len(a), Len(b)})
  /\ at \in {"outer", "inner", "done"}

(* One row is enough although it is overwritten while it is read: in the middle
   of a pass its left part belongs to this byte, its right part to the last
   (guest.rs:133-147).                                                       *)
RowExact ==
  /\ at = "done" => row[Len(b)] = Distance(a, b)
  /\ at = "inner" =>
       \A k \in 0 .. Len(b) :
         row[k] = Distance(SubSeq(a, 1, IF k <= j THEN i + 1 ELSE i), SubSeq(b, 1, k))
=============================================================================
