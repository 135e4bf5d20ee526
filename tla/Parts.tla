-------------------------------- MODULE Parts --------------------------------
(***************************************************************************)
(* What decides about a program before and while it runs, without another    *)
(* process: the admission of its request, the budgets of its VM, the paths   *)
(* by which it calls.  Heap keeps its names; the others get names of their   *)
(* own here.  They share no state.                                           *)
(***************************************************************************)
EXTENDS Heap

CONSTANTS Raws, MaxFrame, Defaults, MaxDepth,      \* Admission
          Letters, Dot, MaxPath, Catalogs, Own,    \* Dispatch
          Bytes, MaxLength,                              \* EditDistance
          Blocks, MaxNesting, Operands, Wide, Ext, Structural, Sends, Forbidden, Programs,  \* Profile
          MaxLevels, result_limit, Objects, Leaves, Leaf, Key, Heaps                        \* Values

VARIABLES
  catalog, target, dotted, arguments, path, outcome,      \* Dispatch
  raw, bytes, request, party, a_at, execution, told,      \* Admission
  one, other, outer, inner, row, diagonal, e_at,          \* EditDistance
  code, parent, stack, verdict,                           \* Profile
  heap, root, v_at, calls, text, json, nodes, cursor, value   \* Values

access  == <<catalog, target, dotted, arguments, path, outcome>>
reading == <<raw, bytes, request, party, a_at, execution, told>>
distance == <<one, other, outer, inner, row, diagonal, e_at>>
walk     == <<code, parent, stack, verdict>>
conversion == <<heap, root, v_at, calls, text, json, nodes, cursor, value>>

A == INSTANCE Admission WITH at <- a_at
D == INSTANCE Dispatch
E == INSTANCE EditDistance WITH a <- one, b <- other, i <- outer, j <- inner, at <- e_at
P == INSTANCE Profile WITH MaxDepth <- MaxNesting
V == INSTANCE Values WITH MaxDepth <- MaxLevels, at <- v_at, stack <- calls

ASSUME PartsAssumption ==
  A!AdmissionAssumption /\ D!DispatchAssumption /\ E!EditDistanceAssumption /\ P!ProfileAssumption
  /\ V!ValuesAssumption

-----------------------------------------------------------------------------
(* Access by dots and by call() means the same listed path (guest.c:278-320). *)
AccessMeans == D!AccessMeans

(* Supervisor and guest agree on a request, and failures name it (main.rs:39-62). *)
FailuresTrue == A!FailuresTrue

(* What reaches C is in its bounds (protocol.rs:110-170). *)
NativeSafe == A!NativeSafe

(* One row suffices for the distance of two paths (guest.rs:133-147). *)
RowExact == E!TypeOK /\ E!RowExact

(* The walk over compiled code never loses its place and denies what it should
   (guest.c:333-403). *)
AdmittedJustly == P!AdmittedJustly

(* Values leave the VM exactly when they may (guest.c:161-223), and come back
   as they were or not at all (guest.c:126-159, 225-244). *)
Faithful == V!Faithful
=============================================================================
