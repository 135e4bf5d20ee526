----------------------------- MODULE FrameRelay -----------------------------
(***************************************************************************)
(* What a bounded relay of frames promises: the values that leave it are    *)
(* those that entered, in order, none lost, repeated or made up, and it     *)
(* takes none while one is still to be given.                               *)
(***************************************************************************)
EXTENDS Naturals, Sequences

VARIABLES source,     \* the values that will be offered
          taken,      \* those accepted
          given       \* those passed on, completely

vars == <<source, taken, given>>

Init == taken = <<>> /\ given = <<>>

Accept == /\ taken = given /\ Len(taken) < Len(source)
          /\ taken' = Append(taken, source[Len(taken) + 1])
          /\ UNCHANGED <<source, given>>

Give == /\ Len(given) < Len(taken)
        /\ given' = Append(given, taken[Len(given) + 1])
        /\ UNCHANGED <<source, taken>>

Spec == Init /\ [][Accept \/ Give]_vars
=============================================================================
