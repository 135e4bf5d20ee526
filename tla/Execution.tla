------------------------------ MODULE Execution ------------------------------
(***************************************************************************)
(* What one execution promises the host, whatever its Ruby program does:    *)
(* external effects are asked for one at a time and within the budget, an   *)
(* effect that was asked for stays asked for when the execution ends, and   *)
(* at most one conclusion is told, after which nothing is asked.            *)
(***************************************************************************)
EXTENDS Integers

VARIABLES phase,        \* "idle", "running", "over"
          budget,       \* calls this execution may make
          dispatched,   \* calls asked of the host
          answered,     \* calls answered to the guest
          decided,      \* the conclusion is known, if not yet told
          told          \* the host has all of it

vars == <<phase, budget, dispatched, answered, decided, told>>

Init == /\ phase = "idle" /\ budget = 0
        /\ dispatched = 0 /\ answered = 0
        /\ decided = FALSE /\ told = FALSE

Begin == /\ phase = "idle" /\ phase' = "running"
         /\ budget' \in Nat
         /\ UNCHANGED <<dispatched, answered, decided, told>>

Dispatch == /\ phase = "running" /\ ~decided
            /\ dispatched = answered /\ dispatched < budget
            /\ dispatched' = dispatched + 1
            /\ UNCHANGED <<phase, budget, answered, decided, told>>

Answer == /\ phase = "running" /\ answered < dispatched
          /\ answered' = answered + 1
          /\ UNCHANGED <<phase, budget, dispatched, decided, told>>

Decide == /\ phase = "running" /\ ~decided
          /\ decided' = TRUE
          /\ UNCHANGED <<phase, budget, dispatched, answered, told>>

(* The execution ends, with its conclusion delivered or without. *)
End == /\ phase # "over" /\ phase' = "over"
       /\ told' \in BOOLEAN
       /\ told' => phase = "running"
       /\ UNCHANGED <<budget, dispatched, answered, decided>>

Next == Begin \/ Dispatch \/ Answer \/ Decide \/ End

Spec == Init /\ [][Next]_vars
=============================================================================
