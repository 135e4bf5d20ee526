-------------------------------- MODULE Heap ---------------------------------
(***************************************************************************)
(* The budgets of a Ruby program inside the guest: mrb_basic_alloc_func and  *)
(* instruction_hook of guest.c, called by a VM that may do anything, rescue  *)
(* included.  size_t has SIZE_MAX + 1 values.                                *)
(***************************************************************************)
EXTENDS Integers, Functions

CONSTANTS
  SIZE_MAX,          \* of size_t
  Header,            \* sizeof(allocation)
  Pointers,          \* pointers the allocator may hand out
  memory_limit, instruction_limit

ASSUME HeapAssumption ==
  /\ SIZE_MAX \in Nat /\ Header \in 1 .. SIZE_MAX
  /\ memory_limit \in 1 .. SIZE_MAX - Header     \* Request::validate: 128 MiB at most
  /\ instruction_limit \in Nat \ {0}

VARIABLES
  size,              \* of every allocation: its header's field
  allocated,         \* guest_state
  peak_memory, instructions,  \* ruby_result
  ended,             \* "no", or the status of _exit()
  asked,             \* history: the size last refused, by the budget or by malloc
  highest,           \* history: the most bytes ever held
  executed           \* history: instructions the VM executed

vars == <<size, allocated, peak_memory, instructions, ended, asked, highest, executed>>

Wrap(n) == n % (SIZE_MAX + 1)
Held(s) == SumFunction(s)
Larger(a, b) == IF a > b THEN a ELSE b

Init ==
  /\ size = [p \in {} |-> 0] /\ allocated = 0 /\ peak_memory = 0 /\ instructions = 0
  /\ ended = "no" /\ asked = [bytes |-> 0, old |-> 0, by |-> "nobody"] /\ highest = 0 /\ executed = 0

-----------------------------------------------------------------------------
(* The reallocation of old bytes, 0 for a NULL pointer, to new bytes. *)
Refused(old, new) ==
  \/ new > memory_limit
  \/ Wrap(allocated - old) > Wrap(memory_limit - new)
  \/ new > Wrap(SIZE_MAX - Header)

Exit(code) == ended' = code /\ UNCHANGED <<size, allocated, peak_memory, highest>>

Account(old, new) == Wrap(Wrap(allocated - old) + new)

Peak(old, new) == Larger(peak_memory, Account(old, new))

Resize(old, new, sizes) ==
  IF Refused(old, new)
  THEN Exit("exit_125") /\ asked' = [bytes |-> new, old |-> old, by |-> "budget"]
  ELSE \/ /\ size' = sizes
          /\ allocated' = Account(old, new)
          /\ peak_memory' = Peak(old, new)
          /\ highest' = Larger(highest, Held(sizes))
          /\ UNCHANGED <<ended, asked>>
       \/ Exit("exit_125") /\ asked' = [bytes |-> new, old |-> old, by |-> "malloc"]

Running == ended = "no"

(* malloc: no pointer before. *)
Allocate(p, new) ==
  /\ Running /\ p \notin DOMAIN size /\ new > 0
  /\ Resize(0, new, [q \in DOMAIN size \cup {p} |-> IF q = p THEN new ELSE size[q]])
  /\ UNCHANGED <<instructions, executed>>

Reallocate(p, new) ==
  /\ Running /\ p \in DOMAIN size /\ new > 0
  /\ Resize(size[p], new, [size EXCEPT ![p] = new])
  /\ UNCHANGED <<instructions, executed>>

(* free: size 0. *)
Free(p) ==
  /\ Running /\ p \in DOMAIN size
  /\ size' = [q \in DOMAIN size \ {p} |-> size[q]]
  /\ allocated' = Wrap(allocated - size[p])
  /\ UNCHANGED <<peak_memory, instructions, ended, asked, highest, executed>>

(* The hook runs before the instruction does. *)
OverBudget_Equal == instructions' >= instruction_limit
OverBudget == instructions' > instruction_limit

Instruction ==
  /\ Running
  /\ instructions' = instructions + 1
  /\ IF OverBudget THEN ended' = "exit_124" /\ UNCHANGED executed
                   ELSE executed' = executed + 1 /\ UNCHANGED ended
  /\ UNCHANGED <<size, allocated, peak_memory, asked, highest>>

Finished == ~Running /\ UNCHANGED vars

Sizes == 0 .. SIZE_MAX
Next == \/ \E p \in Pointers : Free(p) \/ \E new \in Sizes : Allocate(p, new) \/ Reallocate(p, new)
        \/ Instruction \/ Finished

Spec == Init /\ [][Next]_vars

-----------------------------------------------------------------------------
TypeOK ==
  /\ DOMAIN size \subseteq Pointers /\ \A p \in DOMAIN size : size[p] \in 1 .. SIZE_MAX - Header
  /\ allocated \in Sizes /\ peak_memory \in Sizes
  /\ instructions \in 0 .. instruction_limit + 1
  /\ ended \in {"no", "exit_124", "exit_125"}

(* However allocations grow, shrink and end, what is counted is what is held,
   never above the budget, and the peak reported is the true one: no unsigned
   difference of guest.c:46-55 wraps. *)
Accounted ==
  /\ allocated = Held(size) /\ allocated <= memory_limit
  /\ peak_memory = highest

(* memory_limit is said of a program only when the allocation it asked for did
   not fit, or malloc had none: shrinking and replacing fit (guest.c:47-51). *)
RefusedJustly ==
  ended = "exit_125" /\ asked.by = "budget" => Held(size) - asked.old + asked.bytes > memory_limit

(* The budget's last instruction is executed and the one after it is not, also
   by a program that rescues everything (guest.c:59-64). *)
InstructionsExact ==
  /\ executed <= instruction_limit
  /\ ended = "exit_124" => executed = instruction_limit

(* Both budgets of guest.c:41-64 are exact. *)
BudgetsExact == TypeOK /\ Accounted /\ RefusedJustly /\ InstructionsExact
=============================================================================
