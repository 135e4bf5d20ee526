------------------------------- MODULE Profile -------------------------------
(***************************************************************************)
(* admit() and next_instruction() of native/guest.c: the walk over compiled  *)
(* code, and the code compiled inside it, that decides whether a program may *)
(* run.  Code is bytes; where an instruction ends depends on its opcode and  *)
(* on a prefix (EXT1, EXT2, EXT3) that widens its operands.                  *)
(***************************************************************************)
EXTENDS Integers, Sequences, FiniteSetsExt

CONSTANTS
  Blocks,     \* mrb_irep: the program is 1, each other one lies in a smaller
  MaxDepth,   \* 128
  Operands,   \* opcode -> number of operands, one byte each
  Wide,       \* opcode -> operands of two bytes all the same, such as a jump's
  Ext,        \* prefix -> operands (1, 2 or both) it widens to two bytes
  Structural, \* opcodes no program may contain (OP_CLASS, ...)
  Sends,      \* opcodes whose second operand names a symbol (OP_SEND, OP_GETCONST, ...)
  Forbidden,  \* symbols no program may send
  Programs    \* block -> [iseq, instructions], as the compiler emits them

Widened(prefix, op) == Wide[op] \cup (IF prefix = 0 THEN {} ELSE Ext[prefix])

(* Where the n-th instruction of a block ends and the next one begins. *)
Place(c, n) == IF n < Len(c.instructions) THEN c.instructions[n + 1].first ELSE Len(c.iseq)

(* An instruction is written as its prefix, if it has one (ext # 0), its opcode and
   its operands; ends[k] is where the k-th of these ends.                      *)
Written(i, c) ==
  /\ i.op \in DOMAIN Operands /\ i.ext \in {0} \cup DOMAIN Ext
  /\ i.operands \in Seq(Nat) /\ Len(i.operands) = Operands[i.op]
  /\ i.first \in Nat /\ i.ends \in [0 .. Len(i.operands) -> 1 .. Len(c.iseq)]
  /\ i.ends[0] = i.first + (IF i.ext = 0 THEN 1 ELSE 2)
  /\ c.iseq[i.ends[0]] = i.op /\ (i.ext # 0 => c.iseq[i.first + 1] = i.ext)
  /\ \A k \in 1 .. Len(i.operands) :
       LET end == i.ends[k]
       IN IF k \in Widened(i.ext, i.op)
          THEN end = i.ends[k - 1] + 2 /\ i.operands[k] = 256 * c.iseq[end - 1] + c.iseq[end]
          ELSE end = i.ends[k - 1] + 1 /\ i.operands[k] = c.iseq[end]

Compiled(c) ==
  /\ c.iseq \in Seq(0 .. 255) /\ DOMAIN c.instructions = 1 .. Len(c.instructions)
  /\ Len(c.instructions) \in Nat /\ Place(c, 0) = 0
  /\ \A n \in DOMAIN c.instructions :
       LET i == c.instructions[n] IN Written(i, c) /\ i.ends[Len(i.operands)] = Place(c, n)

ProfileAssumption ==
  /\ Blocks \subseteq Nat \ {0} /\ 1 \in Blocks /\ MaxDepth \in Nat
  /\ Structural \cup Sends \subseteq DOMAIN Operands /\ \A op \in Sends : Operands[op] >= 2
  /\ \A op \in DOMAIN Operands : Operands[op] \in Nat
  /\ DOMAIN Ext \cap DOMAIN Operands = {} /\ 0 \notin DOMAIN Ext
  /\ \A p \in Programs : DOMAIN p = Blocks /\ \A b \in Blocks : Compiled(p[b])

VARIABLES
  code,    \* block -> what it was compiled to
  parent,  \* block -> the block it lies in
  stack,   \* admit()'s activations: [irep, pc, todo]; pc counts from 0
  verdict

vars == <<code, parent, stack, verdict>>

iseq(b) == code[b].iseq

reps(b) == {c \in Blocks \ {1} : parent[c] = b}

Enter(b) == [irep |-> b, pc |-> 0, todo |-> reps(b)]

Init ==
  /\ code \in Programs
  /\ parent \in [Blocks \ {1} -> Blocks] /\ \A b \in Blocks \ {1} : parent[b] < b
  /\ stack = <<Enter(1)>> /\ verdict = "none"

-----------------------------------------------------------------------------
Top == Head(stack)
At(k) == iseq(Top.irep)[Top.pc + 1 + k]
Prefix == IF At(0) \in DOMAIN Ext THEN At(0) ELSE 0
Opcode == IF Prefix = 0 THEN At(0) ELSE At(1)

(* Bytes up to the k-th operand's end. *)
Skip(k) ==
  (IF Prefix = 0 THEN 1 ELSE 2) + k + Cardinality(Widened(Prefix, Opcode) \cap (1 .. k))

next_instruction_Narrow == Top.pc + (IF Prefix = 0 THEN 1 ELSE 2) + Operands[Opcode]
next_instruction == Top.pc + Skip(Operands[Opcode])

(* The number of the symbol that is sent, the second operand. *)
Symbol ==
  IF 2 \in Widened(Prefix, Opcode) THEN 256 * At(Skip(2) - 2) + At(Skip(2) - 1) ELSE At(Skip(2) - 1)

Denied == Opcode \in Structural \/ (Opcode \in Sends /\ Symbol \in Forbidden)

Refuse == verdict' = "profile_error" /\ UNCHANGED stack

Shallow == Len(stack) <= MaxDepth + 1
TooDeep == verdict = "none" /\ ~Shallow /\ Refuse

More == Top.pc < Len(iseq(Top.irep))

Instruction ==
  /\ verdict = "none" /\ Shallow /\ More
  /\ IF Denied \/ next_instruction > Len(iseq(Top.irep)) THEN Refuse
     ELSE stack' = [stack EXCEPT ![1].pc = next_instruction] /\ UNCHANGED verdict

Nested == Top.todo # {}

Descend ==
  /\ verdict = "none" /\ Shallow /\ ~More /\ Nested
  /\ LET b == Min(Top.todo)
     IN stack' = <<Enter(b), [Top EXCEPT !.todo = @ \ {b}]>> \o Tail(stack)
  /\ UNCHANGED verdict

Return ==
  /\ verdict = "none" /\ Shallow /\ ~More /\ ~Nested
  /\ stack' = Tail(stack) /\ verdict' = IF Len(stack) = 1 THEN "admitted" ELSE "none"

Done == verdict # "none" /\ UNCHANGED <<stack, verdict>>

Next == (TooDeep \/ Instruction \/ Descend \/ Return \/ Done) /\ UNCHANGED <<code, parent>>
Spec == Init /\ [][Next]_vars

-----------------------------------------------------------------------------
TypeOK ==
  /\ verdict \in {"none", "admitted", "profile_error"}
  /\ \A k \in DOMAIN stack : stack[k].irep \in Blocks /\ stack[k].pc \in 0 .. Len(iseq(stack[k].irep))
  /\ (verdict = "admitted" <=> stack = <<>>)
  /\ Len(stack) <= MaxDepth + 2 /\ (Len(stack) = MaxDepth + 2 => Top.pc = 0)

(* The walk stands where the compiler put an instruction, never inside one:
   there an operand would be taken for an opcode, and an opcode for an operand
   (guest.c:333-367, 397-401).                                               *)
Aligned ==
  \A k \in DOMAIN stack :
    \E n \in 0 .. Len(code[stack[k].irep].instructions) :
      stack[k].pc = Place(code[stack[k].irep], n)

(* A block and all it lies in. *)
Above(b) ==
  {c \in Blocks :
     \A S \in SUBSET Blocks : b \in S /\ (\A d \in S \ {1} : parent[d] \in S) => c \in S}
Depth(b) == Cardinality(Above(b)) - 1

Harmless(i) == i.op \notin Structural /\ ~(i.op \in Sends /\ i.operands[2] \in Forbidden)
Admissible(b) ==
  Depth(b) <= MaxDepth /\ \A n \in DOMAIN code[b].instructions : Harmless(code[b].instructions[n])

(* A program is admitted exactly if neither it nor any block nested in it holds
   a denied instruction and none is nested too deeply (guest.c:369-403).     *)
Justly == verdict # "none" => (verdict = "admitted" <=> \A b \in Blocks : Admissible(b))

(* Admission sees every instruction of every block, and only instructions. *)
AdmittedJustly == TypeOK /\ Aligned /\ Justly
=============================================================================
