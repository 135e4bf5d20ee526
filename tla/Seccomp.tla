------------------------------- MODULE Seccomp -------------------------------
(***************************************************************************)
(* isolation.rs, platform() on Linux: the filter it builds, and the kernel  *)
(* running it on every system call of the guest.  A filter that jumps one   *)
(* instruction too far allows what it should not, or nothing at all.        *)
(***************************************************************************)
EXTENDS Integers, Sequences

CONSTANTS
  ARCH,      \* the architecture the guest is compiled for
  Foreign,   \* other values of seccomp_data.arch
  Numbers,   \* system call numbers a program may try
  allow      \* the list of numbers

ASSUME SeccompAssumption ==
  /\ ARCH \in Int /\ Foreign \subseteq Int \ {ARCH} /\ Numbers \subseteq Int
  /\ allow \in Seq(Int)

VARIABLES
  nr, arch,  \* seccomp_data of the system call at the gate
  pc,        \* the filter's next instruction, 0 while the program runs
  A,         \* the accumulator
  process    \* "runs" or "killed"

filterVars == <<nr, arch, pc, A, process>>

-----------------------------------------------------------------------------
(* sock_filter: BPF_LD|ABS 0x20, BPF_JMP|JEQ 0x15, BPF_RET 0x06. *)
load(k) == [code |-> "load", k |-> k, jt |-> 0, jf |-> 0]
jump(k, jt, jf) == [code |-> "jump", k |-> k, jt |-> jt, jf |-> jf]
ret(k) == [code |-> "ret", k |-> k, jt |-> 0, jf |-> 0]

ArchAt == 4         \* offsets into seccomp_data
NumberAt == 0
KILL == 0           \* stands for 0x80000000, SECCOMP_RET_KILL_PROCESS
ALLOW == 1          \* and 0x7fff0000

n == Len(allow)

(* Each number has a test at 3 + 2i, which skips the ALLOW behind it. *)
Prologue_Blind == <<load(NumberAt), jump(ARCH, 0, 0), load(NumberAt), load(NumberAt)>>
Prologue == <<load(ArchAt), jump(ARCH, 1, 0), ret(KILL), load(NumberAt)>>

Test(number) == jump(number, 0, 1)

filter == [i \in 1 .. 2 * n + 5 |->
             IF i <= 4 THEN Prologue[i]
             ELSE IF i = 2 * n + 5 THEN ret(KILL)
             ELSE IF i % 2 = 1 THEN Test(allow[(i - 3) \div 2])
             ELSE ret(ALLOW)]

-----------------------------------------------------------------------------
(* The kernel. *)
FilterInit == nr = 0 /\ arch = ARCH /\ pc = 0 /\ A = 0 /\ process = "runs"

SystemCall ==
  /\ pc = 0 /\ process = "runs"
  /\ nr' \in Numbers /\ arch' \in Foreign \cup {ARCH}
  /\ pc' = 1 /\ A' = 0
  /\ UNCHANGED process

This(code) == pc \in DOMAIN filter /\ filter[pc].code = code

Load == /\ This("load")
        /\ A' = IF filter[pc].k = ArchAt THEN arch ELSE nr
        /\ pc' = pc + 1
        /\ UNCHANGED <<nr, arch, process>>

Jump == /\ This("jump")
        /\ pc' = pc + 1 + (IF A = filter[pc].k THEN filter[pc].jt ELSE filter[pc].jf)
        /\ UNCHANGED <<nr, arch, A, process>>

Permit == /\ This("ret") /\ filter[pc].k = ALLOW
          /\ pc' = 0
          /\ UNCHANGED <<nr, arch, A, process>>

Kill == /\ This("ret") /\ filter[pc].k = KILL
        /\ pc' = 0 /\ process' = "killed"
        /\ UNCHANGED <<nr, arch, A>>

Killed == process = "killed" /\ UNCHANGED filterVars

FilterNext == SystemCall \/ Load \/ Jump \/ Permit \/ Kill \/ Killed

FilterSpec == FilterInit /\ [][FilterNext]_filterVars

-----------------------------------------------------------------------------
FilterTypes ==
  /\ nr \in Int /\ arch \in Foreign \cup {ARCH} /\ A \in Int
  /\ pc \in 0 .. Len(filter)
  /\ process \in {"runs", "killed"}

Listed == \E i \in 1 .. n : allow[i] = nr

(* The gate opens for the listed numbers of the native architecture, for these
   whatever their place in the list, and for no other: a number that matches
   under a foreign architecture kills (isolation.rs:344-354). *)
GateExact ==
  [][ /\ Permit => arch = ARCH /\ Listed
      /\ Kill   => ~(arch = ARCH /\ Listed) ]_filterVars
=============================================================================
