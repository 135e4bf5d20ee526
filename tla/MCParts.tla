------------------------------- MODULE MCParts -------------------------------
(***************************************************************************)
(* What is computed on the way of one program without another process: its   *)
(* admission, by requests and by compiled code, and the memory, values, call  *)
(* paths and suggestions it then has.  These parts share no state, so one of  *)
(* them is started and the others stand at their end.                        *)
(***************************************************************************)
EXTENDS Parts, SequencesExt, TLC

CONSTANTS p1, p2, p3, letter, dot, byte1, byte2   \* model values

allVars == <<vars, conversion, access, distance, walk, reading>>

-----------------------------------------------------------------------------
(* Heap: a size_t of four bits, so that every difference that can wrap does,
   and three allocations alive at once, which nothing tells apart.           *)
HeapOver ==
  /\ size = <<>> /\ allocated = 0 /\ peak_memory = 0 /\ instructions = 0 /\ ended = "exit_125"
  /\ asked = [bytes |-> 0, old |-> 0, by |-> "nobody"] /\ highest = 0 /\ executed = 0

(* Values: every graph of two free objects of up to two members and one of at
   most one; a limit that both texts and their quotations reach from either side.
   A string and a symbol are one key; the second key of a hash goes first in JSON. *)
MCObjects == {"a", "b", "c"}
MCLeaves == {"null", "text", "u64"}
MCLeaf == [null |-> [bytes |-> 4, special |-> 0, fits |-> TRUE],
           text |-> [bytes |-> 5, special |-> 4, fits |-> TRUE],   \* one escaped byte
           u64  |-> [bytes |-> 3, special |-> 0, fits |-> FALSE]]
Named(name) == [name |-> name, bytes |-> 1, special |-> 0]
MCKey == ("k" :> Named(2)) @@ (":k" :> Named(2)) @@ ("j" :> Named(1))

Items(max) == BoundedSeq({"null", "text"} \cup MCObjects, max)
KeysOf(n) == CASE n = 0 -> {<<>>} [] n = 1 -> {<<":k">>} [] n = 2 -> {<<"k", ":k">>, <<"k", "j">>}
Object(max) == {[kind |-> "array", keys |-> <<>>, items |-> s] : s \in Items(max)}
               \cup UNION {{[kind |-> "hash", keys |-> k, items |-> s] : k \in KeysOf(Len(s))} : s \in Items(max)}
Small == {[kind |-> "array", keys |-> <<>>, items |-> s] : s \in {<<>>, <<"null">>, <<"u64">>}}
Graphs == {("a" :> x) @@ ("b" :> y) @@ ("c" :> z) : x \in Object(2), y \in Object(1), z \in Small}

Nothing == [kind |-> "array", keys |-> <<>>, items |-> <<>>]
ValuesOver == /\ heap = [o \in MCObjects |-> Nothing] /\ root = "null" /\ v_at = "parsed" /\ calls = <<>>
              /\ text = [bytes |-> 4, special |-> 0, error |-> "none"] /\ json = (<<1>> :> "null")
              /\ nodes = <<>> /\ cursor = 0 /\ value = json

(* Dispatch: all catalogs of up to two paths of up to five characters, a dot and
   a letter; two letters stand for the names CapabilityPath defines itself.  *)
Paths == UNION {[1 .. n -> {letter, dot}] : n \in 1 .. 5}

MCOwn == {<<letter, letter>>}
MCLetters == {letter}
MCCatalogs == {{}} \cup {{c, d} : c, d \in Paths}

DispatchOver == /\ catalog = {} /\ target = <<letter>> /\ dotted = TRUE /\ arguments = FALSE
                /\ path = <<>> /\ outcome = [is |-> "raise", path |-> <<>>]

(* EditDistance: all pairs of paths of up to four bytes out of two. *)
MCBytes == {byte1, byte2}

DistanceOver == /\ one = <<>> /\ other = <<>> /\ outer = 0 /\ inner = 0
                /\ row = [k \in 0 .. 0 |-> 0] /\ diagonal = 0 /\ e_at = "done"

-----------------------------------------------------------------------------
(* Profile: 0 and 1 have no operand, 2 (a class body) one, 3 (a send) three, 4 (a
   jump) one of two bytes; 7, 8 and 9 are the prefixes.  Symbol 2 is forbidden, and
   258 has it for its low byte; the first operand of a send looks like an opcode
   when the walk is misaligned.                                               *)
MCBlocks == {1, 2, 3}
MCOperands == (0 :> 0) @@ (1 :> 0) @@ (2 :> 1) @@ (3 :> 3) @@ (4 :> 1)
MCWide == (0 :> {}) @@ (1 :> {}) @@ (2 :> {}) @@ (3 :> {}) @@ (4 :> {1})
MCExt == (7 :> {1}) @@ (8 :> {2}) @@ (9 :> {1, 2})

Op(op, ext, operands) == [op |-> op, ext |-> ext, operands |-> operands]
Codes == {Op(1, 0, <<>>), Op(2, 0, <<1>>), Op(4, 0, <<770>>)}
         \cup {Op(3, ext, <<2, s, 1>>) : ext \in {0, 7}, s \in {1, 2}}
         \cup {Op(3, ext, <<2, s, 1>>) : ext \in {8, 9}, s \in {2, 258}}
Allowed == {Op(3, 0, <<2, 1, 1>>), Op(3, 7, <<2, 1, 1>>), Op(3, 8, <<2, 258, 1>>), Op(3, 9, <<2, 258, 1>>)}
Leaf3 == {<<>>, <<Op(1, 0, <<>>)>>, <<Op(2, 0, <<1>>)>>}

(* What mruby's code generator makes of instructions. *)
Wideness(i) == MCWide[i.op] \cup (IF i.ext = 0 THEN {} ELSE MCExt[i.ext])
Start(i) == IF i.ext = 0 THEN <<i.op>> ELSE <<i.ext, i.op>>
Operand(i, k) == IF k \in Wideness(i) THEN <<i.operands[k] \div 256, i.operands[k] % 256>> ELSE <<i.operands[k]>>
Encoded(i, k) == FlattenSeq(<<Start(i)>> \o [n \in 1 .. k |-> Operand(i, n)])
Emitted(s, n) == FlattenSeq([m \in 1 .. n |-> Encoded(s[m], Len(s[m].operands))])
Compile(s) ==
  [iseq |-> Emitted(s, Len(s)),
   instructions |-> [n \in DOMAIN s |->
     LET first == Len(Emitted(s, n - 1))
     IN s[n] @@ [first |-> first,
                 ends |-> [k \in 0 .. Len(s[n].operands) |-> first + Len(Encoded(s[n], k))]]]]

MCPrograms == {<<Compile(x), Compile(y), Compile(z)>> :
                 x \in BoundedSeq(Allowed, 1), y \in BoundedSeq(Codes, 2), z \in Leaf3}

ProfileOver == code = [b \in 1 .. 3 |-> Compile(<<>>)] /\ parent = [b \in 2 .. 3 |-> 1]
               /\ stack = <<>> /\ verdict = "admitted"

(* Admission: a usable request in which any two members are replaced: by their
   bounds, by what lies one beyond, by nothing.                              *)
Settings == [memory_bytes |-> 33554432, instructions |-> 10000000, wall_ms |-> 5000,
             cpu_ms |-> 1000, source_bytes |-> 262144, result_bytes |-> 1048576,
             calls |-> 50, log_bytes |-> 65536]

Usable == [shape |-> "ok", protocol |-> TRUE, execution_id |-> 36, limits |-> <<Settings>>,
           source |-> [length |-> 10, nul |-> FALSE], filename |-> [length |-> 8, safe |-> TRUE],
           globals |-> "ctx", catalog |-> [count |-> 1, longest |-> 20, safe |-> TRUE]]

Missing == -1    \* Admission's Absent

Bounds == [memory_bytes |-> {1048575, 1048576, 134217728, 134217729},
           instructions |-> {0, 1, 100000000, 100000001}, wall_ms |-> {0, 1, 300000, 300001},
           cpu_ms |-> {Missing, 0, 1, 30000, 30001}, source_bytes |-> {0, 1, 10, 1048576, 1048577},
           result_bytes |-> {0, 1, 4194304, 4194305}, calls |-> {0, 100, 101},
           log_bytes |-> {0, 1048576, 1048577}]
Limits == {<<>>} \cup {<<[Settings EXCEPT ![f] = v]>> : <<f, v>> \in
             UNION {{f} \X Bounds[f] : f \in DOMAIN Bounds}}

Replacements ==
  [shape |-> {"unknown_member", "missing_member", "wrong_type"}, protocol |-> {FALSE},
   execution_id |-> {0, 1, 128, 129}, limits |-> Limits,
   source |-> [length : {0, 11, 262144, 262145}, nul : BOOLEAN],
   filename |-> [length : {Missing, 0, 128, 129}, safe : BOOLEAN],
   globals |-> {"absent", "empty", "deep_ctx", "other_key", "array"},
   catalog |-> [count : {0, 1, 50000, 50001}, longest : {0, 1, 256, 257}, safe : BOOLEAN]]

Replaced(r) == UNION {{[r EXCEPT ![f] = v] : v \in Replacements[f]} : f \in DOMAIN Replacements}

MCRaws == {Usable} \cup UNION {Replaced(r) : r \in Replaced(Usable)}

AdmissionOver == /\ raw = Usable /\ bytes = 0 /\ request = <<>> /\ party = "supervisor" /\ a_at = "failed"
                 /\ execution = 0 /\ told = [by |-> "supervisor", id |-> 0, why |-> "frame"]

-----------------------------------------------------------------------------
PartsInit ==
  \/ Init /\ ValuesOver /\ DispatchOver /\ DistanceOver /\ ProfileOver /\ AdmissionOver
  \/ HeapOver /\ V!Init /\ DispatchOver /\ DistanceOver /\ ProfileOver /\ AdmissionOver
  \/ HeapOver /\ ValuesOver /\ D!Init /\ DistanceOver /\ ProfileOver /\ AdmissionOver
  \/ HeapOver /\ ValuesOver /\ DispatchOver /\ E!Init /\ ProfileOver /\ AdmissionOver
  \/ HeapOver /\ ValuesOver /\ DispatchOver /\ DistanceOver /\ P!Init /\ AdmissionOver
  \/ HeapOver /\ ValuesOver /\ DispatchOver /\ DistanceOver /\ ProfileOver /\ A!Init

PartsNext ==
  \/ Next   /\ UNCHANGED <<conversion, access, distance, walk, reading>>
  \/ V!Next /\ UNCHANGED <<vars, access, distance, walk, reading>>
  \/ D!Next /\ UNCHANGED <<vars, conversion, distance, walk, reading>>
  \/ E!Next /\ UNCHANGED <<vars, conversion, access, walk, reading>>
  \/ P!Next /\ UNCHANGED <<vars, conversion, access, distance, reading>>
  \/ A!Next /\ UNCHANGED <<vars, conversion, access, distance, walk>>

PartsSpec == PartsInit /\ [][PartsNext]_allVars

PartsSymmetry == Permutations(Pointers) \cup Permutations({byte1, byte2})

=============================================================================
