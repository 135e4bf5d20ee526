------------------------------ MODULE Admission ------------------------------
(***************************************************************************)
(* How a request comes to run: main() of the supervisor and again of the     *)
(* guest, with Request::validate() between them, until guest::run() hands    *)
(* the values to C.  Both processes run the same main(), and the guest       *)
(* trusts nothing it is forwarded.                                           *)
(***************************************************************************)
EXTENDS Integers

CONSTANTS
  Raws,         \* requests as they may arrive: records some members optional
  MaxFrame,     \* protocol.rs MAX_FRAME
  Defaults,     \* bytes that writing out the defaults adds
  MaxDepth      \* Tree's

Absent == -1
LimitsOf(cpu) ==
  [memory_bytes : Nat, instructions : Nat, wall_ms : Nat, cpu_ms : cpu, source_bytes : Nat,
   result_bytes : Nat, calls : Nat, log_bytes : Nat]
Members(limits, length) ==
  [shape : {"ok", "unknown_member", "missing_member", "wrong_type"}, protocol : BOOLEAN,
   execution_id : Nat, limits : limits,
   source : [length : Nat, nul : BOOLEAN], filename : [length : length, safe : BOOLEAN],
   globals : {"absent", "empty", "ctx", "deep_ctx", "other_key", "array"},
   catalog : [count : Nat, longest : Nat, safe : BOOLEAN]]

Requests    == Members(LimitsOf(Nat), Nat)
RawRequests == Members({<<>>} \cup [{1} -> LimitsOf(Nat \cup {Absent})], Nat \cup {Absent})

AdmissionAssumption ==
  /\ Raws \subseteq RawRequests /\ MaxDepth \in Nat
  /\ MaxFrame \in Nat /\ MaxFrame > 4194304 + 1048576   \* the bounds of result and log
  /\ Defaults \in 0 .. MaxFrame

VARIABLES
  raw, bytes,  \* the request frame in front of the process, and its length
  request,     \* as deserialized: <<>> or <<r>>
  party, at,   \* who runs main(), and where
  execution,   \* main()'s String
  told         \* the failure frame written: [by, id, why], or by nobody

vars == <<raw, bytes, request, party, at, execution, told>>

-----------------------------------------------------------------------------
TooLong(n) == n > MaxFrame

(* serde: unknown, missing and mistyped members fail; the rest has defaults. *)
Present(r) == r.shape = "ok"

DefaultLimits == [memory_bytes |-> 33554432, instructions |-> 10000000, wall_ms |-> 5000,
                  cpu_ms |-> 1000, source_bytes |-> 262144, result_bytes |-> 1048576,
                  calls |-> 50, log_bytes |-> 65536]

Deserialized(r) ==
  [r EXCEPT
    !.limits = IF r.limits = <<>> THEN DefaultLimits
               ELSE [r.limits[1] EXCEPT !.cpu_ms = IF @ = Absent THEN DefaultLimits.cpu_ms ELSE @],
    !.filename = IF @.length = Absent THEN [length |-> 19, safe |-> TRUE] ELSE @,
    !.globals = IF @ = "absent" THEN "empty" ELSE @]

(* Request::validate(). *)
Within(amount, least, most) == least <= amount /\ amount <= most
InLimits_ZeroWall(l) == Within(l.wall_ms, 0, 300000) /\ Within(l.calls, 0, 100)
InLimits(l) ==
  /\ Within(l.memory_bytes, 1048576, 134217728)
  /\ Within(l.instructions, 1, 100000000)
  /\ Within(l.wall_ms, 1, 300000)
  /\ Within(l.cpu_ms, 1, 30000)
  /\ Within(l.source_bytes, 1, 1048576)
  /\ Within(l.result_bytes, 1, 4194304)
  /\ Within(l.calls, 0, 100)
  /\ Within(l.log_bytes, 0, 1048576)

Valid(r) ==
  /\ r.protocol
  /\ r.execution_id \in 1 .. 128
  /\ InLimits(r.limits)
  /\ r.source.length <= r.limits.source_bytes /\ ~r.source.nul
  /\ r.filename.length <= 128 /\ r.filename.safe
  /\ r.globals \in {"empty", "ctx", "deep_ctx"}
  /\ r.catalog.count <= 50000
  /\ r.catalog.count > 0 => r.catalog.longest \in 1 .. 256 /\ r.catalog.safe

Parties == {"supervisor", "guest", "other"}

-----------------------------------------------------------------------------
Init ==
  /\ raw \in Raws /\ bytes \in {MaxFrame - Defaults, MaxFrame, MaxFrame + 1}
  /\ request = <<>> /\ party \in Parties \ {"guest"} /\ at = "read"
  /\ execution = 0 /\ told = [by |-> "nobody", id |-> 0, why |-> "none"]

(* main()'s error path: one frame, with the identity known by then. *)
Fail(why, id) ==
  /\ at' = "failed" /\ told' = [by |-> party, id |-> id, why |-> why] /\ execution' = id
  /\ UNCHANGED <<raw, bytes, party>>

Identity_Late(r) == IF Valid(r) THEN r.execution_id ELSE execution
Identity(r) == r.execution_id

Read ==
  /\ at = "read"
  /\ IF TooLong(bytes) \/ ~Present(raw) THEN Fail("frame", execution) /\ UNCHANGED request
     ELSE LET r == Deserialized(raw)
          IN /\ request' = <<r>>
             /\ IF ~Valid(r) THEN Fail("invalid", Identity(r))
                ELSE /\ execution' = Identity(r)
                     /\ at' = IF party = "guest" THEN "enter" ELSE "forward"
                     /\ UNCHANGED <<raw, bytes, party, told>>

(* supervisor::run(): the request is written out in full, which may lengthen it. *)
Forward ==
  /\ at = "forward" /\ party = "supervisor"
  /\ \E more \in {0, Defaults} :
       IF TooLong(bytes + more) THEN Fail("oversized", execution) /\ UNCHANGED request
       ELSE /\ raw' = [request[1] EXCEPT !.limits = <<@>>] /\ bytes' = bytes + more
            /\ request' = <<>> /\ party' = "guest" /\ at' = "read" /\ execution' = 0
            /\ UNCHANGED told

UnknownMode ==
  at = "forward" /\ party = "other" /\ Fail("mode", execution) /\ UNCHANGED request

(* isolation::enter(), which Lifetime models. *)
Enter ==
  /\ at = "enter"
  /\ \/ at' = "values" /\ UNCHANGED <<raw, bytes, party, execution, told>>
     \/ Fail("enter", execution)
  /\ UNCHANGED request

(* guest::run(): validate() once more, the trees of globals and catalog, and the C string of the name. *)
Levels == [empty |-> 0, ctx |-> MaxDepth, deep_ctx |-> MaxDepth + 1]
Prepare ==
  /\ at = "values"
  /\ IF ~Valid(request[1]) \/ Levels[request[1].globals] > MaxDepth THEN Fail("values", execution)
     ELSE at' = "native" /\ UNCHANGED <<raw, bytes, party, execution, told>>
  /\ UNCHANGED request

Over == at \in {"native", "failed"} /\ UNCHANGED vars

Next == Read \/ Forward \/ UnknownMode \/ Enter \/ Prepare \/ Over
Spec == Init /\ [][Next]_vars

-----------------------------------------------------------------------------
TypeOK ==
  /\ party \in Parties
  /\ at \in {"read", "forward", "enter", "values", "native", "failed"}
  /\ bytes \in 0 .. MaxFrame + 1 /\ (party = "guest" => bytes <= MaxFrame)
  /\ execution \in Nat
  /\ at = "failed" <=> told.by # "nobody"

(* What the supervisor forwards, with the defaults it filled in, the guest
   neither misreads nor refuses: the two never disagree about a request
   (main.rs:39-46, supervisor.rs:31, 69, guest.rs:227).                      *)
GuestAgrees ==
  /\ party = "guest" /\ at = "failed" => told.why \in {"enter", "values"}
  /\ party = "guest" /\ request # <<>> => raw.limits = <<request[1].limits>>

(* A failure names its execution whenever the request could be read, so that
   the client believes it (main.rs:45 before 46).                            *)
Identified == at = "failed" => IF request = <<>> THEN told.why = "frame"
                             ELSE told.id = request[1].execution_id

(* What reaches C is what the other modules assume of it: timers that are not
   disarmed by a zero and a CPU limit in whole seconds that exists, an
   allocation budget far from wrapping, strings without NUL, a budget of calls
   the client and the supervisor count in the same way.                      *)
NativeSafe ==
  at = "native" =>
    LET r == request[1]
        l == r.limits
    IN /\ l.wall_ms > 0 /\ l.cpu_ms > 0 /\ l.instructions > 0
       /\ l.memory_bytes > 0 /\ l.memory_bytes + 65536 < 2147483647
       /\ l.result_bytes + l.log_bytes < MaxFrame
       /\ r.source.length <= l.source_bytes /\ ~r.source.nul
       /\ r.filename.length <= 128 /\ r.filename.safe
       /\ r.globals # "deep_ctx"
       /\ party = "guest" /\ told.by = "nobody"

(* What is refused is refused by the first process that can tell, and under the
   execution's name.                                                         *)
FailuresTrue == TypeOK /\ GuestAgrees /\ Identified
=============================================================================
