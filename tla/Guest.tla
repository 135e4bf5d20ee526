-------------------------------- MODULE Guest --------------------------------
(***************************************************************************)
(* The guest process: main.rs under --guest, guest.rs (run and the host     *)
(* interface ruby_host_call) and the life of one program in native/guest.c. *)
(*                                                                         *)
(* The Ruby program is any program: in every state it may call, log, ask    *)
(* for an unknown capability, return or raise, and it may rescue whatever   *)
(* the host interface raises.  Its standard input carries any frames; the   *)
(* process at the other end may leave at any time (gone).  Reads and writes *)
(* block: Receive and Send move one piece each.                             *)
(***************************************************************************)
EXTENDS Frames

CONSTANTS
  LogLimit,    \* limits.log_bytes
  LogLengths,  \* lengths of one log, in bytes
  UsizeMax,    \* where saturating_add stops
  Codes,       \* "code" members of failed replies
  FramePieces, \* pieces of a frame the guest writes
  Shapes,      \* data of what the program passes to calls and logs or returns
  Incoming     \* frames its input may carry

Diagnostics == {"syntax_error", "ruby_error", "profile_error"}

ASSUME GuestAssumption ==
  /\ LogLimit \in Nat /\ UsizeMax \in Nat /\ LogLimit < UsizeMax
  /\ LogLengths \subseteq Nat /\ FramePieces \in Nat \ {0}
  /\ \A m \in Incoming : m \in Message
  /\ "unknown_function" \in Codes /\ "none" \notin Codes
  /\ "plain" \in Shapes /\ Shapes \subseteq {"plain", "nulkey"}

VARIABLES
  at,          \* where the process is
  request,     \* the request main() parsed
  host,        \* struct Host: sequence, calls, logs
  codes,       \* codes of the exceptions the program was handed
  status,      \* NativeResult: status, error_type, json is not null
  error_type,
  json,
  writer,      \* the frame being written
  output,      \* history: calls, logs, log bytes in frames written whole; a log was refused
  ended,       \* how the process ended
  gone         \* the supervisor closed its ends of the pipes

guestVars == <<at, request, host, codes, status, error_type, json, writer, output, ended>>
vars == <<guestVars, gone>>

VM     == {"boot", "admit", "program"}
Writing == {"call", "log", "event", "report"}

Nothing == [calls |-> <<>>, logs |-> 0, bytes |-> 0, refused |-> FALSE]

TypeOK ==
  /\ at \in VM \cup Writing \cup {"read", "enter", "await", "exit"}
  /\ request \in Message
  /\ host \in [sequence : Nat, calls : Nat, logs : 0 .. UsizeMax]
  /\ codes \subseteq Codes
  /\ status \in 0 .. 3 /\ error_type \in Codes \cup {"none"} /\ json \in BOOLEAN
  /\ writer \in Writer /\ (pending(writer) <=> at \in Writing)
  /\ output \in [calls : Seq(Nat), logs : Nat, bytes : Nat, refused : BOOLEAN]
  /\ ended \in {"none", "ok", "error", "exit_124", "exit_125"} /\ (ended = "none" <=> at # "exit")
  /\ gone \in BOOLEAN

Init ==
  /\ at = "read" /\ request = NoMessage
  /\ host = [sequence |-> 0, calls |-> 0, logs |-> 0]
  /\ codes = {} /\ status = 0 /\ error_type = "none" /\ json = FALSE
  /\ writer = Idle /\ output = Nothing /\ ended = "none" /\ gone = FALSE

-----------------------------------------------------------------------------
(* Frames the guest writes.  A log carries its length; what the completed
   frame says is in status, error_type, json and host.                      *)
Outgoing(kind, own, number, tag, data) ==
  [kind |-> kind, own |-> own, seq |-> number, tag |-> tag, size |-> FramePieces, data |-> data]
CallFrame(n, data) == Outgoing("call", TRUE, n, "listed", data)
LogFrame(n, data)  == Outgoing("log", TRUE, n, "none", data)
Completed(own, data) == Outgoing("completed", own, 0, "result", data)

Write(where, m) == at' = where /\ writer' = Load(m)

(* main(): an Err becomes one more frame, with the identity known so far. *)
Fail(own) ==
  /\ Write("report", Completed(own, "plain"))
  /\ UNCHANGED <<host, codes, status, error_type, json, output, ended>>

(* The end of ruby_execute and of run(): status 0 becomes 2 on a raise. *)
Conclude(how, type, value) ==
  /\ status' = how /\ error_type' = type /\ json' = value
  /\ \E data \in Shapes : Write("event", Completed(TRUE, IF value THEN data ELSE "plain"))
  /\ UNCHANGED <<request, host, codes, output, ended>>

Raised(type) == Conclude(IF status = 0 THEN 2 ELSE status, type, FALSE)

(* The host interface hands back control: a value, or an exception that the
   program may rescue, keep and raise again.                                *)
Return(carried) ==
  /\ at' = "program" /\ codes' = codes \cup carried
  /\ UNCHANGED <<request, status, error_type, json, output, ended>>

-----------------------------------------------------------------------------
(* main() up to isolation::enter. *)
Usable(m) == m.kind = "request" /\ m.tag # "unparsable"

ReadRequest(c) ==
  /\ at = "read" /\ Whole(c)
  /\ \/ /\ ~Usable(c.msg)
        /\ UNCHANGED request /\ Fail(FALSE)
     \/ /\ Usable(c.msg) /\ request' = c.msg
        /\ \/ c.msg.tag = "refused" /\ Fail(TRUE)
           \/ /\ c.msg.tag # "refused" /\ at' = "enter"
              /\ UNCHANGED <<host, codes, status, error_type, json, writer, output, ended>>

NoRequest == at = "read" /\ gone /\ UNCHANGED request /\ Fail(FALSE)

Enter ==
  /\ at = "enter"
  /\ \/ at' = "boot" /\ UNCHANGED <<host, codes, status, error_type, json, writer, output, ended>>
     \/ Fail(TRUE)
  /\ UNCHANGED request

(* run() in guest.c: define the library, decode the inputs, parse, compile. *)
Boot ==
  /\ at = "boot"
  /\ \/ Fail(TRUE) /\ UNCHANGED request      \* Tree::new, CString::new
     \/ Raised("none")                       \* mrb_open, decode, parser, code generator
     \/ Conclude(1, "none", FALSE)           \* parser->nerr
     \/ /\ at' = "admit" /\ status' = 3
        /\ UNCHANGED <<request, host, codes, error_type, json, writer, output, ended>>

AdmissionFails == at = "admit" /\ Raised("none")

validate_only == request.tag = "validate"

Execute_KeepsStatus ==
  /\ at' = "program"
  /\ UNCHANGED <<request, host, codes, status, error_type, json, writer, output, ended>>
Execute ==
  /\ at' = "program" /\ status' = 0
  /\ UNCHANGED <<request, host, codes, error_type, json, writer, output, ended>>

Admitted ==
  /\ at = "admit"
  /\ \/ validate_only /\ Conclude(0, "none", FALSE)
     \/ ~validate_only /\ Execute

-----------------------------------------------------------------------------
(* ruby_host_call, by the kind of exchange.  "json" touches no state. *)
Unknown == at = "program" /\ Return({"unknown_function"}) /\ UNCHANGED <<host, writer>>

saturating_add(a, b) == IF a + b > UsizeMax THEN UsizeMax ELSE a + b

LogRefused(n) == saturating_add(host.logs, n) > LogLimit

NoLog == at' = "program" /\ output' = [output EXCEPT !.refused = TRUE] /\ UNCHANGED writer
SendLog(n) == /\ \E data \in Shapes : Write("log", LogFrame(n, data))
              /\ UNCHANGED output

Log_KeepsBudget(n) ==
  /\ at = "program"
  /\ IF LogRefused(n)
     THEN NoLog /\ UNCHANGED host
     ELSE SendLog(n) /\ host' = [host EXCEPT !.logs = saturating_add(@, n)]
  /\ UNCHANGED <<request, codes, status, error_type, json, ended>>
Log(n) ==
  /\ at = "program"
  /\ host' = [host EXCEPT !.logs = saturating_add(@, n)]
  /\ IF LogRefused(n) THEN NoLog ELSE SendLog(n)
  /\ UNCHANGED <<request, codes, status, error_type, json, ended>>

BudgetSpent_Exclusive == host.calls > request.seq
BudgetSpent == host.calls >= request.seq

CallRefused == at = "program" /\ BudgetSpent /\ Return({}) /\ UNCHANGED <<host, writer>>

Call_Uncounted ==
  /\ at = "program" /\ ~BudgetSpent
  /\ host' = [host EXCEPT !.sequence = @ + 1]
  /\ \E data \in Shapes : Write("call", CallFrame(host'.sequence, data))
  /\ UNCHANGED <<request, codes, status, error_type, json, output, ended>>

(* Both counters advance before the frame is written. *)
Call ==
  /\ at = "program" /\ ~BudgetSpent
  /\ host' = [host EXCEPT !.calls = @ + 1, !.sequence = @ + 1]
  /\ \E data \in Shapes : Write("call", CallFrame(host'.sequence, data))
  /\ UNCHANGED <<request, codes, status, error_type, json, output, ended>>

Answers(m) == m.own /\ m.kind = "reply" /\ m.seq = host.sequence

(* What serde_json parses and Tree::new takes: 64 levels. *)
Decoded(m) == m.data \notin {"nested", "buried"}

(* Whatever is not the reply raises; so does a reply too deep, and one that
   says the call failed, with its code if it has one.                        *)
ReadReply(c) ==
  /\ at = "await" /\ Whole(c)
  /\ \/ Return({})
     \/ Answers(c.msg) /\ Decoded(c.msg) /\ \E code \in Codes : Return({code})
  /\ UNCHANGED <<host, writer>>

NoReply == at = "await" /\ gone /\ Return({}) /\ UNCHANGED <<host, writer>>

(* mrb_top_run returns or raises; encoding the result may raise, and run() fails
   on a result that is not UTF-8.                                            *)
Finish ==
  /\ at = "program"
  /\ \/ Conclude(0, "none", TRUE)
     \/ \E type \in codes \cup {"none"} : Raised(type)
     \/ Fail(TRUE) /\ UNCHANGED request

-----------------------------------------------------------------------------
(* Blocking input and output, one piece at a time. *)
ReadPartial(c) == at \in {"read", "await"} /\ ~Whole(c) /\ UNCHANGED guestVars

Receive(c) == ReadPartial(c) \/ ReadRequest(c) \/ ReadReply(c)

(* The output once a frame is written whole. *)
Sent(m) == CASE m.kind = "call" -> [output EXCEPT !.calls = Append(@, m.seq)]
             [] m.kind = "log"  -> [output EXCEPT !.logs = @ + 1, !.bytes = @ + m.seq]
             [] OTHER           -> output

After == CASE at = "call" -> "await" [] at = "log" -> "program" [] OTHER -> "exit"
Ending == CASE at = "event" -> "ok" [] at = "report" -> "error" [] OTHER -> "none"

Send ==
  /\ at \in Writing /\ ~gone
  /\ writer' = Advance(writer)
  /\ IF Whole(Piece(writer))
     THEN at' = After /\ ended' = Ending /\ output' = Sent(writer.msg)
     ELSE UNCHANGED <<at, ended, output>>
  /\ UNCHANGED <<request, host, codes, status, error_type, json>>

(* EPIPE: an exchange raises, the result becomes an engine_error, which fails. *)
Broken ==
  /\ at \in Writing /\ gone
  /\ \/ at \in {"call", "log"} /\ writer' = Idle /\ Return({}) /\ UNCHANGED host
     \/ at = "event" /\ Fail(TRUE) /\ UNCHANGED request
     \/ /\ at = "report" /\ at' = "exit" /\ ended' = "error" /\ writer' = Idle
        /\ UNCHANGED <<request, host, codes, status, error_type, json, output>>

(* The budgets end the process wherever the program is; rescue cannot. *)
Exhausted ==
  /\ \/ at \in VM /\ ended' = "exit_125"
     \/ at = "program" /\ ended' = "exit_124"
  /\ at' = "exit"
  /\ UNCHANGED <<request, host, codes, status, error_type, json, writer, output>>

Step ==
  \/ NoRequest \/ Enter \/ Boot \/ AdmissionFails \/ Admitted
  \/ Unknown \/ CallRefused \/ Call \/ NoReply \/ Finish \/ Broken \/ Exhausted
  \/ \E n \in LogLengths : Log(n)

Supplied == \E m \in Incoming : \E i \in 1 .. m.size : Receive([msg |-> m, no |-> i])
Leave == ~gone /\ gone' = TRUE /\ UNCHANGED guestVars
Exited == at = "exit" /\ UNCHANGED vars

Next == \/ (Step \/ Send \/ Supplied) /\ UNCHANGED gone
        \/ Leave \/ Exited

Spec == Init /\ [][Next]_vars

-----------------------------------------------------------------------------
(* Rescued failures of the transport, refused calls and bad replies leave no gap
   and no repetition in the numbers the supervisor checks, and the usage counts
   the calls that were asked for (guest.rs:197-199, 282). *)
CallsNumbered ==
  /\ Len(output.calls) <= request.seq
  /\ \A i \in DOMAIN output.calls : output.calls[i] = i
  /\ ~gone => host.calls = Len(output.calls) + (IF at = "call" THEN 1 ELSE 0)

(* However often the program logs and rescues the refusal, the logs sent stay
   within the budget; a refused log is counted all the same, so that no log, however
   short, follows it (guest.rs:185-186). *)
LogsBounded == /\ output.bytes <= LogLimit
               /\ output.refused => at # "log"

(* guest.rs:255, the type of the diagnostic *)
Type == IF error_type # "none" THEN error_type
        ELSE CASE status = 1 -> "syntax_error" [] status = 3 -> "profile_error" [] OTHER -> "ruby_error"

(* A host that reads "syntax_error" or "profile_error" may conclude that nothing
   ran, no call and no log, unless it answered a call of this execution with that
   very code itself, for codes and diagnoses share one member; one that only
   validated, in any case.  A result comes without a diagnostic, and any other type
   is a code the host gave (guest.c:466-479, 487-491, 520, guest.rs:255). *)
DiagnosisTrue ==
  at = "event" =>
    /\ status # 0 /\ Type \in {"syntax_error", "profile_error"}
         => output = Nothing \/ Type \in codes
    /\ json => status = 0
    /\ status = 0 /\ ~json => request.tag = "validate"
    /\ status # 0 /\ Type \notin Diagnostics => Type \in codes
    /\ validate_only => output = Nothing
=============================================================================
