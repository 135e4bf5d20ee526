----------------------------- MODULE Supervisor -----------------------------
(***************************************************************************)
(* The supervisor process of the Ruby engine: main.rs in supervisor mode,   *)
(* supervisor.rs and the nonblocking reader and writers of transport.rs.    *)
(*                                                                         *)
(* The host (the process that started the engine) and the guest (the same   *)
(* binary under --guest, which the supervisor does not trust) are the most  *)
(* general environment: each may send any frame of a given set, stop in the *)
(* middle of one, stop reading, close either end of its pipes and live on,  *)
(* or die, at any moment.  The real ones are modelled by Client and Guest.  *)
(*                                                                         *)
(* One step is one system call of the loop with the conditions around it.   *)
(***************************************************************************)
EXTENDS Frames, FiniteSets

CONSTANTS
  Requests,        \* frames the host may send first
  HostMessages,    \* frames the host may send afterwards
  GuestMessages,   \* frames the guest may send
  ExitStatuses,    \* how the guest process may end
  PipeCapacity,    \* pieces a pipe holds
  HostFrames,      \* bound: frames the host sends
  GuestFrames,     \* bound: frames the guest sends
  GuestShuts,      \* ends of its pipes a living guest may close
  MemoryProbe      \* TRUE where resident_bytes answers (macOS)

Statuses == {"exit_124", "exit_125", "cpu_signal", "alarm", "other"}

ASSUME MessagesAssumption ==
  /\ \A m \in Requests \cup HostMessages \cup GuestMessages : m \in Message /\ m.size > 0
  /\ \A m \in GuestMessages : m.kind = "completed" => m.tag = "result"
  /\ ExitStatuses \subseteq Statuses
ASSUME BoundsAssumption ==
  /\ PipeCapacity \in Nat \ {0} /\ HostFrames \in Nat /\ GuestFrames \in Nat
  /\ MemoryProbe \in BOOLEAN /\ GuestShuts \subseteq {"in", "out"}

VARIABLES
  pc, outcome,                  \* where the supervisor is; Ok or the Err it returns
  request,                      \* the admitted request, main's `execution' with it
  to_guest, to_host, completed, guest_closed, pending_sequence, sequence,
  expired,                      \* the current deadline has passed
  child, status, killed,        \* the guest process, its exit status, SIGKILL sent
  host_in, guest_in, guest_out, \* pipes: pieces not yet read
  wire, taken,                  \* all pieces put on stdout; how many the host read
  host_writer, host_sent,       \* the frame the host is writing; frames begun
  guest_writer, guest_sent,     \* the same for the guest
  guest_shut,                   \* the ends the guest closed while alive
  host_closed, deaf,            \* the host closed its writing, its reading end
  answered, finished            \* history: replies accepted; guest wrote its result

loop    == <<to_guest, to_host, completed, guest_closed, pending_sequence, sequence>>
process == <<child, status, killed>>
pipes   == <<host_in, guest_in, guest_out, wire>>
hostVars  == <<host_writer, host_sent, host_closed, deaf, taken>>
guestVars == <<guest_writer, guest_sent, guest_shut, finished>>
peers   == <<hostVars, guestVars>>
vars == <<pc, outcome, request, loop, expired, process, pipes, peers, answered>>

Loop == {"watchdog", "memory", "hostin", "feed", "drain", "guestin", "reap"}
Stopped == pc \in {"exit", "lost"}

TypeOK ==
  /\ pc \in Loop \cup {"admit", "kill", "wait", "report", "exit", "lost"}
  /\ outcome \in {"none", "ok", "error", "overrun_guest", "overrun_host"}
  /\ request \in Message
  /\ to_guest \in Writer /\ to_host \in Writer
  /\ completed \in BOOLEAN /\ guest_closed \in BOOLEAN
  /\ pending_sequence \in Nat /\ sequence \in Nat
  /\ expired \in BOOLEAN
  /\ child \in {"none", "running", "exiting", "zombie", "reaped"}
  /\ status \in Statuses \cup {"none"} /\ killed \in BOOLEAN
  /\ host_in \in Seq(Chunk) /\ guest_in \in Seq(Chunk) /\ guest_out \in Seq(Chunk)
  /\ wire \in Seq(Chunk) /\ taken \in Nat
  /\ host_writer \in Writer /\ guest_writer \in Writer
  /\ host_sent \in Nat /\ guest_sent \in Nat /\ guest_shut \subseteq GuestShuts
  /\ host_closed \in BOOLEAN /\ deaf \in BOOLEAN
  /\ answered \in Nat /\ finished \in BOOLEAN

Init ==
  /\ pc = "admit" /\ outcome = "none" /\ request = NoMessage
  /\ to_guest = Idle /\ to_host = Idle
  /\ completed = FALSE /\ guest_closed = FALSE /\ pending_sequence = 0 /\ sequence = 0
  /\ expired = FALSE
  /\ child = "none" /\ status = "none" /\ killed = FALSE
  /\ host_in = <<>> /\ guest_in = <<>> /\ guest_out = <<>>
  /\ wire = <<>> /\ taken = 0
  /\ host_writer = Idle /\ host_sent = 0 /\ guest_writer = Idle /\ guest_sent = 0
  /\ guest_shut = {}
  /\ host_closed = FALSE /\ deaf = FALSE
  /\ answered = 0 /\ finished = FALSE

-----------------------------------------------------------------------------
(* Leaving the closure of run(): every Err and every Ok goes to kill().     *)
Return(why) == pc' = "kill" /\ outcome' = why
Continue(next) == pc' = next /\ UNCHANGED outcome
OnlyControl == UNCHANGED <<request, loop, expired, process, pipes, peers, answered>>

(* to_host.enqueue()? refuses a frame while another is pending. *)
QueueForHost(m, next) ==
  IF pending(to_host) THEN Return("overrun_host") /\ UNCHANGED to_host
                      ELSE to_host' = Load(m) /\ Continue(next)

OutputRoom == Len(wire) - taken < PipeCapacity

(* initial_request() and from_value fail: deadline, EOF, unusable frame.     *)
AdmitFails ==
  /\ pc = "admit"
  /\ \/ expired
     \/ host_in = <<>> /\ host_closed
     \/ /\ host_in # <<>> /\ Whole(Head(host_in))
        /\ Head(host_in).msg.kind # "request" \/ Head(host_in).msg.tag = "unparsable"
  /\ pc' = "report" /\ outcome' = "error"
  /\ OnlyControl

RequestPiece == pc = "admit" /\ ~expired /\ host_in # <<>> /\ host_in' = Tail(host_in)

AdmitPartial ==
  /\ RequestPiece /\ ~Whole(Head(host_in))
  /\ UNCHANGED <<pc, outcome, request, loop, expired, process, guest_in,
                 guest_out, wire, peers, answered>>

(* A request is read whole: main() now has an identity to put on diagnostics. *)
AdmitRequest ==
  /\ RequestPiece /\ Whole(Head(host_in))
  /\ Head(host_in).msg.kind = "request" /\ Head(host_in).msg.tag # "unparsable"
  /\ request' = Head(host_in).msg

(* validate() refuses it, or the guest cannot be spawned. *)
Refuse ==
  /\ AdmitRequest
  /\ pc' = "report" /\ outcome' = "error"
  /\ UNCHANGED <<loop, expired, process, guest_in, guest_out, wire, peers,
                 answered>>

(* It is valid: spawn the guest, start its clock, queue the request for it. *)
Spawn ==
  /\ AdmitRequest
  /\ Head(host_in).msg.tag # "refused"
  /\ to_guest' = Load(Head(host_in).msg)
  /\ child' = "running" /\ expired' = FALSE
  /\ Continue("watchdog")
  /\ UNCHANGED <<to_host, completed, guest_closed, pending_sequence, sequence,
                 status, killed, guest_in, guest_out, wire, peers, answered>>

-----------------------------------------------------------------------------
(* The deadline test at the top of the loop. *)
OutOfTime_WhenIdle == expired /\ ~pending(to_host)
OutOfTime == expired

InTime ==
  /\ pc = "watchdog" /\ ~OutOfTime
  /\ Continue("memory")
  /\ OnlyControl

(* Past the deadline: kill, then say so unless a frame is half delivered.  The
   diagnostic gets a single send; a full pipe drops it, a closed one is an Err. *)
Expire ==
  /\ pc = "watchdog" /\ OutOfTime
  /\ killed' = TRUE
  /\ LET told == Load(failure(TRUE, "wall_timeout"))
     IN  \/ /\ pending(to_host)
            /\ Return("ok")
            /\ UNCHANGED <<to_host, wire>>
         \/ /\ ~pending(to_host) /\ (deaf \/ ~OutputRoom)
            /\ to_host' = told
            /\ Return(IF deaf THEN "error" ELSE "ok")
            /\ UNCHANGED wire
         \/ /\ ~pending(to_host) /\ ~deaf /\ OutputRoom
            /\ to_host' = Advance(told)
            /\ wire' = Append(wire, Piece(told))
            /\ Return("ok")
  /\ UNCHANGED <<request, to_guest, completed, guest_closed, pending_sequence,
                 sequence, expired, child, status, host_in, guest_in,
                 guest_out, peers, answered>>

(* resident_bytes() is below the ceiling, or there is no such probe. *)
MemoryFits ==
  /\ pc = "memory"
  /\ Continue("hostin")
  /\ OnlyControl

MemoryCeiling_Forgets ==
  /\ pc = "memory" /\ MemoryProbe /\ ~completed /\ child = "running"
  /\ killed' = TRUE /\ UNCHANGED completed
  /\ IF pending(to_host) THEN Return("error") /\ UNCHANGED to_host
                         ELSE QueueForHost(failure(TRUE, "memory_limit"), "hostin")
  /\ UNCHANGED <<request, to_guest, guest_closed, pending_sequence, sequence,
                 expired, child, status, pipes, peers, answered>>

MemoryCeiling ==
  /\ pc = "memory" /\ MemoryProbe /\ ~completed /\ child = "running"
  /\ killed' = TRUE
  /\ completed' = ~pending(to_host)
  /\ IF pending(to_host) THEN Return("error") /\ UNCHANGED to_host
                         ELSE QueueForHost(failure(TRUE, "memory_limit"), "hostin")
  /\ UNCHANGED <<request, to_guest, guest_closed, pending_sequence, sequence,
                 expired, child, status, pipes, peers, answered>>

-----------------------------------------------------------------------------
(* host.receive(0): consumed in every iteration, output backpressure or not. *)
HostEnded_WhenIdle == host_in = <<>> /\ host_closed /\ ~pending(to_host)
HostEnded_Never == FALSE
HostEnded == host_in = <<>> /\ host_closed

HostSilent ==
  /\ pc = "hostin" /\ host_in = <<>> /\ ~HostEnded
  /\ Continue("feed")
  /\ OnlyControl

HostEof ==
  /\ pc = "hostin" /\ HostEnded
  /\ Return("error")
  /\ OnlyControl

HostPiece == pc = "hostin" /\ host_in # <<>> /\ host_in' = Tail(host_in)

HostPartial ==
  /\ HostPiece /\ ~Whole(Head(host_in))
  /\ Continue("feed")
  /\ UNCHANGED <<request, loop, expired, process, guest_in, guest_out, wire,
                 peers, answered>>

(* The reply the outstanding call waits for. *)
IsReply_Unsolicited(m) == m.own /\ m.kind = "reply" /\ m.data # "buried"
IsReply(m) == /\ m.own /\ m.kind = "reply" /\ m.data # "buried"
              /\ pending_sequence # 0 /\ m.seq = pending_sequence

(* Identity mismatch, cancel, unsolicited or misnumbered reply, bad frame, JSON
   nested too deep for serde_json. *)
HostRefused ==
  /\ HostPiece /\ Whole(Head(host_in)) /\ ~IsReply(Head(host_in).msg)
  /\ Return("error")
  /\ UNCHANGED <<request, loop, expired, process, guest_in, guest_out, wire,
                 peers, answered>>

(* enqueue() refuses the reply while the guest has not read the last frame.  *)
HostReply ==
  /\ HostPiece /\ Whole(Head(host_in)) /\ IsReply(Head(host_in).msg)
  /\ pending_sequence' = 0
  /\ \/ /\ pending(to_guest)
        /\ Return("overrun_guest")
        /\ UNCHANGED <<to_guest, answered>>
     \/ /\ ~pending(to_guest)
        /\ to_guest' = Load(Head(host_in).msg)
        /\ answered' = answered + 1
        /\ Continue("feed")
  /\ UNCHANGED <<request, to_host, completed, guest_closed, sequence, expired,
                 process, guest_in, guest_out, wire, peers>>

-----------------------------------------------------------------------------
(* The guest's end of its standard input and output, until it closes it or dies. *)
InOpen  == child = "running" /\ "in" \notin guest_shut
OutOpen == child = "running" /\ "out" \notin guest_shut

(* to_guest.send(): nothing to do or a full pipe; EPIPE; one piece moved.    *)
FeedWaits ==
  /\ pc = "feed"
  /\ pending(to_guest) => InOpen /\ Len(guest_in) >= PipeCapacity
  /\ Continue("drain")
  /\ OnlyControl

FeedBroken ==
  /\ pc = "feed" /\ pending(to_guest) /\ ~InOpen
  /\ Return("error")
  /\ OnlyControl

Feed ==
  /\ pc = "feed" /\ pending(to_guest) /\ InOpen
  /\ Len(guest_in) < PipeCapacity
  /\ guest_in' = Append(guest_in, Piece(to_guest))
  /\ to_guest' = Advance(to_guest)
  /\ Continue("drain")
  /\ UNCHANGED <<request, to_host, completed, guest_closed, pending_sequence,
                 sequence, expired, process, host_in, guest_out, wire, peers,
                 answered>>

(* to_host.send(1), then the test that ends a finished execution. *)
AfterDrain_AwaitsEof ==
  IF completed /\ guest_closed /\ ~pending(to_host')
  THEN Return("ok") ELSE Continue("guestin")
AfterDrain ==
  IF completed /\ ~pending(to_host') THEN Return("ok") ELSE Continue("guestin")

DrainWaits ==
  /\ pc = "drain"
  /\ pending(to_host) => ~deaf /\ ~OutputRoom
  /\ UNCHANGED to_host
  /\ AfterDrain
  /\ UNCHANGED <<request, to_guest, completed, guest_closed, pending_sequence,
                 sequence, expired, process, pipes, peers, answered>>

DrainBroken ==
  /\ pc = "drain" /\ pending(to_host) /\ deaf
  /\ Return("error")
  /\ OnlyControl

(* The buffer after a write that may have been short. *)
Unsent_ShortWriteIgnored == Idle
Unsent == Advance(to_host)

Drain ==
  /\ pc = "drain" /\ pending(to_host) /\ ~deaf /\ OutputRoom
  /\ wire' = Append(wire, Piece(to_host))
  /\ to_host' = Unsent
  /\ AfterDrain
  /\ UNCHANGED <<request, to_guest, completed, guest_closed, pending_sequence,
                 sequence, expired, process, host_in, guest_in, guest_out,
                 peers, answered>>

-----------------------------------------------------------------------------
(* The guest is read only while no frame to the host is undelivered. *)
GuestReadable_Ahead == ~completed /\ ~guest_closed
GuestReadable_WhenAnswered ==
  ~completed /\ ~pending(to_host) /\ ~guest_closed /\ pending_sequence = 0
GuestReadable == ~completed /\ ~pending(to_host) /\ ~guest_closed

GuestSkipped ==
  /\ pc = "guestin"
  /\ GuestReadable => guest_out = <<>> /\ OutOpen
  /\ Continue("reap")
  /\ OnlyControl

GuestEof ==
  /\ pc = "guestin" /\ GuestReadable /\ guest_out = <<>> /\ ~OutOpen
  /\ guest_closed' = TRUE
  /\ Continue("reap")
  /\ UNCHANGED <<request, to_guest, to_host, completed, pending_sequence,
                 sequence, expired, process, pipes, peers, answered>>

GuestPiece == /\ pc = "guestin" /\ GuestReadable /\ guest_out # <<>>
              /\ guest_out' = Tail(guest_out)

GuestPartial ==
  /\ GuestPiece /\ ~Whole(Head(guest_out))
  /\ Continue("reap")
  /\ UNCHANGED <<request, loop, expired, process, host_in, guest_in, wire,
                 peers, answered>>

(* The conditions on a call, after sequence += 1. *)
CallAllowed_Pipelined(m, n) ==
  request.tag # "validate" /\ m.seq = n /\ n <= request.seq /\ m.tag = "listed"
CallAllowed(m, n) == /\ request.tag # "validate" /\ pending_sequence = 0
                     /\ m.seq = n /\ n <= request.seq /\ m.tag = "listed"

Relayed(m) == /\ m.own /\ m.data # "buried"
              /\ \/ m.kind \in {"completed", "log"}
                 \/ m.kind = "call" /\ CallAllowed(m, sequence + 1)

(* Identity mismatch, unknown kind, refused call, bad frame. *)
GuestRefused ==
  /\ GuestPiece /\ Whole(Head(guest_out)) /\ ~Relayed(Head(guest_out).msg)
  /\ Return("error")
  /\ UNCHANGED <<request, loop, expired, process, host_in, guest_in, wire,
                 peers, answered>>

GuestEvent ==
  /\ GuestPiece /\ Whole(Head(guest_out))
  /\ LET m == Head(guest_out).msg
         call == m.kind = "call"
     IN  /\ Relayed(m)
         /\ completed' = (m.kind = "completed")
         /\ sequence' = IF call THEN sequence + 1 ELSE sequence
         /\ pending_sequence' = IF call THEN sequence + 1 ELSE pending_sequence
         /\ QueueForHost(m, "reap")
  /\ UNCHANGED <<request, to_guest, guest_closed, expired, process, host_in,
                 guest_in, wire, peers, answered>>

-----------------------------------------------------------------------------
(* try_wait() after EOF without a result, and poll(). *)
Verdict(how) == CASE how = "exit_124"   -> "instruction_limit"
                  [] how = "exit_125"   -> "memory_limit"
                  [] how = "cpu_signal" -> "cpu_limit"
                  [] how = "alarm"      -> "wall_timeout"
                  [] OTHER              -> "guest_terminated"

GuestGone_Unread == ~completed
GuestGone == guest_closed /\ ~completed

NotReaped_Blocking == pc = "reap" /\ ~GuestGone /\ Continue("watchdog") /\ OnlyControl
NotReaped ==
  /\ pc = "reap"
  /\ GuestGone => child # "zombie"
  /\ Continue("watchdog")
  /\ OnlyControl

Reap ==
  /\ pc = "reap" /\ GuestGone /\ child = "zombie"
  /\ child' = "reaped"
  /\ QueueForHost(failure(TRUE, Verdict(status)), "watchdog")
  /\ completed' = TRUE
  /\ UNCHANGED <<request, to_guest, guest_closed, pending_sequence, sequence,
                 expired, status, killed, pipes, peers, answered>>

(* After the closure, on every path: kill(), wait(). *)
Kill ==
  /\ pc = "kill"
  /\ killed' = TRUE
  /\ pc' = "wait"
  /\ UNCHANGED <<outcome, request, loop, expired, child, status, pipes, peers,
                 answered>>

Wait ==
  /\ pc = "wait" /\ child \in {"zombie", "reaped"}
  /\ child' = "reaped"
  /\ pc' = IF outcome = "ok" THEN "exit" ELSE "report"
  /\ UNCHANGED <<outcome, request, loop, expired, status, killed, pipes, peers,
                 answered>>

(* main() on Err: one write of an engine_error frame, its failure ignored.
   Before a request was parsed it carries an empty execution_id.            *)
Report ==
  /\ pc = "report"
  /\ pc' = "exit"
  /\ IF ~deaf /\ OutputRoom
     THEN wire' = Append(wire, Piece(Load(failure(request # NoMessage, "engine_error"))))
     ELSE UNCHANGED wire
  /\ UNCHANGED <<outcome, request, loop, expired, process, host_in, guest_in,
                 guest_out, peers, answered>>

(* The supervisor itself is killed; PR_SET_PDEATHSIG kills its guest. *)
Lost_Orphans ==
  /\ ~Stopped /\ pc' = "lost"
  /\ UNCHANGED <<killed, outcome, request, loop, expired, child, status, pipes,
                 peers, answered>>
Lost ==
  /\ ~Stopped
  /\ pc' = "lost"
  /\ killed' = (killed \/ child # "none")
  /\ UNCHANGED <<outcome, request, loop, expired, child, status, pipes, peers,
                 answered>>

-----------------------------------------------------------------------------
(* The environment: the clock, the kernel, and any host and any guest. *)
Tick ==
  /\ ~Stopped /\ ~expired
  /\ expired' = TRUE
  /\ UNCHANGED <<pc, outcome, request, loop, process, pipes, peers, answered>>

(* The guest ends, of itself or killed: its descriptors close first, then
   the supervisor can reap it. *)
GuestExits ==
  /\ child = "running"
  /\ child' = "exiting"
  /\ status' \in ExitStatuses
  /\ UNCHANGED <<pc, outcome, request, loop, expired, killed, pipes, peers,
                 answered>>

GuestDead ==
  /\ child = "exiting"
  /\ child' = "zombie"
  /\ UNCHANGED <<pc, outcome, request, loop, expired, status, killed, pipes,
                 peers, answered>>

GuestReads ==
  /\ ~Stopped /\ InOpen /\ guest_in # <<>>
  /\ guest_in' = Tail(guest_in)
  /\ UNCHANGED <<pc, outcome, request, loop, expired, process, host_in,
                 guest_out, wire, peers, answered>>

(* A write by a peer: the next piece of the frame it is in, or a new frame. *)
Written(writer, messages) ==
  IF pending(writer) THEN {writer} ELSE {Load(m) : m \in messages}

GuestWrites ==
  /\ ~Stopped /\ OutOpen /\ Len(guest_out) < PipeCapacity
  /\ pending(guest_writer) \/ guest_sent < GuestFrames
  /\ \E w \in Written(guest_writer, GuestMessages) :
       /\ guest_out' = Append(guest_out, Piece(w))
       /\ guest_writer' = Advance(w)
       /\ finished' = (finished \/ (Whole(Piece(w)) /\ w.msg.own /\ w.msg.kind = "completed"))
  /\ guest_sent' = IF pending(guest_writer) THEN guest_sent ELSE guest_sent + 1
  /\ UNCHANGED <<pc, outcome, request, loop, expired, process, host_in,
                 guest_in, wire, hostVars, guest_shut, answered>>

(* isolation.rs:311: the filter allows close(2); the process need not end. *)
GuestCloses ==
  /\ ~Stopped /\ child = "running"
  /\ \E end \in GuestShuts \ guest_shut : guest_shut' = guest_shut \cup {end}
  /\ UNCHANGED <<pc, outcome, request, loop, expired, process, pipes, hostVars,
                 guest_writer, guest_sent, finished, answered>>

HostWrites ==
  /\ ~Stopped /\ ~host_closed /\ Len(host_in) < PipeCapacity
  /\ pending(host_writer) \/ host_sent < HostFrames
  /\ \E w \in Written(host_writer, IF host_sent = 0 THEN Requests ELSE HostMessages) :
       /\ host_in' = Append(host_in, Piece(w))
       /\ host_writer' = Advance(w)
  /\ host_sent' = IF pending(host_writer) THEN host_sent ELSE host_sent + 1
  /\ UNCHANGED <<pc, outcome, request, loop, expired, process, guest_in,
                 guest_out, wire, host_closed, deaf, taken, guestVars, answered>>

HostReads ==
  /\ ~deaf /\ taken < Len(wire)
  /\ taken' = taken + 1
  /\ UNCHANGED <<pc, outcome, request, loop, expired, process, pipes,
                 host_writer, host_sent, host_closed, deaf, guestVars, answered>>

HostCloses ==
  /\ ~host_closed
  /\ host_closed' = TRUE
  /\ UNCHANGED <<pc, outcome, request, loop, expired, process, pipes,
                 host_writer, host_sent, deaf, taken, guestVars, answered>>

HostDeaf ==
  /\ ~deaf
  /\ deaf' = TRUE
  /\ UNCHANGED <<pc, outcome, request, loop, expired, process, pipes,
                 host_writer, host_sent, host_closed, taken, guestVars,
                 answered>>

(* Both processes are gone: nothing more can happen. *)
Terminated == Stopped /\ child \notin {"running", "exiting"} /\ UNCHANGED vars

SupervisorStep ==
  \/ AdmitFails \/ AdmitPartial \/ Refuse \/ Spawn
  \/ InTime \/ Expire \/ MemoryFits \/ MemoryCeiling
  \/ HostSilent \/ HostEof \/ HostPartial \/ HostRefused \/ HostReply
  \/ FeedWaits \/ FeedBroken \/ Feed
  \/ DrainWaits \/ DrainBroken \/ Drain
  \/ GuestSkipped \/ GuestEof \/ GuestPartial \/ GuestRefused \/ GuestEvent
  \/ NotReaped \/ Reap \/ Kill \/ Wait \/ Report

Kernel == Tick \/ GuestExits \/ GuestDead
Host   == HostWrites \/ HostReads \/ HostCloses \/ HostDeaf
Guest  == GuestReads \/ GuestWrites \/ GuestCloses

Next == SupervisorStep \/ Lost \/ Kernel \/ Host \/ Guest \/ Terminated

Spec == Init /\ [][Next]_vars

(* What the system guarantees whatever the peers do: the supervisor's loop is
   scheduled, a killed process dies, a dead one can be reaped. *)
Scheduling == /\ WF_vars(SupervisorStep)
              /\ WF_vars(killed /\ GuestExits)
              /\ WF_vars(GuestDead)

(* No clock: what needs a deadline assumes one itself. *)
FairSpec == Spec /\ Scheduling

ClockAdvances == WF_vars(Tick)
HostGoesOnReading == WF_vars(HostReads)

-----------------------------------------------------------------------------
(* Safety. *)

(* supervisor.rs enqueues at five places a frame to the host and never while
   one is still pending: the error of Writer::enqueue is unreachable there.  *)
OutputNeverOverrun == outcome # "overrun_host"

Diagnostic(c) == c.msg.tag = "engine_error"

(* Stdout carries whole frames, one after the other, the last one perhaps
   unfinished.  main()'s engine_error is exempt: see NoDiagnosticBehindPartial. *)
OutputFramed ==
  \A i \in DOMAIN wire :
    ~Diagnostic(wire[i]) =>
      IF First(wire[i]) THEN i = 1 \/ Whole(wire[i - 1])
      ELSE i > 1 /\ wire[i - 1] = [wire[i] EXCEPT !.no = @ - 1]

(* A whole result or supervisor verdict is the last thing the host can read. *)
ResultIsLast ==
  \A i \in DOMAIN wire :
    Whole(wire[i]) /\ wire[i].msg.kind = "completed" => i = Len(wire)

CallsOnWire == {i \in DOMAIN wire : First(wire[i]) /\ wire[i].msg.kind = "call"}

(* Whatever a compromised guest sends, the host sees calls numbered 1, 2, ...
   within the budget, of catalog paths, none when only validating, and each
   after the previous one was answered. *)
CallsAuthorised ==
  /\ \A i \in CallsOnWire :
       LET m == wire[i].msg
       IN  /\ m.own /\ m.tag = "listed" /\ request.tag # "validate"
           /\ m.seq \in 1 .. request.seq /\ m.seq <= answered + 1
           /\ \A k \in 1 .. m.seq : \E j \in CallsOnWire : j <= i /\ wire[j].msg.seq = k
  /\ \A i, j \in CallsOnWire : i < j => wire[i].msg.seq < wire[j].msg.seq

(* What the host is told of the end is what happened: a result was written by the
   guest, a timeout came after the deadline, the memory ceiling is the probe's;
   any other verdict tells how the guest died, and is never given when the guest
   had written its result before dying. *)
FateReported ==
  \A i \in DOMAIN wire :
    LET m == wire[i].msg
    IN  m.kind = "completed" =>
          \/ m.tag = "engine_error"
          \/ m.tag = "result" /\ finished
          \/ m.tag = "wall_timeout" /\ expired
          \/ m.tag = "memory_limit" /\ MemoryProbe
          \/ m.tag = Verdict(status) /\ ~finished

(* Once SIGKILL was sent the host is told nothing but the end. *)
SilentAfterKill ==
  [][killed /\ wire' # wire => wire'[Len(wire')].msg.kind = "completed"]_vars

(* The supervisor implements Execution: a call is dispatched when it is queued
   for the host (from then on the host may see it), the conclusion is decided
   when `completed' is set and told when its last piece is on stdout. *)
QueuedCall == pending(to_host) /\ to_host.msg.kind = "call" /\ to_host.off = 0

Phase == CASE pc = "admit" -> "idle" [] pc \in Loop -> "running" [] OTHER -> "over"
Budget == IF child = "none" \/ request.tag = "validate" THEN 0 ELSE request.seq
Dispatched == Cardinality(CallsOnWire) + (IF QueuedCall THEN 1 ELSE 0)
ConclusionTold == \E i \in DOMAIN wire : /\ Whole(wire[i]) /\ ~Diagnostic(wire[i])
                                         /\ wire[i].msg.kind = "completed"

Contract == INSTANCE Execution WITH
  phase <- Phase, budget <- Budget, dispatched <- Dispatched,
  decided <- completed, told <- ConclusionTold

ImplementsExecution == Contract!Spec

-----------------------------------------------------------------------------
(* Liveness. *)

(* No host and no guest can suspend the watchdog: the supervisor ends, the guest
   with it, and a supervisor that was not killed itself has reaped the guest. *)
Ends == ClockAdvances =>
          <>[]( /\ Stopped /\ child \notin {"running", "exiting"}
                /\ pc = "exit" => child # "zombie" )

(* Closing stdin cancels without waiting for the deadline. *)
EofCancels == host_closed ~> Stopped

(* A guest that dies, at any point of a frame, is noticed by a host that reads,
   without waiting for the deadline. *)
DeathEnds == HostGoesOnReading => (child = "exiting" ~> Stopped)

-----------------------------------------------------------------------------
(* Claims of the sources that the code does not keep. *)

(* supervisor.rs:78 "Do not append a diagnostic behind a partially delivered
   frame": main.rs:58-62 appends one after cancellation, EOF or any other Err. *)
NoDiagnosticBehindPartial ==
  \A i \in DOMAIN wire : Diagnostic(wire[i]) /\ i > 1 => Whole(wire[i - 1])

(* supervisor.rs:105 "Unsolicited or pipelined replies are invalid": a reply is
   accepted before its call has been delivered to the host. *)
NoUnsolicitedReply ==
  answered <= Cardinality({i \in DOMAIN wire : Whole(wire[i]) /\ wire[i].msg.kind = "call"})
=============================================================================
