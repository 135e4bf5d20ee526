------------------------------- MODULE Engine --------------------------------
(***************************************************************************)
(* One execution from end to end: the PHP client, the supervisor and the    *)
(* guest, each as its own module models it, joined by the pipes.  Supervisor *)
(* leaves its peers free; here every step of a peer is a step of the real   *)
(* client or the real guest, so Engine implements Supervisor and its        *)
(* theorems hold of it.                                                     *)
(***************************************************************************)
EXTENDS Supervisor

CONSTANTS
  Request, LogLimit, Growth, ReplyPieces, ReplyData, MayCancel,   \* see Client
  LogLengths, UsizeMax, Codes, FramePieces, Shapes,               \* see Guest
  Faults       \* FALSE: no clock advances, no budget ends, nobody is killed

VARIABLES
  c_at, c_sequence, c_logBytes, c_logs, c_asked, c_reader, c_writer, c_returned, c_late,
  effects, replies,
  g_at, g_request, g_host, g_codes, g_status, g_type, g_json, g_writer, g_output, g_ended

C == INSTANCE Client WITH
  Incoming <- {}, at <- c_at, sequence <- c_sequence, logBytes <- c_logBytes,
  logs <- c_logs, asked <- c_asked, reader <- c_reader, writer <- c_writer, returned <- c_returned,
  late <- c_late, gone <- Stopped

G == INSTANCE Guest WITH
  Incoming <- {}, at <- g_at, request <- g_request, host <- g_host, codes <- g_codes,
  status <- g_status, error_type <- g_type, json <- g_json, writer <- g_writer,
  output <- g_output, ended <- g_ended, gone <- Stopped

ASSUME EngineAssumption == C!ClientAssumption /\ G!GuestAssumption

client == <<c_at, c_sequence, c_logBytes, c_logs, c_asked, c_reader, c_writer, c_returned,
            c_late, effects, replies>>
guest  == <<g_at, g_request, g_host, g_codes, g_status, g_type, g_json, g_writer, g_output, g_ended>>

EngineInit == Init /\ C!Init /\ G!Init

-----------------------------------------------------------------------------
(* The client's steps: on its own, at the pipes, on the process. *)
Client ==
  /\ UNCHANGED guest
  /\ \/ /\ UNCHANGED <<vars, c_late>>
        /\ \/ C!Start \/ C!Interrupted \/ C!PutBroken \/ C!Invoke \/ C!Answer \/ C!Reaped
           \/ Faults /\ C!Terminate
     \/ taken = Len(wire) /\ C!ReadEnded /\ UNCHANGED <<vars, c_late>>
     \/ HostWrites /\ host_in' = Append(host_in, Piece(c_writer)) /\ C!Put /\ UNCHANGED c_late
     \/ HostReads /\ C!Get(wire[taken + 1]) /\ UNCHANGED c_late
     \/ HostCloses /\ C!CloseInput /\ UNCHANGED c_late
     \/ HostDeaf /\ C!CloseOutput /\ UNCHANGED c_late
     \/ c_at = "reap" /\ Lost /\ UNCHANGED client

Cancel == UNCHANGED <<vars, guest, c_late>> /\ C!Cancelled
Deadline == Faults /\ UNCHANGED <<vars, guest>> /\ C!Late

(* The guest's. *)
Program ==
  /\ child = "running" /\ UNCHANGED client
  /\ \/ /\ UNCHANGED vars
        /\ \/ G!NoRequest \/ G!Enter \/ G!Boot \/ G!AdmissionFails \/ G!Admitted \/ G!Unknown
           \/ G!CallRefused \/ G!Call \/ G!NoReply \/ G!Finish \/ G!Broken
           \/ Faults /\ G!Exhausted
           \/ \E n \in LogLengths : G!Log(n)
     \/ GuestWrites /\ guest_out' = Append(guest_out, Piece(g_writer)) /\ G!Send
     \/ GuestReads /\ G!Receive(Head(guest_in))

(* How a process ends: of itself, by SIGKILL, by a timer once they are armed. *)
ExitStatus == IF g_ended \in {"exit_124", "exit_125"} THEN g_ended ELSE "other"
Armed == g_at \notin {"read", "enter"}

ProcessEnds ==
  /\ GuestExits
  /\ \/ g_at = "exit" /\ status' = ExitStatus
     \/ killed /\ status' = "other"
     \/ Faults /\ g_at # "exit" /\ Armed /\ status' \in {"cpu_signal", "alarm"}
  /\ UNCHANGED <<client, guest>>

(* proc_open started the supervisor. *)
Launched == c_at # "start" /\ (c_at = "done" => host_closed)

Supervising == Launched /\ SupervisorStep /\ UNCHANGED <<client, guest>>
Environment == /\ (Launched /\ Faults /\ Tick) \/ GuestDead
               /\ UNCHANGED <<client, guest>>
Over == c_at = "done" /\ (~Launched \/ Terminated) /\ UNCHANGED <<vars, client, guest>>

EngineNext == Client \/ Cancel \/ Deadline \/ Program \/ ProcessEnds \/ Supervising \/ Environment \/ Over

engineVars == <<vars, client, guest>>
EngineSpec == EngineInit /\ [][EngineNext]_engineVars

(* The three processes are scheduled, the program ends, capabilities return;
   nothing is assumed of the clock, nor that anyone cancels.                 *)
Fairness ==
  /\ WF_engineVars(Client) /\ WF_engineVars(Supervising)
  /\ WF_engineVars(Program) /\ WF_engineVars(G!Finish /\ Program)
  /\ WF_engineVars(ProcessEnds) /\ WF_engineVars(GuestDead /\ UNCHANGED <<client, guest>>)

EngineUntimedSpec == EngineSpec /\ Fairness

-----------------------------------------------------------------------------
Present(m) == m.kind # "none"
Ahead(pipe) == IF pipe = <<>> THEN NoMessage ELSE Head(pipe).msg

Plain(m) == [m EXCEPT !.data = "plain"]

(* Sequences, budgets, identities and turns of the three processes agree: what one
   of them finds in a pipe it refuses for its values alone, if at all.  The
   supervisor relays every frame of the guest.  It refuses a reply only when that
   is buried, the guest one only when it is nested (supervisor.rs:97-146,
   guest.rs:208-219).  The client refuses an event only for a key it cannot decode;
   for its identity only a diagnostic from before the admission, and then nothing
   ran.  A frame begins within another only if it is the engine_error main writes
   behind half a frame (main.rs:58-62, Client.php:87-106, 188-211). *)
PeersAgree ==
  /\ pc = "guestin" /\ Present(Ahead(guest_out)) => Relayed(Ahead(guest_out))
  /\ pc = "hostin" /\ Present(Ahead(host_in)) => IsReply(Plain(Ahead(host_in)))
  /\ g_at = "read" /\ Present(Ahead(guest_in)) =>
       G!Usable(Ahead(guest_in)) /\ Ahead(guest_in).tag # "refused"
  /\ g_at = "await" /\ Present(Ahead(guest_in)) => G!Answers(Ahead(guest_in))
  /\ c_at = "read" /\ taken < Len(wire) =>
       LET c == wire[taken + 1]
       IN  /\ C!InPlace(c) \/ Diagnostic(c)
           /\ C!Unusable(Plain(c.msg)) => child = "none" /\ effects = <<>>
           /\ c.msg.kind = "call" => c.msg.seq = c_sequence + 1 /\ c.msg.seq <= Request.seq

(* While the program runs on, every call it asked for was carried out exactly
   once, and every call carried out was asked for: no call is lost between the
   budgets, the queues and the two sequence counters. *)
EffectsExact ==
  /\ \A i \in DOMAIN effects : effects[i] = i
  /\ Len(effects) <= g_host.calls
  /\ ~Stopped /\ g_at \in {"program", "log"} => g_host.calls = Len(effects)

AppTold(tag) == c_returned = tag

(* What the application is told is what happened: a result is the guest's, with
   all its logs and effects before it; a verdict is how the guest ended, or what
   the memory probe saw; and a conclusion on the wire is lost only to a late or
   cancelling client, to a reply that found the input closed, to the client's own
   log budget, or to values PHP cannot decode in the frame it read last
   (Client.php:96-99, 119, 122-128, 194). *)
ReturnedTrue ==
  /\ AppTold("result") => /\ g_at \in {"event", "report", "exit"} /\ finished
                       /\ c_logs = g_output.logs /\ Len(effects) = g_host.calls
  /\ c_returned \in {"instruction_limit", "memory_limit", "cpu_limit", "guest_terminated"}
       => \/ c_returned = Verdict(status) /\ ~finished
          \/ AppTold("memory_limit") /\ MemoryProbe
  /\ AppTold("wall_timeout") => expired \/ status = "alarm"
  /\ AppTold("host_transport_error") /\ ConclusionTold /\ ~c_late /\ ~MayCancel
       => \/ Len(effects) > Len(replies) \/ c_logBytes > LogLimit
          \/ taken > 0 /\ wire[taken].msg.data # "plain"

(* When execute() has returned the supervisor is gone, and its guest dead or
   about to be: also when the client had to kill the supervisor
   (Client.php:145-160, supervisor.rs:46-56). *)
NothingLeft ==
  c_at = "done" /\ Launched => Stopped /\ (child \in {"none", "reaped"} \/ killed)

(* Client, supervisor and guest never wait for one another in a circle: with no
   clock at all the execution ends, and its guest with it. *)
FinishesUntimed == <>[](c_at = "done" /\ (Launched => child \in {"none", "reaped"}))
=============================================================================
