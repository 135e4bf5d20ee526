------------------------------- MODULE Client --------------------------------
(***************************************************************************)
(* php/src/Client.php, execute(): one execution seen from the application.  *)
(* The engine at the other end may send any frame and leave at any time     *)
(* (gone): the client checks again all that the supervisor checks.  The     *)
(* pipes are nonblocking and polled; Put and Get move one piece each, and a *)
(* poll that moves none is no step.                                         *)
(***************************************************************************)
EXTENDS Frames, FiniteSets

CONSTANTS
  Request,     \* the request frame: its seq is limits.calls
  LogLimit,    \* limits.log_bytes
  Growth,      \* how much longer json_encode writes the values of a log
  ReplyPieces, \* pieces of a reply
  ReplyData,   \* data of the values capabilities return
  MayCancel,   \* TRUE when the application passes $cancelled
  Incoming     \* frames the engine may send

ASSUME ClientAssumption ==
  /\ Request \in Message /\ Request.size > 0
  /\ Request.kind = "request" /\ Request.tag \in {"run", "validate"}
  /\ LogLimit \in Nat /\ Growth \in Nat \ {0} /\ ReplyPieces \in Nat \ {0}
  /\ ReplyData \subseteq {"plain", "nested", "buried"} /\ "plain" \in ReplyData
  /\ MayCancel \in BOOLEAN /\ \A m \in Incoming : m \in Message

VARIABLES
  at,          \* where execute() is
  sequence, logBytes, logs,
  asked,       \* "sequence" of the call being served
  reader,      \* the frame readFrame is reading, and how much of it has been
  writer,      \* the frame writeFrame is writing
  returned,    \* what the Execution says: none, or a tag of completed frames,
               \* or "host_transport_error"
  late,        \* hrtime(true) >= $deadline
  effects,     \* history: sequences of the capabilities invoked
  replies,     \* history: sequences of the replies written whole
  gone         \* the engine process is not running

counts    == <<sequence, logBytes, logs, asked>>
execution == <<counts, reader>>
clientVars == <<at, execution, writer, returned, effects, replies>>
vars == <<clientVars, late, gone>>

Polling == {"write", "read", "call"}
Cleanup == {"closing", "closed", "grace", "reap", "done"}

TypeOK ==
  /\ at \in Polling \cup Cleanup \cup {"start", "effect"}
  /\ sequence \in 0 .. Request.seq + 1 /\ logs \in Nat
  /\ asked \in Nat
  /\ logBytes \in Nat /\ (returned # "host_transport_error" => logBytes <= LogLimit)
  /\ reader \in Writer /\ writer \in Writer /\ (at = "write" => pending(writer))
  /\ returned \in Tags \cup {"host_transport_error"} /\ (returned = "none" <=> at \notin Cleanup)
  /\ late \in BOOLEAN /\ gone \in BOOLEAN
  /\ effects \in Seq(Nat) /\ replies \in Seq(Nat)

Init ==
  /\ at = "start" /\ sequence = 0 /\ logBytes = 0 /\ logs = 0 /\ asked = 0
  /\ reader = Idle /\ writer = Idle /\ returned = "none" /\ late = FALSE
  /\ effects = <<>> /\ replies = <<>> /\ gone = FALSE

-----------------------------------------------------------------------------
(* catch (Throwable) and return: either way finally comes next. *)
Leave(with) == at' = "closing" /\ returned' = with
Throw == Leave("host_transport_error")
Go(next) == at' = next /\ UNCHANGED returned

(* proc_open, which may fail before there is a process or a pipe; then
   json_encode and writeFrame's limit, which may refuse the request.         *)
Start ==
  /\ at = "start"
  /\ \/ Go("write") /\ writer' = Load(Request)
     \/ Throw /\ UNCHANGED writer
     \/ at' = "done" /\ returned' = "host_transport_error" /\ UNCHANGED writer
  /\ UNCHANGED <<execution, effects, replies>>

(* checkpoint(): before every read and write and before a capability. *)
InTime_Always == TRUE
InTime == ~late

Interrupted == at \in Polling /\ ~InTime /\ Throw /\ UNCHANGED <<execution, writer, effects, replies>>
Cancelled == at \in Polling /\ MayCancel /\ Throw /\ UNCHANGED <<execution, writer, effects, replies>>

-----------------------------------------------------------------------------
(* writeFrame(): fwrite of what the pipe takes. *)
Put ==
  /\ at = "write" /\ InTime /\ ~gone
  /\ writer' = Advance(writer)
  /\ IF Whole(Piece(writer))
     THEN /\ Go("read")
          /\ replies' = IF writer.msg.kind = "reply" THEN Append(replies, writer.msg.seq) ELSE replies
     ELSE UNCHANGED <<at, returned, replies>>
  /\ UNCHANGED <<execution, effects>>

PutBroken == at = "write" /\ gone /\ Throw /\ UNCHANGED <<execution, writer, effects, replies>>

(* readBytes(): the next piece of the frame it is in, or of a new one. *)
Reading == at = "read" /\ InTime
Awaited(c) == IF pending(reader) THEN reader ELSE Load(c.msg)
InPlace(c) == c = Piece(Awaited(c))
ReadPiece(c) == Reading /\ InPlace(c) /\ reader' = Advance(Awaited(c))

ReadPartial(c) == /\ ReadPiece(c) /\ ~Whole(c)
                  /\ UNCHANGED <<at, counts, writer, returned, effects, replies>>

(* Bytes of another frame complete the one it is in, and json_decode refuses
   that, or are too few and it waits for more.                               *)
Garbled == [NoMessage EXCEPT !.kind = "malformed", !.size = 2]
ReadSwallowed(c) ==
  /\ Reading /\ pending(reader) /\ ~InPlace(c)
  /\ \/ Throw /\ UNCHANGED reader
     \/ Go("read") /\ reader' = Advance(Load(Garbled))
  /\ UNCHANGED <<counts, writer, effects, replies>>

(* readFrame() and the switch on the kind of the event. *)
Unusable(m) == \/ ~m.own \/ m.kind \notin {"log", "call", "completed"}
               \/ m.data \in {"nulkey", "buried"}

ReadUnusable(c) ==
  /\ ReadPiece(c) /\ Whole(c) /\ Unusable(c.msg)
  /\ Throw
  /\ UNCHANGED <<counts, writer, effects, replies>>

LogSpent == logBytes' > LogLimit

ReadLog(c) ==
  /\ ReadPiece(c) /\ Whole(c) /\ ~Unusable(c.msg) /\ c.msg.kind = "log"
  /\ \E factor \in 1 .. Growth : logBytes' = logBytes + factor * c.msg.seq
  /\ IF LogSpent THEN Throw /\ UNCHANGED logs
                             ELSE Go("read") /\ logs' = logs + 1
  /\ UNCHANGED <<sequence, asked, writer, effects, replies>>

InSequence_AnyNew(m) == m.seq >= sequence
InSequence(m) == m.seq = sequence + 1
Acceptable(m) == InSequence(m) /\ m.seq <= Request.seq /\ m.tag = "listed"

(* ++$sequence is skipped when $validateOnly already decides. *)
ReadCall(c) ==
  /\ ReadPiece(c) /\ Whole(c) /\ ~Unusable(c.msg) /\ c.msg.kind = "call"
  /\ IF Request.tag = "validate" THEN Throw /\ UNCHANGED <<sequence, asked>>
     ELSE /\ sequence' = sequence + 1 /\ asked' = c.msg.seq
          /\ IF Acceptable(c.msg) THEN Go("call") ELSE Throw
  /\ UNCHANGED <<logBytes, logs, writer, effects, replies>>

(* Tag "none": the "error" member is neither null nor an object. *)
ReadCompleted(c) ==
  /\ ReadPiece(c) /\ Whole(c) /\ ~Unusable(c.msg) /\ c.msg.kind = "completed"
  /\ IF c.msg.tag = "none" THEN Throw ELSE Leave(c.msg.tag)
  /\ UNCHANGED <<counts, writer, effects, replies>>

Get(c) == \/ ReadPartial(c) \/ ReadSwallowed(c) \/ ReadUnusable(c) \/ ReadLog(c) \/ ReadCall(c) \/ ReadCompleted(c)

(* End of file, wherever a frame stands. *)
ReadEnded == at = "read" /\ gone /\ Throw /\ UNCHANGED <<execution, writer, effects, replies>>

-----------------------------------------------------------------------------
(* The capability runs; only its reply can be refused, by json_encode or by
   writeFrame's limit, and then the effect is done but never answered.       *)
Invoke ==
  /\ at = "call" /\ InTime
  /\ Go("effect")
  /\ effects' = Append(effects, asked)
  /\ UNCHANGED <<execution, writer, replies>>

Reply(n, data) ==
  [kind |-> "reply", own |-> TRUE, seq |-> n, tag |-> "none", size |-> ReplyPieces, data |-> data]

Answer ==
  /\ at = "effect"
  /\ \/ Go("write") /\ \E data \in ReplyData : writer' = Load(Reply(sequence, data))
     \/ Throw /\ UNCHANGED writer
  /\ UNCHANGED <<execution, effects, replies>>

(* finally: close the pipes, wait 250 ms for the engine, kill it, reap it. *)
CloseInput  == at = "closing" /\ Go("closed") /\ UNCHANGED <<execution, writer, effects, replies>>
CloseOutput == at = "closed" /\ Go("grace") /\ UNCHANGED <<execution, writer, effects, replies>>
Terminate   == at = "grace" /\ ~gone /\ Go("reap") /\ UNCHANGED <<execution, writer, effects, replies>>
Reaped      == at \in {"grace", "reap"} /\ gone /\ Go("done")
               /\ UNCHANGED <<execution, writer, effects, replies>>

Step == \/ Start \/ Interrupted \/ PutBroken \/ ReadEnded \/ Invoke
        \/ CloseInput \/ CloseOutput \/ Terminate \/ Reaped

-----------------------------------------------------------------------------
(* Any engine, the clock, and the kernel that executes the SIGKILL. *)
Supplied == \E m \in Incoming : \E i \in 1 .. m.size : Get([msg |-> m, no |-> i])
Gone == ~gone /\ gone' = TRUE /\ UNCHANGED <<clientVars, late>>
Late == ~late /\ late' = TRUE /\ UNCHANGED <<clientVars, gone>>
Done == at = "done" /\ UNCHANGED vars

Next == \/ (Step \/ Cancelled \/ Put \/ Answer \/ Supplied) /\ UNCHANGED <<late, gone>>
        \/ Gone \/ Late \/ Done

Spec == Init /\ [][Next]_vars

(* execute() is one thread: it goes on; a capability returns; a killed process
   dies.  The engine need not send, read or end anything, nor the application
   cancel.                                                                   *)
FairSpec == /\ Spec
            /\ WF_vars(Step /\ UNCHANGED <<late, gone>>)
            /\ WF_vars(Answer /\ UNCHANGED <<late, gone>>)
            /\ WF_vars(Late) /\ WF_vars(at = "reap" /\ Gone)

-----------------------------------------------------------------------------
(* An engine that lies about sequences, repeats a call after an answer, or asks
   while validating cannot make an effect happen out of turn, twice or beyond
   the budget; each is answered under its own number before the next starts
   (Client.php:103-120).                                                     *)
EffectsInTurn ==
  /\ effects = [i \in 1 .. Len(effects) |-> i]
  /\ Len(effects) <= (IF Request.tag = "validate" THEN 0 ELSE Request.seq)
  /\ replies = SubSeq(effects, 1, Len(replies))
  /\ Len(effects) - Len(replies) \in {0, 1}

(* Whatever the engine does, stalls or half-writes, execute() returns (Client.php:137-161). *)
Returns == <>(at = "done")
=============================================================================
