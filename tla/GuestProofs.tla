----------------------------- MODULE GuestProofs -----------------------------
(***************************************************************************)
(* What holds of the guest for any program, any frames on its input and any *)
(* budgets: the host interface numbers its calls without a gap, keeps the   *)
(* logs within their budget, and tells truly what became of the program.    *)
(***************************************************************************)
EXTENDS Guest, SequenceTheorems, TLAPS

USE DEF vars, guestVars, VM, Writing, Return, Write, Outgoing, Completed, CallFrame, LogFrame

(* The writer's frames: never empty, and idle again when their last piece is out. *)
LEMMA WriterFacts ==
  /\ NoMessage \in Message /\ Idle \in Writer /\ ~pending(Idle)
  /\ \A w \in Writer : Advance(w) \in Writer /\ Advance(w).msg \in {w.msg, NoMessage}
  /\ \A w \in Writer : pending(w) => IF Whole(Piece(w)) THEN Advance(w) = Idle
                                     ELSE pending(Advance(w)) /\ Advance(w).msg = w.msg
<1>1. NoMessage \in Message /\ Idle \in Writer /\ ~pending(Idle)
  BY DEF NoMessage, Message, Idle, Writer, Kinds, Tags, Data, pending
<1>2. ASSUME NEW w \in Writer
      PROVE  /\ Advance(w) \in Writer /\ Advance(w).msg \in {w.msg, NoMessage}
             /\ pending(w) => IF Whole(Piece(w)) THEN Advance(w) = Idle
                              ELSE pending(Advance(w)) /\ Advance(w).msg = w.msg
  <2>1. w.msg \in Message /\ w.off \in Nat /\ w.msg.size \in Nat
    BY DEF Writer, Message
  <2>2. CASE w.off + 1 = w.msg.size
    BY <1>1, <2>1, <2>2 DEF Advance, Idle, Whole, Piece
  <2>3. CASE w.off + 1 # w.msg.size
    <3>1. Advance(w) = [w EXCEPT !.off = w.off + 1]
      BY <2>3 DEF Advance
    <3>2. Advance(w) \in Writer /\ Advance(w).msg = w.msg /\ Advance(w).off = w.off + 1
      BY <2>1, <3>1 DEF Writer
    <3> QED
      BY <2>1, <2>3, <3>2 DEF pending, Whole, Piece
  <2> QED
    BY <2>2, <2>3
<1> QED
  BY <1>1, <1>2

(* The frames of the guest are messages. *)
LEMMA OwnFrames ==
  ASSUME NEW data \in Shapes
  PROVE  /\ \A own \in BOOLEAN : Completed(own, data) \in Message /\ Completed(own, data).size > 0
         /\ \A n \in Nat : /\ CallFrame(n, data) \in Message /\ CallFrame(n, data).size > 0
                           /\ LogFrame(n, data) \in Message /\ LogFrame(n, data).size > 0
BY GuestAssumption DEF Message, Kinds, Tags, Data

LEMMA PlainShape == /\ "plain" \in Shapes
                    /\ \A data \in Shapes : \A value : (IF value THEN data ELSE "plain") \in Shapes
BY GuestAssumption

(* The history of what was written keeps its type. *)
LEMMA SentType == TypeOK => Sent(writer.msg) \in [calls : Seq(Nat), logs : Nat, bytes : Nat, refused : BOOLEAN]
<1> SUFFICES ASSUME TypeOK
             PROVE  Sent(writer.msg) \in [calls : Seq(Nat), logs : Nat, bytes : Nat, refused : BOOLEAN]
  OBVIOUS
<1> DEFINE n == writer.msg.seq
<1>1. n \in Nat /\ output \in [calls : Seq(Nat), logs : Nat, bytes : Nat, refused : BOOLEAN]
  BY DEF TypeOK, Writer, Message
<1>2. Append(output.calls, n) \in Seq(Nat) /\ output.logs + 1 \in Nat /\ output.bytes + n \in Nat
  BY <1>1
<1>3. CASE writer.msg.kind = "call"
  BY <1>1, <1>2, <1>3 DEF Sent
<1>4. CASE writer.msg.kind = "log"
  BY <1>1, <1>2, <1>4 DEF Sent
<1>5. CASE writer.msg.kind \notin {"call", "log"}
  BY <1>1, <1>5 DEF Sent
<1> QED
  BY <1>3, <1>4, <1>5

-----------------------------------------------------------------------------
(* Types.  Where the process is decides whether it writes and has ended.     *)
ControlOK ==
  /\ at \in VM \cup Writing \cup {"read", "enter", "await", "exit"}
  /\ writer \in Writer /\ (pending(writer) <=> at \in Writing)
  /\ ended \in {"none", "ok", "error", "exit_124", "exit_125"} /\ (ended = "none" <=> at # "exit")
DataOK ==
  /\ request \in Message
  /\ host \in [sequence : Nat, calls : Nat, logs : 0 .. UsizeMax]
  /\ codes \subseteq Codes
  /\ status \in 0 .. 3 /\ error_type \in Codes \cup {"none"} /\ json \in BOOLEAN
  /\ output \in [calls : Seq(Nat), logs : Nat, bytes : Nat, refused : BOOLEAN]

LEMMA TypeParts == TypeOK <=> ControlOK /\ DataOK /\ gone \in BOOLEAN
BY DEF TypeOK, ControlOK, DataOK

(* Three ways a step may leave the process: about to write a frame; with the
   writer and the end as they were; with a writer that was idle.             *)
LEMMA Begins ==
  ASSUME ControlOK, at # "exit", NEW where \in Writing, NEW m \in Message, m.size > 0,
         Write(where, m), UNCHANGED ended
  PROVE  ControlOK'
<1>1. writer' \in Writer /\ pending(writer')
  BY DEF Load, Writer, Message, pending
<1>2. at' = where /\ ended = "none"
  BY DEF ControlOK
<1> QED
  BY <1>1, <1>2 DEF ControlOK

LEMMA Moves ==
  ASSUME ControlOK, at \notin Writing \cup {"exit"}, UNCHANGED <<writer, ended>>,
         at' \in VM \cup {"read", "enter", "await"}
  PROVE  ControlOK'
BY DEF ControlOK

LEMMA Rests ==
  ASSUME ControlOK, at # "exit", writer' = Idle, UNCHANGED ended, at' \in {"await", "program"}
  PROVE  ControlOK'
BY WriterFacts DEF ControlOK

LEMMA ControlStep ==
  ASSUME TypeOK, Step \/ Send \/ Supplied
  PROVE  ControlOK'
<1>0. ControlOK /\ DataOK
  BY TypeParts
<1>1. ASSUME NEW own \in BOOLEAN, Fail(own), at # "exit" PROVE ControlOK'
  BY <1>0, <1>1, Begins, OwnFrames, PlainShape DEF Fail
<1>2. ASSUME NEW s, NEW e, NEW j, Conclude(s, e, j), at # "exit" PROVE ControlOK'
  <2>1. PICK data \in Shapes : Write("event", Completed(TRUE, IF j THEN data ELSE "plain"))
    BY <1>2 DEF Conclude
  <2> QED
    BY <1>0, <1>2, <2>1, Begins, OwnFrames, PlainShape DEF Conclude
<1>3. CASE NoRequest \/ Enter
  BY <1>0, <1>1, <1>3, Moves DEF NoRequest, Enter
<1>4. CASE Boot \/ AdmissionFails \/ Admitted \/ Finish
  BY <1>0, <1>1, <1>2, <1>4, Moves DEF Boot, AdmissionFails, Admitted, Finish, Raised, Execute
<1>5. CASE Unknown \/ CallRefused \/ NoReply
  BY <1>0, <1>5, Moves DEF Unknown, CallRefused, NoReply
<1>6. CASE Call
  <2>1. host'.sequence \in Nat
    BY <1>0, <1>6 DEF Call, DataOK
  <2> QED
    BY <1>0, <1>6, <2>1, Begins, OwnFrames DEF Call
<1>7. CASE \E n \in LogLengths : Log(n)
  BY <1>0, <1>7, Begins, Moves, OwnFrames, GuestAssumption DEF Log, NoLog, SendLog
<1>8. CASE Broken
  <2>1. CASE at \in {"call", "log"} /\ writer' = Idle /\ Return({})
    BY <1>0, <2>1, Rests
  <2>2. CASE at = "event" /\ Fail(TRUE)
    BY <1>1, <2>2
  <2>3. CASE at = "report" /\ at' = "exit" /\ ended' = "error" /\ writer' = Idle
    BY <1>0, <2>3, WriterFacts DEF ControlOK
  <2> QED
    BY <1>8, <2>1, <2>2, <2>3 DEF Broken
<1>9. CASE Exhausted
  BY <1>0, <1>9 DEF Exhausted, ControlOK
<1>10. CASE Send
  <2>1. /\ writer \in Writer /\ pending(writer) /\ ended = "none" /\ at \in Writing
        /\ writer' = Advance(writer)
    BY <1>0, <1>10 DEF Send, ControlOK
  <2>2. CASE Whole(Piece(writer))
    <3>1. at' = After /\ ended' = Ending /\ writer' = Idle
      BY <1>10, <2>1, <2>2, WriterFacts DEF Send
    <3>2. \/ at' \in {"await", "program"} /\ ended' = "none"
          \/ at' = "exit" /\ ended' \in {"ok", "error"}
      BY <2>1, <3>1 DEF After, Ending
    <3> QED
      BY <3>1, <3>2, WriterFacts DEF ControlOK
  <2>3. CASE ~Whole(Piece(writer))
    <3>1. at' = at /\ ended' = ended /\ writer' \in Writer /\ pending(writer')
      BY <1>10, <2>1, <2>3, WriterFacts DEF Send
    <3> QED
      BY <1>0, <2>1, <3>1 DEF ControlOK
  <2> QED
    BY <2>2, <2>3
<1>11. CASE Supplied
  <2>1. PICK c : Receive(c)
    BY <1>11 DEF Supplied
  <2>2. CASE ReadPartial(c)
    BY <1>0, <2>2 DEF ReadPartial, ControlOK
  <2>3. CASE ReadRequest(c)
    BY <1>0, <1>1, <2>3, Moves DEF ReadRequest
  <2>4. CASE ReadReply(c)
    BY <1>0, <2>4, Moves DEF ReadReply
  <2> QED
    BY <2>1, <2>2, <2>3, <2>4 DEF Receive
<1> QED
  BY <1>3, <1>4, <1>5, <1>6, <1>7, <1>8, <1>9, <1>10, <1>11 DEF Step

LEMMA DataStep ==
  ASSUME TypeOK, Step \/ Send \/ Supplied
  PROVE  DataOK'
<1>0. DataOK
  BY TypeParts
<1> USE <1>0 DEF DataOK
<1>r. ASSUME NEW e \in Codes \cup {"none"}, Raised(e) PROVE DataOK'
  <2>1. (IF status = 0 THEN 2 ELSE status) \in 0 .. 3
    OBVIOUS
  <2> QED
    BY <1>r, <2>1 DEF Raised, Conclude
<1>f. ASSUME NEW own \in BOOLEAN, Fail(own), UNCHANGED request PROVE DataOK'
  BY <1>f DEF Fail
<1>1. CASE NoRequest \/ Enter
  BY <1>1 DEF NoRequest, Enter, Fail
<1>2. CASE Boot \/ AdmissionFails \/ Admitted
  <2>1. CASE Boot \/ AdmissionFails
    <3>1. CASE Fail(TRUE) /\ UNCHANGED request
      BY <1>f, <3>1
    <3>2. CASE Raised("none")
      BY <1>r, <3>2
    <3>3. CASE Conclude(1, "none", FALSE)
      <4>1. json' \in BOOLEAN
        BY <3>3, Zenon DEF Conclude
      <4> QED
        BY <3>3, <4>1 DEF Conclude
    <3>4. CASE status' = 3 /\ UNCHANGED <<request, host, codes, error_type, json, output>>
      BY <3>4
    <3> QED
      BY <2>1, <3>1, <3>2, <3>3, <3>4 DEF Boot, AdmissionFails
  <2>2. CASE Admitted
    <3>1. CASE Conclude(0, "none", FALSE)
      <4>1. json' \in BOOLEAN
        BY <3>1, Zenon DEF Conclude
      <4> QED
        BY <3>1, <4>1 DEF Conclude
    <3>2. CASE Execute
      BY <3>2 DEF Execute
    <3> QED
      BY <2>2, <3>1, <3>2 DEF Admitted
  <2> QED
    BY <1>2, <2>1, <2>2
<1>3. CASE Finish
  <2>1. CASE Conclude(0, "none", TRUE)
    BY <2>1 DEF Conclude
  <2>2. CASE \E type \in codes \cup {"none"} : Raised(type)
    BY <1>r, <2>2
  <2>3. CASE Fail(TRUE) /\ UNCHANGED request
    BY <1>f, <2>3
  <2> QED
    BY <1>3, <2>1, <2>2, <2>3 DEF Finish
<1>4. CASE Unknown \/ CallRefused \/ NoReply
  BY <1>4, GuestAssumption DEF Unknown, CallRefused, NoReply
<1>5. CASE Call
  <2>1. host' = [[host EXCEPT !.calls = host.calls + 1] EXCEPT !.sequence = host.sequence + 1]
    BY <1>5 DEF Call
  <2>2. host.calls + 1 \in Nat /\ host.sequence + 1 \in Nat
    OBVIOUS
  <2>3. host' \in [sequence : Nat, calls : Nat, logs : 0 .. UsizeMax]
    BY <2>1, <2>2
  <2> QED
    BY <1>5, <2>3 DEF Call
<1>6. CASE \E n \in LogLengths : Log(n)
  <2>1. PICK n \in LogLengths : Log(n)
    BY <1>6
  <2>2. saturating_add(host.logs, n) \in 0 .. UsizeMax
    BY GuestAssumption DEF saturating_add
  <2>3. host' \in [sequence : Nat, calls : Nat, logs : 0 .. UsizeMax]
    BY <2>1, <2>2 DEF Log
  <2>4. output' \in [calls : Seq(Nat), logs : Nat, bytes : Nat, refused : BOOLEAN]
    BY <2>1 DEF Log, NoLog, SendLog
  <2> QED
    BY <2>1, <2>3, <2>4 DEF Log
<1>7. CASE Broken
  BY <1>7 DEF Broken, Fail
<1>8. CASE Exhausted
  BY <1>8 DEF Exhausted
<1>9. CASE Send
  BY <1>9, SentType DEF Send
<1>10. CASE Supplied
  <2>0. PICK m \in Incoming : \E i \in 1 .. m.size : Receive([msg |-> m, no |-> i])
    BY <1>10 DEF Supplied
  <2>1. PICK i \in 1 .. m.size : Receive([msg |-> m, no |-> i])
    BY <2>0
  <2>2. m \in Message
    BY GuestAssumption
  <2>3. [msg |-> m, no |-> i].msg = m
    OBVIOUS
  <2> QED
    <3>1. CASE ReadPartial([msg |-> m, no |-> i])
      BY <3>1 DEF ReadPartial
    <3>2. CASE ReadRequest([msg |-> m, no |-> i])
      BY <2>2, <2>3, <3>2 DEF ReadRequest, Fail
    <3>3. CASE ReadReply([msg |-> m, no |-> i])
      BY <3>3 DEF ReadReply
    <3> QED
      BY <2>1, <3>1, <3>2, <3>3 DEF Receive
<1> QED
  BY <1>1, <1>2, <1>3, <1>4, <1>5, <1>6, <1>7, <1>8, <1>9, <1>10 DEF Step

LEMMA TypeStep == TypeOK /\ [Next]_vars => TypeOK'
<1> SUFFICES ASSUME TypeOK, [Next]_vars PROVE TypeOK'
  OBVIOUS
<1>1. CASE (Step \/ Send \/ Supplied) /\ UNCHANGED gone
  <2>1. ControlOK' /\ DataOK' /\ gone' \in BOOLEAN
    BY <1>1, ControlStep, DataStep DEF TypeOK
  <2> QED
    BY <2>1 DEF TypeOK, ControlOK, DataOK
<1>2. CASE Leave \/ Exited \/ UNCHANGED vars
  BY <1>2 DEF Leave, Exited, TypeOK
<1> QED
  BY <1>1, <1>2 DEF Next

LEMMA InitType == Init => TypeOK
<1> SUFFICES ASSUME Init PROVE TypeOK
  OBVIOUS
<1>1. output \in [calls : Seq(Nat), logs : Nat, bytes : Nat, refused : BOOLEAN]
  BY EmptySeq DEF Init, Nothing
<1>2. 0 \in 0 .. UsizeMax
  BY GuestAssumption
<1>3. ControlOK
  BY WriterFacts DEF Init, ControlOK
<1>4. DataOK
  <2>1. json \in BOOLEAN
    BY Zenon DEF Init
  <2> QED
    BY <1>1, <1>2, <2>1, WriterFacts DEF Init, DataOK
<1>5. gone \in BOOLEAN
  BY DEF Init
<1> QED
  BY <1>3, <1>4, <1>5, TypeParts

(* Every variable of the guest keeps its type. *)
THEOREM TypeCorrect == Spec => []TypeOK
BY InitType, TypeStep, PTL DEF Spec

-----------------------------------------------------------------------------
(* The inductive invariant.  What is being written says where the guest is;  *)
InTransit ==
  /\ at = "call" => \E data \in Shapes : writer.msg = CallFrame(host.sequence, data)
  /\ at = "log"  => writer.msg.kind = "log"
  /\ at \in {"event", "report"} => writer.msg.kind = "completed"
  /\ at \in Writing => /\ at # "report" => writer.msg.own
                      /\ writer.msg.data # "buried" /\ writer.msg.tag # "engine_error"

(* nothing went out before the program ran, and only an admitted one runs;   *)
Stages ==
  /\ at = "read" => host.calls = 0
  /\ at \in {"read", "enter", "boot", "admit"} => output = Nothing /\ codes = {}
  /\ at \in {"read", "enter", "boot"} => status = 0
  /\ at = "admit" => status = 3
  /\ at \in {"program", "call", "log", "await"} => status = 0 /\ ~validate_only

(* both counters of calls agree, ahead of the calls written by the one in
   transit, or by those the closed pipe swallowed;                          *)
Numbers ==
  /\ host.sequence = host.calls /\ host.calls <= request.seq
  /\ Len(output.calls) <= host.calls
  /\ ~gone => host.calls = Len(output.calls) + (IF at = "call" THEN 1 ELSE 0)
  /\ \A i \in DOMAIN output.calls : output.calls[i] = i

(* what was logged, with the log in transit, was counted: refused logs raise
   the counter alone, so the counter alone would not bound what was sent, and
   keep it beyond the limit from then on.                                   *)
InFlight == IF at = "log" THEN writer.msg.seq ELSE 0
Logged == /\ output.bytes + InFlight <= host.logs /\ output.bytes + InFlight <= LogLimit
          /\ output.refused => host.logs > LogLimit /\ at # "log"

GInv == TypeOK /\ InTransit /\ Stages /\ Numbers /\ Logged /\ DiagnosisTrue

(* All but logging, calling and writing leave the host interface alone. *)
LEMMA Elsewhere ==
  ASSUME TypeOK, Step \/ Supplied, ~Call, ~\E n \in LogLengths : Log(n)
  PROVE  /\ UNCHANGED <<host, output>> /\ at' \notin {"call", "log"}
         /\ at \in {"call", "log"} => gone
         /\ at # "read" => UNCHANGED request
<1>1. CASE NoRequest \/ Enter
  BY <1>1 DEF NoRequest, Enter, Fail
<1>2. CASE Boot
  BY <1>2 DEF Boot, Fail, Conclude, Raised
<1>3. CASE AdmissionFails \/ Admitted \/ Finish
  BY <1>3 DEF AdmissionFails, Admitted, Finish, Fail, Conclude, Raised, Execute
<1>4. CASE Unknown \/ CallRefused \/ NoReply
  BY <1>4 DEF Unknown, CallRefused, NoReply
<1>5. CASE Broken \/ Exhausted
  BY <1>5 DEF Broken, Exhausted, Fail
<1>6. CASE Supplied
  <2>1. PICK c : Receive(c)
    BY <1>6 DEF Supplied
  <2>2. CASE ReadPartial(c)
    BY <2>2 DEF ReadPartial
  <2>3. CASE ReadRequest(c)
    BY <2>3 DEF ReadRequest, Fail
  <2>4. CASE ReadReply(c)
    BY <2>4 DEF ReadReply
  <2> QED
    BY <2>1, <2>2, <2>3, <2>4 DEF Receive
<1> QED
  BY <1>1, <1>2, <1>3, <1>4, <1>5, <1>6 DEF Step

(* The writes of a frame: another piece, or its last one. *)
LEMMA SendFacts ==
  ASSUME TypeOK, Send
  PROVE  /\ UNCHANGED <<request, host, codes, status, error_type, json>> /\ ~gone
         /\ \/ /\ writer'.msg = writer.msg
               /\ UNCHANGED <<at, output>> /\ at \in Writing
            \/ /\ at = "call" /\ at' = "await" /\ output' = Sent(writer.msg)
            \/ /\ at = "log" /\ at' = "program" /\ output' = Sent(writer.msg)
            \/ /\ at \in {"event", "report"} /\ at' = "exit" /\ output' = Sent(writer.msg)
<1>1. /\ UNCHANGED <<request, host, codes, status, error_type, json>> /\ ~gone
      /\ at \in Writing /\ writer \in Writer /\ pending(writer) /\ writer' = Advance(writer)
  BY DEF Send, TypeOK
<1>2. CASE Whole(Piece(writer))
  BY <1>1, <1>2 DEF Send, After
<1>3. CASE ~Whole(Piece(writer))
  BY <1>1, <1>3, WriterFacts DEF Send
<1> QED
  BY <1>1, <1>2, <1>3

LEMMA InTransitStep ==
  ASSUME TypeOK, InTransit, Step \/ Send \/ Supplied
  PROVE  InTransit'
<1>1. CASE Call
  <2>1. PICK data \in Shapes : writer' = Load(CallFrame(host'.sequence, data))
    BY <1>1 DEF Call
  <2>2. at' = "call" /\ writer'.msg = CallFrame(host'.sequence, data)
    BY <1>1, <2>1 DEF Call, Load
  <2>3. writer'.msg.own /\ writer'.msg.data # "buried" /\ writer'.msg.tag # "engine_error"
    BY <2>2, GuestAssumption DEF CallFrame, Outgoing
  <2> QED
    BY <2>2, <2>3 DEF InTransit, Writing
<1>2. CASE \E n \in LogLengths : Log(n)
  <2>1. PICK n \in LogLengths : Log(n)
    BY <1>2
  <2>2. CASE at' = "program"
    BY <2>2 DEF InTransit, Writing
  <2>3. CASE at' # "program"
    <3>1. SendLog(n)
      BY <2>1, <2>3 DEF Log, NoLog
    <3>2. PICK data \in Shapes : Write("log", LogFrame(n, data))
      BY <3>1 DEF SendLog
    <3>3. at' = "log" /\ writer'.msg = LogFrame(n, data)
      BY <3>2 DEF Write, Load
    <3> QED
      BY <3>3, GuestAssumption DEF InTransit, Writing, LogFrame, Outgoing
  <2> QED
    BY <2>2, <2>3
<1>3. CASE Send
  BY <1>3, SendFacts DEF InTransit
<1>4. ASSUME NEW m, Write("event", m) \/ Write("report", m), m.kind = "completed",
             m.data # "buried", m.tag # "engine_error", at' = "event" => m.own
      PROVE  InTransit'
  BY <1>4 DEF InTransit, Writing, Load
<1>5. ASSUME NEW own, Fail(own) PROVE InTransit'
  BY <1>4, <1>5 DEF Fail, Completed, Outgoing
<1>6. ASSUME NEW s, NEW e, NEW j, Conclude(s, e, j) PROVE InTransit'
  <2>1. PICK data \in Shapes : Write("event", Completed(TRUE, IF j THEN data ELSE "plain"))
    BY <1>6 DEF Conclude
  <2>2. (IF j THEN data ELSE "plain") # "buried"
    BY GuestAssumption
  <2> QED
    BY <1>4, <2>1, <2>2 DEF Completed, Outgoing
<1>7. ASSUME at' \notin Writing PROVE InTransit'
  BY <1>7 DEF InTransit
<1>8. CASE NoRequest \/ Enter
  BY <1>5, <1>7, <1>8 DEF NoRequest, Enter
<1>9. CASE Boot \/ AdmissionFails \/ Admitted \/ Finish
  BY <1>5, <1>6, <1>7, <1>9 DEF Boot, AdmissionFails, Admitted, Finish, Raised, Execute
<1>10. CASE Unknown \/ CallRefused \/ NoReply \/ Exhausted
  BY <1>7, <1>10 DEF Unknown, CallRefused, NoReply, Exhausted
<1>11. CASE Broken
  BY <1>5, <1>7, <1>11 DEF Broken
<1>12. CASE Supplied
  <2>1. PICK c : Receive(c)
    BY <1>12 DEF Supplied
  <2>2. CASE ReadPartial(c)
    BY <1>7, <2>2 DEF ReadPartial
  <2>3. CASE ReadRequest(c)
    BY <1>5, <1>7, <2>3 DEF ReadRequest
  <2>4. CASE ReadReply(c)
    BY <1>7, <2>4 DEF ReadReply
  <2> QED
    BY <2>1, <2>2, <2>3, <2>4 DEF Receive
<1> QED
  BY <1>1, <1>2, <1>3, <1>8, <1>9, <1>10, <1>11, <1>12 DEF Step

LEMMA NumbersStep ==
  ASSUME GInv, Step \/ Send \/ Supplied, UNCHANGED gone
  PROVE  Numbers'
<1>0. /\ TypeOK /\ Numbers /\ InTransit /\ Stages
      /\ host \in [sequence : Nat, calls : Nat, logs : 0 .. UsizeMax]
      /\ output.calls \in Seq(Nat) /\ Len(output.calls) \in Nat
  BY DEF GInv, TypeOK
<1>1. CASE Call
  <2>1. /\ host'.calls = host.calls + 1 /\ host'.sequence = host.sequence + 1
        /\ at = "program" /\ at' = "call" /\ UNCHANGED <<output, request>>
        /\ host.calls < request.seq
    BY <1>0, <1>1 DEF Call, BudgetSpent, TypeOK, Message
  <2> QED
    BY <1>0, <2>1 DEF Numbers, TypeOK, Message
<1>2. CASE \E n \in LogLengths : Log(n)
  <2>1. /\ host'.calls = host.calls /\ host'.sequence = host.sequence
        /\ at = "program" /\ at' \in {"program", "log"} /\ UNCHANGED request
        /\ output'.calls = output.calls
    BY <1>0, <1>2 DEF Log, NoLog, SendLog, TypeOK
  <2> QED
    BY <1>0, <2>1 DEF Numbers
<1>3. CASE Send
  <2>1. /\ UNCHANGED <<request, host>> /\ ~gone
        /\ \/ UNCHANGED <<at, output>>
           \/ at = "call" /\ at' = "await" /\ output' = Sent(writer.msg)
           \/ at \in {"log", "event", "report"} /\ at' # "call" /\ output' = Sent(writer.msg)
    BY <1>0, <1>3, SendFacts
  <2>2. CASE UNCHANGED <<at, output>>
    BY <1>0, <2>1, <2>2 DEF Numbers
  <2>3. CASE at = "call" /\ at' = "await" /\ output' = Sent(writer.msg)
    <3>0. PICK data \in Shapes : writer.msg = CallFrame(host.sequence, data)
      BY <1>0, <2>3 DEF InTransit
    <3>1. writer.msg.kind = "call" /\ writer.msg.seq = host.sequence /\ host.sequence \in Nat
      BY <1>0, <3>0
    <3>2. output'.calls = Append(output.calls, host.sequence)
      BY <1>0, <2>3, <3>1 DEF Sent, TypeOK
    <3>3. host.sequence = Len(output.calls) + 1
      BY <1>0, <2>1, <2>3 DEF Numbers
    <3>4. Len(output'.calls) = Len(output.calls) + 1
          /\ \A i \in DOMAIN output'.calls : output'.calls[i] = i
      <4> DEFINE s == output.calls
      <4>1. /\ s \in Seq(Nat) /\ host.sequence \in Nat /\ output'.calls = Append(s, host.sequence)
            /\ host.sequence = Len(s) + 1 /\ \A i \in DOMAIN s : s[i] = i
        BY <1>0, <3>1, <3>2, <3>3 DEF Numbers
      <4> HIDE DEF s
      <4>2. Len(output'.calls) = Len(s) + 1 /\ \A i \in DOMAIN output'.calls : output'.calls[i] = i
        BY <4>1
      <4> QED
        BY <4>2 DEF s
    <3> QED
      BY <1>0, <2>1, <2>3, <3>3, <3>4 DEF Numbers
  <2>4. CASE at \in {"log", "event", "report"} /\ at' # "call" /\ output' = Sent(writer.msg)
    <3>1. writer.msg.kind # "call"
      BY <1>0, <2>4 DEF InTransit
    <3>2. output'.calls = output.calls
      BY <1>0, <2>4, <3>1 DEF Sent, TypeOK
    <3> QED
      BY <1>0, <2>1, <2>4, <3>2 DEF Numbers
  <2> QED
    BY <2>1, <2>2, <2>3, <2>4
<1>4. CASE ~Call /\ (~\E n \in LogLengths : Log(n)) /\ (Step \/ Supplied)
  <2>1. /\ UNCHANGED <<host, output>> /\ at' # "call" /\ (at = "call" => gone)
        /\ (request' = request \/ at = "read")
    BY <1>0, <1>4, Elsewhere
  <2>2. TypeOK'
    BY <1>4, TypeStep, <1>0 DEF Next
  <2>3. host'.calls <= request'.seq
    BY <1>0, <2>1, <2>2 DEF Numbers, Stages, TypeOK, Message
  <2> QED
    BY <1>0, <2>1, <2>3 DEF Numbers
<1> QED
  BY <1>1, <1>2, <1>3, <1>4

LEMMA LoggedStep ==
  ASSUME GInv, Step \/ Send \/ Supplied, UNCHANGED gone
  PROVE  Logged'
<1>0. /\ TypeOK /\ Logged /\ InTransit
      /\ host \in [sequence : Nat, calls : Nat, logs : 0 .. UsizeMax] /\ host.logs \in Nat
      /\ output \in [calls : Seq(Nat), logs : Nat, bytes : Nat, refused : BOOLEAN] /\ output.bytes \in Nat
      /\ writer.msg.seq \in Nat
  BY GuestAssumption DEF GInv, TypeOK, Writer, Message
<1>1. CASE Call
  <2>1. host'.logs = host.logs /\ at = "program" /\ at' = "call" /\ output' = output
    BY <1>0, <1>1 DEF Call
  <2> QED
    BY <1>0, <2>1 DEF Logged, InFlight
<1>2. CASE \E n \in LogLengths : Log(n)
  <2>1. PICK n \in LogLengths : Log(n)
    BY <1>2
  <2>2. /\ n \in Nat /\ at = "program" /\ output'.bytes = output.bytes
        /\ host'.logs = saturating_add(host.logs, n)
        /\ \/ LogRefused(n) /\ at' = "program"
           \/ /\ ~LogRefused(n) /\ at' = "log" /\ output' = output
              /\ \E data \in Shapes : writer' = Load(LogFrame(n, data))
    BY <1>0, <2>1, GuestAssumption DEF Log, NoLog, SendLog
  <2>3. CASE LogRefused(n) /\ at' = "program"
    <3>1. host'.logs >= host.logs /\ host'.logs > LogLimit
      BY <1>0, <2>2, <2>3, GuestAssumption DEF LogRefused, saturating_add
    <3>2. output.bytes <= host.logs /\ output.bytes <= LogLimit
      BY <1>0, <2>2 DEF Logged, InFlight
    <3>3. InFlight' = 0 /\ host'.logs \in Nat
      BY <1>0, <2>2, <2>3, GuestAssumption DEF InFlight, saturating_add
    <3> HIDE DEF InFlight
    <3> QED
      BY <1>0, <2>2, <2>3, <3>1, <3>2, <3>3, GuestAssumption DEF Logged
  <2>4. CASE ~LogRefused(n) /\ at' = "log"
    <3>1. host'.logs = host.logs + n /\ host'.logs <= LogLimit
      BY <1>0, <2>2, <2>4, GuestAssumption DEF LogRefused, saturating_add
    <3>2. writer'.msg.seq = n /\ output' = output
      BY <2>2, <2>4 DEF Load
    <3>3. ~output.refused
      BY <1>0, <2>2, <3>1, GuestAssumption DEF Logged
    <3> QED
      BY <1>0, <2>2, <2>4, <3>1, <3>2, <3>3, GuestAssumption DEF Logged, InFlight
  <2> QED
    BY <2>2, <2>3, <2>4
<1>3. CASE Send
  <2>1. /\ host' = host
        /\ \/ UNCHANGED <<at, output>> /\ writer'.msg = writer.msg
           \/ at = "log" /\ at' = "program" /\ output' = Sent(writer.msg)
           \/ at \in {"call", "event", "report"} /\ at' # "log" /\ output' = Sent(writer.msg)
    BY <1>0, <1>3, SendFacts
  <2>2. CASE UNCHANGED <<at, output>> /\ writer'.msg = writer.msg
    BY <1>0, <2>1, <2>2 DEF Logged, InFlight
  <2>3. CASE at = "log" /\ at' = "program" /\ output' = Sent(writer.msg)
    <3>1. writer.msg.kind = "log"
      BY <1>0, <2>3 DEF InTransit
    <3>2. output'.bytes = output.bytes + writer.msg.seq /\ output'.refused = output.refused
      BY <1>0, <2>3, <3>1 DEF Sent
    <3> QED
      BY <1>0, <2>1, <2>3, <3>2 DEF Logged, InFlight
  <2>4. CASE at \in {"call", "event", "report"} /\ at' # "log" /\ output' = Sent(writer.msg)
    <3>1. writer.msg.kind \in {"call", "completed"}
      <4>1. CASE at = "call"
        <5>1. PICK data \in Shapes : writer.msg = CallFrame(host.sequence, data)
          BY <1>0, <4>1 DEF InTransit
        <5> QED
          BY <5>1
      <4>2. CASE at \in {"event", "report"}
        BY <1>0, <4>2 DEF InTransit
      <4> QED
        BY <2>4, <4>1, <4>2
    <3>2. output'.bytes = output.bytes /\ output'.refused = output.refused
      BY <1>0, <2>4, <3>1 DEF Sent
    <3> QED
      BY <1>0, <2>1, <2>4, <3>2 DEF Logged, InFlight
  <2> QED
    BY <2>1, <2>2, <2>3, <2>4
<1>4. CASE ~Call /\ (~\E n \in LogLengths : Log(n)) /\ (Step \/ Supplied)
  <2>1. UNCHANGED <<host, output>> /\ at' # "log"
    BY <1>0, <1>4, Elsewhere
  <2> QED
    BY <1>0, <2>1, GuestAssumption, SMTT(20) DEF Logged, InFlight
<1> QED
  BY <1>1, <1>2, <1>3, <1>4

(* How an execution may conclude. *)
Fails(s, e) == Conclude(s, e, FALSE)

LEMMA FailureTold ==
  ASSUME TypeOK, NEW s \in 1 .. 3, NEW e \in codes \cup {"none"}, Fails(s, e),
         s \in {1, 3} /\ e = "none" => output = Nothing,
         validate_only => output = Nothing
  PROVE  Stages' /\ DiagnosisTrue'
<1>1. /\ at' = "event" /\ status' = s /\ error_type' = e /\ ~json'
      /\ UNCHANGED <<request, codes, output>>
  BY DEF Fails, Conclude
<1>2. e # "none" => e \in codes
  OBVIOUS
<1>3. Type' = IF e # "none" THEN e ELSE CASE s = 1 -> "syntax_error" [] s = 3 -> "profile_error"
                                          [] OTHER -> "ruby_error"
  BY <1>1 DEF Type
<1>4. CASE e # "none"
  BY <1>1, <1>2, <1>3, <1>4 DEF Stages, DiagnosisTrue, Diagnostics, validate_only
<1>5. CASE e = "none"
  <2>1. /\ s = 1 => Type' = "syntax_error"
        /\ s = 3 => Type' = "profile_error"
        /\ s = 2 => Type' = "ruby_error"
    BY <1>3, <1>5
  <2>2. s \in {1, 2, 3}
    OBVIOUS
  <2> QED
    BY <1>1, <1>5, <2>1, <2>2 DEF Stages, DiagnosisTrue, Diagnostics, validate_only
<1> QED
  BY <1>4, <1>5

LEMMA StagesStep ==
  ASSUME GInv, Step \/ Send \/ Supplied
  PROVE  Stages' /\ DiagnosisTrue'
<1>0. TypeOK /\ Stages /\ DiagnosisTrue
  BY DEF GInv
<1> USE DEF Stages, DiagnosisTrue
<1>1. CASE NoRequest \/ Enter
  BY <1>0, <1>1 DEF NoRequest, Enter, Fail, validate_only
<1>2. CASE Boot
  <2>1. CASE Fail(TRUE)
    BY <2>1 DEF Fail
  <2>2. CASE Raised("none")
    <3>1. Fails(2, "none")
      BY <1>0, <1>2, <2>2 DEF Boot, Raised, Fails
    <3> QED
      BY <1>0, <1>2, <3>1, FailureTold DEF Boot
  <2>3. CASE Conclude(1, "none", FALSE)
    <3>1. Fails(1, "none")
      BY <2>3 DEF Fails
    <3> QED
      BY <1>0, <1>2, <3>1, FailureTold DEF Boot
  <2>4. CASE at' = "admit" /\ status' = 3 /\ UNCHANGED <<request, host, codes, output>>
    BY <1>0, <1>2, <2>4 DEF Boot, validate_only
  <2> QED
    BY <1>2, <2>1, <2>2, <2>3, <2>4 DEF Boot
<1>3. CASE AdmissionFails
  <2>1. Raised("none") /\ status = 3
    BY <1>0, <1>3 DEF AdmissionFails
  <2>2. (IF status = 0 THEN 2 ELSE status) = 3
    BY <2>1
  <2>3. Fails(3, "none")
    BY <2>1, <2>2, Zenon DEF Raised, Fails
  <2> QED
    BY <1>0, <1>3, <2>3, FailureTold DEF AdmissionFails
<1>4. CASE Admitted
  BY <1>0, <1>4 DEF Admitted, Execute, Conclude, Type, validate_only
<1>5. CASE Finish
  <2>1. CASE Conclude(0, "none", TRUE)
    BY <1>0, <1>5, <2>1 DEF Finish, Conclude, validate_only
  <2>2. CASE \E type \in codes \cup {"none"} : Raised(type)
    <3>1. PICK type \in codes \cup {"none"} : Raised(type)
      BY <2>2
    <3>2. Fails(2, type) /\ ~validate_only
      BY <1>0, <1>5, <3>1 DEF Finish, Raised, Fails
    <3> QED
      BY <1>0, <3>2, FailureTold
  <2>3. CASE Fail(TRUE)
    BY <2>3 DEF Fail
  <2> QED
    BY <1>5, <2>1, <2>2, <2>3 DEF Finish
<1>6. CASE Unknown \/ CallRefused \/ NoReply
  BY <1>0, <1>6 DEF Unknown, CallRefused, NoReply, validate_only
<1>7. CASE Call \/ \E n \in LogLengths : Log(n)
  BY <1>0, <1>7 DEF Call, Log, NoLog, SendLog, validate_only
<1>8. CASE Broken \/ Exhausted
  BY <1>0, <1>8 DEF Broken, Exhausted, Fail, validate_only
<1>9. CASE Send
  BY <1>0, <1>9, SendFacts DEF validate_only, Type
<1>10. CASE Supplied
  BY <1>0, <1>10 DEF Supplied, Receive, ReadPartial, ReadRequest, ReadReply, Fail, validate_only
<1> QED
  BY <1>1, <1>2, <1>3, <1>4, <1>5, <1>6, <1>7, <1>8, <1>9, <1>10 DEF Step

(* GInv is inductive. *)
THEOREM Invariance == Spec => []GInv
<1>1. Init => GInv
  <2> SUFFICES ASSUME Init PROVE GInv
    OBVIOUS
  <2>1. TypeOK
    BY InitType
  <2>2. InTransit /\ Stages /\ DiagnosisTrue
    BY DEF Init, InTransit, Stages, DiagnosisTrue
  <2>3. Numbers /\ Logged
    BY GuestAssumption DEF Init, Numbers, Logged, InFlight, Nothing, NoMessage
  <2> QED
    BY <2>1, <2>2, <2>3 DEF GInv
<1>2. GInv /\ [Next]_vars => GInv'
  <2> SUFFICES ASSUME GInv, [Next]_vars PROVE GInv'
    OBVIOUS
  <2>1. TypeOK'
    BY TypeStep DEF GInv
  <2>2. CASE (Step \/ Send \/ Supplied) /\ UNCHANGED gone
    <3>1. InTransit'
      BY <2>2, InTransitStep DEF GInv
    <3> QED
      BY <2>1, <2>2, <3>1, NumbersStep, LoggedStep, StagesStep DEF GInv
  <2>3. CASE Leave \/ Exited \/ UNCHANGED vars
    <3>1. UNCHANGED guestVars /\ (gone => gone')
      BY <2>3 DEF Leave, Exited
    <3>2. InTransit' /\ Stages' /\ Numbers' /\ Logged'
      BY <3>1 DEF GInv, InTransit, Stages, Numbers, Logged, InFlight, validate_only
    <3>3. DiagnosisTrue'
      BY <3>1 DEF GInv, DiagnosisTrue, Type, validate_only
    <3> QED
      BY <2>1, <3>2, <3>3 DEF GInv
  <2> QED
    BY <2>2, <2>3 DEF Next
<1> QED
  BY <1>1, <1>2, PTL DEF Spec

(* guest.rs:197-199, 282: the numbers of the calls written are 1, 2, ... within
   the budget, whatever the program rescues and however its calls fail. *)
THEOREM NumberedCalls == Spec => []CallsNumbered
<1>1. GInv => CallsNumbered
  BY DEF GInv, TypeOK, Message, Numbers, CallsNumbered
<1> QED
  BY <1>1, Invariance, PTL

(* guest.rs:185-186: what is logged stays within limits.log_bytes, and no log
   follows a refused one. *)
THEOREM BoundedLogs == Spec => []LogsBounded
<1>1. GInv => LogsBounded
  <2> SUFFICES ASSUME GInv PROVE LogsBounded
    OBVIOUS
  <2>1. output.bytes \in Nat /\ InFlight \in Nat /\ LogLimit \in Nat
    BY GuestAssumption DEF GInv, TypeOK, Writer, Message, InFlight
  <2> QED
    BY <2>1 DEF GInv, Logged, LogsBounded
<1> QED
  BY <1>1, Invariance, PTL

(* guest.c:466-491, 520, guest.rs:255-258: a diagnosis that nothing ran is true for
   any codes of the host, the names of diagnoses among them, unless the host gave
   that very code; and a capability's code was given to this execution. *)
THEOREM TrueDiagnosis == Spec => []DiagnosisTrue
<1>1. GInv => DiagnosisTrue
  BY DEF GInv
<1> QED
  BY <1>1, Invariance, PTL
=============================================================================
