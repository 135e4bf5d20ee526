----------------------------- MODULE ClientProofs ----------------------------
(***************************************************************************)
(* What holds of execute() in php/src/Client.php against any engine: the    *)
(* effects happen in turn, once, within the budget, and each is answered    *)
(* before the next.  The invariant Turn says how the four counts, sequence, *)
(* asked, effects and replies, stand to one another at each place of the    *)
(* loop.                                                                    *)
(***************************************************************************)
EXTENDS Client, SequenceTheorems, TLAPS

USE DEF vars, clientVars, counts, execution, Polling, Cleanup, Leave, Throw, Go

Unfinished == {"start", "write", "read", "call", "effect"}

-----------------------------------------------------------------------------
(* Types. *)
LEMMA WriterTypes ==
  /\ Idle \in Writer
  /\ \A m \in Message : m.size > 0 => Load(m) \in Writer /\ pending(Load(m)) /\ Load(m).msg = m
  /\ \A w \in Writer : Advance(w) \in Writer
  /\ \A w \in Writer : pending(w) /\ ~Whole(Piece(w)) =>
                         pending(Advance(w)) /\ Advance(w).msg = w.msg
<1>1. Idle \in Writer
  BY DEF NoMessage, Message, Idle, Writer, Kinds, Tags, Data
<1>2. ASSUME NEW m \in Message, m.size > 0
      PROVE  Load(m) \in Writer /\ pending(Load(m)) /\ Load(m).msg = m
  BY <1>2 DEF Load, Writer, Message, pending
<1>3. ASSUME NEW w \in Writer
      PROVE  /\ Advance(w) \in Writer
             /\ pending(w) /\ ~Whole(Piece(w)) => pending(Advance(w)) /\ Advance(w).msg = w.msg
  <2>1. w.msg \in Message /\ w.off \in Nat /\ w.msg.size \in Nat
    BY DEF Writer, Message
  <2>2. CASE w.off + 1 = w.msg.size
    BY <1>1, <2>1, <2>2 DEF Advance, Whole, Piece
  <2>3. CASE w.off + 1 # w.msg.size
    <3>1. Advance(w) = [w EXCEPT !.off = w.off + 1]
      BY <2>3 DEF Advance
    <3>2. Advance(w) \in Writer /\ Advance(w).msg = w.msg /\ Advance(w).off = w.off + 1
      BY <2>1, <3>1 DEF Writer
    <3> QED
      BY <2>1, <2>3, <3>2 DEF pending, Whole, Piece
  <2> QED
    BY <2>2, <2>3
<1> QED
  BY <1>1, <1>2, <1>3

(* A reply is a message of its own kind. *)
LEMMA ReplyType ==
  ASSUME NEW n \in Nat, NEW data \in ReplyData
  PROVE  /\ Reply(n, data) \in Message /\ Reply(n, data).size > 0
         /\ Reply(n, data).kind = "reply" /\ Reply(n, data).seq = n
BY ClientAssumption DEF Reply, Message, Kinds, Tags, Data

(* Where execute() is, and what it will return. *)
PlaceOK ==
  /\ at \in Unfinished \cup Cleanup
  /\ writer \in Writer /\ (at = "write" => pending(writer))
  /\ returned \in Tags \cup {"host_transport_error"} /\ (returned = "none" <=> at \notin Cleanup)
CountsOK ==
  /\ sequence \in Nat /\ sequence <= Request.seq + 1 /\ (at \in Unfinished => sequence <= Request.seq)
  /\ logs \in Nat /\ asked \in Nat
  /\ logBytes \in Nat /\ (returned # "host_transport_error" => logBytes <= LogLimit)
  /\ effects \in Seq(Nat) /\ replies \in Seq(Nat)
Typed == PlaceOK /\ CountsOK /\ reader \in Writer /\ late \in BOOLEAN /\ gone \in BOOLEAN

LEMMA TypedOK == Typed => TypeOK
BY ClientAssumption DEF Typed, PlaceOK, CountsOK, TypeOK, Unfinished, Message

Moving == Step \/ Cancelled \/ Put \/ Answer \/ Supplied

LEMMA PlaceStep == ASSUME Typed, Moving PROVE PlaceOK'
<1>0. PlaceOK
  BY DEF Typed
<1>1. ASSUME Throw, writer' \in Writer PROVE PlaceOK'
  BY <1>1 DEF PlaceOK, Tags
<1>2. ASSUME Go("read") \/ Go("call") \/ Go("effect"), at \in Unfinished, writer' \in Writer
      PROVE  PlaceOK'
  BY <1>0, <1>2 DEF PlaceOK, Unfinished
<1>3. ASSUME Go("write"), at \in Unfinished, NEW m \in Message, m.size > 0, writer' = Load(m)
      PROVE  PlaceOK'
  BY <1>0, <1>3, WriterTypes DEF PlaceOK, Unfinished
<1>4. CASE Start
  BY <1>0, <1>1, <1>3, <1>4, ClientAssumption DEF Start, PlaceOK, Unfinished, Tags
<1>5. CASE Interrupted \/ Cancelled \/ PutBroken \/ ReadEnded
  BY <1>0, <1>1, <1>5 DEF Interrupted, Cancelled, PutBroken, ReadEnded, PlaceOK
<1>6. CASE Put
  <2>1. at = "write" /\ writer \in Writer /\ pending(writer) /\ writer' = Advance(writer)
    BY <1>0, <1>6 DEF Put, PlaceOK
  <2>2. CASE Whole(Piece(writer))
    BY <1>2, <1>6, <2>1, <2>2, WriterTypes DEF Put, Unfinished
  <2>3. CASE ~Whole(Piece(writer))
    BY <1>0, <1>6, <2>1, <2>3, WriterTypes DEF Put, PlaceOK
  <2> QED
    BY <2>2, <2>3
<1>7. CASE Invoke
  BY <1>0, <1>2, <1>7 DEF Invoke, PlaceOK, Unfinished
<1>8. CASE Answer
  <2>1. \A data \in ReplyData :
          Reply(sequence, data) \in Message /\ Reply(sequence, data).size > 0
    BY ReplyType DEF Typed, CountsOK
  <2> QED
    BY <1>0, <1>1, <1>3, <1>8, <2>1 DEF Answer, PlaceOK, Unfinished
<1>9. CASE CloseInput \/ CloseOutput \/ Terminate \/ Reaped
  BY <1>0, <1>9 DEF CloseInput, CloseOutput, Terminate, Reaped, PlaceOK
<1>10. CASE Supplied
  <2>0. PICK m \in Incoming : \E i \in 1 .. m.size : Get([msg |-> m, no |-> i])
    BY <1>10 DEF Supplied
  <2>1. PICK i \in 1 .. m.size : Get([msg |-> m, no |-> i])
    BY <2>0
  <2> DEFINE c == [msg |-> m, no |-> i]
  <2>2. c.msg.tag \in Tags
    BY ClientAssumption DEF Message
  <2>3. Get(c)
    BY <2>1
  <2> HIDE DEF c
  <2>4. CASE ReadPartial(c)
    BY <1>0, <2>4 DEF ReadPartial, PlaceOK
  <2>9. CASE ReadSwallowed(c)
    BY <1>0, <1>1, <1>2, <2>9 DEF ReadSwallowed, Reading, PlaceOK, Unfinished
  <2>5. CASE ReadUnusable(c)
    BY <1>0, <1>1, <2>5 DEF ReadUnusable, PlaceOK
  <2>6. CASE ReadLog(c)
    BY <1>0, <1>1, <1>2, <2>6 DEF ReadLog, ReadPiece, Reading, PlaceOK, Unfinished
  <2>7. CASE ReadCall(c)
    BY <1>0, <1>1, <1>2, <2>7 DEF ReadCall, ReadPiece, Reading, PlaceOK, Unfinished
  <2>8. CASE ReadCompleted(c)
    BY <1>0, <1>1, <2>2, <2>8 DEF ReadCompleted, PlaceOK
  <2> QED
    BY <2>3, <2>4, <2>5, <2>6, <2>7, <2>8, <2>9 DEF Get
<1> QED
  BY <1>4, <1>5, <1>6, <1>7, <1>8, <1>9, <1>10 DEF Moving, Step

(* The frame execute() is in. *)
LEMMA ReaderStep == ASSUME Typed, Moving PROVE reader' \in Writer
<1>0. reader \in Writer
  BY DEF Typed
<1>1. CASE UNCHANGED reader
  BY <1>0, <1>1
<1>2. CASE Step \/ Cancelled \/ Put \/ Answer
  BY <1>1, <1>2 DEF Step, Start, Interrupted, PutBroken, ReadEnded, Invoke, CloseInput,
     CloseOutput, Terminate, Reaped, Cancelled, Put, Answer
<1>3. CASE Supplied
  <2>0. PICK m \in Incoming : \E i \in 1 .. m.size : Get([msg |-> m, no |-> i])
    BY <1>3 DEF Supplied
  <2>1. PICK i \in 1 .. m.size : Get([msg |-> m, no |-> i])
    BY <2>0
  <2> DEFINE c == [msg |-> m, no |-> i]
  <2>2. c.msg \in Message /\ Get(c)
    BY <2>1, ClientAssumption
  <2> HIDE DEF c
  <2>3. Awaited(c) \in Writer
    BY <1>0, <2>2 DEF Awaited, Load, Writer
  <2>4. Load(Garbled) \in Writer
    BY DEF Garbled, NoMessage, Load, Writer, Message, Kinds, Tags, Data
  <2> QED
    BY <1>1, <2>2, <2>3, <2>4, WriterTypes
    DEF Get, ReadPartial, ReadSwallowed, ReadUnusable, ReadLog, ReadCall, ReadCompleted, ReadPiece
<1> QED
  BY <1>2, <1>3 DEF Moving

LEMMA CountsStep == ASSUME Typed, Moving PROVE CountsOK'
<1>0. CountsOK /\ PlaceOK /\ Request.seq \in Nat
  BY ClientAssumption DEF Typed, Message
<1>1. ASSUME UNCHANGED <<counts, effects>>, at' \in Unfinished => at \in Unfinished,
             returned' # "host_transport_error" => returned # "host_transport_error",
             replies' \in Seq(Nat)
      PROVE  CountsOK'
  BY <1>0, <1>1 DEF CountsOK
<1>2. CASE Start \/ Interrupted \/ Cancelled \/ PutBroken \/ ReadEnded
  BY <1>0, <1>1, <1>2 DEF Start, Interrupted, Cancelled, PutBroken, ReadEnded, Unfinished, CountsOK,
     PlaceOK
<1>3. CASE Put
  <2>1. writer.msg.seq \in Nat
    BY <1>0 DEF PlaceOK, Writer, Message
  <2>2. replies' \in Seq(Nat)
    <3>1. replies \in Seq(Nat) /\ Append(replies, writer.msg.seq) \in Seq(Nat)
      BY <1>0, <2>1 DEF CountsOK
    <3>2. replies' = replies \/ replies' = Append(replies, writer.msg.seq)
      BY <1>3 DEF Put
    <3> QED
      BY <3>1, <3>2
  <2> QED
    BY <1>0, <1>1, <1>3, <2>2 DEF Put, Unfinished
<1>4. CASE Invoke
  <2>1. effects' \in Seq(Nat)
    BY <1>0, <1>4 DEF Invoke, CountsOK
  <2> QED
    BY <1>0, <1>4, <2>1 DEF Invoke, CountsOK, Unfinished
<1>5. CASE Answer
  BY <1>0, <1>1, <1>5 DEF Answer, Unfinished, CountsOK, PlaceOK
<1>6. CASE CloseInput \/ CloseOutput \/ Terminate \/ Reaped
  BY <1>0, <1>1, <1>6 DEF CloseInput, CloseOutput, Terminate, Reaped, Unfinished, CountsOK
<1>7. CASE Supplied
  <2>0. PICK m \in Incoming : \E i \in 1 .. m.size : Get([msg |-> m, no |-> i])
    BY <1>7 DEF Supplied
  <2>1. PICK i \in 1 .. m.size : Get([msg |-> m, no |-> i])
    BY <2>0
  <2> DEFINE c == [msg |-> m, no |-> i]
  <2>2. c.msg.seq \in Nat
    BY ClientAssumption DEF Message
  <2>3. Get(c)
    BY <2>1
  <2> HIDE DEF c
  <2>4. CASE ReadPartial(c)
    BY <1>0, <1>1, <2>4 DEF ReadPartial, CountsOK
  <2>9. CASE ReadSwallowed(c)
    BY <1>0, <1>1, <2>9 DEF ReadSwallowed, Reading, CountsOK, PlaceOK, Unfinished
  <2>5. CASE ReadUnusable(c)
    BY <1>0, <1>1, <2>5 DEF ReadUnusable, CountsOK, Unfinished
  <2>6. CASE ReadLog(c)
    <3>1. PICK factor \in 1 .. Growth : logBytes' = logBytes + factor * c.msg.seq
      BY <2>6 DEF ReadLog
    <3>2. logBytes' \in Nat
      BY <1>0, <2>2, <3>1, ClientAssumption, SMTT(30) DEF CountsOK
    <3> QED
      BY <1>0, <2>6, <3>2, ClientAssumption DEF ReadLog, ReadPiece, Reading, LogSpent, CountsOK, Unfinished
  <2>7. CASE ReadCall(c)
    BY <1>0, <2>2, <2>7 DEF ReadCall, ReadPiece, Reading, Acceptable, InSequence, CountsOK, Unfinished, PlaceOK
  <2>8. CASE ReadCompleted(c)
    BY <1>0, <1>1, <2>8 DEF ReadCompleted, ReadPiece, Reading, CountsOK, PlaceOK, Unfinished
  <2> QED
    BY <2>3, <2>4, <2>5, <2>6, <2>7, <2>8, <2>9 DEF Get
<1> QED
  BY <1>2, <1>3, <1>4, <1>5, <1>6, <1>7 DEF Moving, Step

(* Typed is inductive: TypeOK alone is not, for sequence stays within the budget
   only because the loop is left when it exceeds it. *)
LEMMA TypedStep == Typed /\ [Next]_vars => Typed'
<1> SUFFICES ASSUME Typed, [Next]_vars PROVE Typed'
  OBVIOUS
<1>1. CASE Moving /\ UNCHANGED <<late, gone>>
  BY <1>1, PlaceStep, ReaderStep, CountsStep DEF Typed
<1>2. CASE Gone \/ Late \/ Done \/ UNCHANGED vars
  BY <1>2 DEF Gone, Late, Done, Typed, PlaceOK, CountsOK
<1> QED
  BY <1>1, <1>2 DEF Next, Moving

LEMMA TypedInit == Init => Typed
<1> SUFFICES ASSUME Init PROVE Typed
  OBVIOUS
<1>1. PlaceOK
  BY WriterTypes DEF Init, PlaceOK, Unfinished, Tags
<1>2. CountsOK
  BY ClientAssumption, EmptySeq DEF Init, CountsOK, Message
<1>3. reader \in Writer /\ late \in BOOLEAN /\ gone \in BOOLEAN
  BY WriterTypes DEF Init
<1> QED
  BY <1>1, <1>2, <1>3 DEF Typed

(* Every variable of the client keeps its type. *)
THEOREM TypeCorrect == Spec => []TypeOK
<1>1. Spec => []Typed
  BY TypedInit, TypedStep, PTL DEF Spec
<1> QED
  BY <1>1, TypedOK, PTL

-----------------------------------------------------------------------------
(* The invariant.  A history that counts holds 1, 2, ... in this order. *)
Counts(s) == \A i \in DOMAIN s : s[i] = i

Replying == \E data \in ReplyData : writer.msg = Reply(sequence, data)

Turn ==
  /\ at = "start" => sequence = 0 /\ Len(effects) = 0 /\ Len(replies) = 0
  /\ at = "write" =>
       \/ writer.msg = Request /\ sequence = 0 /\ Len(effects) = 0 /\ Len(replies) = 0
       \/ Replying /\ Len(effects) = sequence /\ Len(replies) + 1 = sequence
  /\ at = "read" => Len(effects) = sequence /\ Len(replies) = sequence
  /\ at = "call" => asked = sequence /\ Len(effects) + 1 = sequence /\ Len(replies) + 1 = sequence
  /\ at = "effect" => Len(effects) = sequence /\ Len(replies) + 1 = sequence
  /\ Len(effects) <= Request.seq /\ Len(effects) - Len(replies) \in {0, 1}
  /\ Request.tag = "validate" => sequence = 0 /\ Len(effects) = 0

CInv == Typed /\ Turn /\ Counts(effects) /\ Counts(replies)

(* Appending the next number to a history that counts. *)
LEMMA CountsOn ==
  ASSUME NEW s \in Seq(Nat), Counts(s), NEW n \in Nat, n = Len(s) + 1
  PROVE  Len(Append(s, n)) = Len(s) + 1 /\ Counts(Append(s, n))
BY DEF Counts

LEMMA TurnStep ==
  ASSUME CInv, Moving
  PROVE  Turn' /\ Counts(effects)' /\ Counts(replies)'
<1>0. /\ Typed /\ Turn /\ Counts(effects) /\ Counts(replies)
      /\ sequence \in Nat /\ asked \in Nat /\ Request.seq \in Nat
      /\ effects \in Seq(Nat) /\ Len(effects) \in Nat
      /\ replies \in Seq(Nat) /\ Len(replies) \in Nat
      /\ at \in Unfinished => sequence <= Request.seq
  BY ClientAssumption DEF CInv, Typed, CountsOK, Message
<1>1. ASSUME UNCHANGED <<effects, replies>>, at' \in Cleanup,
             sequence' = sequence \/ Request.tag # "validate"
      PROVE  Turn' /\ Counts(effects)' /\ Counts(replies)'
  BY <1>0, <1>1 DEF Turn, Counts
<1>2. CASE Start
  <2>1. at' = "write" => writer'.msg = Request
    BY <1>2 DEF Start, Load
  <2> QED
    BY <1>0, <1>2, <2>1 DEF Start, Turn, Counts
<1>3. CASE Interrupted \/ Cancelled \/ PutBroken \/ ReadEnded
  BY <1>1, <1>3 DEF Interrupted, Cancelled, PutBroken, ReadEnded
<1>4. CASE Put
  <2>1. /\ at = "write" /\ writer \in Writer /\ pending(writer) /\ writer' = Advance(writer)
        /\ UNCHANGED <<execution, effects>>
    BY <1>0, <1>4 DEF Put, Typed, PlaceOK
  <2>2. CASE ~Whole(Piece(writer))
    <3>1. writer'.msg = writer.msg /\ UNCHANGED <<at, replies>>
      BY <1>4, <2>1, <2>2, WriterTypes DEF Put
    <3> QED
      BY <1>0, <2>1, <3>1 DEF Turn, Counts, Replying, Reply
  <2>3. CASE Whole(Piece(writer)) /\ writer.msg = Request /\ sequence = 0
    <3>1. at' = "read" /\ replies' = replies
      BY <1>4, <2>3, ClientAssumption DEF Put
    <3> QED
      BY <1>0, <2>1, <2>3, <3>1, ClientAssumption DEF Turn, Counts, Replying, Reply
  <2>4. CASE Whole(Piece(writer)) /\ Replying
    <3>1. at' = "read" /\ replies' = Append(replies, sequence)
      BY <1>0, <1>4, <2>4, ReplyType DEF Put, Replying
    <3>2. Len(effects) = sequence /\ Len(replies) + 1 = sequence
      BY <1>0, <2>1, <2>4, ClientAssumption DEF Turn, Replying, Reply
    <3>3. Len(replies') = Len(replies) + 1 /\ Counts(replies')
      BY <1>0, <3>1, <3>2, CountsOn
    <3>4. Counts(replies)' /\ Counts(effects)'
      BY <1>0, <2>1, <3>3 DEF Counts
    <3> QED
      BY <1>0, <2>1, <3>1, <3>2, <3>3, <3>4 DEF Turn
  <2> QED
    BY <1>0, <2>1, <2>2, <2>3, <2>4 DEF Turn
<1>5. CASE Invoke
  <2>1. /\ at = "call" /\ at' = "effect" /\ effects' = Append(effects, asked)
        /\ UNCHANGED <<execution, writer, replies>>
    BY <1>5 DEF Invoke
  <2>2. asked = sequence /\ Len(effects) + 1 = sequence /\ Len(replies) + 1 = sequence
    BY <1>0, <2>1 DEF Turn
  <2>3. Len(effects') = Len(effects) + 1 /\ Counts(effects')
    BY <1>0, <2>1, <2>2, CountsOn
  <2>4. Counts(replies)' /\ Counts(effects)'
    BY <1>0, <2>1, <2>3 DEF Counts
  <2> QED
    BY <1>0, <2>1, <2>2, <2>3, <2>4 DEF Turn, Unfinished
<1>6. CASE Answer
  <2>1. CASE Go("write") /\ \E data \in ReplyData : writer' = Load(Reply(sequence, data))
    <3>0. PICK data \in ReplyData : writer' = Load(Reply(sequence, data))
      BY <2>1
    <3>1. at' = "write" /\ at = "effect" /\ UNCHANGED <<execution, effects, replies>>
      BY <1>6, <2>1 DEF Answer
    <3>2. writer'.msg = Reply(sequence, data)' /\ data \in ReplyData
      BY <3>0, <3>1 DEF Load, Reply
    <3>3. Replying'
      BY <3>2 DEF Replying, Reply
    <3> QED
      BY <1>0, <3>1, <3>3 DEF Turn, Counts
  <2>2. CASE Throw
    BY <1>1, <1>6, <2>2 DEF Answer
  <2> QED
    BY <1>6, <2>1, <2>2 DEF Answer
<1>7. CASE CloseInput \/ CloseOutput \/ Terminate \/ Reaped
  BY <1>1, <1>7 DEF CloseInput, CloseOutput, Terminate, Reaped
<1>8. CASE Supplied
  <2>0. PICK c : Get(c)
    BY <1>8 DEF Supplied
  <2>1. CASE ReadPartial(c)
    BY <1>0, <2>1 DEF ReadPartial, ReadPiece, Reading, Turn, Counts
  <2>5. CASE ReadSwallowed(c)
    BY <1>0, <1>1, <2>5 DEF ReadSwallowed, Reading, Turn, Counts
  <2>2. CASE ReadUnusable(c) \/ ReadCompleted(c)
    BY <1>1, <2>2 DEF ReadUnusable, ReadCompleted
  <2>3. CASE ReadLog(c)
    BY <1>0, <2>3 DEF ReadLog, ReadPiece, Reading, Turn, Counts
  <2>4. CASE ReadCall(c)
    <3>1. CASE at' \in Cleanup
      BY <1>1, <2>4, <3>1 DEF ReadCall
    <3>2. CASE at' \notin Cleanup
      <4>1. /\ at = "read" /\ at' = "call" /\ sequence' = sequence + 1 /\ asked' = c.msg.seq
            /\ Acceptable(c.msg) /\ Request.tag # "validate" /\ UNCHANGED <<effects, replies>>
        BY <2>4, <3>2 DEF ReadCall, ReadPiece, Reading
      <4> QED
        BY <1>0, <4>1 DEF Turn, Counts, Acceptable, InSequence
    <3> QED
      BY <3>1, <3>2
  <2> QED
    BY <2>0, <2>1, <2>2, <2>3, <2>4, <2>5 DEF Get
<1> QED
  BY <1>2, <1>3, <1>4, <1>5, <1>6, <1>7, <1>8 DEF Moving, Step

THEOREM Invariance == Spec => []CInv
<1>1. Init => CInv
  <2> SUFFICES ASSUME Init PROVE CInv
    OBVIOUS
  <2>1. Request.seq \in Nat
    BY ClientAssumption DEF Message
  <2> QED
    BY <2>1, TypedInit DEF Init, CInv, Turn, Counts
<1>2. CInv /\ [Next]_vars => CInv'
  <2> SUFFICES ASSUME CInv, [Next]_vars PROVE CInv'
    OBVIOUS
  <2>1. Typed'
    BY TypedStep DEF CInv
  <2>2. CASE Moving
    BY <2>1, <2>2, TurnStep DEF CInv
  <2>3. CASE Gone \/ Late \/ Done \/ UNCHANGED vars
    <3>1. UNCHANGED clientVars
      BY <2>3 DEF Gone, Late, Done
    <3>2. Turn'
      BY <3>1 DEF CInv, Turn, Replying, Reply
    <3>3. Counts(effects)' /\ Counts(replies)'
      BY <3>1 DEF CInv, Counts
    <3> QED
      BY <2>1, <3>2, <3>3 DEF CInv
  <2> QED
    BY <2>2, <2>3 DEF Next, Moving
<1> QED
  BY <1>1, <1>2, PTL DEF Spec

(* Client.php:103-120: no engine can make an effect happen out of turn, twice,
   beyond the budget or while validating, nor before the last one was answered. *)
THEOREM EffectsHappenInTurn == Spec => []EffectsInTurn
<1>1. CInv => EffectsInTurn
  <2> SUFFICES ASSUME CInv PROVE EffectsInTurn
    OBVIOUS
  <2>1. /\ effects \in Seq(Nat) /\ replies \in Seq(Nat)
        /\ Len(effects) \in Nat /\ Len(replies) \in Nat
    BY DEF CInv, Typed, CountsOK
  <2>2. effects = [i \in 1 .. Len(effects) |-> i]
    BY <2>1 DEF CInv, Counts
  <2>3. Len(replies) <= Len(effects) /\ Len(effects) - Len(replies) \in {0, 1}
    BY <2>1 DEF CInv, Turn
  <2>4. replies = SubSeq(effects, 1, Len(replies))
    <3>1. /\ Len(SubSeq(effects, 1, Len(replies))) = Len(replies)
          /\ \A i \in 1 .. Len(replies) : SubSeq(effects, 1, Len(replies))[i] = effects[i]
          /\ SubSeq(effects, 1, Len(replies)) \in Seq(Nat)
      BY <2>1, <2>3
    <3>2. \A i \in 1 .. Len(replies) : effects[i] = i /\ replies[i] = i
      BY <2>1, <2>3 DEF CInv, Counts
    <3> QED
      BY <2>1, <3>1, <3>2, SeqEqual
  <2>5. Len(effects) <= (IF Request.tag = "validate" THEN 0 ELSE Request.seq)
    BY <2>1 DEF CInv, Turn
  <2> QED
    BY <2>2, <2>3, <2>4, <2>5 DEF EffectsInTurn
<1> QED
  BY <1>1, Invariance, PTL
=============================================================================
