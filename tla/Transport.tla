------------------------------ MODULE Transport ------------------------------
(***************************************************************************)
(* transport.rs in bytes: a Reader that takes frames off one nonblocking    *)
(* pipe and a Writer that puts each value on another, with the reading held *)
(* back while a frame is unsent, as in the loop of supervisor.rs.           *)
(*                                                                         *)
(* The peer that writes may send any bytes, cut anywhere.  Bytes are digits *)
(* below Radix, so that a header of four of them stays small.  JSON is the  *)
(* pair Encode and Parse: several texts may parse to one value, and a value *)
(* may be written longer than it was read.                                  *)
(***************************************************************************)
EXTENDS Integers, Sequences

CONSTANTS
  Radix,          \* 256
  MaxFrame,       \* MAX_FRAME
  ChunkMax,       \* 65536: what one read or write call moves at most
  PipeCapacity,   \* bytes a pipe holds
  Values,         \* JSON values
  Encode,         \* serde_json::to_vec
  Parse,          \* serde_json::from_slice, a function on the texts that are JSON
  Streams         \* what the peer may write before it closes its end

Byte == 0 .. (Radix - 1)

ASSUME SizesAssumption ==
  /\ Radix \in Nat \ {0, 1} /\ MaxFrame \in Nat \ {0}
  /\ MaxFrame < Radix * Radix * Radix * Radix
  /\ ChunkMax \in Nat \ {0} /\ PipeCapacity \in Nat \ {0}
ASSUME JsonAssumption ==
  /\ Encode \in [Values -> Seq(Byte)]
  /\ \A v \in Values : Len(Encode[v]) > 0
  /\ Parse \in [DOMAIN Parse -> Values]
  /\ Streams \subseteq Seq(Byte)

VARIABLES
  stream, fed, consumed,   \* the peer's bytes; written, and read, so far
  bytes,                   \* Reader.bytes
  received,                \* values the reader returned
  writer,                  \* Writer: bytes, offset
  out, drained,            \* bytes written to the other pipe; read from it
  outcome,                 \* "running", or how receive or enqueue ended it
  cuts, sent               \* history: where in the stream each frame begins, and
                           \* where in the output that of each value

reader == <<bytes, received, consumed, cuts>>
vars == <<stream, fed, reader, writer, out, sent, drained, outcome>>

boundary == cuts[Len(cuts)]

Least(a, b) == IF a <= b THEN a ELSE b

(* u32::from_be_bytes and to_be_bytes. *)
from_be(h) == ((h[1] * Radix + h[2]) * Radix + h[3]) * Radix + h[4]
to_be(n) == << n \div (Radix * Radix * Radix), (n \div (Radix * Radix)) % Radix,
               (n \div Radix) % Radix, n % Radix >>

(* The length test of Reader::receive, and the bytes it then waits for. *)
Legal_Unlimited(length) == length # 0
Legal_Exclusive(length) == length # 0 /\ length < MaxFrame
Legal(length) == length # 0 /\ length <= MaxFrame
Headed_Late == Len(bytes) > 4
Headed == Len(bytes) >= 4
Target == IF Headed THEN from_be(bytes) + 4 ELSE 4

(* How many bytes the read asks for. *)
Count_ReadAhead == ChunkMax
Count == Least(Target - Len(bytes), ChunkMax)

(* The frame is complete: a header alone is not. *)
Complete(got) == Target > 4 /\ Len(got) = Target

pending(w) == w.offset < Len(w.bytes)

(* write_frame into the writer's buffer. *)
Framed(v) == to_be(Len(Encode[v])) \o Encode[v]

-----------------------------------------------------------------------------
TypeOK ==
  /\ stream \in Seq(Byte) /\ out \in Seq(Byte)
  /\ bytes \in Seq(Byte) /\ Len(bytes) <= 4 + MaxFrame
  /\ received \in Seq(Values)
  /\ writer \in [bytes : Seq(Byte), offset : Nat]
  /\ fed \in 0 .. Len(stream) /\ consumed \in 0 .. fed
  /\ cuts \in Seq(Nat) /\ cuts # <<>> /\ boundary \in 0 .. consumed
  /\ sent \in Seq(Nat)
  /\ drained \in 0 .. Len(out)
  /\ outcome \in {"running", "eof", "size limit", "bad json", "outgrown"}

Init ==
  /\ stream \in Streams
  /\ fed = 0 /\ consumed = 0 /\ cuts = <<0>> /\ sent = <<>>
  /\ bytes = <<>> /\ received = <<>>
  /\ writer = [bytes |-> <<>>, offset |-> 0]
  /\ out = <<>> /\ drained = 0
  /\ outcome = "running"

(* The peers: bytes arrive, bytes are taken. *)
Feed ==
  /\ fed < Len(stream) /\ fed - consumed < PipeCapacity
  /\ fed' = fed + 1
  /\ UNCHANGED <<stream, reader, writer, out, sent, drained, outcome>>

Take ==
  /\ drained < Len(out)
  /\ drained' = drained + 1
  /\ UNCHANGED <<stream, fed, reader, writer, out, sent, outcome>>

(* supervisor.rs:128 reads only while nothing is unsent. *)
Reading_Ahead == outcome = "running"
Reading == outcome = "running" /\ ~pending(writer)

SizeLimit ==
  /\ Reading /\ Headed /\ ~Legal(from_be(bytes))
  /\ outcome' = "size limit"
  /\ UNCHANGED <<stream, fed, reader, writer, out, sent, drained>>

Eof ==
  /\ Reading /\ (Headed => Legal(from_be(bytes)))
  /\ consumed = fed /\ fed = Len(stream)
  /\ outcome' = "eof"
  /\ UNCHANGED <<stream, fed, reader, writer, out, sent, drained>>

Moved == Least(Count, fed - consumed)
Got   == bytes \o SubSeq(stream, consumed + 1, consumed + Moved)
Read  == /\ Reading /\ (Headed => Legal(from_be(bytes)))
         /\ consumed < fed
         /\ consumed' = consumed + Moved

ReceivePart ==
  /\ Read /\ ~Complete(Got)
  /\ bytes' = Got
  /\ UNCHANGED <<stream, fed, received, writer, out, sent, drained, outcome, cuts>>

Text(frame) == SubSeq(frame, 5, Len(frame))
Payload == Text(Got)

ReceiveBad ==
  /\ Read /\ Complete(Got) /\ Payload \notin DOMAIN Parse
  /\ outcome' = "bad json"
  /\ bytes' = Got
  /\ UNCHANGED <<stream, fed, received, writer, out, sent, drained, cuts>>

(* A value is returned and enqueued; write_frame has a limit of its own. *)
Receive ==
  /\ Read /\ Complete(Got) /\ Payload \in DOMAIN Parse
  /\ LET v == Parse[Payload]
     IN  /\ received' = Append(received, v)
         /\ IF Len(Encode[v]) <= MaxFrame
            THEN writer' = [bytes |-> Framed(v), offset |-> 0] /\ UNCHANGED outcome
            ELSE /\ writer' = [bytes |-> <<>>, offset |-> 0]
                 /\ outcome' = "outgrown"
  /\ bytes' = <<>> /\ cuts' = Append(cuts, consumed') /\ sent' = Append(sent, Len(out))
  /\ UNCHANGED <<stream, fed, out, drained>>

(* A write moves any number of the bytes that fit. *)
Advanced_AsAsked(n) ==
  [writer EXCEPT !.offset = @ + Least(Len(writer.bytes) - @, ChunkMax)]
Advanced(n) == [writer EXCEPT !.offset = @ + n]

Send ==
  /\ outcome = "running" /\ pending(writer)
  /\ \E n \in 1 .. Least(Least(Len(writer.bytes) - writer.offset, ChunkMax),
                         PipeCapacity - (Len(out) - drained)) :
       /\ out' = out \o SubSeq(writer.bytes, writer.offset + 1, writer.offset + n)
       /\ writer' = Advanced(n)
  /\ UNCHANGED <<stream, fed, reader, sent, drained, outcome>>

Done == outcome # "running" /\ UNCHANGED vars

Receiving == SizeLimit \/ Eof \/ ReceivePart \/ ReceiveBad \/ Receive

Next == Feed \/ Take \/ Receiving \/ Send \/ Done

Spec == Init /\ [][Next]_vars

(* The loop keeps polling; a peer goes on writing, and the other reading. *)
FairSpec == Spec /\ WF_vars(Receiving) /\ WF_vars(Send) /\ WF_vars(Feed) /\ WF_vars(Take)

-----------------------------------------------------------------------------
(* "Never read ahead into the next frame": a Reader that is dropped between two
   frames, as after admission, loses nothing.  Whatever has been read since the
   last complete frame belongs to one frame, and is still held. *)
NoReadAhead ==
  LET mine == SubSeq(stream, boundary + 1, consumed)
  IN  /\ bytes = mine
      /\ Len(mine) <= 4 + (IF Len(mine) >= 4 THEN from_be(mine) ELSE 0)

(* What was written is a frame for each value returned, in order, the last as
   far as the writer has come: nothing is lost, repeated or interleaved. *)
Sent(k) == SubSeq(out, sent[k] + 1, IF k < Len(sent) THEN sent[k + 1] ELSE Len(out))
OutputContinues ==
  LET last == Len(received)
  IN  /\ Len(sent) = last /\ writer.offset <= Len(writer.bytes)
      /\ received = <<>> => out = <<>> /\ writer.bytes = <<>>
      /\ received # <<>> =>
           /\ sent[1] = 0 /\ Sent(last) = SubSeq(writer.bytes, 1, writer.offset)
           /\ writer.bytes = IF outcome = "outgrown" THEN <<>> ELSE Framed(received[last])
      /\ \A k \in 1 .. last : k < last => Sent(k) = Framed(received[k])

(* Reference: how the peer's bytes divide into frames, said of the stream alone. *)
Between(from, to) == SubSeq(stream, from + 1, to)
Framing(frame) == Len(frame) \in 5 .. 4 + MaxFrame /\ from_be(frame) = Len(frame) - 4
Unread == Between(boundary, Len(stream))

(* What each frame held was returned, in order; only the last may be too long
   to be written again, and that ends the loop. *)
FramesReturned ==
  /\ Len(cuts) = Len(received) + 1 /\ cuts[1] = 0
  /\ \A k \in 1 .. Len(received) :
       LET frame == Between(cuts[k], cuts[k + 1])
       IN  Framing(frame) /\ Text(frame) \in DOMAIN Parse /\ received[k] = Parse[Text(frame)]
  /\ \A k \in 1 .. Len(received) :
       Len(Encode[received[k]]) > MaxFrame => k = Len(received) /\ outcome = "outgrown"
  /\ outcome = "outgrown" =>
       received # <<>> /\ Len(Encode[received[Len(received)]]) > MaxFrame

(* The reader returns what the stream says and stops where and why it must,
   whatever the chunks: at a header out of range, at a frame that is not JSON,
   at a value that outgrew its frame, or where the stream ends short of a frame. *)
StopsJustly ==
  /\ FramesReturned
  /\ outcome = "size limit" => Len(Unread) >= 4 /\ from_be(Unread) \notin 1 .. MaxFrame
  /\ outcome = "bad json" =>
       \E end \in boundary .. Len(stream) :
         Framing(Between(boundary, end)) /\ Text(Between(boundary, end)) \notin DOMAIN Parse
  /\ outcome = "eof" /\ Len(Unread) >= 4 =>
       from_be(Unread) \in 1 .. MaxFrame /\ Len(Unread) < 4 + from_be(Unread)

(* The frames a sequence of bytes begins with, by their headers alone: where each
   begins and the last one ends, and what they hold.                         *)
Following(s, m) == {n \in m .. Len(s) : Framing(SubSeq(s, m + 1, n))}
FrameEnds(s) ==
  LET from[m \in 0 .. Len(s)] ==
        IF Following(s, m) = {} THEN <<m>> ELSE <<m>> \o from[CHOOSE n \in Following(s, m) : TRUE]
  IN  from[0]

TextsIn(s) == LET d == FrameEnds(s)
              IN  [k \in 1 .. Len(d) - 1 |-> Text(SubSeq(s, d[k] + 1, d[k + 1]))]

(* Frames as FrameRelay knows them: what the peer's frames would be written as,
   what the values returned are, and what the frames on the other pipe hold. *)
Rewritten(text) == IF text \in DOMAIN Parse THEN Encode[Parse[text]] ELSE <<>>
Offered == LET texts == TextsIn(stream) IN [k \in 1 .. Len(texts) |-> Rewritten(texts[k])]
Taken   == [k \in 1 .. Len(received) |-> Encode[received[k]]]
Given   == TextsIn(out)

Relayed == INSTANCE FrameRelay WITH source <- Offered, taken <- Taken, given <- Given

(* What leaves is written of what came, frame by frame and in order, and none is
   taken while one is not written to its end (transport.rs:15-125, supervisor.rs:128). *)
ImplementsRelay == Relayed!Spec

(* All that the reader returned up to its end comes out, but for a value that grew
   beyond the limit (transport.rs:15-125).                                  *)
AllRelayed == <>(outcome # "running" /\ (outcome = "outgrown" \/ Given = Taken))
=============================================================================
