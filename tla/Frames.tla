------------------------------- MODULE Frames -------------------------------
(***************************************************************************)
(* Protocol frames as the loop of supervisor.rs sees them.  A frame travels *)
(* as the pieces that single read(2) and write(2) calls move (at most 65536 *)
(* bytes each); `size' is the number of pieces.  Length header and JSON are *)
(* abstracted here; module Transport models them.                           *)
(***************************************************************************)
EXTENDS Integers, Sequences

(* One JSON frame, reduced to the fields some condition of the code reads.
     kind  "request", "call", "log", "reply", "cancel", "completed", or an
           unusable frame: "malformed" (bad length or bad JSON), "unknown"
     own   protocol and execution_id are those of the running request
     seq   the "sequence" member of calls and replies; limits.calls of requests
     tag   calls: "listed"/"unlisted" in the catalog; requests: "run",
           "validate", "refused" (by validate), "unparsable"; completed
           frames: "result" from the guest, else the error type given them
           by the supervisor, "engine_error" by main()
     data  what its values hold that some reader does not take: "nested"
           beyond the 64 levels of the guest, "buried" beyond the 128 of
           serde_json, "nulkey" an object key PHP cannot decode           *)
Kinds == {"none", "request", "call", "log", "reply", "cancel", "completed",
          "malformed", "unknown"}
Tags  == {"none", "run", "validate", "refused", "unparsable", "listed", "unlisted",
          "result", "instruction_limit", "memory_limit", "cpu_limit", "wall_timeout",
          "guest_terminated", "engine_error"}
Data  == {"plain", "nested", "buried", "nulkey"}

Message == [kind : Kinds, own : BOOLEAN, seq : Nat, tag : Tags, size : Nat, data : Data]

NoMessage == [kind |-> "none", own |-> FALSE, seq |-> 0, tag |-> "none", size |-> 0,
              data |-> "plain"]

(* A piece of a frame inside a pipe. *)
Chunk == [msg : Message, no : Nat \ {0}]

First(c) == c.no = 1
Whole(c) == c.no = c.msg.size

(* transport::Writer: the frame being sent and how much of it has been.  A
   buffer that is drained and one that is empty differ for no caller.       *)
Writer == [msg : Message, off : Nat]

Idle    == [msg |-> NoMessage, off |-> 0]
pending(w) == w.off < w.msg.size

(* Writer::enqueue past its backpressure test. *)
Load(m) == [msg |-> m, off |-> 0]

(* Writer::send: the piece the next write moves, and the buffer after it. *)
Piece(w) == [msg |-> w.msg, no |-> w.off + 1]
Advance(w) == IF w.off + 1 = w.msg.size THEN Idle ELSE [w EXCEPT !.off = @ + 1]

(* main.rs failure(): a completed frame with no result; it fits one write. *)
failure(mine, type) ==
  [kind |-> "completed", own |-> mine, seq |-> 0, tag |-> type, size |-> 1, data |-> "plain"]

=============================================================================
