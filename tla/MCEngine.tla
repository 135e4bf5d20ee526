------------------------------ MODULE MCEngine -------------------------------
(* One execution with two calls and logs; pipes that hold one piece. *)
EXTENDS Engine

Frame(kind, own, seq, tag, size) ==
  [kind |-> kind, own |-> own, seq |-> seq, tag |-> tag, size |-> size, data |-> "plain"]

RunRequest == Frame("request", TRUE, 2, "run", 1)
RunRequests == {RunRequest}
Replies == {C!Reply(n, data) : n \in 1 .. RunRequest.seq, data \in ReplyData}
GuestFrameSet == {G!CallFrame(n, data) : n \in 1 .. RunRequest.seq + 1, data \in Shapes}
                 \cup {G!LogFrame(n, data) : n \in LogLengths, data \in Shapes}
                 \cup {G!Completed(own, data) : own \in BOOLEAN, data \in Shapes}
AllCodes == {"unknown_function"}
=============================================================================
