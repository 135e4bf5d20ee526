------------------------------ MODULE MCClient -------------------------------
(* Client with two calls and two bytes of logs, against any engine. *)
EXTENDS Client

Frame(kind, own, seq, tag, size) ==
  [kind |-> kind, own |-> own, seq |-> seq, tag |-> tag, size |-> size, data |-> "plain"]

RunRequest == Frame("request", TRUE, 2, "run", 2)

AnyFrames ==
  {Frame("call", TRUE, n, "listed", 2) : n \in 1 .. 3}
  \cup {Frame("call", TRUE, 1, "unlisted", 1), Frame("log", FALSE, 0, "none", 1),
        Frame("log", TRUE, 1, "none", 1), Frame("completed", TRUE, 0, "result", 2),
        Frame("completed", TRUE, 0, "wall_timeout", 1), Frame("completed", TRUE, 0, "none", 1),
        Frame("completed", FALSE, 0, "engine_error", 1),
        [Frame("completed", TRUE, 0, "result", 2) EXCEPT !.data = "nulkey"]}
=============================================================================
