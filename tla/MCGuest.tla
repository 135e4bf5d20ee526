------------------------------- MODULE MCGuest -------------------------------
(* Guest with two calls, three bytes of logs and any frame on its input. *)
EXTENDS Guest

Frame(kind, own, seq, tag, size) ==
  [kind |-> kind, own |-> own, seq |-> seq, tag |-> tag, size |-> size, data |-> "plain"]

AnyFrames ==
  {Frame("request", TRUE, 2, tag, 2) : tag \in {"run", "validate", "refused"}}
  \cup {Frame("request", FALSE, 1, "unparsable", 1), Frame("malformed", FALSE, 0, "none", 1)}
  \cup {Frame("reply", TRUE, n, "none", 1) : n \in 1 .. 2}
  \cup {[Frame("reply", TRUE, 1, "none", 1) EXCEPT !.data = "nested"]}

AllCodes == {"unknown_function", "syntax_error"}
=============================================================================
