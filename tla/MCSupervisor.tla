---------------------------- MODULE MCSupervisor ----------------------------
(* Small instances of Supervisor for TLC: which frames the peers may send. *)
EXTENDS Supervisor

Frame(kind, own, seq, tag, size) ==
  [kind |-> kind, own |-> own, seq |-> seq, tag |-> tag, size |-> size, data |-> "plain"]

Run(calls)   == Frame("request", TRUE, calls, "run", 2)
ValidateOnly == Frame("request", TRUE, 1, "validate", 1)
Refused      == Frame("request", TRUE, 1, "refused", 1)
Unparsable   == Frame("request", FALSE, 1, "unparsable", 1)
Call(n)      == Frame("call", TRUE, n, "listed", 1)
LongCall(n)  == Frame("call", TRUE, n, "listed", 2)
Unlisted(n)  == Frame("call", TRUE, n, "unlisted", 1)
Foreign      == Frame("log", FALSE, 0, "none", 1)
Log          == Frame("log", TRUE, 0, "none", 2)
Result       == Frame("completed", TRUE, 0, "result", 2)
Malformed    == Frame("malformed", FALSE, 0, "none", 1)
Reply(n)     == Frame("reply", TRUE, n, "none", 1)
LongReply(n) == Frame("reply", TRUE, n, "none", 2)
Cancel       == Frame("cancel", TRUE, 0, "none", 1)

(* Every kind of frame on both sides. *)
AllRequests == {Run(1), ValidateOnly, Refused, Unparsable}
AllHostMessages == {Reply(1), Cancel, Malformed}
AllGuestMessages == {Call(1), Unlisted(1), Call(2), Log, Result, Foreign}

(* A guest and a host that make two calls, with frames of two pieces. *)
RunRequests == {Run(2)}
CallHostMessages == {LongReply(1), Reply(2)}
CallGuestMessages == {LongCall(1), Call(2), Call(3), Result}

(* For liveness: the frames that leave something half done. *)
ShortRequests == {Frame("request", TRUE, 2, "run", 1)}
FewHostMessages == {LongReply(1)}
FewGuestMessages == {LongCall(1), Result}

AllStatuses == Statuses
TwoStatuses == {"exit_124", "other"}
OneStatus == {"other"}
=============================================================================
