-------------------------- MODULE SupervisorProofs --------------------------
(***************************************************************************)
(* What holds of Supervisor for any frames, any pipe capacity and any bound *)
(* on what the peers send.  First the types; then three invariants.  IInv   *)
(* relates the output buffer to what is already on stdout; Fate follows the *)
(* end of the guest to the conclusion the host reads; CInv ties the counter *)
(* of calls to the calls on stdout, the one in the buffer and the replies   *)
(* accepted.  The safety properties and the refinement follow from them.    *)
(***************************************************************************)
EXTENDS Supervisor, SequenceTheorems, FunctionTheorems, FiniteSetTheorems, TLAPS

USE DEF vars, loop, process, pipes, hostVars, guestVars, peers, OnlyControl,
        Return, Continue, Loop, Stopped

(* The operators of Frames keep messages, pieces and writers what they are. *)
LEMMA FrameTypes ==
  /\ NoMessage \in Message
  /\ Idle \in Writer
  /\ \A own \in BOOLEAN, type \in Tags : failure(own, type) \in Message
  /\ \A m \in Message : Load(m) \in Writer
  /\ \A w \in Writer : Advance(w) \in Writer /\ Piece(w) \in Chunk
<1>1. NoMessage \in Message /\ Idle \in Writer
  BY DEF NoMessage, Message, Idle, Writer, Kinds, Tags, Data
<1>2. ASSUME NEW own \in BOOLEAN, NEW type \in Tags PROVE failure(own, type) \in Message
  BY DEF failure, Message, Kinds, Tags, Data
<1>3. ASSUME NEW m \in Message PROVE Load(m) \in Writer
  BY DEF Load, Writer
<1>4. ASSUME NEW w \in Writer PROVE Advance(w) \in Writer /\ Piece(w) \in Chunk
  <2>1. w.msg \in Message /\ w.off \in Nat
    BY DEF Writer
  <2>2. Piece(w) \in Chunk
    BY <2>1 DEF Piece, Chunk
  <2>3. CASE w.off + 1 = w.msg.size
    BY <1>1, <2>2, <2>3 DEF Advance
  <2>4. CASE w.off + 1 # w.msg.size
    <3>1. [w EXCEPT !.off = w.off + 1] \in Writer
      BY <2>1 DEF Writer
    <3> QED
      BY <2>2, <2>4, <3>1 DEF Advance
  <2> QED
    BY <2>3, <2>4
<1>5. QED
  BY <1>1, <1>2, <1>3, <1>4

(* Taking a piece off a pipe, putting one on it. *)
LEMMA PipeTypes ==
  ASSUME NEW s \in Seq(Chunk)
  PROVE  /\ s # <<>> => Head(s) \in Chunk /\ Head(s).msg \in Message /\ Tail(s) \in Seq(Chunk)
         /\ \A c \in Chunk : Append(s, c) \in Seq(Chunk)
<1>1. s # <<>> => Head(s) \in Chunk /\ Tail(s) \in Seq(Chunk)
  OBVIOUS
<1>2. \A c \in Chunk : c.msg \in Message
  BY DEF Chunk
<1>3. QED
  BY <1>1, <1>2

(* The initial state is of the right types. *)
LEMMA TypeInit == Init => TypeOK
<1> SUFFICES ASSUME Init PROVE TypeOK
  OBVIOUS
<1>1. /\ request \in Message /\ to_guest \in Writer /\ to_host \in Writer
      /\ host_writer \in Writer /\ guest_writer \in Writer
  BY FrameTypes DEF Init
<1>2. /\ host_in \in Seq(Chunk) /\ guest_in \in Seq(Chunk)
      /\ guest_out \in Seq(Chunk) /\ wire \in Seq(Chunk)
  BY EmptySeq DEF Init
<1> QED
  BY <1>1, <1>2 DEF Init, TypeOK, Statuses

(* Every step of every actor keeps the types. *)
LEMMA TypeStep == TypeOK /\ [Next]_vars => TypeOK'
<1> SUFFICES ASSUME TypeOK, [Next]_vars PROVE TypeOK'
  OBVIOUS
<1> USE MessagesAssumption, BoundsAssumption DEF TypeOK
<1>1. CASE AdmitFails
  BY <1>1 DEF AdmitFails
<1>2. CASE AdmitPartial
  BY <1>2, PipeTypes DEF AdmitPartial, RequestPiece
<1>3. CASE Refuse
  BY <1>3, PipeTypes DEF Refuse, AdmitRequest, RequestPiece
<1>4. CASE Spawn
  BY <1>4, FrameTypes, PipeTypes DEF Spawn, AdmitRequest, RequestPiece
<1>5. CASE InTime
  BY <1>5 DEF InTime
<1>6. CASE Expire
  BY <1>6, FrameTypes, PipeTypes, ZenonT(60) DEF Expire, Tags
<1>7. CASE MemoryFits
  BY <1>7 DEF MemoryFits
<1>8. CASE MemoryCeiling
  BY <1>8, FrameTypes DEF MemoryCeiling, QueueForHost, Tags
<1>9. CASE HostSilent
  BY <1>9 DEF HostSilent
<1>10. CASE HostEof
  BY <1>10 DEF HostEof
<1>11. CASE HostPartial
  BY <1>11, PipeTypes DEF HostPartial, HostPiece
<1>12. CASE HostRefused
  BY <1>12, PipeTypes DEF HostRefused, HostPiece
<1>13. CASE HostReply
  BY <1>13, FrameTypes, PipeTypes DEF HostReply, HostPiece
<1>14. CASE FeedWaits
  BY <1>14 DEF FeedWaits
<1>15. CASE FeedBroken
  BY <1>15 DEF FeedBroken
<1>16. CASE Feed
  BY <1>16, FrameTypes, PipeTypes DEF Feed
<1>17. CASE DrainWaits
  BY <1>17 DEF DrainWaits, AfterDrain
<1>18. CASE DrainBroken
  BY <1>18 DEF DrainBroken
<1>19. CASE Drain
  BY <1>19, FrameTypes, PipeTypes DEF Drain, AfterDrain, Unsent
<1>20. CASE GuestSkipped
  BY <1>20 DEF GuestSkipped
<1>21. CASE GuestEof
  BY <1>21 DEF GuestEof
<1>22. CASE GuestPartial
  BY <1>22, PipeTypes DEF GuestPartial, GuestPiece
<1>23. CASE GuestRefused
  BY <1>23, PipeTypes DEF GuestRefused, GuestPiece
<1>24. CASE GuestEvent
  BY <1>24, FrameTypes, PipeTypes DEF GuestEvent, GuestPiece, QueueForHost
<1>25. CASE NotReaped
  BY <1>25 DEF NotReaped
<1>26. CASE Reap
  <2>1. Verdict(status) \in Tags /\ TRUE \in BOOLEAN
    BY DEF Verdict, Tags
  <2>2. Load(failure(TRUE, Verdict(status))) \in Writer
    BY <2>1, FrameTypes
  <2> QED
    BY <1>26, <2>2, ZenonT(60) DEF Reap, QueueForHost
<1>27. CASE Kill
  BY <1>27 DEF Kill
<1>28. CASE Wait
  BY <1>28 DEF Wait
<1>29. CASE Report
  <2>1. (request # NoMessage) \in BOOLEAN /\ "engine_error" \in Tags
    BY DEF Tags
  <2>2. Piece(Load(failure(request # NoMessage, "engine_error"))) \in Chunk
    BY <2>1, FrameTypes
  <2>3. wire' \in Seq(Chunk)
    BY <1>29, <2>2, PipeTypes DEF Report
  <2> QED
    BY <1>29, <2>3 DEF Report
<1>30. CASE Lost
  BY <1>30 DEF Lost
<1>31. CASE Tick
  BY <1>31 DEF Tick
<1>32. CASE GuestExits
  BY <1>32 DEF GuestExits, Statuses
<1>33. CASE GuestDead
  BY <1>33 DEF GuestDead
<1>34. CASE HostWrites
  BY <1>34, FrameTypes, PipeTypes DEF HostWrites, Written
<1>35. CASE HostReads
  BY <1>35 DEF HostReads
<1>36. CASE HostCloses
  BY <1>36 DEF HostCloses
<1>37. CASE HostDeaf
  BY <1>37 DEF HostDeaf
<1>38. CASE GuestReads
  BY <1>38, PipeTypes DEF GuestReads
<1>39. CASE GuestWrites
  BY <1>39, FrameTypes, PipeTypes DEF GuestWrites, Written
<1>40. CASE GuestCloses
  BY <1>40 DEF GuestCloses
<1>41. CASE Terminated
  BY <1>41 DEF Terminated
<1>42. CASE UNCHANGED vars
  BY <1>42
<1> QED
  BY <1>1, <1>2, <1>3, <1>4, <1>5, <1>6, <1>7, <1>8, <1>9, <1>10,
     <1>11, <1>12, <1>13, <1>14, <1>15, <1>16, <1>17, <1>18, <1>19, <1>20,
     <1>21, <1>22, <1>23, <1>24, <1>25, <1>26, <1>27, <1>28, <1>29, <1>30,
     <1>31, <1>32, <1>33, <1>34, <1>35, <1>36, <1>37, <1>38, <1>39, <1>40,
     <1>41, <1>42
  DEF Next, SupervisorStep, Kernel, Host, Guest

(* Every variable keeps its type, whatever frames the peers send. *)
THEOREM TypeCorrect == Spec => []TypeOK
BY TypeInit, TypeStep, PTL DEF Spec

-----------------------------------------------------------------------------
(* The inductive invariant: what the loop knows at each of its steps.       *)

(* The guest reached its end with nothing for the host left in the buffer,
   and only the verdict is queued after that. *)
Backpressure ==
  /\ outcome # "overrun_host"
  /\ pc \in Loop /\ guest_closed /\ ~completed => ~pending(to_host)

Told(i) == Whole(wire[i]) /\ wire[i].msg.kind = "completed"

(* A conclusion is complete on stdout only when the loop has been left with Ok;
   until then one in the buffer means that `completed' is set. *)
Concluded ==
  /\ \A i \in DOMAIN wire :
       Told(i) => /\ i = Len(wire)
                  /\ pc \in {"kill", "wait", "exit", "lost"}
                  /\ pc \in {"kill", "wait"} => outcome = "ok"
  /\ pc \in Loop /\ pending(to_host) /\ to_host.msg.kind = "completed" => completed

(* The buffer continues the last piece on stdout, or that piece ends a frame. *)
Continues ==
  pc \in Loop =>
    IF pending(to_host) /\ to_host.off > 0
    THEN wire # <<>> /\ wire[Len(wire)] = [msg |-> to_host.msg, no |-> to_host.off]
    ELSE wire = <<>> \/ Whole(wire[Len(wire)])

(* The loop runs on after a kill only to deliver a verdict. *)
KilledOnlyConcludes ==
  pc \in Loop /\ killed =>
    completed /\ (pending(to_host) => to_host.msg.kind = "completed")

Before == pc = "admit" => wire = <<>> /\ to_host = Idle /\ ~killed

IInv == /\ TypeOK /\ Before /\ Backpressure /\ Concluded
        /\ Continues /\ OutputFramed /\ KilledOnlyConcludes

-----------------------------------------------------------------------------
(* Steps that touch neither stdout, its buffer, nor what IInv relates to it. *)
QuietStep ==
  \/ AdmitFails \/ AdmitPartial \/ Refuse \/ InTime \/ MemoryFits
  \/ HostSilent \/ HostEof \/ HostPartial \/ HostRefused \/ HostReply
  \/ FeedWaits \/ FeedBroken \/ Feed \/ DrainBroken
  \/ GuestSkipped \/ GuestPartial \/ GuestRefused \/ NotReaped
  \/ Kernel \/ Host \/ Guest

(* How such a step moves the supervisor. *)
QuietMove ==
  \/ pc' = pc /\ outcome' = outcome
  \/ pc \in Loop /\ pc' \in Loop /\ outcome' = outcome
  \/ pc \in Loop /\ pc' = "kill" /\ outcome' # "overrun_host"
  \/ pc = "admit" /\ pc' = "report" /\ outcome' # "overrun_host"

(* The quiet steps are quiet, and go where QuietMove says. *)
LEMMA QuietSteps ==
  QuietStep => QuietMove /\ UNCHANGED <<wire, to_host, completed, guest_closed, killed>>
<1> SUFFICES ASSUME QuietStep
             PROVE  QuietMove /\ UNCHANGED <<wire, to_host, completed, guest_closed, killed>>
  OBVIOUS
<1> USE DEF QuietMove
<1>1. CASE AdmitFails \/ AdmitPartial \/ Refuse
  BY <1>1 DEF AdmitFails, AdmitPartial, Refuse, AdmitRequest, RequestPiece
<1>2. CASE InTime \/ MemoryFits \/ NotReaped
  BY <1>2 DEF InTime, MemoryFits, NotReaped
<1>3. CASE HostSilent \/ HostEof \/ HostPartial \/ HostRefused
  BY <1>3 DEF HostSilent, HostEof, HostPartial, HostRefused, HostPiece
<1>4. CASE HostReply
  BY <1>4 DEF HostReply, HostPiece
<1>5. CASE FeedWaits \/ FeedBroken \/ Feed \/ DrainBroken
  BY <1>5 DEF FeedWaits, FeedBroken, Feed, DrainBroken
<1>6. CASE GuestSkipped \/ GuestPartial \/ GuestRefused
  BY <1>6 DEF GuestSkipped, GuestPartial, GuestRefused, GuestPiece
<1>7. CASE Kernel
  BY <1>7 DEF Kernel, Tick, GuestExits, GuestDead
<1>8. CASE Host
  BY <1>8 DEF Host, HostWrites, HostReads, HostCloses, HostDeaf
<1>9. CASE Guest
  BY <1>9 DEF Guest, GuestReads, GuestWrites, GuestCloses
<1> QED
  BY <1>1, <1>2, <1>3, <1>4, <1>5, <1>6, <1>7, <1>8, <1>9 DEF QuietStep

(* They preserve the invariant. *)
LEMMA QuietPreserves ==
  ASSUME IInv, TypeOK', QuietStep
  PROVE  IInv'
<1>1. QuietMove /\ UNCHANGED <<wire, to_host, completed, guest_closed, killed>>
  BY QuietSteps
<1>2. Before' /\ Backpressure'
  BY <1>1 DEF IInv, Before, Backpressure, QuietMove
<1>3. Concluded'
  BY <1>1 DEF IInv, Concluded, Told, QuietMove
<1>4. Continues'
  BY <1>1 DEF IInv, Continues, QuietMove
<1>5. OutputFramed' /\ KilledOnlyConcludes'
  BY <1>1 DEF IInv, OutputFramed, Diagnostic, KilledOnlyConcludes, QuietMove
<1> QED
  BY <1>2, <1>3, <1>4, <1>5 DEF IInv

(* What appending one piece to stdout does to its contents. *)
LEMMA Appended ==
  ASSUME NEW s \in Seq(Chunk), NEW c \in Chunk
  PROVE  LET t == Append(s, c)
         IN  /\ t \in Seq(Chunk) /\ t # <<>>
             /\ Len(s) \in Nat /\ Len(t) = Len(s) + 1
             /\ DOMAIN s = 1..Len(s) /\ DOMAIN t = 1..(Len(s) + 1)
             /\ \A i \in 1..Len(s) : t[i] = s[i]
             /\ t[Len(s) + 1] = c
  OBVIOUS

(* A piece that starts a frame where the last one ended, or goes on with it. *)
LEMMA FramedAppend ==
  ASSUME NEW c \in Chunk, TypeOK, OutputFramed, wire' = Append(wire, c),
         \/ Diagnostic(c)
         \/ First(c) /\ (wire = <<>> \/ Whole(wire[Len(wire)]))
         \/ /\ ~First(c) /\ wire # <<>>
            /\ wire[Len(wire)] = [c EXCEPT !.no = @ - 1]
  PROVE  OutputFramed'
<1> DEFINE t == Append(wire, c)
<1>1. /\ Len(wire) \in Nat /\ DOMAIN wire = 1..Len(wire) /\ DOMAIN t = 1..(Len(wire) + 1)
      /\ \A i \in 1..Len(wire) : t[i] = wire[i]
      /\ t[Len(wire) + 1] = c
      /\ wire = <<>> => Len(wire) = 0
      /\ wire # <<>> => Len(wire) > 0
  BY Appended DEF TypeOK
<1> SUFFICES ASSUME NEW i \in DOMAIN t, ~Diagnostic(t[i])
             PROVE  IF First(t[i]) THEN i = 1 \/ Whole(t[i - 1])
                    ELSE i > 1 /\ t[i - 1] = [t[i] EXCEPT !.no = @ - 1]
  BY DEF OutputFramed
<1>2. CASE i \in 1..Len(wire)
  <2>1. IF First(wire[i]) THEN i = 1 \/ Whole(wire[i - 1])
        ELSE i > 1 /\ wire[i - 1] = [wire[i] EXCEPT !.no = @ - 1]
    BY <1>1, <1>2 DEF OutputFramed
  <2>2. i > 1 => i - 1 \in 1..Len(wire)
    BY <1>1, <1>2
  <2>3. i = 1 \/ i > 1
    BY <1>1, <1>2
  <2> HIDE DEF t
  <2> QED
    BY <1>1, <1>2, <2>1, <2>2, <2>3
<1>3. CASE i = Len(wire) + 1
  <2> HIDE DEF t
  <2>1. wire # <<>> => t[i - 1] = wire[Len(wire)]
    BY <1>1, <1>3
  <2> QED
    BY <1>1, <1>3, <2>1
<1> QED
  BY <1>1, <1>2, <1>3, SMTT(20)

(* One piece leaves the buffer for stdout. *)
LEMMA DrainPreserves ==
  ASSUME IInv, TypeOK', Drain
  PROVE  IInv'
<1> DEFINE c == Piece(to_host)
<1>1. /\ pc = "drain" /\ pending(to_host) /\ wire' = Append(wire, c)
      /\ to_host' = Advance(to_host)
      /\ UNCHANGED <<completed, guest_closed, killed>>
      /\ \/ completed /\ ~pending(to_host') /\ pc' = "kill" /\ outcome' = "ok"
         \/ ~(completed /\ ~pending(to_host')) /\ pc' = "guestin" /\ outcome' = outcome
  BY DEF Drain, AfterDrain, Unsent
<1>2. /\ to_host.msg \in Message /\ to_host.off \in Nat /\ to_host.msg.size \in Nat
      /\ to_host.off < to_host.msg.size
  BY <1>1 DEF IInv, TypeOK, Writer, Message, pending
<1>3. /\ c \in Chunk /\ c.msg = to_host.msg /\ c.no = to_host.off + 1
      /\ c = [msg |-> to_host.msg, no |-> to_host.off + 1]
  BY <1>2, FrameTypes DEF Piece, Chunk, IInv, TypeOK
<1>4. /\ Len(wire) \in Nat /\ DOMAIN wire = 1..Len(wire)
      /\ wire' # <<>> /\ Len(wire') = Len(wire) + 1
      /\ DOMAIN wire' = 1..(Len(wire) + 1)
      /\ \A i \in 1..Len(wire) : wire'[i] = wire[i]
      /\ wire'[Len(wire) + 1] = c
  <2> HIDE DEF c
  <2> QED
    BY <1>1, <1>3, Appended, ZenonT(40) DEF IInv, TypeOK
<1>5. IF c.no = to_host.msg.size
      THEN ~pending(to_host') /\ Whole(c)
      ELSE /\ pending(to_host') /\ to_host'.msg = to_host.msg /\ to_host'.off = c.no
           /\ ~Whole(c)
  <2>1. CASE c.no = to_host.msg.size
    BY <1>1, <1>2, <1>3, <2>1 DEF Advance, Idle, NoMessage, pending, Whole
  <2>2. CASE c.no # to_host.msg.size
    <3>1. to_host' = [to_host EXCEPT !.off = to_host.off + 1]
      BY <1>1, <1>3, <2>2 DEF Advance
    <3>2. to_host'.msg = to_host.msg /\ to_host'.off = to_host.off + 1
      BY <3>1 DEF IInv, TypeOK, Writer
    <3> QED
      BY <1>2, <1>3, <2>2, <3>2 DEF pending, Whole
  <2> QED
    BY <2>1, <2>2
<1> HIDE DEF c
<1>6. Before' /\ Backpressure'
  BY <1>1 DEF IInv, Before, Backpressure
<1>7. Concluded'
  <2>1. \A i \in 1..Len(wire) : ~Told(i)
    BY <1>1, <1>4 DEF IInv, Concluded
  <2>2. \A i \in 1..Len(wire) : ~(Whole(wire'[i]) /\ wire'[i].msg.kind = "completed")
    BY <1>4, <2>1 DEF Told
  <2>3. Whole(c) /\ c.msg.kind = "completed" => pc' = "kill" /\ outcome' = "ok"
    BY <1>1, <1>3, <1>5 DEF IInv, Concluded
  <2>4. pc' \in Loop /\ pending(to_host') /\ to_host'.msg.kind = "completed" => completed'
    BY <1>1, <1>5 DEF IInv, Concluded
  <2> QED
    BY <1>1, <1>4, <2>2, <2>3, <2>4 DEF Concluded, Told
<1>8. Continues'
  <2>1. wire'[Len(wire')] = c
    BY <1>4
  <2>2. CASE c.no = to_host.msg.size
    BY <1>4, <1>5, <2>1, <2>2 DEF Continues
  <2>3. CASE c.no # to_host.msg.size
    <3>1. wire' # <<>> /\ wire'[Len(wire')] = [msg |-> to_host'.msg, no |-> to_host'.off]
      BY <1>3, <1>4, <1>5, <2>1, <2>3
    <3>2. pending(to_host') /\ to_host'.off > 0
      BY <1>2, <1>3, <1>5, <2>3
    <3> QED
      BY <3>1, <3>2 DEF Continues
  <2> QED
    BY <2>2, <2>3
<1>9. OutputFramed'
  <2>1. CASE to_host.off = 0
    <3>1. wire = <<>> \/ Whole(wire[Len(wire)])
      BY <1>1, <2>1 DEF IInv, Continues
    <3>2. First(c)
      BY <1>3, <2>1 DEF First
    <3> QED
      BY <1>1, <1>3, <3>1, <3>2, FramedAppend DEF IInv
  <2>2. CASE to_host.off > 0
    <3>1. wire # <<>> /\ wire[Len(wire)] = [msg |-> to_host.msg, no |-> to_host.off]
      BY <1>1, <2>2 DEF IInv, Continues
    <3>2. [c EXCEPT !.no = c.no - 1] = [msg |-> to_host.msg, no |-> to_host.off]
      BY <1>2, <1>3
    <3>3. ~First(c)
      BY <1>2, <1>3, <2>2 DEF First
    <3> QED
      BY <1>1, <1>3, <3>1, <3>2, <3>3, FramedAppend DEF IInv
  <2> QED
    BY <1>2, <2>1, <2>2
<1>10. KilledOnlyConcludes'
  BY <1>1, <1>5 DEF IInv, KilledOnlyConcludes
<1> QED
  BY <1>6, <1>7, <1>8, <1>9, <1>10 DEF IInv

(* A verdict of the supervisor or of main() goes out in one piece. *)
LEMMA FailureFacts ==
  ASSUME NEW own, NEW type
  PROVE  /\ Load(failure(own, type)).msg.kind = "completed"
         /\ Load(failure(own, type)).msg.tag = type
         /\ Load(failure(own, type)).off = 0
         /\ pending(Load(failure(own, type)))
         /\ Advance(Load(failure(own, type))) = Idle
         /\ Piece(Load(failure(own, type))).msg.kind = "completed"
         /\ Piece(Load(failure(own, type))).msg.tag = type
         /\ First(Piece(Load(failure(own, type))))
         /\ Whole(Piece(Load(failure(own, type))))
BY DEF failure, Load, Piece, Advance, pending, First, Whole

(* The wall_timeout verdict starts on a frame boundary and leaves the loop. *)
LEMMA ExpirePreserves ==
  ASSUME IInv, TypeOK', Expire
  PROVE  IInv'
<1> DEFINE told == Load(failure(TRUE, "wall_timeout"))
           c    == Piece(told)
<1>1. /\ pc = "watchdog" /\ pc' = "kill"
      /\ outcome' \in {"ok", "error"}
      /\ \/ wire' = wire
         \/ wire' = Append(wire, c) /\ ~pending(to_host) /\ outcome' = "ok"
  BY DEF Expire
<1>2. Before' /\ Backpressure' /\ Continues' /\ KilledOnlyConcludes'
  BY <1>1 DEF Before, Backpressure, Continues, KilledOnlyConcludes
<1>3. \A i \in DOMAIN wire : ~Told(i)
  BY <1>1 DEF IInv, Concluded
<1>4. CASE wire' = wire
  BY <1>1, <1>2, <1>3, <1>4 DEF IInv, Concluded, Told, OutputFramed, Diagnostic
<1>5. CASE wire' = Append(wire, c) /\ ~pending(to_host) /\ outcome' = "ok"
  <2>1. c \in Chunk /\ First(c)
    BY FrameTypes, FailureFacts DEF Tags
  <2> HIDE DEF c, told
  <2>2. OutputFramed'
    BY <1>1, <1>5, <2>1, FramedAppend DEF IInv, Continues
  <2>3. /\ Len(wire) \in Nat /\ DOMAIN wire = 1..Len(wire)
        /\ Len(wire') = Len(wire) + 1 /\ DOMAIN wire' = 1..(Len(wire) + 1)
        /\ \A i \in 1..Len(wire) : wire'[i] = wire[i]
    BY <1>5, <2>1, Appended DEF IInv, TypeOK
  <2>4. \A i \in 1..Len(wire) : ~(Whole(wire'[i]) /\ wire'[i].msg.kind = "completed")
    BY <1>3, <2>3 DEF Told
  <2>5. Concluded'
    <3>1. pc' = "kill" /\ outcome' = "ok"
      BY <1>1, <1>5
    <3>2. ASSUME NEW i \in DOMAIN wire', Whole(wire'[i]), wire'[i].msg.kind = "completed"
          PROVE  i = Len(wire')
      BY <2>3, <2>4, <3>2
    <3> QED
      BY <3>1, <3>2 DEF Concluded, Told
  <2> QED
    BY <1>2, <2>2, <2>5 DEF IInv
<1> QED
  BY <1>1, <1>4, <1>5

(* main()'s engine_error frame follows no conclusion. *)
LEMMA ReportPreserves ==
  ASSUME IInv, TypeOK', Report
  PROVE  IInv'
<1> DEFINE c == Piece(Load(failure(request # NoMessage, "engine_error")))
<1>1. /\ pc = "report" /\ pc' = "exit" /\ outcome' = outcome
      /\ wire' = wire \/ wire' = Append(wire, c)
  BY DEF Report
<1>2. Before' /\ Backpressure' /\ Continues' /\ KilledOnlyConcludes'
  BY <1>1 DEF IInv, Before, Backpressure, Continues, KilledOnlyConcludes
<1>3. \A i \in DOMAIN wire : ~Told(i)
  BY <1>1 DEF IInv, Concluded
<1>4. CASE wire' = wire
  BY <1>1, <1>2, <1>3, <1>4 DEF IInv, Concluded, Told, OutputFramed, Diagnostic
<1>5. CASE wire' = Append(wire, c)
  <2>1. (request # NoMessage) \in BOOLEAN
    OBVIOUS
  <2>2. c \in Chunk /\ Diagnostic(c)
    BY <2>1, FrameTypes, FailureFacts DEF Tags, Diagnostic
  <2> HIDE DEF c
  <2>3. OutputFramed'
    BY <1>5, <2>2, FramedAppend DEF IInv
  <2>4. /\ Len(wire) \in Nat /\ DOMAIN wire = 1..Len(wire)
        /\ Len(wire') = Len(wire) + 1 /\ DOMAIN wire' = 1..(Len(wire) + 1)
        /\ \A i \in 1..Len(wire) : wire'[i] = wire[i]
    BY <1>5, <2>2, Appended DEF IInv, TypeOK
  <2>5. Concluded'
    BY <1>1, <1>3, <1>5, <2>4 DEF Concluded, Told
  <2> QED
    BY <1>2, <2>3, <2>5 DEF IInv
<1> QED
  BY <1>1, <1>4, <1>5

(* The remaining steps leave stdout alone. *)
LEMMA BufferPreserves ==
  ASSUME IInv, TypeOK',
         Spawn \/ MemoryCeiling \/ DrainWaits \/ GuestEof \/ GuestEvent \/ Reap
  PROVE  IInv'
<1>1. wire' = wire
  BY DEF Spawn, MemoryCeiling, DrainWaits, GuestEof, GuestEvent, Reap
<1>2. OutputFramed'
  BY <1>1 DEF IInv, OutputFramed, Diagnostic
<1> USE <1>1, <1>2 DEF IInv, Before, Backpressure, Concluded, Told, Continues, KilledOnlyConcludes
<1>3. CASE Spawn
  BY <1>3 DEF Spawn, AdmitRequest, RequestPiece, Idle, NoMessage, pending
<1>4. CASE MemoryCeiling
  <2> DEFINE w == Load(failure(TRUE, "memory_limit"))
  <2>1. w.msg.kind = "completed" /\ w.off = 0 /\ pending(w)
    BY DEF Load, failure, pending
  <2> HIDE DEF w
  <2>2. \/ /\ pc \in Loop /\ pc' \in Loop /\ outcome' = outcome
           /\ ~pending(to_host) /\ to_host' = w /\ completed'
        \/ pc \in Loop /\ pc' = "kill" /\ outcome' # "overrun_host"
    BY <1>4 DEF MemoryCeiling, QueueForHost, w
  <2>3. Before' /\ Backpressure' /\ KilledOnlyConcludes'
    BY <2>1, <2>2
  <2>4. Concluded'
    BY <2>1, <2>2
  <2>5. Continues'
    BY <2>1, <2>2
  <2> QED
    BY <2>3, <2>4, <2>5
<1>5. CASE DrainWaits
  BY <1>5 DEF DrainWaits, AfterDrain
<1>6. CASE GuestEof
  BY <1>6 DEF GuestEof, GuestReadable
<1>7. CASE GuestEvent
  <2> DEFINE m == Head(guest_out).msg
  <2>1. /\ pc \in Loop /\ pc' \in Loop /\ outcome' = outcome
        /\ ~completed /\ ~guest_closed /\ ~pending(to_host)
        /\ to_host' = Load(m) /\ completed' = (m.kind = "completed")
        /\ guest_closed' = guest_closed /\ killed' = killed
    BY <1>7 DEF GuestEvent, GuestPiece, GuestReadable, QueueForHost
  <2> HIDE DEF m
  <2>2. to_host'.msg = m /\ to_host'.off = 0
    BY <2>1 DEF Load
  <2>3. Before' /\ Backpressure' /\ KilledOnlyConcludes'
    BY <2>1
  <2>4. Concluded'
    BY <2>1, <2>2
  <2>5. Continues'
    BY <2>1, <2>2
  <2> QED
    BY <2>3, <2>4, <2>5
<1>8. CASE Reap
  <2> DEFINE w == Load(failure(TRUE, Verdict(status)))
  <2>1. w.msg.kind = "completed" /\ w.off = 0 /\ pending(w)
    BY DEF Load, failure, pending
  <2> HIDE DEF w
  <2>2. \/ /\ pc \in Loop /\ pc' \in Loop /\ outcome' = outcome
           /\ ~pending(to_host) /\ to_host' = w /\ completed'
        \/ pc \in Loop /\ pc' = "kill" /\ outcome' # "overrun_host"
    BY <1>8 DEF Reap, QueueForHost, IInv, Backpressure, GuestGone, w
  <2>3. Before' /\ Backpressure' /\ KilledOnlyConcludes'
    BY <2>1, <2>2
  <2>4. Concluded'
    BY <2>1, <2>2
  <2>5. Continues'
    BY <2>1, <2>2
  <2> QED
    BY <2>3, <2>4, <2>5
<1> QED
  BY <1>3, <1>4, <1>5, <1>6, <1>7, <1>8

(* The cleanup after the loop, and the death of the supervisor. *)
LEMMA LeavingPreserves ==
  ASSUME IInv, TypeOK', Kill \/ Wait \/ Lost
  PROVE  IInv'
<1>1. wire' = wire /\ to_host' = to_host /\ outcome' = outcome
  BY DEF Kill, Wait, Lost
<1>2. OutputFramed'
  BY <1>1 DEF IInv, OutputFramed, Diagnostic
<1> USE DEF IInv, Before, Backpressure, Concluded, Told, Continues, KilledOnlyConcludes
<1>3. CASE Kill
  BY <1>1, <1>2, <1>3 DEF Kill
<1>4. CASE Wait
  BY <1>1, <1>2, <1>4 DEF Wait
<1>5. CASE Lost
  BY <1>1, <1>2, <1>5 DEF Lost
<1> QED
  BY <1>3, <1>4, <1>5

(* IInv is inductive. *)
THEOREM Invariance == Spec => []IInv
<1>1. Init => IInv
  <2> SUFFICES ASSUME Init PROVE IInv
    OBVIOUS
  <2>1. TypeOK
    BY TypeInit
  <2> QED
    BY <2>1 DEF Init, IInv, Before, Backpressure, Concluded, Continues, OutputFramed,
                KilledOnlyConcludes
<1>2. IInv /\ [Next]_vars => IInv'
  <2> SUFFICES ASSUME IInv, [Next]_vars PROVE IInv'
    OBVIOUS
  <2>1. TypeOK'
    BY TypeStep DEF IInv
  <2>2. CASE QuietStep
    BY <2>1, <2>2, QuietPreserves
  <2>3. CASE Spawn \/ MemoryCeiling \/ DrainWaits \/ GuestEof \/ GuestEvent \/ Reap
    BY <2>1, <2>3, BufferPreserves
  <2>4. CASE Drain
    BY <2>1, <2>4, DrainPreserves
  <2>5. CASE Expire
    BY <2>1, <2>5, ExpirePreserves
  <2>6. CASE Report
    BY <2>1, <2>6, ReportPreserves
  <2>7. CASE Kill \/ Wait \/ Lost
    BY <2>1, <2>7, LeavingPreserves
  <2>8. CASE Terminated \/ UNCHANGED vars
    <3>1. UNCHANGED vars
      BY <2>8 DEF Terminated
    <3>2. Before' /\ Backpressure' /\ KilledOnlyConcludes'
      BY <3>1 DEF IInv, Before, Backpressure, KilledOnlyConcludes
    <3>3. Concluded' /\ Continues' /\ OutputFramed'
      BY <3>1 DEF IInv, Concluded, Told, Continues, OutputFramed, Diagnostic
    <3> QED
      BY <2>1, <3>2, <3>3 DEF IInv
  <2> QED
    BY <2>2, <2>3, <2>4, <2>5, <2>6, <2>7, <2>8 DEF Next, SupervisorStep, QuietStep
<1> QED
  BY <1>1, <1>2, PTL DEF Spec

(* supervisor.rs never meets the error of Writer::enqueue on its host side. *)
THEOREM NeverOverrun == Spec => []OutputNeverOverrun
<1>1. IInv => OutputNeverOverrun
  BY DEF IInv, Backpressure, OutputNeverOverrun
<1> QED
  BY <1>1, Invariance, PTL

(* Stdout is a sequence of whole frames, whatever host and guest do. *)
THEOREM Framing == Spec => []OutputFramed
<1>1. IInv => OutputFramed
  BY DEF IInv
<1> QED
  BY <1>1, Invariance, PTL

(* Nothing follows a complete conclusion on stdout. *)
THEOREM ConclusionIsLast == Spec => []ResultIsLast
<1>1. IInv => ResultIsLast
  BY DEF IInv, Concluded, Told, ResultIsLast
<1> QED
  BY <1>1, Invariance, PTL

(* After SIGKILL only a conclusion is written. *)
THEOREM KillSilences == Spec => SilentAfterKill
<1> DEFINE A == killed /\ wire' # wire => wire'[Len(wire')].msg.kind = "completed"
<1>1. IInv /\ TypeOK' /\ [Next]_vars => [A]_vars
  <2> SUFFICES ASSUME IInv, TypeOK', Next, killed, wire' # wire
               PROVE  wire'[Len(wire')].msg.kind = "completed"
    BY DEF IInv, TypeOK
  <2>1. ~QuietStep
    BY QuietSteps
  <2>2. ~(Spawn \/ MemoryCeiling \/ DrainWaits \/ GuestEof \/ GuestEvent \/ Reap)
    BY DEF Spawn, MemoryCeiling, DrainWaits, GuestEof, GuestEvent, Reap
  <2>3. ~(Kill \/ Wait \/ Lost \/ Terminated)
    BY DEF Kill, Wait, Lost, Terminated
  <2>4. Drain \/ Expire \/ Report
    BY <2>1, <2>2, <2>3 DEF Next, SupervisorStep, QuietStep
  <2>5. ASSUME NEW c \in Chunk, wire' = Append(wire, c)
        PROVE  wire'[Len(wire')] = c
    BY <2>5, Appended DEF IInv, TypeOK
  <2>6. CASE Drain
    <3>1. Piece(to_host) \in Chunk /\ wire' = Append(wire, Piece(to_host))
      BY <2>6, FrameTypes DEF Drain, IInv, TypeOK
    <3>2. Piece(to_host).msg.kind = "completed"
      BY <2>6 DEF Drain, IInv, KilledOnlyConcludes, Piece
    <3> QED
      BY <2>5, <3>1, <3>2
  <2>7. CASE Expire
    <3> DEFINE c == Piece(Load(failure(TRUE, "wall_timeout")))
    <3>1. wire' = Append(wire, c)
      BY <2>7 DEF Expire
    <3>2. c \in Chunk /\ c.msg.kind = "completed"
      <4>1. "wall_timeout" \in Tags /\ TRUE \in BOOLEAN
        BY DEF Tags
      <4> QED
        BY <4>1, FrameTypes DEF Piece, Load, failure
    <3> HIDE DEF c
    <3> QED
      BY <2>5, <3>1, <3>2
  <2>8. CASE Report
    <3> DEFINE c == Piece(Load(failure(request # NoMessage, "engine_error")))
    <3>1. wire' = Append(wire, c)
      BY <2>8 DEF Report
    <3>2. (request # NoMessage) \in BOOLEAN
      OBVIOUS
    <3>3. c \in Chunk /\ c.msg.kind = "completed"
      <4>1. "engine_error" \in Tags
        BY DEF Tags
      <4> QED
        BY <3>2, <4>1, FrameTypes DEF Piece, Load, failure
    <3> HIDE DEF c
    <3> QED
      BY <2>5, <3>1, <3>3
  <2> QED
    BY <2>4, <2>6, <2>7, <2>8
<1> HIDE DEF A
<1>2. QED
  BY <1>1, TypeCorrect, Invariance, PTL DEF Spec, SilentAfterKill, A

-----------------------------------------------------------------------------
(* The end is told truly.  A verdict is chosen when the guest is reaped, after
   its end of the pipe was seen empty: a result it had written whole is still in
   the pipe, or the loop has accepted it.                                     *)

Truthful(m) ==
  m.kind = "completed" =>
    \/ m.tag = "engine_error"
    \/ m.tag = "result" /\ finished
    \/ m.tag = "wall_timeout" /\ expired
    \/ m.tag = "memory_limit" /\ MemoryProbe
    \/ child = "reaped" /\ m.tag = Verdict(status) /\ ~finished

WireTruthful   == \A i \in DOMAIN wire : Truthful(wire[i].msg)
BufferTruthful == pending(to_host) => Truthful(to_host.msg)

OwnResult(c) == Whole(c) /\ c.msg.own /\ c.msg.kind = "completed"

(* The guest's own conclusions are results. *)
OfGuest(m) == m.kind = "completed" => m.tag = "result"
GuestConcludes ==
  /\ \A i \in DOMAIN guest_out :
       OfGuest(guest_out[i].msg) /\ (OwnResult(guest_out[i]) => finished)
  /\ OfGuest(guest_writer.msg)

(* Without a guest there is nothing to tell but a diagnostic. *)
Guestless == {"admit", "report", "exit", "lost"}
Unborn == /\ pc = "admit" => child = "none" /\ ~guest_closed
          /\ child = "none" =>
               /\ pc \in Guestless /\ guest_out = <<>> /\ ~finished /\ ~pending(to_host)
               /\ \A i \in DOMAIN wire : Diagnostic(wire[i])

ResultKept == pc \in Loop /\ ~completed =>
  /\ finished => \E i \in DOMAIN guest_out : OwnResult(guest_out[i])
  /\ guest_closed => guest_out = <<>> /\ ~OutOpen

Fate == WireTruthful /\ BufferTruthful /\ GuestConcludes /\ Unborn /\ ResultKept

(* Steps that change nothing Fate speaks of, and do not enter the loop. *)
FateAside ==
  /\ UNCHANGED <<wire, to_host, completed, guest_closed, guest_out, guest_writer,
                 child, status, finished>>
  /\ (expired => expired') /\ ("out" \in guest_shut => "out" \in guest_shut')
  /\ pc' \in Loop => pc \in Loop
  /\ pc \in Guestless => pc' \in Guestless
  /\ pc' = "admit" => pc = "admit"

LEMMA AsideSteps ==
  \/ AdmitFails \/ AdmitPartial \/ Refuse \/ InTime \/ MemoryFits
  \/ HostSilent \/ HostEof \/ HostPartial \/ HostRefused \/ HostReply
  \/ FeedWaits \/ FeedBroken \/ Feed \/ DrainWaits \/ DrainBroken
  \/ GuestSkipped \/ NotReaped \/ Kill \/ Lost \/ Tick \/ Host \/ GuestReads \/ GuestCloses
  \/ Terminated \/ UNCHANGED vars
  => FateAside
<1> USE DEF FateAside, Guestless
<1>1. AdmitFails \/ AdmitPartial \/ Refuse => FateAside
  BY DEF AdmitFails, AdmitPartial, Refuse, AdmitRequest, RequestPiece
<1>2. InTime \/ MemoryFits \/ GuestSkipped \/ NotReaped => FateAside
  BY DEF InTime, MemoryFits, GuestSkipped, NotReaped
<1>3. HostSilent \/ HostEof \/ HostPartial \/ HostRefused => FateAside
  BY DEF HostSilent, HostEof, HostPartial, HostRefused, HostPiece
<1>4. HostReply => FateAside
  BY DEF HostReply, HostPiece
<1>5. FeedWaits \/ FeedBroken \/ Feed \/ DrainWaits \/ DrainBroken => FateAside
  BY DEF FeedWaits, FeedBroken, Feed, DrainWaits, DrainBroken, AfterDrain
<1>6. Kill \/ Lost \/ Tick \/ GuestReads \/ GuestCloses \/ Terminated \/ UNCHANGED vars => FateAside
  BY DEF Kill, Lost, Tick, GuestReads, GuestCloses, Terminated
<1>7. Host => FateAside
  BY DEF Host, HostWrites, HostReads, HostCloses, HostDeaf
<1> QED
  BY <1>1, <1>2, <1>3, <1>4, <1>5, <1>6, <1>7

LEMMA AsidePreserves == Fate /\ FateAside => Fate'
BY DEF Fate, FateAside, WireTruthful, BufferTruthful, Truthful, GuestConcludes, OfGuest, Unborn, ResultKept,
       OwnResult, OutOpen

(* A piece put on stdout tells the truth if its frame does. *)
LEMMA VerdictAppend ==
  ASSUME TypeOK, NEW c \in Chunk, wire' = Append(wire, c), Truthful(c.msg),
         WireTruthful, UNCHANGED <<expired, child, status, finished>>
  PROVE  WireTruthful'
<1>1. /\ DOMAIN wire = 1..Len(wire) /\ DOMAIN wire' = 1..(Len(wire) + 1)
      /\ Len(wire) \in Nat /\ wire'[Len(wire) + 1] = c
      /\ \A i \in 1..Len(wire) : wire'[i] = wire[i]
  BY Appended DEF TypeOK
<1> SUFFICES ASSUME NEW i \in 1..(Len(wire) + 1) PROVE Truthful(wire[i].msg)'
  BY <1>1 DEF WireTruthful
<1>2. CASE i = Len(wire) + 1
  BY <1>1, <1>2 DEF Truthful
<1>3. CASE i # Len(wire) + 1
  <2>1. i \in 1..Len(wire)
    BY <1>1, <1>3
  <2> QED
    BY <1>1, <2>1 DEF WireTruthful, Truthful
<1> QED
  BY <1>2, <1>3

(* The steps that write to stdout. *)
LEMMA WritePreservesFate ==
  ASSUME TypeOK, Fate, Drain \/ Expire \/ Report
  PROVE  Fate'
<1>1. /\ UNCHANGED <<expired, completed, guest_closed, guest_out, guest_writer, child, status,
                     guest_shut, finished>>
      /\ pc # "admit" /\ pc' # "admit" /\ (pc' \in Loop => pc \in Loop)
  BY DEF Drain, AfterDrain, Expire, Report
<1>2. GuestConcludes' /\ ResultKept' /\ (child # "none" => Unborn')
  BY <1>1 DEF Fate, GuestConcludes, OfGuest, Unborn, ResultKept, OwnResult, OutOpen
<1>n. Drain \/ Expire => child # "none"
  BY DEF Drain, Expire, Fate, Unborn, Guestless
<1>3. CASE Drain
  <2>1. /\ pending(to_host) /\ to_host \in Writer
        /\ wire' = Append(wire, Piece(to_host)) /\ to_host' = Advance(to_host)
    BY <1>3 DEF Drain, Unsent, TypeOK
  <2>2. Piece(to_host) \in Chunk /\ Piece(to_host).msg = to_host.msg
    BY <2>1, FrameTypes DEF Piece
  <2>3. Truthful(to_host.msg)
    BY <2>1 DEF Fate, BufferTruthful
  <2>4. WireTruthful'
    BY <1>1, <2>1, <2>2, <2>3, VerdictAppend DEF Fate
  <2>5. to_host'.msg \in {NoMessage, to_host.msg}
    BY <2>1 DEF Advance, Idle, Writer
  <2>6. BufferTruthful'
    BY <1>1, <2>3, <2>5 DEF BufferTruthful, Truthful, NoMessage
  <2> QED
    BY <1>2, <1>3, <1>n, <2>4, <2>6 DEF Fate
<1>4. CASE Expire
  <2> DEFINE told == Load(failure(TRUE, "wall_timeout"))
  <2>e. expired
    BY <1>4 DEF Expire, OutOfTime
  <2>1. /\ told.msg.tag = "wall_timeout" /\ Piece(told).msg.tag = "wall_timeout"
        /\ Piece(told) \in Chunk /\ ~pending(Advance(told))
    <3>1. told \in Writer /\ Advance(told) = Idle /\ told.msg.tag = "wall_timeout"
          /\ Piece(told).msg.tag = "wall_timeout"
      BY FrameTypes, FailureFacts DEF Tags
    <3> HIDE DEF told
    <3>2. Piece(told) \in Chunk
      BY <3>1, FrameTypes
    <3> QED
      BY <3>1, <3>2 DEF Idle, NoMessage, pending
  <2>2. to_host' \in {to_host, told, Advance(told)}
        /\ (to_host' = to_host => wire' = wire \/ to_host = Advance(told))
        /\ wire' \in {wire, Append(wire, Piece(told))}
    BY <1>4 DEF Expire
  <2> HIDE DEF told
  <2>3. BufferTruthful'
    BY <1>1, <2>e, <2>1, <2>2 DEF Fate, BufferTruthful, Truthful
  <2>4. Truthful(Piece(told).msg)
    BY <2>e, <2>1 DEF Truthful
  <2>5. wire' = Append(wire, Piece(told)) => WireTruthful'
    BY <1>1, <2>1, <2>4, VerdictAppend DEF Fate
  <2>6. wire' = wire => WireTruthful'
    BY <1>1 DEF Fate, WireTruthful, BufferTruthful, Truthful
  <2> QED
    BY <1>2, <1>4, <1>n, <2>2, <2>3, <2>5, <2>6 DEF Fate
<1>5. CASE Report
  <2> DEFINE c == Piece(Load(failure(request # NoMessage, "engine_error")))
  <2>1. (request # NoMessage) \in BOOLEAN /\ "engine_error" \in Tags
    BY DEF Tags
  <2>2. c \in Chunk /\ c.msg.tag = "engine_error"
    BY <2>1, FrameTypes, FailureFacts
  <2>3. to_host' = to_host /\ wire' \in {wire, Append(wire, c)}
    BY <1>5 DEF Report
  <2> HIDE DEF c
  <2>4. Truthful(c.msg)
    BY <2>2 DEF Truthful
  <2>5. wire' = Append(wire, c) => WireTruthful'
    BY <1>1, <2>2, <2>4, VerdictAppend DEF Fate
  <2>6. wire' = wire => WireTruthful'
    BY <1>1 DEF Fate, WireTruthful, BufferTruthful, Truthful
  <2>7. BufferTruthful'
    BY <1>1, <2>3 DEF Fate, WireTruthful, BufferTruthful, Truthful
  <2>8. ASSUME child = "none" PROVE Unborn'
    <3>1. \A i \in DOMAIN wire' : Diagnostic(wire'[i])
      BY <2>2, <2>3, <2>8, Appended DEF Fate, Unborn, Diagnostic, TypeOK
    <3>2. pc' = "exit"
      BY <1>5 DEF Report
    <3> QED
      BY <1>1, <2>3, <2>8, <3>1, <3>2 DEF Fate, Unborn, Guestless, Diagnostic
  <2> QED
    BY <1>2, <2>3, <2>5, <2>6, <2>7, <2>8 DEF Fate
<1> QED
  BY <1>3, <1>4, <1>5

(* Taking the first piece of the guest's pipe. *)
LEMMA Rest ==
  ASSUME NEW s \in Seq(Chunk), s # <<>>
  PROVE  /\ Tail(s) \in Seq(Chunk) /\ 1 \in DOMAIN s
         /\ \A i \in DOMAIN Tail(s) : i + 1 \in DOMAIN s /\ Tail(s)[i] = s[i + 1]
         /\ \A i \in DOMAIN s : i = 1 \/ (i - 1 \in DOMAIN Tail(s) /\ Tail(s)[i - 1] = s[i])
         /\ Head(s) = s[1]
OBVIOUS

(* A piece of the guest that is not its whole result leaves the pipe. *)
LEMMA GuestPieceFate ==
  ASSUME TypeOK, Fate, GuestPiece, UNCHANGED <<guest_writer, finished>>
  PROVE  /\ GuestConcludes' /\ OfGuest(Head(guest_out).msg)
         /\ OwnResult(Head(guest_out)) => finished
         /\ finished /\ ~OwnResult(Head(guest_out)) =>
              \E i \in DOMAIN guest_out' : OwnResult(guest_out'[i])
<1>1. /\ guest_out \in Seq(Chunk) /\ guest_out # <<>> /\ guest_out' = Tail(guest_out)
      /\ ~completed /\ pc \in Loop
  BY DEF TypeOK, GuestPiece, GuestReadable
<1>2. /\ 1 \in DOMAIN guest_out /\ Head(guest_out) = guest_out[1]
      /\ \A i \in DOMAIN guest_out' : i + 1 \in DOMAIN guest_out /\ guest_out'[i] = guest_out[i + 1]
      /\ \A i \in DOMAIN guest_out :
           i = 1 \/ (i - 1 \in DOMAIN guest_out' /\ guest_out'[i - 1] = guest_out[i])
  BY <1>1, Rest
<1>3. GuestConcludes' /\ OfGuest(Head(guest_out).msg) /\ (OwnResult(Head(guest_out)) => finished)
  BY <1>2 DEF Fate, GuestConcludes, OfGuest, OwnResult
<1>4. ASSUME finished, ~OwnResult(Head(guest_out))
      PROVE  \E i \in DOMAIN guest_out' : OwnResult(guest_out'[i])
  <2>1. PICK k \in DOMAIN guest_out : OwnResult(guest_out[k])
    BY <1>1, <1>4 DEF Fate, ResultKept
  <2>2. k # 1
    BY <1>2, <1>4, <2>1
  <2>3. k - 1 \in DOMAIN guest_out' /\ guest_out'[k - 1] = guest_out[k]
    BY <1>2, <2>2
  <2> QED
    BY <2>1, <2>3
<1> QED
  BY <1>3, <1>4

(* The steps that read the guest. *)
LEMMA ReadPreservesFate ==
  ASSUME TypeOK, Fate, GuestEof \/ GuestPartial \/ GuestRefused \/ GuestEvent
  PROVE  Fate'
<1>1. /\ pc \in Loop /\ pc' # "admit" /\ ~completed /\ ~guest_closed
      /\ UNCHANGED <<wire, guest_writer, expired, child, status, finished>>
  BY DEF GuestEof, GuestPartial, GuestRefused, GuestEvent, GuestPiece, GuestReadable,
         QueueForHost
<1>2. WireTruthful' /\ Unborn'
  <2>1. child # "none"
    BY <1>1 DEF Fate, Unborn, Guestless
  <2> QED
    BY <1>1, <2>1 DEF Fate, WireTruthful, Truthful, Unborn
<1>3. CASE GuestEof
  <2>1. /\ UNCHANGED <<to_host, completed, guest_out, guest_shut>> /\ ~OutOpen
        /\ guest_out = <<>>
    BY <1>3 DEF GuestEof
  <2> QED
    BY <1>1, <1>2, <2>1
    DEF Fate, BufferTruthful, Truthful, GuestConcludes, OfGuest, ResultKept, OwnResult, OutOpen
<1>4. CASE GuestPartial \/ GuestRefused
  <2>1. /\ GuestPiece /\ UNCHANGED <<to_host, completed, guest_closed>>
        /\ pc' \in Loop => ~OwnResult(Head(guest_out))
    BY <1>4 DEF GuestPartial, GuestRefused, OwnResult, Relayed
  <2>2. guest_out # <<>>
    BY <2>1 DEF GuestPiece
  <2> QED
    BY <1>1, <1>2, <2>1, <2>2, GuestPieceFate
    DEF Fate, BufferTruthful, Truthful, ResultKept, OwnResult
<1>5. CASE GuestEvent
  <2> DEFINE m == Head(guest_out).msg
  <2>1. /\ GuestPiece /\ Whole(Head(guest_out)) /\ Relayed(m)
        /\ completed' = (m.kind = "completed") /\ to_host' \in {to_host, Load(m)}
        /\ UNCHANGED guest_closed
    BY <1>5 DEF GuestEvent, QueueForHost
  <2>2. OfGuest(m) /\ (m.kind = "completed" => finished)
    BY <1>1, <2>1, GuestPieceFate DEF OwnResult, Relayed
  <2>3. ~completed' => ~OwnResult(Head(guest_out))
    BY <2>1 DEF OwnResult
  <2>4. guest_out # <<>>
    BY <2>1 DEF GuestPiece
  <2>5. BufferTruthful'
    <3>1. Load(m).msg = m
      BY DEF Load
    <3> HIDE DEF m
    <3> QED
      BY <1>1, <2>1, <2>2, <3>1 DEF Fate, BufferTruthful, Truthful, OfGuest
  <2> HIDE DEF m
  <2> QED
    BY <1>1, <1>2, <2>1, <2>3, <2>4, <2>5, GuestPieceFate
    DEF Fate, ResultKept, OwnResult
<1> QED
  BY <1>3, <1>4, <1>5

(* A guest that dies has fixed its fate: nothing true was said of it before. *)
LEMMA DyingPreservesFate ==
  ASSUME TypeOK, Fate, GuestExits \/ GuestDead \/ Wait
  PROVE  Fate'
<1>1. /\ UNCHANGED <<wire, to_host, completed, guest_closed, guest_out, guest_writer, expired,
                     finished>>
      /\ pc' \in Loop => pc \in Loop
      /\ pc' = "admit" => pc = "admit"
      /\ child # "none" /\ child' \notin {"none", "running"}
      /\ child = "reaped" => child' = "reaped" /\ status' = status
  BY DEF GuestExits, GuestDead, Wait
<1> QED
  BY <1>1
  DEF Fate, WireTruthful, BufferTruthful, Truthful, GuestConcludes, OfGuest, Unborn,
      ResultKept, OwnResult, OutOpen

(* A living guest has no verdict on it yet; its writes go to the pipe. *)
LEMMA WritesPreserveFate ==
  ASSUME TypeOK, Fate, GuestWrites
  PROVE  Fate'
<1>1. PICK w \in Written(guest_writer, GuestMessages) :
        /\ guest_out' = Append(guest_out, Piece(w)) /\ guest_writer' = Advance(w)
        /\ finished' = (finished \/ OwnResult(Piece(w)))
  BY DEF GuestWrites, OwnResult, Piece
<1>2. /\ child = "running" /\ OutOpen
      /\ UNCHANGED <<pc, wire, to_host, completed, guest_closed, expired, child, status>>
  BY DEF GuestWrites, OutOpen
<1>3. w \in Writer /\ OfGuest(w.msg) /\ Piece(w) \in Chunk
  <2>1. w \in Writer /\ OfGuest(w.msg)
    BY <1>1, MessagesAssumption, FrameTypes
    DEF Written, Load, TypeOK, Fate, GuestConcludes, OfGuest
  <2> QED
    BY <2>1, FrameTypes
<1>4. /\ DOMAIN guest_out' = 1..(Len(guest_out) + 1) /\ DOMAIN guest_out = 1..Len(guest_out)
      /\ Len(guest_out) \in Nat /\ guest_out'[Len(guest_out) + 1] = Piece(w)
      /\ \A i \in 1..Len(guest_out) : guest_out'[i] = guest_out[i]
  BY <1>1, <1>3, Appended DEF TypeOK
<1>5. GuestConcludes'
  <2>1. Piece(w).msg = w.msg /\ guest_writer'.msg \in {w.msg, NoMessage}
    BY <1>1, <1>3 DEF Piece, Advance, Idle, Writer
  <2>2. OfGuest(NoMessage)
    BY DEF OfGuest, NoMessage
  <2>3. \A i \in DOMAIN guest_out' :
          OfGuest(guest_out'[i].msg) /\ (OwnResult(guest_out'[i]) => finished')
    <3>1. finished => finished'
      BY <1>1
    <3>2. \A i \in 1..Len(guest_out) : OfGuest(guest_out[i].msg) /\ (OwnResult(guest_out[i]) => finished)
      BY <1>4 DEF Fate, GuestConcludes
    <3>3. OwnResult(Piece(w)) => finished'
      BY <1>1
    <3>4. \A i \in DOMAIN guest_out' : i = Len(guest_out) + 1 \/ i \in 1..Len(guest_out)
      BY <1>4
    <3> QED
      BY <1>3, <1>4, <2>1, <3>1, <3>2, <3>3, <3>4
  <2> QED
    BY <1>3, <2>1, <2>2, <2>3 DEF GuestConcludes, OfGuest, OwnResult
<1>6. ResultKept'
  <2> SUFFICES ASSUME pc \in Loop, ~completed PROVE ResultKept'
    BY <1>2 DEF ResultKept
  <2>1. ~guest_closed
    BY <1>2 DEF Fate, ResultKept
  <2>2. ASSUME finished' PROVE \E i \in DOMAIN guest_out' : OwnResult(guest_out'[i])
    <3>1. CASE OwnResult(Piece(w))
      BY <1>4, <3>1
    <3>2. CASE finished
      <4>1. PICK k \in DOMAIN guest_out : OwnResult(guest_out[k])
        BY <3>2 DEF Fate, ResultKept
      <4>2. k \in DOMAIN guest_out' /\ guest_out'[k] = guest_out[k]
        BY <1>4
      <4> QED
        BY <4>1, <4>2
    <3> QED
      BY <1>1, <2>2, <3>1, <3>2
  <2> QED
    BY <1>2, <2>1, <2>2 DEF ResultKept, OwnResult
<1>7. finished => finished'
  BY <1>1
<1> QED
  BY <1>2, <1>5, <1>6, <1>7
  DEF Fate, WireTruthful, BufferTruthful, Truthful, Unborn

(* The guest is spawned, stopped for its memory, reaped with a verdict. *)
LEMMA ProcessPreservesFate ==
  ASSUME IInv, Fate, Spawn \/ MemoryCeiling \/ Reap
  PROVE  Fate'
<1>1. UNCHANGED <<wire, guest_closed, guest_out, guest_writer, status, finished>>
  BY DEF Spawn, MemoryCeiling, Reap
<1>2. GuestConcludes'
  BY <1>1 DEF Fate, GuestConcludes, OfGuest
<1>3. CASE Spawn
  <2>1. /\ pc = "admit" /\ pc' = "watchdog" /\ child' = "running"
        /\ UNCHANGED <<to_host, completed>>
    BY <1>3 DEF Spawn, AdmitRequest, RequestPiece
  <2>2. /\ wire' = <<>> /\ ~pending(to_host') /\ child = "none" /\ ~finished /\ ~guest_closed
    BY <1>1, <2>1 DEF IInv, Before, Idle, NoMessage, pending, Fate, Unborn
  <2> QED
    BY <1>1, <1>2, <2>1, <2>2
    DEF Fate, WireTruthful, BufferTruthful, Unborn, ResultKept
<1>4. CASE MemoryCeiling
  <2> DEFINE w == Load(failure(TRUE, "memory_limit"))
  <2>1. w.msg.tag = "memory_limit"
    BY FailureFacts
  <2>2. /\ pc = "memory" /\ pc' # "admit" /\ child' = child
        /\ to_host' \in {to_host, w} /\ (pc' \in Loop => completed')
        /\ ~pending(to_host) \/ to_host' = to_host
        /\ MemoryProbe /\ child = "running" /\ expired' = expired
    BY <1>4 DEF MemoryCeiling, QueueForHost
  <2> HIDE DEF w
  <2>3. BufferTruthful'
    BY <1>1, <2>1, <2>2 DEF Fate, BufferTruthful, Truthful
  <2> QED
    BY <1>1, <1>2, <2>2, <2>3 DEF Fate, WireTruthful, Truthful, Unborn, ResultKept
<1>5. CASE Reap
  <2> DEFINE w == Load(failure(TRUE, Verdict(status)))
  <2>1. w.msg.tag = Verdict(status)
    BY FailureFacts
  <2>2. /\ pc = "reap" /\ pc' # "admit" /\ child = "zombie" /\ child' = "reaped"
        /\ completed' /\ guest_closed /\ ~completed
        /\ to_host' = w /\ expired' = expired
    BY <1>5 DEF Reap, QueueForHost, GuestGone, IInv, Backpressure
  <2> HIDE DEF w
  <2>3. ~finished
    <3>1. guest_out = <<>> /\ (finished => \E i \in DOMAIN guest_out : OwnResult(guest_out[i]))
      BY <2>2 DEF Fate, ResultKept
    <3> QED
      BY <3>1
  <2>4. BufferTruthful' /\ WireTruthful'
    BY <1>1, <2>1, <2>2, <2>3 DEF Fate, BufferTruthful, WireTruthful, Truthful
  <2> QED
    BY <1>1, <1>2, <2>2, <2>4 DEF Fate, Unborn, ResultKept
<1> QED
  BY <1>3, <1>4, <1>5

(* Fate is inductive on top of IInv. *)
THEOREM FateInvariant == Spec => []Fate
<1>1. Init => Fate
  BY DEF Init, Fate, WireTruthful, BufferTruthful, GuestConcludes, OfGuest, Unborn, Guestless,
         ResultKept, Idle, NoMessage, pending
<1>2. IInv /\ Fate /\ [Next]_vars => Fate'
  <2> SUFFICES ASSUME IInv, Fate, [Next]_vars PROVE Fate'
    OBVIOUS
  <2>1. TypeOK
    BY DEF IInv
  <2>2. CASE FateAside
    BY <2>2, AsidePreserves
  <2>3. CASE Drain \/ Expire \/ Report
    BY <2>1, <2>3, WritePreservesFate
  <2>4. CASE GuestEof \/ GuestPartial \/ GuestRefused \/ GuestEvent
    BY <2>1, <2>4, ReadPreservesFate
  <2>5. CASE GuestExits \/ GuestDead \/ Wait
    BY <2>1, <2>5, DyingPreservesFate
  <2>6. CASE GuestWrites
    BY <2>1, <2>6, WritesPreserveFate
  <2>7. CASE Spawn \/ MemoryCeiling \/ Reap
    BY <2>7, ProcessPreservesFate
  <2> QED
    BY <2>2, <2>3, <2>4, <2>5, <2>6, <2>7, AsideSteps DEF Next, SupervisorStep, Kernel, Guest
<1> QED
  BY <1>1, <1>2, Invariance, PTL DEF Spec

(* A verdict on a guest's death says how it died, and is never given on one
   that had written its result. *)
THEOREM VerdictsAreTrue == Spec => []FateReported
<1>1. Fate => FateReported
  BY DEF Fate, WireTruthful, Truthful, FateReported
<1> QED
  BY <1>1, FateInvariant, PTL

-----------------------------------------------------------------------------
(* The host sees only authorised calls, whatever a compromised guest sends. *)
(* Calls whose first piece is on stdout; the counter is one ahead of them
   while a call waits in the buffer. *)
Begun == IF QueuedCall THEN sequence - 1 ELSE sequence

Numbered ==
  /\ \A i \in CallsOnWire : wire[i].msg.seq \in 1 .. Begun
  /\ \A k \in 1 .. Begun : \E i \in CallsOnWire : wire[i].msg.seq = k

(* One call may be ahead of the replies: the outstanding one. *)
Outstanding ==
  /\ sequence <= answered + 1
  /\ pc \in Loop \cup {"admit"} /\ pending_sequence = 0 => sequence = answered
  /\ pc \in Loop \cup {"admit"} /\ pending_sequence # 0 => sequence = answered + 1

QueuedAuthorised ==
  QueuedCall => LET m == to_host.msg
                IN  /\ m.own /\ m.tag = "listed" /\ request.tag # "validate"
                    /\ m.seq = sequence /\ sequence \in 1 .. request.seq

CInv == Numbered /\ Outstanding /\ QueuedAuthorised /\ CallsAuthorised

-----------------------------------------------------------------------------
(* Lemmas about stdout. *)

(* Numbers on stdout are naturals, positions are indices. *)
LEMMA CallTypes ==
  ASSUME TypeOK, NEW i \in CallsOnWire
  PROVE  /\ wire[i].msg \in Message /\ wire[i].msg.seq \in Nat
         /\ i \in Nat /\ i <= Len(wire) /\ Len(wire) \in Nat
<1>1. i \in 1..Len(wire) /\ wire[i] \in Chunk
  BY DEF CallsOnWire, TypeOK
<1>2. wire[i].msg \in Message
  BY <1>1 DEF Chunk
<1>3. wire[i].msg.seq \in Nat
  BY <1>2 DEF Message
<1> QED
  BY <1>1, <1>2, <1>3 DEF TypeOK

SameCalls == /\ CallsOnWire' = CallsOnWire
             /\ \A i \in CallsOnWire : wire'[i] = wire[i]

(* A piece that does not begin a call leaves the calls on stdout what they are. *)
LEMMA SameCallsAppend ==
  ASSUME TypeOK, NEW c \in Chunk, wire' = Append(wire, c),
         ~(First(c) /\ c.msg.kind = "call")
  PROVE  SameCalls
<1>1. /\ DOMAIN wire = 1..Len(wire) /\ DOMAIN wire' = 1..(Len(wire) + 1)
      /\ Len(wire) \in Nat
      /\ \A i \in 1..Len(wire) : wire'[i] = wire[i]
      /\ wire'[Len(wire) + 1] = c
  BY Appended DEF TypeOK
<1>2. \A i \in DOMAIN wire' : i \in DOMAIN wire \/ i = Len(wire) + 1
  BY <1>1
<1> QED
  BY <1>1, <1>2 DEF SameCalls, CallsOnWire

(* What is authorised stays so while requests keep and answers only grow. *)
LEMMA AuthorisedKept ==
  ASSUME CallsAuthorised, TypeOK, TypeOK', SameCalls,
         CallsOnWire = {} \/ request' = request, answered' >= answered
  PROVE  CallsAuthorised'
<1>1. CASE CallsOnWire = {}
  BY <1>1 DEF SameCalls, CallsAuthorised
<1>2. CASE request' = request
  <2>1. ASSUME NEW i \in CallsOnWire PROVE wire[i].msg.seq \in Nat
    BY CallTypes
  <2>2. \A i, j \in CallsOnWire : i < j => wire'[i].msg.seq < wire'[j].msg.seq
    BY DEF SameCalls, CallsAuthorised
  <2>3. ASSUME NEW i \in CallsOnWire
        PROVE  LET m == wire'[i].msg
               IN  /\ m.own /\ m.tag = "listed" /\ request'.tag # "validate"
                   /\ m.seq \in 1 .. request'.seq /\ m.seq <= answered' + 1
                   /\ \A k \in 1 .. m.seq :
                        \E j \in CallsOnWire : j <= i /\ wire'[j].msg.seq = k
    <3> DEFINE m == wire[i].msg
    <3>1. /\ m.own /\ m.tag = "listed" /\ request.tag # "validate"
          /\ m.seq \in 1 .. request.seq /\ m.seq <= answered + 1
          /\ \A k \in 1 .. m.seq :
               \E j \in CallsOnWire : j <= i /\ wire[j].msg.seq = k
      BY DEF CallsAuthorised
    <3>2. m.seq <= answered' + 1
      <4>1. answered \in Nat /\ answered' \in Nat
        BY DEF TypeOK
      <4>2. m.seq \in Nat /\ m.seq <= answered + 1 /\ answered' >= answered
        BY <2>1, <3>1
      <4> HIDE DEF m
      <4> QED
        BY <4>1, <4>2
    <3>3. wire'[i].msg = m /\ \A j \in CallsOnWire : wire'[j].msg = wire[j].msg
      BY DEF SameCalls
    <3> HIDE DEF m
    <3> QED
      BY <1>2, <3>1, <3>2, <3>3
  <2> QED
    BY <2>2, <2>3 DEF SameCalls, CallsAuthorised
<1> QED
  BY <1>1, <1>2

(* The rest of CInv when neither the calls on stdout nor the counter change. *)
LEMMA NumberedKept ==
  ASSUME CInv, SameCalls, Begun' = Begun
  PROVE  Numbered'
BY DEF CInv, Numbered, SameCalls

-----------------------------------------------------------------------------
(* Steps that neither touch stdout or its buffer nor count anything. *)
CountsNothing ==
  /\ UNCHANGED <<wire, to_host, sequence, pending_sequence, answered>>
  /\ pc' \in Loop \cup {"admit"} => pc \in Loop \cup {"admit"}
  /\ request' = request \/ pc = "admit"

(* Every step is one of them or one of the seven treated below. *)
LEMMA StepCounts ==
  ASSUME [Next]_vars
  PROVE  CountsNothing \/ HostReply \/ Drain \/ Expire \/ Report
         \/ MemoryCeiling \/ Reap \/ GuestEvent
<1> USE DEF CountsNothing
<1>1. CASE AdmitFails \/ AdmitPartial \/ Refuse \/ Spawn
  BY <1>1 DEF AdmitFails, AdmitPartial, Refuse, Spawn, AdmitRequest, RequestPiece
<1>2. CASE InTime \/ MemoryFits \/ NotReaped
  BY <1>2 DEF InTime, MemoryFits, NotReaped
<1>3. CASE HostSilent \/ HostEof \/ HostPartial \/ HostRefused
  BY <1>3 DEF HostSilent, HostEof, HostPartial, HostRefused, HostPiece
<1>4. CASE FeedWaits \/ FeedBroken \/ Feed \/ DrainBroken
  BY <1>4 DEF FeedWaits, FeedBroken, Feed, DrainBroken
<1>5. CASE DrainWaits \/ GuestEof
  BY <1>5 DEF DrainWaits, AfterDrain, GuestEof
<1>6. CASE GuestSkipped \/ GuestPartial \/ GuestRefused
  BY <1>6 DEF GuestSkipped, GuestPartial, GuestRefused, GuestPiece
<1>7. CASE Kill \/ Wait \/ Lost
  BY <1>7 DEF Kill, Wait, Lost
<1>8. CASE Kernel
  BY <1>8 DEF Kernel, Tick, GuestExits, GuestDead
<1>9. CASE Host
  BY <1>9 DEF Host, HostWrites, HostReads, HostCloses, HostDeaf
<1>10. CASE Guest
  BY <1>10 DEF Guest, GuestReads, GuestWrites, GuestCloses
<1>11. CASE Terminated \/ UNCHANGED vars
  BY <1>11 DEF Terminated
<1> QED
  BY <1>1, <1>2, <1>3, <1>4, <1>5, <1>6, <1>7, <1>8, <1>9, <1>10, <1>11
  DEF Next, SupervisorStep

(* Before the request is admitted nothing was queued or written. *)
LEMMA NothingBefore ==
  ASSUME IInv, pc = "admit"
  PROVE  CallsOnWire = {} /\ ~QueuedCall
BY DEF IInv, Before, CallsOnWire, QueuedCall, Idle, NoMessage

(* Such steps preserve CInv. *)
LEMMA CountsNothingPreserves ==
  ASSUME IInv, TypeOK', CInv, CountsNothing
  PROVE  CInv'
<1>1. SameCalls
  BY DEF CountsNothing, SameCalls, CallsOnWire
<1>2. QueuedCall' = QueuedCall /\ Begun' = Begun
  BY DEF CountsNothing, QueuedCall, Begun
<1>3. Numbered'
  BY <1>1, <1>2, NumberedKept
<1>4. CallsAuthorised'
  BY <1>1, NothingBefore, AuthorisedKept DEF CountsNothing, CInv, IInv, TypeOK
<1>5. Outstanding'
  BY DEF CountsNothing, CInv, Outstanding
<1>6. QueuedAuthorised'
  BY <1>2, NothingBefore DEF CountsNothing, CInv, QueuedAuthorised
<1> QED
  BY <1>3, <1>4, <1>5, <1>6 DEF CInv

(* A reply answers the outstanding call, or ends the execution. *)
LEMMA HostReplyPreserves ==
  ASSUME IInv, TypeOK', CInv, HostReply
  PROVE  CInv'
<1>1. UNCHANGED <<wire, to_host, sequence, request>>
  BY DEF HostReply, HostPiece
<1>2. /\ pending_sequence # 0 /\ pc = "hostin"
      /\ \/ answered' = answered /\ pc' = "kill"
         \/ answered' = answered + 1 /\ pc' = "feed" /\ pending_sequence' = 0
  BY DEF HostReply, HostPiece, IsReply
<1>3. SameCalls /\ QueuedCall' = QueuedCall /\ Begun' = Begun
  BY <1>1 DEF SameCalls, CallsOnWire, QueuedCall, Begun
<1>4. Numbered'
  BY <1>3, NumberedKept
<1>5. answered \in Nat /\ sequence \in Nat /\ answered' >= answered
  BY <1>2 DEF IInv, TypeOK
<1>6. CallsAuthorised'
  BY <1>1, <1>3, <1>5, AuthorisedKept DEF CInv, IInv
<1>7. Outstanding'
  BY <1>1, <1>2, <1>5 DEF CInv, Outstanding
<1>8. QueuedAuthorised'
  BY <1>1, <1>3 DEF CInv, QueuedAuthorised
<1> QED
  BY <1>4, <1>6, <1>7, <1>8 DEF CInv

(* A verdict of the supervisor or of main() is no call: the counter, the answers
   and the calls on stdout stay, and no call is queued in its place. *)
LEMMA VerdictPreserves ==
  ASSUME IInv, TypeOK', CInv, Expire \/ Report \/ MemoryCeiling \/ Reap
  PROVE  CInv'
<1>1. /\ UNCHANGED <<sequence, pending_sequence, answered, request>>
      /\ pc' \in Loop \cup {"admit"} => pc \in Loop
  BY DEF Expire, Report, MemoryCeiling, Reap
<1>2. SameCalls
  <2>1. CASE wire' = wire
    BY <2>1 DEF SameCalls, CallsOnWire
  <2>2. ASSUME NEW own \in BOOLEAN, NEW type \in Tags,
               wire' = Append(wire, Piece(Load(failure(own, type))))
        PROVE  SameCalls
    <3> DEFINE c == Piece(Load(failure(own, type)))
    <3>1. c \in Chunk /\ c.msg.kind = "completed"
      BY FrameTypes, FailureFacts
    <3> HIDE DEF c
    <3> QED
      BY <2>2, <3>1, SameCallsAppend DEF IInv, c
  <2>3. CASE Expire
    BY <2>1, <2>2, <2>3 DEF Expire, Tags
  <2>4. CASE Report
    <3>1. (request # NoMessage) \in BOOLEAN /\ "engine_error" \in Tags
      BY DEF Tags
    <3> QED
      BY <2>1, <2>2, <2>4, <3>1 DEF Report
  <2>5. CASE MemoryCeiling \/ Reap
    BY <2>1, <2>5 DEF MemoryCeiling, Reap
  <2> QED
    BY <2>3, <2>4, <2>5
<1>3. \/ to_host' = to_host
      \/ ~pending(to_host) /\ ~QueuedCall'
  <2>1. CASE Report
    <3>1. to_host' = to_host
      BY <2>1 DEF Report
    <3> QED
      BY <3>1
  <2>2. ASSUME NEW own, NEW type, to_host' = Load(failure(own, type)) PROVE ~QueuedCall'
    BY <2>2, FailureFacts DEF QueuedCall
  <2>3. CASE Expire
    <3>1. ~pending(Idle)
      BY DEF pending, Idle, NoMessage
    <3>2. \/ to_host' = to_host
          \/ ~pending(to_host) /\ to_host' = Load(failure(TRUE, "wall_timeout"))
          \/ /\ ~pending(to_host)
             /\ to_host' = Advance(Load(failure(TRUE, "wall_timeout")))
      BY <2>3 DEF Expire
    <3>3. Advance(Load(failure(TRUE, "wall_timeout"))) = Idle
      BY FailureFacts
    <3>4. to_host' = Idle => ~QueuedCall'
      BY <3>1 DEF QueuedCall
    <3> QED
      BY <2>2, <3>2, <3>3, <3>4
  <2>4. CASE MemoryCeiling
    <3>1. \/ to_host' = to_host
          \/ ~pending(to_host) /\ to_host' = Load(failure(TRUE, "memory_limit"))
      BY <2>4 DEF MemoryCeiling, QueueForHost
    <3> QED
      BY <2>2, <3>1
  <2>5. CASE Reap
    <3>1. \/ to_host' = to_host
          \/ ~pending(to_host) /\ to_host' = Load(failure(TRUE, Verdict(status)))
      BY <2>5 DEF Reap, QueueForHost
    <3> QED
      BY <2>2, <3>1
  <2> QED
    BY <2>1, <2>3, <2>4, <2>5
<1>4. Begun' = Begun
  BY <1>1, <1>3 DEF Begun, QueuedCall
<1>5. Numbered'
  BY <1>2, <1>4, NumberedKept
<1>6. answered' >= answered
  BY <1>1 DEF IInv, TypeOK
<1>7. CallsAuthorised'
  BY <1>1, <1>2, <1>6, AuthorisedKept DEF CInv, IInv
<1>8. Outstanding'
  BY <1>1 DEF CInv, Outstanding
<1>9. QueuedAuthorised'
  BY <1>1, <1>3 DEF CInv, QueuedAuthorised, QueuedCall
<1> QED
  BY <1>5, <1>7, <1>8, <1>9 DEF CInv

(* A relayed frame enters an empty buffer; a call takes the next number. *)
LEMMA GuestEventPreserves ==
  ASSUME IInv, TypeOK', CInv, GuestEvent
  PROVE  CInv'
<1> DEFINE m == Head(guest_out).msg
<1>1. /\ pc \in Loop /\ pc' \in Loop /\ ~pending(to_host)
      /\ to_host' = Load(m) /\ Relayed(m)
      /\ UNCHANGED <<wire, answered, request>>
      /\ sequence' = (IF m.kind = "call" THEN sequence + 1 ELSE sequence)
      /\ pending_sequence' = (IF m.kind = "call" THEN sequence + 1 ELSE pending_sequence)
  BY DEF GuestEvent, GuestPiece, GuestReadable, QueueForHost
<1>2. /\ m \in Message /\ m.size \in Nat /\ m.size > 0
  <2>1. guest_out # <<>> /\ Whole(Head(guest_out))
    BY DEF GuestEvent, GuestPiece
  <2>2. Head(guest_out) \in Chunk
    BY <2>1, PipeTypes DEF IInv, TypeOK
  <2> QED
    BY <2>1, <2>2 DEF Whole, Chunk, Message
<1>3. sequence \in Nat /\ answered \in Nat /\ request.seq \in Nat
  BY DEF IInv, TypeOK, Message
<1> HIDE DEF m
<1>4. QueuedCall' <=> m.kind = "call"
  BY <1>1, <1>2 DEF QueuedCall, Load, pending
<1>5. Begun' = Begun
  BY <1>1, <1>3, <1>4 DEF Begun, QueuedCall
<1>6. SameCalls
  BY <1>1 DEF SameCalls, CallsOnWire
<1>7. Numbered'
  BY <1>5, <1>6, NumberedKept
<1>8. CallsAuthorised'
  <2>1. answered' >= answered
    BY <1>1, <1>3
  <2> QED
    BY <1>1, <1>6, <2>1, AuthorisedKept DEF CInv, IInv
<1>9. CASE m.kind = "call"
  <2>1. m.own /\ CallAllowed(m, sequence + 1)
    BY <1>1, <1>9 DEF Relayed
  <2>2. QueuedAuthorised'
    BY <1>1, <1>3, <1>9, <2>1 DEF QueuedAuthorised, CallAllowed, Load
  <2>3. Outstanding'
    BY <1>1, <1>3, <1>9, <2>1 DEF CInv, Outstanding, CallAllowed
  <2> QED
    BY <1>7, <1>8, <2>2, <2>3 DEF CInv
<1>10. CASE m.kind # "call"
  <2>1. QueuedAuthorised'
    BY <1>4, <1>10 DEF QueuedAuthorised
  <2>2. Outstanding'
    BY <1>1, <1>10 DEF CInv, Outstanding
  <2> QED
    BY <1>7, <1>8, <2>1, <2>2 DEF CInv
<1> QED
  BY <1>9, <1>10

(* A piece of the buffer goes to stdout; with the first piece of a call, that
   call is on stdout and waits no more. *)
LEMMA DrainCounts ==
  ASSUME IInv, TypeOK', CInv, Drain
  PROVE  CInv'
<1> DEFINE c == Piece(to_host)
           m == to_host.msg
           n == Len(wire) + 1
<1>1. /\ UNCHANGED <<sequence, pending_sequence, answered, request>>
      /\ pc \in Loop /\ pending(to_host) /\ wire' = Append(wire, c)
      /\ to_host' = Advance(to_host)
  BY DEF Drain, AfterDrain, Unsent
<1>2. c \in Chunk /\ c.msg = m /\ c.no = to_host.off + 1
  BY FrameTypes DEF IInv, TypeOK, Piece
<1>3. /\ m \in Message /\ to_host.off \in Nat /\ to_host \in Writer
      /\ sequence \in Nat /\ answered \in Nat /\ request.seq \in Nat
  BY DEF IInv, TypeOK, Writer, Message
<1>4. ~QueuedCall'
  <2>1. CASE to_host' = Idle
    BY <2>1 DEF QueuedCall, Idle, NoMessage
  <2>2. CASE to_host' = [to_host EXCEPT !.off = to_host.off + 1]
    <3>1. to_host'.off = to_host.off + 1
      BY <1>3, <2>2 DEF Writer
    <3> QED
      BY <1>3, <3>1 DEF QueuedCall
  <2> QED
    BY <1>1, <2>1, <2>2 DEF Advance
<1> HIDE DEF c
<1>5. Outstanding'
  BY <1>1 DEF CInv, Outstanding, Drain, AfterDrain
<1>6. QueuedAuthorised'
  BY <1>4 DEF QueuedAuthorised
<1>7. answered' >= answered
  BY <1>1, <1>3
<1>8. CASE ~(First(c) /\ m.kind = "call")
  <2>1. SameCalls
    BY <1>1, <1>2, <1>8, SameCallsAppend DEF IInv
  <2>2. ~QueuedCall
    BY <1>2, <1>3, <1>8 DEF QueuedCall, First
  <2>3. Begun' = Begun
    BY <1>1, <1>4, <2>2 DEF Begun
  <2>4. Numbered'
    BY <2>1, <2>3, NumberedKept
  <2>5. CallsAuthorised'
    BY <1>1, <1>7, <2>1, AuthorisedKept DEF CInv, IInv
  <2> QED
    BY <1>5, <1>6, <2>4, <2>5 DEF CInv
<1>9. CASE First(c) /\ m.kind = "call"
  <2>1. QueuedCall
    BY <1>1, <1>2, <1>3, <1>9 DEF QueuedCall, First
  <2>2. /\ m.own /\ m.tag = "listed" /\ request.tag # "validate"
        /\ m.seq = sequence /\ sequence \in 1 .. request.seq
    BY <2>1 DEF CInv, QueuedAuthorised
  <2>3. Begun = sequence - 1 /\ Begun' = sequence
    BY <1>1, <1>4, <2>1 DEF Begun
  <2>4. /\ Len(wire) \in Nat /\ DOMAIN wire = 1..Len(wire) /\ DOMAIN wire' = 1..n
        /\ \A i \in 1..Len(wire) : wire'[i] = wire[i]
        /\ wire'[n] = c
    BY <1>1, <1>2, Appended DEF IInv, TypeOK
  <2>5. n \notin CallsOnWire /\ \A i \in CallsOnWire : i \in 1..Len(wire) /\ i < n
    BY <2>4 DEF CallsOnWire
  <2>6. CallsOnWire' = CallsOnWire \cup {n}
    BY <1>2, <1>9, <2>4 DEF CallsOnWire
  <2>7. /\ wire'[n].msg.seq = sequence
        /\ \A i \in CallsOnWire : wire'[i] = wire[i] /\ wire[i].msg.seq \in 1 .. (sequence - 1)
    BY <1>2, <2>2, <2>3, <2>4, <2>5 DEF CInv, Numbered
  <2>8. \A k \in 1 .. sequence : \E j \in CallsOnWire' : wire'[j].msg.seq = k
    <3> SUFFICES ASSUME NEW k \in 1 .. sequence
                 PROVE  \E j \in CallsOnWire' : wire'[j].msg.seq = k
      OBVIOUS
    <3>1. CASE k = sequence
      BY <2>6, <2>7, <3>1
    <3>2. CASE k # sequence
      <4>1. k \in 1 .. (sequence - 1)
        BY <1>3, <3>2
      <4>2. PICK j \in CallsOnWire : wire[j].msg.seq = k
        BY <2>3, <4>1 DEF CInv, Numbered
      <4> QED
        BY <2>6, <2>7, <4>2
    <3> QED
      BY <3>1, <3>2
  <2>9. Numbered'
    <3>1. ASSUME NEW i \in CallsOnWire' PROVE wire'[i].msg.seq \in 1 .. sequence
      <4>1. CASE i = n
        BY <1>3, <2>2, <2>7, <4>1
      <4>2. CASE i \in CallsOnWire
        BY <1>3, <2>7, <4>2
      <4> QED
        BY <2>6, <4>1, <4>2
    <3> QED
      BY <2>3, <2>8, <3>1 DEF Numbered
  <2>10. \A i, j \in CallsOnWire' : i < j => wire'[i].msg.seq < wire'[j].msg.seq
    <3> SUFFICES ASSUME NEW i \in CallsOnWire', NEW j \in CallsOnWire', i < j
                 PROVE  wire'[i].msg.seq < wire'[j].msg.seq
      OBVIOUS
    <3>1. i \in CallsOnWire
      BY <2>4, <2>5, <2>6
    <3>2. CASE j = n
      BY <1>3, <2>7, <3>1, <3>2
    <3>3. CASE j \in CallsOnWire
      BY <2>7, <3>1, <3>3 DEF CInv, CallsAuthorised
    <3> QED
      BY <2>6, <3>2, <3>3
  <2>11. ASSUME NEW i \in CallsOnWire'
         PROVE  LET q == wire'[i].msg
                IN  /\ q.own /\ q.tag = "listed" /\ request'.tag # "validate"
                    /\ q.seq \in 1 .. request'.seq /\ q.seq <= answered' + 1
                    /\ \A k \in 1 .. q.seq :
                         \E j \in CallsOnWire' : j <= i /\ wire'[j].msg.seq = k
    <3>1. CASE i = n
      <4>1. sequence <= answered' + 1
        BY <1>1 DEF CInv, Outstanding
      <4>2. \A j \in CallsOnWire' : j <= n
        BY <2>4, <2>5, <2>6
      <4> QED
        BY <1>1, <1>2, <2>2, <2>4, <2>8, <3>1, <4>1, <4>2
    <3>2. CASE i \in CallsOnWire
      <4>1. LET q == wire[i].msg
            IN  /\ q.own /\ q.tag = "listed" /\ request.tag # "validate"
                /\ q.seq \in 1 .. request.seq /\ q.seq <= answered + 1
                /\ \A k \in 1 .. q.seq :
                     \E j \in CallsOnWire : j <= i /\ wire[j].msg.seq = k
        BY <3>2 DEF CInv, CallsAuthorised
      <4>2. wire'[i] = wire[i]
        BY <2>7, <3>2
      <4>3. ASSUME NEW k \in 1 .. wire[i].msg.seq
            PROVE  \E j \in CallsOnWire' : j <= i /\ wire'[j].msg.seq = k
        <5>1. PICK j \in CallsOnWire : j <= i /\ wire[j].msg.seq = k
          BY <4>1
        <5> QED
          BY <2>6, <2>7, <5>1
      <4> QED
        BY <1>1, <4>1, <4>2, <4>3
    <3> QED
      BY <2>6, <3>1, <3>2
  <2>12. CallsAuthorised'
    BY <2>10, <2>11 DEF CallsAuthorised
  <2> QED
    BY <1>5, <1>6, <2>9, <2>12 DEF CInv
<1> QED
  BY <1>2, <1>8, <1>9

(* Nothing is counted at the start. *)
LEMMA CInvInit == Init => CInv
<1> SUFFICES ASSUME Init PROVE CInv
  OBVIOUS
<1>1. CallsOnWire = {} /\ ~QueuedCall
  BY DEF Init, CallsOnWire, QueuedCall, Idle, NoMessage
<1> QED
  BY <1>1 DEF Init, CInv, Numbered, Begun, Outstanding, QueuedAuthorised, CallsAuthorised

(* Every step preserves CInv. *)
LEMMA CInvStep == IInv /\ IInv' /\ CInv /\ [Next]_vars => CInv'
<1> SUFFICES ASSUME IInv, IInv', CInv, [Next]_vars PROVE CInv'
  OBVIOUS
<1>1. TypeOK'
  BY DEF IInv
<1>2. CASE CountsNothing
  BY <1>1, <1>2, CountsNothingPreserves
<1>3. CASE HostReply
  BY <1>1, <1>3, HostReplyPreserves
<1>4. CASE Drain
  BY <1>1, <1>4, DrainCounts
<1>5. CASE Expire \/ Report \/ MemoryCeiling \/ Reap
  BY <1>1, <1>5, VerdictPreserves
<1>6. CASE GuestEvent
  BY <1>1, <1>6, GuestEventPreserves
<1> QED
  BY <1>2, <1>3, <1>4, <1>5, <1>6, StepCounts

(* The counter, the buffer and stdout stay related as CInv says. *)
THEOREM CountInvariance == Spec => []CInv
BY CInvInit, CInvStep, Invariance, PTL DEF Spec

(* Whatever the guest sends, the calls the host sees are authorised, in order,
   and each after the previous one was answered (supervisor.rs:139-154). *)
THEOREM OnlyAuthorisedCalls == Spec => []CallsAuthorised
<1>1. CInv => CallsAuthorised
  BY DEF CInv
<1> QED
  BY <1>1, CountInvariance, PTL

-----------------------------------------------------------------------------
(* The supervisor implements Execution. *)

(* The calls the host may have seen are as many as the counter says. *)
LEMMA DispatchedCounts ==
  ASSUME TypeOK, CInv
  PROVE  Dispatched = sequence
<1>1. sequence \in Nat /\ Begun \in Nat
  <2>1. QueuedCall => sequence \in 1 .. request.seq
    BY DEF CInv, QueuedAuthorised
  <2> QED
    BY <2>1 DEF Begun, TypeOK
<1> DEFINE f == [i \in CallsOnWire |-> wire[i].msg.seq]
<1>2. f \in [CallsOnWire -> 1 .. Begun]
  BY DEF CInv, Numbered
<1>3. ASSUME NEW i \in CallsOnWire, NEW j \in CallsOnWire, f[i] = f[j] PROVE i = j
  <2>1. i \in Nat /\ j \in Nat /\ wire[i].msg.seq \in Nat /\ wire[i].msg.seq = wire[j].msg.seq
    BY <1>3, CallTypes
  <2>2. ~(i < j) /\ ~(j < i)
    BY <2>1 DEF CInv, CallsAuthorised
  <2> QED
    BY <2>1, <2>2
<1>4. \A k \in 1 .. Begun : \E i \in CallsOnWire : f[i] = k
  BY DEF CInv, Numbered
<1>5. ExistsBijection(CallsOnWire, 1 .. Begun)
  <2> HIDE DEF f
  <2>1. f \in Bijection(CallsOnWire, 1 .. Begun)
    BY <1>2, <1>3, <1>4 DEF Bijection, Injection, Surjection, IsInjective
  <2> QED
    BY <2>1 DEF ExistsBijection
<1>6. IsFiniteSet(1 .. Begun) /\ Cardinality(1 .. Begun) = Begun
  BY <1>1, FS_Interval
<1>7. Cardinality(CallsOnWire) = Begun
  BY <1>5, <1>6, FS_Bijection, Fun_ExistsBijSymmetric
<1> QED
  BY <1>1, <1>7 DEF Dispatched, Begun

(* A whole conclusion other than main()'s is on stdout only when the loop is left. *)
LEMMA ToldWhenLeft ==
  IInv => (ConclusionTold => Phase = "over" /\ pc # "report")
BY DEF IInv, Concluded, Told, ConclusionTold, Phase

(* main()'s diagnostic tells no conclusion. *)
LEMMA ToldKept ==
  ASSUME TypeOK,
         \/ wire' = wire
         \/ \E own \in BOOLEAN :
              wire' = Append(wire, Piece(Load(failure(own, "engine_error"))))
  PROVE  ConclusionTold' = ConclusionTold
<1>1. CASE wire' = wire
  BY <1>1 DEF ConclusionTold, Diagnostic
<1>2. ASSUME NEW own \in BOOLEAN,
             wire' = Append(wire, Piece(Load(failure(own, "engine_error"))))
      PROVE  ConclusionTold' = ConclusionTold
  <2> DEFINE c == Piece(Load(failure(own, "engine_error")))
  <2>1. c \in Chunk /\ Diagnostic(c)
    BY FrameTypes, FailureFacts DEF Diagnostic, Tags
  <2> HIDE DEF c
  <2>2. /\ DOMAIN wire = 1..Len(wire) /\ DOMAIN wire' = 1..(Len(wire) + 1)
        /\ Len(wire) \in Nat
        /\ \A i \in 1..Len(wire) : wire'[i] = wire[i]
        /\ wire'[Len(wire) + 1] = c
    BY <1>2, <2>1, Appended DEF TypeOK, c
  <2>3. \A i \in DOMAIN wire' : i \in DOMAIN wire \/ i = Len(wire) + 1
    BY <2>2
  <2> QED
    BY <2>1, <2>2, <2>3 DEF ConclusionTold, Diagnostic
<1> QED
  BY <1>1, <1>2

(* Each step of the supervisor is a step of Execution, seen through the
   refinement mapping with the counter in place of the calls on stdout. *)
Mapped == <<Phase, Budget, sequence, answered, completed, ConclusionTold>>

Begins     == Phase = "idle" /\ Phase' = "running" /\ Budget' \in Nat
              /\ UNCHANGED <<sequence, answered, completed, ConclusionTold>>
Dispatches == /\ Phase = "running" /\ ~completed /\ sequence = answered
              /\ sequence < Budget /\ sequence' = sequence + 1
              /\ UNCHANGED <<Phase, Budget, answered, completed, ConclusionTold>>
Answers    == /\ Phase = "running" /\ answered < sequence /\ answered' = answered + 1
              /\ UNCHANGED <<Phase, Budget, sequence, completed, ConclusionTold>>
Decides    == /\ Phase = "running" /\ ~completed /\ completed'
              /\ UNCHANGED <<Phase, Budget, sequence, answered, ConclusionTold>>
Finishes   == /\ Phase # "over" /\ Phase' = "over"
              /\ ConclusionTold' => Phase = "running"
              /\ UNCHANGED <<Budget, sequence, answered, completed>>

AbstractStep == Begins \/ Dispatches \/ Answers \/ Decides \/ Finishes \/ UNCHANGED Mapped

(* There is a guest from the moment the loop starts; it is what gives the
   execution a budget. *)
Spawned == /\ pc = "admit" => child = "none"
           /\ pc \in Loop => child # "none"

(* Only admission spawns, and only the loop follows a spawn. *)
LEMMA SpawnedInvariant == Spec => []Spawned
<1>1. Init => Spawned
  BY DEF Init, Spawned
<1>2. Spawned /\ [Next]_vars => Spawned'
  <2> SUFFICES ASSUME Spawned, [Next]_vars PROVE Spawned'
    OBVIOUS
  <2> USE DEF Spawned
  <2>1. CASE QuietStep
    <3>1. CASE Kernel
      BY <3>1 DEF Kernel, Tick, GuestExits, GuestDead
    <3>2. CASE ~Kernel
      <4>1. child' = child
        BY <2>1, <3>2 DEF QuietStep, AdmitFails, AdmitPartial, Refuse, InTime, MemoryFits,
           HostSilent, HostEof, HostPartial, HostRefused, HostReply, FeedWaits, FeedBroken,
           Feed, DrainBroken, GuestSkipped, GuestPartial, GuestRefused, NotReaped, Host,
           HostWrites, HostReads, HostCloses, HostDeaf, Guest, GuestReads, GuestWrites, GuestCloses
      <4>2. \/ pc' = pc
            \/ pc \in Loop
            \/ pc' = "report"
        BY <2>1, QuietSteps DEF QuietMove
      <4>3. pc' = "admit" => pc = "admit"
        BY <2>1, QuietSteps DEF QuietMove
      <4> QED
        BY <4>1, <4>2, <4>3
    <3> QED
      BY <3>1, <3>2
  <2>2. CASE Spawn
    BY <2>2 DEF Spawn
  <2>3. CASE Expire \/ MemoryCeiling \/ DrainWaits \/ Drain \/ GuestEof \/ GuestEvent
    BY <2>3 DEF Expire, MemoryCeiling, QueueForHost, DrainWaits, Drain, AfterDrain,
                GuestEof, GuestEvent, GuestPiece
  <2>4. CASE Reap \/ Kill \/ Wait \/ Report \/ Lost
    BY <2>4 DEF Reap, QueueForHost, Kill, Wait, Report, Lost
  <2>5. CASE Terminated \/ UNCHANGED vars
    BY <2>5 DEF Terminated
  <2> QED
    BY <2>1, <2>2, <2>3, <2>4, <2>5 DEF Next, SupervisorStep, QuietStep
<1> QED
  BY <1>1, <1>2, PTL DEF Spec

(* Every step of the supervisor and its environment is one of Execution's. *)
LEMMA StepIsAbstract ==
  ASSUME IInv, IInv', CInv, Spawned, [Next]_vars
  PROVE  AbstractStep
<1>1. /\ pc \in Loop \cup {"admit", "report"} => ~ConclusionTold
      /\ pc' \in Loop \cup {"admit", "report"} => ~ConclusionTold'
  BY ToldWhenLeft DEF IInv, Concluded, Told, ConclusionTold
<1>2. /\ TypeOK /\ answered \in Nat /\ sequence \in Nat /\ request.seq \in Nat
      /\ completed \in BOOLEAN
  BY DEF IInv, TypeOK, Message
<1>3. pc \in Loop \cup {"admit"} /\ pc' \in Loop \cup {"admit"}
         => ConclusionTold' = ConclusionTold
  BY <1>1 DEF ConclusionTold
<1> USE DEF AbstractStep, Phase, Budget, Mapped
<1>4. CASE AdmitFails \/ Refuse
  <2>1. Finishes
    BY <1>1, <1>4, ToldKept, <1>2
       DEF Finishes, AdmitFails, Refuse, AdmitRequest, RequestPiece, Spawned
  <2> QED
    BY <2>1
<1>5. CASE Spawn
  <2>1. Begins
    <3>1. request'.seq \in Nat
      BY DEF IInv, TypeOK, Message
    <3> QED
      BY <1>3, <1>5, <3>1 DEF Begins, Spawn, AdmitRequest, RequestPiece
  <2> QED
    BY <2>1
<1>6. CASE AdmitPartial \/ InTime \/ MemoryFits \/ HostSilent \/ HostPartial \/ FeedWaits
           \/ Feed \/ GuestSkipped \/ GuestEof \/ GuestPartial \/ NotReaped
  <2>1. UNCHANGED Mapped
    BY <1>3, <1>6 DEF AdmitPartial, RequestPiece, InTime, MemoryFits, HostSilent, HostPartial,
       HostPiece, FeedWaits, Feed, GuestSkipped, GuestEof, GuestPartial, GuestPiece, NotReaped
  <2> QED
    BY <2>1
<1>7. CASE HostEof \/ HostRefused \/ FeedBroken \/ DrainBroken \/ GuestRefused \/ Expire
  <2>1. Finishes
    BY <1>7 DEF Finishes, HostEof, HostRefused, HostPiece, FeedBroken, DrainBroken,
                GuestRefused, GuestPiece, Expire
  <2> QED
    BY <2>1
<1>8. CASE MemoryCeiling
  <2>1. CASE pending(to_host)
    <3>1. Finishes
      BY <1>2, <1>8, <2>1 DEF Finishes, MemoryCeiling
    <3> QED
      BY <3>1
  <2>2. CASE ~pending(to_host)
    <3>1. Decides
      BY <1>3, <1>8, <2>2 DEF Decides, MemoryCeiling, QueueForHost
    <3> QED
      BY <3>1
  <2> QED
    BY <2>1, <2>2
<1>9. CASE HostReply
  <2>1. pc = "hostin" /\ pending_sequence # 0
    BY <1>9 DEF HostReply, HostPiece, IsReply
  <2>2. answered < sequence
    BY <1>2, <2>1 DEF CInv, Outstanding
  <2>3. Finishes \/ Answers
    BY <1>3, <1>9, <2>2 DEF Finishes, Answers, HostReply, HostPiece
  <2> QED
    BY <2>3
<1>10. CASE DrainWaits \/ Drain
  <2>1. Finishes \/ UNCHANGED Mapped
    BY <1>3, <1>10 DEF Finishes, DrainWaits, Drain, AfterDrain
  <2> QED
    BY <2>1
<1>11. CASE GuestEvent
  <2> DEFINE m == Head(guest_out).msg
  <2>1. /\ pc = "guestin" /\ pc' = "reap" /\ Relayed(m) /\ ~completed
        /\ completed' = (m.kind = "completed")
        /\ UNCHANGED <<answered, request, child>>
        /\ sequence' = (IF m.kind = "call" THEN sequence + 1 ELSE sequence)
    BY <1>11 DEF GuestEvent, GuestPiece, GuestReadable, QueueForHost
  <2> HIDE DEF m
  <2>2. CASE m.kind = "call"
    <3>1. CallAllowed(m, sequence + 1)
      BY <2>1, <2>2 DEF Relayed
    <3>2. sequence = answered
      BY <2>1, <3>1 DEF CallAllowed, CInv, Outstanding
    <3>3. request.seq \in Nat /\ sequence < request.seq /\ request.tag # "validate"
      BY <1>2, <3>1 DEF CallAllowed
    <3>4. Budget = request.seq /\ Budget' = Budget
      BY <2>1, <3>3 DEF Spawned
    <3>5. UNCHANGED <<Phase, completed, ConclusionTold>>
      BY <1>2, <1>3, <2>1, <2>2
    <3>6. Phase = "running"
      BY <2>1
    <3> HIDE DEF Phase, Budget
    <3>7. Dispatches
      BY <2>1, <2>2, <3>2, <3>3, <3>4, <3>5, <3>6 DEF Dispatches
    <3> QED
      BY <3>7
  <2>3. CASE m.kind = "completed"
    <3>1. Decides
      BY <1>3, <2>1, <2>3 DEF Decides
    <3> QED
      BY <3>1
  <2>4. CASE m.kind \notin {"call", "completed"}
    <3>1. completed' = completed
      BY <2>1, <2>4 DEF IInv, TypeOK
    <3> QED
      BY <1>3, <2>1, <2>4, <3>1
  <2> QED
    BY <2>2, <2>3, <2>4
<1>12. CASE Reap
  <2>1. pc = "reap" /\ guest_closed /\ ~completed
    BY <1>12 DEF Reap, GuestGone
  <2>2. ~pending(to_host)
    BY <2>1 DEF IInv, Backpressure
  <2>3. pc' = "watchdog"
    BY <1>12, <2>2 DEF Reap, QueueForHost
  <2>4. Decides
    BY <1>3, <1>12, <2>1, <2>3 DEF Decides, Reap, Spawned
  <2> QED
    BY <2>4
<1>13. CASE Kill \/ Wait \/ Report
  <2>1. ConclusionTold' = ConclusionTold
    <3>1. CASE Kill \/ Wait
      BY <1>2, <3>1, ToldKept DEF Kill, Wait
    <3>2. CASE Report
      <4>1. (request # NoMessage) \in BOOLEAN
        OBVIOUS
      <4> QED
        BY <1>2, <3>2, <4>1, ToldKept DEF Report
    <3> QED
      BY <1>13, <3>1, <3>2
  <2> QED
    BY <1>13, <2>1 DEF Kill, Wait, Report
<1>14. CASE Lost
  <2>1. ConclusionTold' = ConclusionTold
    BY <1>2, <1>14, ToldKept DEF Lost
  <2> QED
    BY <1>1, <1>14, <2>1 DEF Lost, Finishes
<1>15. CASE Kernel \/ Host \/ Guest \/ Terminated \/ UNCHANGED vars
  <2>1. UNCHANGED <<pc, request, sequence, answered, completed, wire>>
    BY <1>15 DEF Kernel, Tick, GuestExits, GuestDead, Host, HostWrites, HostReads,
                 HostCloses, HostDeaf, Guest, GuestReads, GuestWrites, GuestCloses, Terminated
  <2>2. (child' = "none") = (child = "none")
    BY <1>15 DEF Kernel, Tick, GuestExits, GuestDead, Host, HostWrites, HostReads,
                 HostCloses, HostDeaf, Guest, GuestReads, GuestWrites, GuestCloses, Terminated
  <2>3. ConclusionTold' = ConclusionTold
    BY <1>2, <2>1, ToldKept
  <2> QED
    BY <2>1, <2>2, <2>3
<1> QED
  BY <1>4, <1>5, <1>6, <1>7, <1>8, <1>9, <1>10, <1>11, <1>12, <1>13, <1>14, <1>15
  DEF Next, SupervisorStep

(* The mapping counts what the counter counts, in every state. *)
THEOREM DispatchedIsCounter == Spec => [](Dispatched = sequence)
<1>1. TypeOK /\ CInv => Dispatched = sequence
  BY DispatchedCounts
<1> QED
  BY <1>1, TypeCorrect, CountInvariance, PTL

(* The supervisor implements the contract of one execution. *)
THEOREM Refinement == Spec => ImplementsExecution
<1>1. Init => Contract!Init
  <2> SUFFICES ASSUME Init PROVE Contract!Init
    OBVIOUS
  <2>1. Dispatched = 0
    <3>1. TypeOK /\ CInv
      BY TypeInit, CInvInit
    <3> QED
      BY <3>1, DispatchedCounts DEF Init
  <2> QED
    BY <2>1 DEF Init, Contract!Init, Phase, Budget, ConclusionTold
<1>2. IInv /\ IInv' /\ CInv /\ Spawned /\ Dispatched = sequence
      /\ (Dispatched = sequence)' /\ [Next]_vars
        => [Contract!Next]_(Contract!vars)
  <2> SUFFICES ASSUME IInv, IInv', CInv, Spawned, Dispatched = sequence,
                      (Dispatched = sequence)', [Next]_vars
               PROVE  [Contract!Next]_(Contract!vars)
    OBVIOUS
  <2>1. AbstractStep
    BY StepIsAbstract
  <2>2. Dispatched = sequence
    OBVIOUS
  <2>3. Dispatched' = sequence'
    OBVIOUS
  <2>4. CASE Begins
    BY <2>2, <2>3, <2>4 DEF Begins, Contract!Next, Contract!Begin
  <2>5. CASE Dispatches
    BY <2>2, <2>3, <2>5 DEF Dispatches, Contract!Next, Contract!Dispatch
  <2>6. CASE Answers
    BY <2>2, <2>3, <2>6 DEF Answers, Contract!Next, Contract!Answer
  <2>7. CASE Decides
    BY <2>2, <2>3, <2>7 DEF Decides, Contract!Next, Contract!Decide
  <2>8. CASE Finishes
    BY <2>2, <2>3, <2>8 DEF Finishes, Contract!Next, Contract!End, ConclusionTold
  <2>9. CASE UNCHANGED Mapped
    BY <2>2, <2>3, <2>9 DEF Mapped, Contract!vars
  <2> QED
    BY <2>1, <2>4, <2>5, <2>6, <2>7, <2>8, <2>9 DEF AbstractStep
<1> QED
  BY <1>1, <1>2, Invariance, CountInvariance, SpawnedInvariant, DispatchedIsCounter, PTL
  DEF Spec, ImplementsExecution, Contract!Spec
=============================================================================
