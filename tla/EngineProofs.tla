---------------------------- MODULE EngineProofs -----------------------------
(***************************************************************************)
(* Every step of the three real processes is a step Supervisor allows or    *)
(* leaves its state alone, so what is proved of the supervisor against any  *)
(* host and any guest holds of the whole; so with the steps of the client   *)
(* and of the guest.  What the three invariants leave open is what the      *)
(* pipes hold: where each call and reply is on its way; and, in the last    *)
(* part, what came of the program and whom its conclusion reaches.          *)
(***************************************************************************)
EXTENDS Engine, SupervisorProofs

(* A step of the client moves a frame of its own, closes a pipe, or kills. *)
LEMMA ClientStep == Client => [Next]_vars
<1> SUFFICES ASSUME Client PROVE [Next]_vars OBVIOUS
<1>1. CASE UNCHANGED vars BY <1>1
<1>2. CASE HostWrites \/ HostReads \/ HostCloses \/ HostDeaf BY <1>2 DEF Next, Host
<1>3. CASE Lost BY <1>3 DEF Next
<1> QED BY <1>1, <1>2, <1>3 DEF Client

LEMMA ProgramStep == Program => [Next]_vars
<1> SUFFICES ASSUME Program PROVE [Next]_vars OBVIOUS
<1>1. CASE UNCHANGED vars BY <1>1
<1>2. CASE GuestWrites \/ GuestReads BY <1>2 DEF Next, Guest
<1> QED BY <1>1, <1>2 DEF Program

LEMMA EngineStep == [EngineNext]_engineVars => [Next]_vars
<1> SUFFICES ASSUME [EngineNext]_engineVars PROVE [Next]_vars OBVIOUS
<1>1. CASE Client BY <1>1, ClientStep
<1>2. CASE Cancel \/ Deadline BY <1>2 DEF Cancel, Deadline
<1>3. CASE Program BY <1>3, ProgramStep
<1>4. CASE ProcessEnds BY <1>4 DEF ProcessEnds, Next, Kernel
<1>5. CASE Supervising BY <1>5 DEF Supervising, Next
<1>6. CASE Environment BY <1>6 DEF Environment, Next, Kernel
<1>7. CASE Over BY <1>7 DEF Over
<1>8. CASE UNCHANGED engineVars BY <1>8 DEF engineVars
<1> QED BY <1>1, <1>2, <1>3, <1>4, <1>5, <1>6, <1>7, <1>8 DEF EngineNext

(* The client, the supervisor and the guest together implement Supervisor. *)
THEOREM EngineImplementsSupervisor == EngineSpec => Spec
<1>1. EngineInit => Init BY DEF EngineInit
<1> QED BY <1>1, EngineStep, PTL DEF EngineSpec, Spec

(* What is proved of Supervisor against any peers, for the three processes:
   calls of listed paths only, numbered, within the budget and one at a time;
   whole frames on stdout; nothing behind a conclusion, and the conclusion true. *)
THEOREM EngineKeepsPromises ==
  EngineSpec => /\ [](CallsAuthorised /\ OutputFramed /\ ResultIsLast /\ FateReported)
                /\ ImplementsExecution
BY EngineImplementsSupervisor, OnlyAuthorisedCalls, Framing, ConclusionIsLast, VerdictsAreTrue,
   Refinement, PTL

-----------------------------------------------------------------------------
(* The client of Engine is the client ClientProofs speaks of, and the guest that
   of GuestProofs: the same steps, each at its own pipes, each seeing the
   supervisor's end as the other side being gone.                             *)
CP == INSTANCE ClientProofs WITH
  Incoming <- Message, at <- c_at, sequence <- c_sequence, logBytes <- c_logBytes,
  logs <- c_logs, asked <- c_asked, reader <- c_reader, writer <- c_writer, returned <- c_returned,
  late <- c_late, gone <- Stopped

GP == INSTANCE GuestProofs WITH
  Incoming <- Message, at <- g_at, request <- g_request, host <- g_host, codes <- g_codes,
  status <- g_status, error_type <- g_type, json <- g_json, writer <- g_writer,
  output <- g_output, ended <- g_ended, gone <- Stopped

(* The instances of Client agree: Engine's takes any piece a pipe holds, the other any there is. *)
LEMMA SameInit == C!Init <=> CP!Init
BY DEF C!Init, CP!Init, C!Idle, CP!Idle, C!NoMessage, CP!NoMessage

LEMMA SameStart == C!Start <=> CP!Start
BY DEF C!Go, CP!Go, C!Throw, CP!Throw, C!Leave, CP!Leave, C!execution, CP!execution, C!counts, CP!counts, C!Start,
   CP!Start, C!Load, CP!Load

LEMMA SameSteps1 ==
  /\ (C!Interrupted <=> CP!Interrupted)
  /\ (C!PutBroken <=> CP!PutBroken)
  /\ (C!ReadEnded <=> CP!ReadEnded)
  /\ (C!Cancelled <=> CP!Cancelled)
BY DEF C!Go, CP!Go, C!Throw, CP!Throw, C!Leave, CP!Leave, C!execution, CP!execution, C!counts, CP!counts,
   C!Interrupted, CP!Interrupted, C!PutBroken, CP!PutBroken, C!ReadEnded, CP!ReadEnded,
   C!Cancelled, CP!Cancelled, C!Polling, CP!Polling, C!InTime, CP!InTime

LEMMA SameSteps2 ==
  /\ (C!Invoke <=> CP!Invoke)
  /\ (C!CloseInput <=> CP!CloseInput)
  /\ (C!CloseOutput <=> CP!CloseOutput)
  /\ (C!Terminate <=> CP!Terminate)
  /\ (C!Reaped <=> CP!Reaped)
BY DEF C!Go, CP!Go, C!Throw, CP!Throw, C!Leave, CP!Leave, C!execution, CP!execution, C!counts, CP!counts, C!Invoke,
   CP!Invoke, C!CloseInput, CP!CloseInput, C!CloseOutput, CP!CloseOutput, C!Terminate,
   CP!Terminate, C!Reaped, CP!Reaped, C!InTime, CP!InTime

LEMMA SamePut == C!Put <=> CP!Put
BY DEF C!Go, CP!Go, C!Throw, CP!Throw, C!Leave, CP!Leave, C!execution, CP!execution, C!counts, CP!counts, C!Put,
   CP!Put, C!InTime, CP!InTime, C!Whole, CP!Whole, C!Piece, CP!Piece, C!Advance, CP!Advance,
   C!Idle, CP!Idle, C!NoMessage, CP!NoMessage

LEMMA SameAnswer == C!Answer <=> CP!Answer
BY DEF C!Go, CP!Go, C!Throw, CP!Throw, C!Leave, CP!Leave, C!execution, CP!execution, C!counts, CP!counts, C!Answer,
   CP!Answer, C!Load, CP!Load, C!Reply, CP!Reply

LEMMA SameGet == \A c : C!Get(c) <=> CP!Get(c)
BY DEF C!Go, CP!Go, C!Throw, CP!Throw, C!Leave, CP!Leave, C!execution, CP!execution, C!counts, CP!counts, C!Get,
   CP!Get, C!ReadPartial, CP!ReadPartial, C!ReadUnusable, CP!ReadUnusable, C!ReadLog,
   CP!ReadLog, C!ReadCall, CP!ReadCall, C!ReadCompleted, CP!ReadCompleted, C!Reading,
   CP!Reading, C!ReadPiece, CP!ReadPiece, C!ReadSwallowed, CP!ReadSwallowed, C!InPlace,
   CP!InPlace, C!Awaited, CP!Awaited, C!Garbled, CP!Garbled, C!pending, CP!pending, C!Piece,
   CP!Piece, C!Advance, CP!Advance, C!Load, CP!Load, C!Idle, CP!Idle, C!NoMessage, CP!NoMessage, C!InTime, CP!InTime, C!Unusable, CP!Unusable, C!LogSpent, CP!LogSpent,
   C!InSequence, CP!InSequence, C!Acceptable, CP!Acceptable, C!Whole, CP!Whole, C!clientVars,
   CP!clientVars

LEMMA SameLate == C!Late <=> CP!Late
BY DEF C!Late, CP!Late, C!clientVars, CP!clientVars, C!execution, CP!execution, C!counts, CP!counts

(* So do those of Guest. *)
LEMMA SameGuestInit == G!Init <=> GP!Init
BY DEF G!Init, GP!Init, G!Idle, GP!Idle, G!NoMessage, GP!NoMessage, G!Nothing, GP!Nothing

LEMMA SameBeginning ==
  /\ (G!NoRequest <=> GP!NoRequest)
  /\ (G!Enter <=> GP!Enter)
  /\ (G!Boot <=> GP!Boot)
  /\ (G!AdmissionFails <=> GP!AdmissionFails)
  /\ (G!Admitted <=> GP!Admitted)
BY DEF G!Write, GP!Write, G!Fail, GP!Fail, G!Conclude, GP!Conclude, G!Raised, GP!Raised,
   G!Return, GP!Return, G!Load, GP!Load, G!Outgoing, GP!Outgoing, G!CallFrame, GP!CallFrame,
   G!LogFrame, GP!LogFrame, G!Completed, GP!Completed, G!guestVars, GP!guestVars, G!NoRequest,
   GP!NoRequest, G!Enter, GP!Enter, G!Boot, GP!Boot, G!AdmissionFails, GP!AdmissionFails,
   G!Admitted, GP!Admitted, G!Execute, GP!Execute, G!validate_only, GP!validate_only

LEMMA SameProgram ==
  /\ (G!Unknown <=> GP!Unknown)
  /\ (G!CallRefused <=> GP!CallRefused)
  /\ (G!Call <=> GP!Call)
  /\ (G!NoReply <=> GP!NoReply)
  /\ (G!Finish <=> GP!Finish)
  /\ (G!Exhausted <=> GP!Exhausted)
BY DEF G!Write, GP!Write, G!Fail, GP!Fail, G!Conclude, GP!Conclude, G!Raised, GP!Raised,
   G!Return, GP!Return, G!Load, GP!Load, G!Outgoing, GP!Outgoing, G!CallFrame, GP!CallFrame,
   G!LogFrame, GP!LogFrame, G!Completed, GP!Completed, G!guestVars, GP!guestVars, G!Unknown,
   GP!Unknown, G!CallRefused, GP!CallRefused, G!Call, GP!Call, G!NoReply, GP!NoReply, G!Finish,
   GP!Finish, G!Exhausted, GP!Exhausted, G!BudgetSpent, GP!BudgetSpent, G!VM, GP!VM

LEMMA SameLog == \A n : G!Log(n) <=> GP!Log(n)
BY DEF G!Write, GP!Write, G!Fail, GP!Fail, G!Conclude, GP!Conclude, G!Raised, GP!Raised,
   G!Return, GP!Return, G!Load, GP!Load, G!Outgoing, GP!Outgoing, G!CallFrame, GP!CallFrame,
   G!LogFrame, GP!LogFrame, G!Completed, GP!Completed, G!guestVars, GP!guestVars, G!Log, GP!Log,
   G!LogRefused, GP!LogRefused, G!NoLog, GP!NoLog, G!SendLog, GP!SendLog, G!saturating_add, GP!saturating_add

LEMMA SameSend == (G!Send <=> GP!Send) /\ (G!Broken <=> GP!Broken)
BY DEF G!Write, GP!Write, G!Fail, GP!Fail, G!Conclude, GP!Conclude, G!Raised, GP!Raised,
   G!Return, GP!Return, G!Load, GP!Load, G!Outgoing, GP!Outgoing, G!CallFrame, GP!CallFrame,
   G!LogFrame, GP!LogFrame, G!Completed, GP!Completed, G!guestVars, GP!guestVars, G!Send,
   GP!Send, G!Broken, GP!Broken, G!Writing, GP!Writing, G!Whole, GP!Whole, G!Piece, GP!Piece,
   G!Advance, GP!Advance, G!Idle, GP!Idle, G!NoMessage, GP!NoMessage, G!After, GP!After,
   G!Ending, GP!Ending, G!Sent, GP!Sent

LEMMA SameReceive == \A c : G!Receive(c) <=> GP!Receive(c)
BY DEF G!Write, GP!Write, G!Fail, GP!Fail, G!Conclude, GP!Conclude, G!Raised, GP!Raised,
   G!Return, GP!Return, G!Load, GP!Load, G!Outgoing, GP!Outgoing, G!CallFrame, GP!CallFrame,
   G!LogFrame, GP!LogFrame, G!Completed, GP!Completed, G!guestVars, GP!guestVars, G!Receive,
   GP!Receive, G!ReadPartial, GP!ReadPartial, G!ReadRequest, GP!ReadRequest, G!ReadReply,
   GP!ReadReply, G!Whole, GP!Whole, G!Usable, GP!Usable, G!Answers, GP!Answers,
   G!Decoded, GP!Decoded

LEMMA SameGuestAssumption == GP!GuestAssumption
BY EngineAssumption DEF G!GuestAssumption, GP!GuestAssumption, G!Message, GP!Message, Message,
   G!Kinds, GP!Kinds,
   G!Tags, GP!Tags, G!Data, GP!Data, Kinds, Tags, Data, G!Diagnostics, GP!Diagnostics

LEMMA SameClientAssumption == CP!ClientAssumption
BY EngineAssumption DEF C!ClientAssumption, CP!ClientAssumption, C!Message, CP!Message, Message,
   C!Kinds, CP!Kinds,
   C!Tags, CP!Tags, C!Data, CP!Data, Kinds, Tags, Data

-----------------------------------------------------------------------------
(* NothingLeft.  Along the supervisor's ways out the guest is dead, or killed;
   no way out skips the kill; a lost supervisor takes its guest along.       *)
Doomed ==
  /\ pc = "admit" => child = "none"
  /\ pc = "wait" => killed
  /\ pc \in {"report", "exit"} => child \in {"none", "reaped"}
  /\ pc = "lost" => killed \/ child = "none"

Ended == /\ c_at = "start" => ~host_closed
         /\ c_at = "done" /\ host_closed => Stopped

USE DEF vars, loop, process, pipes, hostVars, guestVars, peers, OnlyControl, Return, Continue

LEMMA DoomedStep == Doomed /\ [Next]_vars => Doomed'
<1> SUFFICES ASSUME Doomed, [Next]_vars PROVE Doomed' OBVIOUS
<1> USE DEF Doomed
<1>1. CASE AdmitFails \/ AdmitPartial \/ Refuse \/ Spawn
  BY <1>1 DEF AdmitFails, AdmitPartial, Refuse, Spawn, AdmitRequest, RequestPiece
<1>2. CASE InTime \/ Expire \/ MemoryFits \/ MemoryCeiling
  BY <1>2 DEF InTime, Expire, MemoryFits, MemoryCeiling, QueueForHost
<1>3. CASE HostSilent \/ HostEof \/ HostPartial \/ HostRefused \/ HostReply
  BY <1>3 DEF HostSilent, HostEof, HostPartial, HostRefused, HostReply, HostPiece
<1>4. CASE FeedWaits \/ FeedBroken \/ Feed
  BY <1>4 DEF FeedWaits, FeedBroken, Feed
<1>5. CASE DrainWaits \/ DrainBroken \/ Drain
  BY <1>5 DEF DrainWaits, DrainBroken, Drain, AfterDrain
<1>6. CASE GuestSkipped \/ GuestEof \/ GuestPartial \/ GuestRefused \/ GuestEvent
 
   BY <1>6 DEF GuestSkipped, GuestEof, GuestPartial, GuestRefused, GuestEvent, GuestPiece,
      QueueForHost
<1>7. CASE NotReaped \/ Reap
  BY <1>7 DEF NotReaped, Reap, QueueForHost
<1>8. CASE Kill \/ Wait \/ Report \/ Lost
  BY <1>8 DEF Kill, Wait, Report, Lost, Stopped
<1>9. CASE Kernel
  BY <1>9 DEF Kernel, Tick, GuestExits, GuestDead
<1>10. CASE Host \/ Guest
  BY <1>10 DEF Host, HostWrites, HostReads, HostCloses, HostDeaf, Guest, GuestReads, GuestWrites, GuestCloses
<1>11. CASE UNCHANGED vars \/ Terminated
  BY <1>11 DEF Terminated
<1> QED
  BY <1>1, <1>2, <1>3, <1>4, <1>5, <1>6, <1>7, <1>8, <1>9, <1>10, <1>11 DEF Next, SupervisorStep

(* Once stopped, the supervisor takes no step. *)
LEMMA StaysStopped == Stopped /\ [Next]_vars => Stopped'
<1> SUFFICES ASSUME Stopped, [Next]_vars PROVE Stopped' OBVIOUS
<1> USE DEF Stopped
<1>1. CASE SupervisorStep
  BY <1>1 DEF SupervisorStep, AdmitFails, AdmitPartial, Refuse, Spawn, AdmitRequest, RequestPiece,
     InTime, Expire, MemoryFits, MemoryCeiling, HostSilent, HostEof, HostPartial, HostRefused,
     HostReply, HostPiece, FeedWaits, FeedBroken, Feed, DrainWaits, DrainBroken, Drain,
     GuestSkipped, GuestEof, GuestPartial, GuestRefused, GuestEvent, GuestPiece, NotReaped, Reap,
     Kill, Wait, Report
<1>2. CASE Lost BY <1>2 DEF Lost
<1>3. CASE Kernel \/ Host \/ Guest \/ Terminated \/ UNCHANGED vars
  BY <1>3 DEF Kernel, Tick, GuestExits, GuestDead, Host, HostWrites, HostReads, HostCloses,
     HostDeaf, Guest, GuestReads, GuestWrites, GuestCloses, Terminated
<1> QED BY <1>1, <1>2, <1>3 DEF Next

(* Only the client closes the supervisor's input. *)
LEMMA OnlyTheClientCloses ==
  SupervisorStep \/ Kernel \/ Guest \/ Lost \/ UNCHANGED vars => UNCHANGED host_closed
<1> SUFFICES ASSUME SupervisorStep \/ Kernel \/ Guest \/ Lost \/ UNCHANGED vars
             PROVE  UNCHANGED host_closed
  OBVIOUS
<1>1. CASE SupervisorStep
  BY <1>1 DEF SupervisorStep, AdmitFails, AdmitPartial, Refuse, Spawn, AdmitRequest, RequestPiece,
     InTime, Expire, MemoryFits, MemoryCeiling, HostSilent, HostEof, HostPartial, HostRefused,
     HostReply, HostPiece, FeedWaits, FeedBroken, Feed, DrainWaits, DrainBroken, Drain,
     GuestSkipped, GuestEof, GuestPartial, GuestRefused, GuestEvent, GuestPiece, NotReaped, Reap,
     Kill, Wait, Report
<1>2. CASE Kernel \/ Guest \/ Lost \/ UNCHANGED vars
  BY <1>2 DEF Kernel, Tick, GuestExits, GuestDead, Guest, GuestReads, GuestWrites, GuestCloses, Lost
<1> QED BY <1>1, <1>2

(* execute() is done only when the supervisor is, unless it never started one. *)
LEMMA EndedStep == Ended /\ [EngineNext]_engineVars => Ended'
<1> SUFFICES ASSUME Ended, [EngineNext]_engineVars PROVE Ended' OBVIOUS
<1> USE DEF Ended
<1>s. Stopped => Stopped' BY EngineStep, StaysStopped
<1>1. CASE Client
  <2>1. CASE UNCHANGED vars /\ (C!Start \/ C!Interrupted \/ C!PutBroken \/ C!Invoke \/ C!Answer)
   
     BY <1>1, <2>1, <1>s DEF C!Start, C!Interrupted, C!PutBroken, C!Invoke, C!Answer, C!Go,
        C!Throw, C!Leave,
       C!Polling
  <2>2. CASE UNCHANGED vars /\ C!Reaped
    BY <1>1, <2>2, <1>s DEF C!Reaped, C!Go
  <2>3. CASE UNCHANGED vars /\ C!ReadEnded
    BY <1>1, <2>3, <1>s DEF C!ReadEnded, C!Throw, C!Leave
  <2>4. CASE HostWrites /\ C!Put
    BY <1>1, <2>4, <1>s DEF HostWrites, C!Put, C!Go
  <2>5. CASE HostReads /\ C!Get(wire[taken + 1])
    BY <1>1, <2>5, <1>s DEF HostReads, C!Get, C!ReadPartial, C!ReadUnusable, C!ReadLog, C!ReadCall,
       C!ReadCompleted, C!ReadSwallowed, C!ReadPiece, C!Reading, C!Go, C!Throw, C!Leave, C!clientVars
  <2>6. CASE HostCloses /\ C!CloseInput
    BY <1>1, <2>6, <1>s DEF C!CloseInput, C!Go
  <2>7. CASE HostDeaf /\ C!CloseOutput
    BY <1>1, <2>7, <1>s DEF HostDeaf, C!CloseOutput, C!Go
  <2>8. CASE UNCHANGED vars /\ C!Terminate
    BY <1>1, <2>8, <1>s DEF C!Terminate, C!Go
  <2>9. CASE c_at = "reap" /\ Lost /\ UNCHANGED client
    BY <1>1, <2>9, <1>s, OnlyTheClientCloses DEF client
  <2> QED BY <1>1, <2>1, <2>2, <2>3, <2>4, <2>5, <2>6, <2>7, <2>8, <2>9 DEF Client
<1>2. CASE Deadline
  BY <1>2, <1>s DEF Deadline, C!Late, C!clientVars
<1>8. CASE Cancel
  BY <1>8, <1>s DEF Cancel, C!Cancelled, C!Throw, C!Leave, C!Polling
<1>3. CASE Program
  <2>1. UNCHANGED vars \/ Guest BY <1>3 DEF Program, Guest
  <2> QED BY <1>3, <2>1, <1>s, OnlyTheClientCloses DEF Program, client
<1>4. CASE ProcessEnds
  BY <1>4, <1>s, OnlyTheClientCloses DEF ProcessEnds, Kernel, client
<1>5. CASE Supervising
  BY <1>5, <1>s, OnlyTheClientCloses DEF Supervising, client
<1>6. CASE Environment
  BY <1>6, <1>s, OnlyTheClientCloses DEF Environment, Kernel, client
<1>7. CASE Over \/ UNCHANGED engineVars
  BY <1>7, <1>s DEF Over, engineVars, client
<1> QED BY <1>1, <1>2, <1>3, <1>4, <1>5, <1>6, <1>7, <1>8 DEF EngineNext

(* NothingLeft, for any budgets, frames, pipes and faults: Client.php:145-160
   and supervisor.rs:46-56, 85-95 leave no guest behind. *)
THEOREM NothingLeftBehind == EngineSpec => []NothingLeft
<1>1. EngineInit => Doomed /\ Ended
  BY DEF EngineInit, Init, C!Init, Doomed, Ended
<1>2. Doomed /\ Ended /\ [EngineNext]_engineVars => Doomed' /\ Ended'
  BY DoomedStep, EndedStep, EngineStep
<1>3. Doomed /\ Ended => NothingLeft
  BY DEF Doomed, Ended, NothingLeft, Launched, Stopped
<1> QED BY <1>1, <1>2, <1>3, PTL DEF EngineSpec

-----------------------------------------------------------------------------
(* Every piece in a pipe is one of its frame's pieces. *)
Cut(pipe) == \A i \in DOMAIN pipe : pipe[i].no \in 1 .. pipe[i].msg.size
CutPieces == Cut(wire) /\ Cut(guest_in)

LEMMA CutAppend ==
  ASSUME NEW s \in Seq(Chunk), NEW c \in Chunk, Cut(s), c.no <= c.msg.size
  PROVE  Cut(Append(s, c))
<1>1. c.no \in 1 .. c.msg.size BY DEF Chunk, Message
<1>2. ASSUME NEW i \in DOMAIN Append(s, c) PROVE Append(s, c)[i].no \in 1 .. Append(s, c)[i].msg.size
  <2>1. CASE i \in 1 .. Len(s) BY <2>1, Appended DEF Cut
  <2>2. CASE i = Len(s) + 1 BY <1>1, <2>2, Appended
  <2> QED BY <2>1, <2>2, Appended
<1> QED BY <1>2 DEF Cut

LEMMA CutTail == ASSUME NEW s \in Seq(Chunk), s # <<>>, Cut(s) PROVE Cut(Tail(s))
BY Rest DEF Cut

(* What a writer sends next is a piece of its frame. *)
LEMMA PieceCut ==
  ASSUME NEW w \in Writer, pending(w)
  PROVE  Piece(w) \in Chunk /\ Piece(w).no <= Piece(w).msg.size /\ Piece(w).msg = w.msg
<1>1. w.off \in Nat /\ w.msg \in Message /\ w.msg.size \in Nat BY DEF Writer, Message
<1> QED BY <1>1 DEF Piece, Chunk, pending

LEMMA VerdictPiece ==
  ASSUME NEW own \in BOOLEAN, NEW type \in Tags
  PROVE  LET w == Load(failure(own, type))
         IN  w \in Writer /\ pending(w) /\ Piece(w) \in Chunk /\ Piece(w).no <= Piece(w).msg.size
<1> DEFINE w == Load(failure(own, type))
<1>1. w \in Writer BY FrameTypes
<1>2. pending(w) BY FailureFacts
<1> HIDE DEF w
<1> QED BY <1>1, <1>2, PieceCut DEF w

(* No step of Supervisor forges a piece. *)
LEMMA CutStep == TypeOK /\ CutPieces /\ [Next]_vars => CutPieces'
<1> SUFFICES ASSUME TypeOK, CutPieces, [Next]_vars PROVE CutPieces' OBVIOUS
<1> USE DEF CutPieces
<1>0. /\ wire \in Seq(Chunk) /\ guest_in \in Seq(Chunk) /\ to_guest \in Writer /\ to_host \in Writer
  BY DEF TypeOK
<1>1. CASE Drain
  <2>1. wire' = Append(wire, Piece(to_host)) /\ pending(to_host) /\ guest_in' = guest_in
    BY <1>1 DEF Drain, AfterDrain
  <2> QED BY <1>0, <2>1, PieceCut, CutAppend
<1>2. CASE Feed
  <2>1. guest_in' = Append(guest_in, Piece(to_guest)) /\ pending(to_guest) /\ wire' = wire
    BY <1>2 DEF Feed
  <2> QED BY <1>0, <2>1, PieceCut, CutAppend
<1>3. CASE Expire \/ Report
  <2>1. guest_in' = guest_in BY <1>3 DEF Expire, Report
  <2>2. CASE wire' = wire BY <2>1, <2>2
  <2>3. ASSUME NEW own \in BOOLEAN, NEW type \in Tags, wire' = Append(wire,
        Piece(Load(failure(own, type))))
        PROVE  CutPieces'
    BY <1>0, <2>1, <2>3, VerdictPiece, CutAppend
  <2>4. (request # NoMessage) \in BOOLEAN /\ TRUE \in BOOLEAN
        /\ "engine_error" \in Tags /\ "wall_timeout" \in Tags
    BY DEF Tags
  <2> QED BY <1>3, <2>2, <2>3, <2>4 DEF Expire, Report
<1>4. CASE GuestReads
  BY <1>0, <1>4, CutTail DEF GuestReads
<1>5. CASE ~Drain /\ ~Feed /\ ~Expire /\ ~Report /\ ~GuestReads
  <2>1. UNCHANGED <<wire, guest_in>>
    <3>1. CASE AdmitFails \/ AdmitPartial \/ Refuse \/ Spawn
      BY <3>1 DEF AdmitFails, AdmitPartial, Refuse, Spawn, AdmitRequest, RequestPiece
    <3>2. CASE InTime \/ MemoryFits \/ MemoryCeiling \/ NotReaped \/ Reap \/ Kill \/ Wait \/ Lost
      BY <3>2 DEF InTime, MemoryFits, MemoryCeiling, NotReaped, Reap, Kill, Wait, Lost
    <3>3. CASE HostSilent \/ HostEof \/ HostPartial \/ HostRefused \/ HostReply
      BY <3>3 DEF HostSilent, HostEof, HostPartial, HostRefused, HostReply, HostPiece
    <3>4. CASE FeedWaits \/ FeedBroken \/ DrainWaits \/ DrainBroken
      BY <3>4 DEF FeedWaits, FeedBroken, DrainWaits, DrainBroken
    <3>5. CASE GuestSkipped \/ GuestEof \/ GuestPartial \/ GuestRefused \/ GuestEvent
      BY <3>5 DEF GuestSkipped, GuestEof, GuestPartial, GuestRefused, GuestEvent, GuestPiece
    <3>6. CASE Kernel \/ Host \/ GuestWrites \/ GuestCloses
      BY <3>6 DEF Kernel, Tick, GuestExits, GuestDead, Host, HostWrites, HostReads, HostCloses,
         HostDeaf, GuestWrites, GuestCloses
    <3>7. CASE Terminated \/ UNCHANGED vars BY <3>7 DEF Terminated
    <3> QED BY <1>5, <3>1, <3>2, <3>3, <3>4, <3>5, <3>6, <3>7 DEF Next, SupervisorStep, Guest
  <2> QED BY <2>1
<1> QED BY <1>1, <1>2, <1>3, <1>4, <1>5

-----------------------------------------------------------------------------
(* Every step of the whole is a step of the client, or one it does not see; so for the guest. *)
LEMMA SameStep == C!Step <=> CP!Step
BY SameStart, SameSteps1, SameSteps2 DEF C!Step, CP!Step

(* A step of another process: the client sees at most that the supervisor ended. *)
LEMMA ClientAside ==
  ASSUME [EngineNext]_engineVars, UNCHANGED client
  PROVE  [CP!Next]_(CP!vars)
<1>1. UNCHANGED CP!clientVars /\ UNCHANGED c_late
  BY DEF client, CP!clientVars, CP!execution, CP!counts
<1>2. Stopped => Stopped' BY EngineStep, StaysStopped
<1>3. CASE ~Stopped /\ Stopped' BY <1>1, <1>3 DEF CP!Next, CP!Gone
<1>4. CASE UNCHANGED Stopped BY <1>1, <1>4 DEF CP!vars
<1> QED BY <1>2, <1>3, <1>4 DEF Stopped

(* A step of the client in the whole is a step of Client, with whatever the pipe holds. *)
LEMMA ClientActs ==
  ASSUME TypeOK, CutPieces, Client, ~UNCHANGED client
  PROVE  CP!Next
<1>1. CASE UNCHANGED <<vars, c_late>>
  <2>1. UNCHANGED <<c_late, Stopped>> BY <1>1 DEF Stopped
  <2>2. CASE C!Start \/ C!Interrupted \/ C!PutBroken \/ C!Invoke \/ C!Reaped \/ C!Terminate \/ C!ReadEnded
    BY <2>1, <2>2, SameStep DEF C!Step, CP!Next
  <2>3. CASE C!Answer BY <2>1, <2>3, SameAnswer DEF CP!Next
  <2>4. CASE HostWrites \/ HostReads \/ HostCloses \/ HostDeaf \/ Lost
    BY <1>1, <2>4 DEF HostWrites, HostReads, HostCloses, HostDeaf, Lost, TypeOK, Stopped
  <2> QED BY <2>2, <2>3, <2>4 DEF Client
<1>2. CASE HostWrites /\ C!Put /\ UNCHANGED c_late
  BY <1>2, SamePut DEF HostWrites, Stopped, CP!Next
<1>3. CASE HostReads /\ C!Get(wire[taken + 1]) /\ UNCHANGED c_late
  <2> DEFINE c == wire[taken + 1]
  <2>1. c \in Chunk /\ c.no \in 1 .. c.msg.size
    BY <1>3 DEF HostReads, TypeOK, CutPieces, Cut
  <2>2. c.msg \in Message /\ c = [msg |-> c.msg, no |-> c.no]
    BY <2>1 DEF Chunk
  <2>3. CP!Get(c)
    BY <1>3, SameGet
  <2> HIDE DEF c
  <2>4. CP!Supplied
    BY <2>1, <2>2, <2>3 DEF CP!Supplied
  <2> QED BY <1>3, <2>4 DEF HostReads, Stopped, CP!Next
<1>4. CASE ((HostCloses /\ C!CloseInput) \/ (HostDeaf /\ C!CloseOutput)) /\ UNCHANGED c_late
  BY <1>4, SameStep DEF HostCloses, HostDeaf, Stopped, C!Step, CP!Next
<1>5. CASE c_at = "reap" /\ Lost /\ UNCHANGED client BY <1>5
<1> QED BY <1>1, <1>2, <1>3, <1>4, <1>5 DEF Client

LEMMA ClientSimulated ==
  TypeOK /\ CutPieces /\ [EngineNext]_engineVars => [CP!Next]_(CP!vars)
<1> SUFFICES ASSUME TypeOK, CutPieces, [EngineNext]_engineVars PROVE [CP!Next]_(CP!vars) OBVIOUS
<1>1. CASE UNCHANGED client BY <1>1, ClientAside
<1>2. CASE Client BY <1>1, <1>2, ClientActs
<1>3. CASE Cancel
  BY <1>3, SameSteps1 DEF Cancel, Stopped, CP!Next
<1>4. CASE Deadline BY <1>4, SameLate DEF Deadline, CP!Next
<1> QED
  BY <1>1, <1>2, <1>3, <1>4 DEF EngineNext, Program, ProcessEnds, Supervising, Environment,
     Over, engineVars

(* The guest too sees at most that the supervisor ended. *)
LEMMA GuestAside ==
  ASSUME [EngineNext]_engineVars, UNCHANGED guest
  PROVE  [GP!Next]_(GP!vars)
<1>1. UNCHANGED GP!guestVars
  BY DEF guest, GP!guestVars
<1>2. Stopped => Stopped' BY EngineStep, StaysStopped
<1>3. CASE ~Stopped /\ Stopped' BY <1>1, <1>3 DEF GP!Next, GP!Leave
<1>4. CASE UNCHANGED Stopped BY <1>1, <1>4 DEF GP!vars
<1> QED BY <1>2, <1>3, <1>4 DEF Stopped

(* A step of the guest in the whole is a step of Guest. *)
LEMMA GuestActs ==
  ASSUME TypeOK, CutPieces, Program
  PROVE  GP!Next
<1>1. CASE UNCHANGED vars /\ ~GuestWrites /\ ~GuestReads
  <2>1. UNCHANGED Stopped BY <1>1 DEF Stopped
  <2>2. GP!Step
    BY <1>1, SameBeginning, SameProgram, SameLog, SameSend DEF Program, GP!Step
  <2> QED BY <2>1, <2>2 DEF GP!Next
<1>2. CASE GuestWrites /\ G!Send
  BY <1>2, SameSend DEF GuestWrites, Stopped, GP!Next
<1>3. CASE GuestReads /\ G!Receive(Head(guest_in))
  <2> DEFINE c == Head(guest_in)
  <2>0. guest_in \in Seq(Chunk) /\ guest_in # <<>>
    BY <1>3 DEF GuestReads, TypeOK
  <2>1. c \in Chunk /\ c.no \in 1 .. c.msg.size
    BY <2>0 DEF CutPieces, Cut
  <2>2. c.msg \in Message /\ c = [msg |-> c.msg, no |-> c.no]
    BY <2>1 DEF Chunk
  <2>3. GP!Receive(c)
    BY <1>3, SameReceive
  <2> HIDE DEF c
  <2>4. GP!Supplied
    BY <2>1, <2>2, <2>3 DEF GP!Supplied
  <2> QED BY <1>3, <2>4 DEF GuestReads, Stopped, GP!Next
<1>4. CASE UNCHANGED vars /\ (GuestWrites \/ GuestReads)
  <2>1. CASE GuestWrites
    <3>1. guest_out' = guest_out /\ guest_out \in Seq(Chunk) BY <1>4 DEF TypeOK
    <3>2. PICK w : guest_out' = Append(guest_out, Piece(w)) BY <2>1 DEF GuestWrites
    <3>3. Len(Append(guest_out, Piece(w))) = Len(guest_out) + 1 BY <3>1
    <3> QED BY <3>1, <3>2, <3>3
  <2>2. CASE GuestReads
    <3>1. guest_in' = guest_in /\ guest_in \in Seq(Chunk) /\ guest_in # <<>>
      BY <1>4, <2>2 DEF TypeOK, GuestReads
    <3>2. guest_in' = Tail(guest_in) BY <2>2 DEF GuestReads
    <3>3. Len(Tail(guest_in)) = Len(guest_in) - 1 BY <3>1
    <3> QED BY <3>1, <3>2, <3>3
  <2> QED BY <1>4, <2>1, <2>2
<1> QED BY <1>1, <1>2, <1>3, <1>4 DEF Program

LEMMA GuestSimulated ==
  TypeOK /\ CutPieces /\ [EngineNext]_engineVars => [GP!Next]_(GP!vars)
<1> SUFFICES ASSUME TypeOK, CutPieces, [EngineNext]_engineVars PROVE [GP!Next]_(GP!vars) OBVIOUS
<1>1. CASE UNCHANGED guest BY <1>1, GuestAside
<1>2. CASE Program BY <1>2, GuestActs
<1> QED
  BY <1>1, <1>2 DEF EngineNext, Client, Cancel, Deadline, ProcessEnds, Supervising, Environment,
     Over, engineVars

LEMMA CutInvariant == EngineSpec => [](TypeOK /\ CutPieces)
<1>1. EngineInit => TypeOK /\ CutPieces BY TypeInit DEF EngineInit, Init, CutPieces, Cut
<1>2. TypeOK /\ CutPieces /\ [EngineNext]_engineVars => (TypeOK /\ CutPieces)'
  BY EngineStep, TypeStep, CutStep
<1> QED BY <1>1, <1>2, PTL DEF EngineSpec

(* PhpRubyEngine as the whole runs it implements Client: what is proved of execute()
   against any engine holds against this one (Client.php:36-161). *)
THEOREM EngineImplementsClient == EngineSpec => CP!Spec
<1>1. EngineInit => CP!Init BY SameInit DEF EngineInit
<1> QED BY <1>1, ClientSimulated, CutInvariant, PTL DEF EngineSpec, CP!Spec

(* The guest as the whole runs it implements Guest: what is proved of the guest
   against any supervisor holds against this one (guest.rs:1-286). *)
THEOREM EngineImplementsGuest == EngineSpec => GP!Spec
<1>1. EngineInit => GP!Init BY SameGuestInit DEF EngineInit
<1> QED BY <1>1, GuestSimulated, CutInvariant, PTL DEF EngineSpec, GP!Spec

(* The client's invariant: its effects in turn, each answered before the next (Client.php:103-120). *)
THEOREM ClientHolds == EngineSpec => [](CP!CInv)
BY EngineImplementsClient, CP!Invariance, SameClientAssumption, PTL

(* The guest's invariant: its calls numbered and within the budget, its logs bounded,
   its diagnosis true (guest.rs:60-197). *)
THEOREM GuestHolds == EngineSpec => [](GP!GInv)
BY EngineImplementsGuest, GP!Invariance, SameGuestAssumption, PTL

-----------------------------------------------------------------------------
(* What the client and the guest keep by themselves, in the words of Engine. *)
(* The client, by place: how many calls it took, carried out and answered. *)
Served ==
  /\ c_sequence \in Nat /\ c_asked \in Nat /\ effects \in Seq(Nat) /\ replies \in Seq(Nat)
  /\ c_reader \in Writer /\ c_writer \in Writer
  /\ \A i \in DOMAIN effects : effects[i] = i
  /\ c_at = "start" => c_sequence = 0 /\ Len(effects) = 0 /\ Len(replies) = 0
  /\ c_at = "write" =>
       /\ pending(c_writer)
       /\ \/ c_writer.msg = Request /\ c_sequence = 0 /\ Len(effects) = 0 /\ Len(replies) = 0
          \/ (\E data \in ReplyData : c_writer.msg = C!Reply(c_sequence, data))
               /\ Len(effects) = c_sequence
               /\ Len(replies) + 1 = c_sequence
  /\ c_at = "read" => Len(effects) = c_sequence /\ Len(replies) = c_sequence
  /\ c_at = "call" => c_asked = c_sequence /\ Len(effects) + 1 = c_sequence
       /\ Len(replies) + 1 = c_sequence
  /\ c_at = "effect" => Len(effects) = c_sequence /\ Len(replies) + 1 = c_sequence
  /\ Len(replies) <= Len(effects)

(* The guest, by place: how many calls it numbered and sent, and under what request. *)
Asked ==
  /\ g_request \in Message /\ g_host.calls \in Nat /\ g_output.calls \in Seq(Nat) /\ g_writer \in Writer
  /\ g_host.sequence = g_host.calls /\ g_host.calls <= g_request.seq
  /\ Len(g_output.calls) <= g_host.calls
  /\ ~Stopped => g_host.calls = Len(g_output.calls) + (IF g_at = "call" THEN 1 ELSE 0)
  /\ g_at = "read" => g_host.calls = 0
  /\ g_at \in {"program", "call", "log", "await"} => g_request.tag # "validate"
  /\ g_at = "call" => \E data \in Shapes : g_writer.msg = G!CallFrame(g_host.sequence, data)
  /\ g_at = "log" => g_writer.msg.kind = "log"
  /\ g_at \in {"event", "report"} => g_writer.msg.kind = "completed"
  /\ g_at \in G!Writing => /\ g_at # "report" => g_writer.msg.own
                           /\ g_writer.msg.data # "buried" /\ g_writer.msg.tag # "engine_error"

LEMMA ServedAlways == EngineSpec => []Served
<1>1. CP!CInv => Served
  <2> SUFFICES ASSUME CP!CInv PROVE Served OBVIOUS
  <2>1. CP!Typed /\ CP!Turn /\ CP!Counts(effects) BY DEF CP!CInv
  <2>2. /\ c_sequence \in Nat /\ c_asked \in Nat /\ effects \in Seq(Nat) /\ replies \in Seq(Nat)
        /\ c_reader \in CP!Writer /\ c_writer \in CP!Writer
        /\ c_at = "write" => CP!pending(c_writer)
    BY <2>1 DEF CP!Typed, CP!PlaceOK, CP!CountsOK
  <2>3. c_reader \in Writer /\ c_writer \in Writer /\ (c_at = "write" => pending(c_writer))
   
     BY <2>2 DEF CP!Writer, CP!Message, CP!Kinds, CP!Tags, CP!Data, Writer, Message, Kinds, Tags, Data,
        CP!pending, pending
  <2>4. \A n, data : CP!Reply(n, data) = C!Reply(n, data) BY DEF CP!Reply, C!Reply
  <2>5. Len(effects) \in Nat /\ Len(replies) \in Nat BY <2>2
  <2> QED BY <2>1, <2>2, <2>3, <2>4, <2>5 DEF CP!Turn, CP!Replying, CP!Counts, Served
<1> QED BY <1>1, ClientHolds, PTL

LEMMA AskedAlways == EngineSpec => []Asked
<1>1. GP!GInv => Asked
  <2> SUFFICES ASSUME GP!GInv PROVE Asked OBVIOUS
  <2>1. GP!TypeOK /\ GP!InTransit /\ GP!Stages /\ GP!Numbers BY DEF GP!GInv
  <2>2. /\ g_request \in GP!Message /\ g_writer \in GP!Writer
        /\ g_host.calls \in Nat /\ g_output.calls \in Seq(Nat)
    BY <2>1 DEF GP!TypeOK
  <2>3. g_request \in Message /\ g_writer \in Writer
    BY <2>2 DEF GP!Writer, GP!Message, GP!Kinds, GP!Tags, GP!Data, Writer, Message, Kinds, Tags, Data
  <2>4. \A n, data : GP!CallFrame(n, data) = G!CallFrame(n, data)
    BY DEF GP!CallFrame, G!CallFrame, GP!Outgoing, G!Outgoing
  <2> QED BY <2>1, <2>2, <2>3, <2>4 DEF GP!InTransit, GP!Stages, GP!Numbers,
     GP!validate_only, GP!Writing, G!Writing, Asked
<1> QED BY <1>1, GuestHolds, PTL

-----------------------------------------------------------------------------
(* The steps of the supervisor and the kernel, by what they do to the calls and replies. *)
Held == UNCHANGED <<request, to_guest, pending_sequence, sequence, host_in,
      guest_in, guest_out, answered>>

Stays == /\ pc' = "admit" => pc = "admit"
         /\ pc' \in Loop => pc \in Loop
         /\ child' = "none" <=> child = "none"

(* A verdict is queued, drained or written. *)
Concludes ==
  /\ \/ to_host' = to_host \/ to_host' = Idle
     \/ \E t \in Tags : to_host' = Load(failure(TRUE, t))
  /\ \/ wire' = wire
     \/ \E own \in BOOLEAN, t \in Tags :
          /\ wire' = Append(wire, Piece(Load(failure(own, t))))
          /\ own \/ (request = NoMessage /\ pc' = "exit")

(* A piece is taken from a pipe, and perhaps refused. *)
TakesFromHost ==
  /\ host_in # <<>> /\ host_in' = Tail(host_in)
  /\ request' = request \/ (pc = "admit" /\ pc' = "report" /\ request' = Head(host_in).msg)
  /\ UNCHANGED <<to_guest, to_host, pending_sequence, sequence, guest_in, guest_out, wire, answered>>

TakesFromGuest ==
  /\ guest_out # <<>> /\ guest_out' = Tail(guest_out)
  /\ UNCHANGED <<request, to_guest, to_host, pending_sequence, sequence,
       host_in, guest_in, wire, answered>>

LEMMA SupervisorMoves ==
  ASSUME SupervisorStep \/ Lost \/ Kernel
  PROVE  \/ Spawn
         \/ Stays /\ \/ Held /\ UNCHANGED <<wire, to_host>>
                     \/ Held /\ Drain
                     \/ Held /\ Concludes
                     \/ TakesFromHost \/ TakesFromGuest
                     \/ HostReply \/ Feed \/ GuestEvent
<1> USE DEF Held, Stays
<1>1. CASE AdmitFails \/ InTime \/ MemoryFits \/ HostSilent \/ HostEof \/ FeedWaits \/ FeedBroken
  BY <1>1 DEF AdmitFails, InTime, MemoryFits, HostSilent, HostEof, FeedWaits, FeedBroken, Loop
<1>2. CASE DrainWaits \/ DrainBroken \/ GuestSkipped \/ GuestEof \/ NotReaped
  BY <1>2 DEF DrainWaits, AfterDrain, DrainBroken, GuestSkipped, GuestEof, NotReaped, Loop
<1>3. CASE Kill \/ Wait \/ Lost \/ Kernel
  BY <1>3 DEF Kill, Wait, Lost, Kernel, Tick, GuestExits, GuestDead, Loop
<1>4. CASE Drain
  BY <1>4 DEF Drain, AfterDrain, Loop
<1>5. CASE AdmitPartial \/ Refuse \/ HostPartial \/ HostRefused
 
   BY <1>5 DEF AdmitPartial, Refuse, AdmitRequest, RequestPiece, HostPartial, HostRefused,
      HostPiece, TakesFromHost, Loop
<1>6. CASE GuestPartial \/ GuestRefused
  BY <1>6 DEF GuestPartial, GuestRefused, GuestPiece, TakesFromGuest, Loop
<1>7. CASE HostReply
  BY <1>7 DEF HostReply, HostPiece, Loop
<1>8. CASE Feed
  BY <1>8 DEF Feed, Loop
<1>9. CASE GuestEvent
  BY <1>9 DEF GuestEvent, GuestPiece, QueueForHost, Loop
<1>t. /\ {"wall_timeout", "memory_limit", "engine_error"} \subseteq Tags
      /\ \A how : Verdict(how) \in Tags
  BY DEF Tags, Verdict
<1>10. CASE MemoryCeiling
  BY <1>10, <1>t DEF MemoryCeiling, QueueForHost, Concludes, Loop
<1>11. CASE Reap
  BY <1>11, <1>t DEF Reap, QueueForHost, Concludes, Loop
<1>12. CASE Expire
  <2> DEFINE told == Load(failure(TRUE, "wall_timeout"))
  <2>1. Advance(told) = Idle BY FailureFacts
  <2>2. to_host' = to_host \/ to_host' = told \/ to_host' = Idle BY <1>12, <2>1 DEF Expire
  <2>3. wire' = wire \/ wire' = Append(wire, Piece(told)) BY <1>12 DEF Expire
  <2>4. Held /\ Stays BY <1>12 DEF Expire, Loop
  <2>5. Concludes BY <1>t, <2>2, <2>3 DEF Concludes
  <2> QED BY <2>4, <2>5
<1>13. CASE Report
  <2>1. (request # NoMessage) \in BOOLEAN OBVIOUS
  <2>2. wire' = wire \/ wire' = Append(wire, Piece(Load(failure(request # NoMessage, "engine_error"))))
    BY <1>13 DEF Report
  <2>3. pc' = "exit" /\ to_host' = to_host /\ Held /\ Stays BY <1>13 DEF Report, Loop
  <2>4. Concludes BY <1>t, <2>1, <2>2, <2>3 DEF Concludes
  <2> QED BY <2>3, <2>4
<1> QED
  BY <1>1, <1>2, <1>3, <1>4, <1>5, <1>6, <1>7, <1>8, <1>9, <1>10, <1>11, <1>12, <1>13 DEF
     SupervisorStep

-----------------------------------------------------------------------------
(* The client's steps, by what they do to the calls and replies. *)
(* The places of execute() before it gives up or is done. *)
Waiting == {"start", "write", "read", "call", "effect"}
IsCall(m) == m.kind = "call"

Middle == <<pc, request, to_guest, to_host, pending_sequence, sequence, child,
            guest_in, guest_out, wire, answered>>

Opens ==
  /\ c_at = "start" /\ c_at' = "write" /\ c_writer' = Load(Request)
  /\ UNCHANGED <<host_in, taken, c_sequence, c_asked, effects, replies>>
Pauses ==
  /\ taken' \in {taken, taken + 1}
  /\ UNCHANGED <<host_in, effects, replies>>
  /\ c_at' \notin Waiting \/ UNCHANGED <<c_at, c_sequence, c_asked, c_writer>>
Puts ==
  /\ ~Stopped /\ host_in' = Append(host_in, Piece(c_writer))
  /\ c_at = "write" /\ c_writer' = Advance(c_writer)
  /\ IF Whole(Piece(c_writer))
     THEN /\ c_at' = "read"
          /\ replies' = IF c_writer.msg.kind = "reply" THEN Append(replies, c_writer.msg.seq) ELSE replies
     ELSE UNCHANGED <<c_at, replies>>
  /\ UNCHANGED <<taken, c_sequence, c_asked, effects>>
IsAsked ==
  /\ taken \in 0 .. Len(wire) - 1 /\ taken' = taken + 1
  /\ LET c == wire[taken + 1]
     IN  Whole(c) /\ IsCall(c.msg) /\ c.msg.seq = c_sequence + 1 /\ c_asked' = c.msg.seq
  /\ c_at = "read" /\ c_at' = "call" /\ c_sequence' = c_sequence + 1
  /\ UNCHANGED <<host_in, effects, replies>>
Invokes ==
  /\ c_at = "call" /\ c_at' = "effect" /\ effects' = Append(effects, c_asked)
  /\ UNCHANGED <<host_in, taken, c_sequence, c_asked, c_writer, replies>>
Responds ==
  /\ c_at = "effect" /\ c_at' = "write"
  /\ \E data \in ReplyData : c_writer' = Load(C!Reply(c_sequence, data))
  /\ UNCHANGED <<host_in, taken, c_sequence, c_asked, effects, replies>>

(* Every step of the client is one of these. *)
LEMMA ClientMoves ==
  ASSUME TypeOK, Client \/ Cancel \/ Deadline
  PROVE  /\ UNCHANGED guest
         /\ \/ Lost /\ UNCHANGED client
            \/ UNCHANGED Middle /\ (Opens \/ Pauses \/ Puts \/ IsAsked \/ Invokes \/ Responds)
<1> USE DEF Middle, C!Go, C!Throw, C!Leave, C!execution, C!counts, C!clientVars, C!Polling
<1>g. UNCHANGED guest BY DEF Client, Cancel, Deadline
<1>1. CASE UNCHANGED vars /\ C!Start
  BY <1>g, <1>1 DEF C!Start, Opens, Pauses, Waiting, C!Load, Load
<1>2. CASE UNCHANGED vars /\ (C!Interrupted \/ C!PutBroken \/ C!ReadEnded \/ C!Cancelled)
  BY <1>g, <1>2 DEF C!Interrupted, C!PutBroken, C!ReadEnded, C!Cancelled, Pauses, Waiting
<1>3. CASE UNCHANGED vars /\ (C!Reaped \/ C!Terminate \/ C!Late)
  BY <1>g, <1>3 DEF C!Reaped, C!Terminate, C!Late, Pauses, Waiting
<1>4. CASE UNCHANGED vars /\ C!Invoke
  BY <1>g, <1>4 DEF C!Invoke, Invokes
<1>5. CASE UNCHANGED vars /\ C!Answer
  BY <1>g, <1>5 DEF C!Answer, Responds, Pauses, Waiting, C!Load, Load
<1>6. CASE HostWrites /\ host_in' = Append(host_in, Piece(c_writer)) /\ C!Put
 
   BY <1>g, <1>6 DEF HostWrites, C!Put, Puts, C!Advance, Advance, C!Idle, Idle, C!NoMessage,
      NoMessage,
     C!Whole, Whole, C!Piece, Piece
<1>7. CASE HostReads /\ C!Get(wire[taken + 1])
  <2> DEFINE c == wire[taken + 1]
  <2>1. /\ UNCHANGED <<Middle, host_in>> /\ taken' = taken + 1 /\ taken < Len(wire) /\ taken \in Nat
        /\ Len(wire) \in Nat
    BY <1>7 DEF HostReads, TypeOK
  <2>2. CASE C!ReadPartial(c) \/ C!ReadSwallowed(c)
    BY <1>g, <2>1, <2>2 DEF C!ReadPartial, C!ReadSwallowed, C!ReadPiece, C!Reading, Pauses, Waiting
  <2>3. CASE C!ReadUnusable(c) \/ C!ReadCompleted(c)
    BY <1>g, <2>1, <2>3 DEF C!ReadUnusable, C!ReadCompleted, Pauses, Waiting
  <2>4. CASE C!ReadLog(c)
    BY <1>g, <2>1, <2>4 DEF C!ReadLog, C!ReadPiece, C!Reading, Pauses, Waiting
  <2>5. CASE C!ReadCall(c)
    <3>1. UNCHANGED <<effects, replies, host_in>> BY <2>1, <2>5 DEF C!ReadCall
    <3>2. CASE c_at' = "closing" BY <1>g, <2>1, <3>1, <3>2 DEF Pauses, Waiting
    <3>3. CASE c_at' # "closing"
      <4>1. /\ c_at = "read" /\ c_at' = "call" /\ Whole(c) /\ IsCall(c.msg)
                 /\ c_sequence' = c_sequence + 1
            /\ c_asked' = c.msg.seq /\ c.msg.seq = c_sequence + 1
        BY <2>5, <3>3 DEF C!ReadCall, C!ReadPiece, C!Reading, C!Whole, Whole, IsCall, C!Acceptable, C!InSequence
      <4> QED BY <1>g, <2>1, <3>1, <4>1 DEF IsAsked
    <3> QED BY <3>2, <3>3
  <2> QED BY <1>7, <2>2, <2>3, <2>4, <2>5 DEF C!Get
<1>8. CASE (HostCloses /\ C!CloseInput) \/ (HostDeaf /\ C!CloseOutput)
  BY <1>g, <1>8 DEF HostCloses, HostDeaf, C!CloseInput, C!CloseOutput, Pauses, Waiting
<1>9. CASE Lost /\ UNCHANGED client BY <1>g, <1>9
<1> HIDE DEF Middle
<1> QED BY <1>1, <1>2, <1>3, <1>4, <1>5, <1>6, <1>7, <1>8, <1>9 DEF Client, Cancel, Deadline

-----------------------------------------------------------------------------
(* The guest's steps. *)
Around == <<pc, request, to_guest, to_host, pending_sequence, sequence,
            child, host_in, wire, taken, answered, client>>

CallOpen == g_at \in {"call", "await"}

Computes ==
  /\ UNCHANGED <<guest_in, guest_out>> /\ g_output'.calls = g_output.calls
  /\ g_at' \notin {"read", "await"}
  /\ \/ Stopped
     \/ /\ g_at # "read" /\ g_request' = g_request
        /\ ~CallOpen
        /\ \/ ~CallOpen' /\ g_host'.calls = g_host.calls
           \/ g_at' = "call" /\ g_host'.calls = g_host.calls + 1
Sends ==
  /\ ~Stopped /\ guest_out' = Append(guest_out, Piece(g_writer)) /\ guest_in' = guest_in
  /\ g_at \in G!Writing /\ UNCHANGED <<g_request, g_host>>
  /\ IF Whole(Piece(g_writer))
     THEN /\ g_at' = CASE g_at = "call" -> "await" [] g_at = "log" -> "program" [] OTHER -> "exit"
          /\ g_output'.calls = IF IsCall(g_writer.msg)
               THEN Append(g_output.calls, g_writer.msg.seq) ELSE g_output.calls
     ELSE UNCHANGED <<g_at, g_output>>
Receives ==
  /\ ~Stopped /\ guest_in # <<>> /\ guest_in' = Tail(guest_in)
  /\ UNCHANGED <<guest_out, g_host, g_output>>
  /\ \/ UNCHANGED <<g_at, g_request>>
     \/ /\ Whole(Head(guest_in)) /\ g_at = "read" /\ ~CallOpen' /\ g_at' # "read"
        /\ LET m == Head(guest_in).msg IN m.kind = "request" /\ m.tag # "unparsable" => g_request' = m
     \/ Whole(Head(guest_in)) /\ g_at = "await" /\ g_at' = "program" /\ g_request' = g_request

(* Every step of the guest is one of these. *)
LEMMA ProgramMoves ==
  ASSUME TypeOK, Asked, Program
  PROVE  /\ child = "running" /\ UNCHANGED Around
         /\ Computes \/ Sends \/ Receives
<1> USE DEF CallOpen
<1>w. /\ \A own : G!Fail(own) => g_at' = "report" /\ UNCHANGED <<g_host, g_output>>
      /\ \A s, e, j : G!Conclude(s, e, j) => g_at' = "event" /\ UNCHANGED <<g_request, g_host, g_output>>
      /\ \A e : G!Raised(e) => g_at' = "event" /\ UNCHANGED <<g_request, g_host, g_output>>
      /\ \A c : G!Return(c) => g_at' = "program" /\ UNCHANGED <<g_request, g_output>>
  BY DEF G!Write, G!Fail, G!Conclude, G!Raised, G!Return
<1>0. child = "running" /\ UNCHANGED client BY DEF Program
<1>1. CASE UNCHANGED vars /\ (G!NoRequest \/ G!NoReply \/ G!Broken)
  <2>1. UNCHANGED Around BY <1>0, <1>1 DEF Around
  <2>2. Computes BY <1>1, <1>w DEF G!NoRequest, G!NoReply, G!Broken, Computes
  <2> QED BY <1>0, <2>1, <2>2
<1>2. CASE UNCHANGED vars /\ (G!Enter \/ G!Boot \/ G!AdmissionFails
      \/ G!Admitted \/ G!Unknown \/ G!CallRefused \/ G!Finish \/ G!Exhausted)
  <2>1. UNCHANGED Around BY <1>0, <1>2 DEF Around
  <2>2. /\ g_request' = g_request /\ g_host' = g_host /\ g_output' = g_output
        /\ \/ g_at = "enter" \/ g_at = "boot" \/ g_at = "admit" \/ g_at = "program"
        /\ \/ g_at' = "report" \/ g_at' = "event" \/ g_at' = "admit" \/ g_at' = "boot"
           \/ g_at' = "program" \/ g_at' = "exit"
    <3>1. CASE G!Enter BY <1>w, <3>1, Zenon DEF G!Enter
    <3>2. CASE G!Boot BY <1>w, <3>2, Zenon DEF G!Boot
    <3>3. CASE G!AdmissionFails BY <1>w, <3>3, Zenon DEF G!AdmissionFails
    <3>4. CASE G!Admitted BY <1>w, <3>4, Zenon DEF G!Admitted, G!Execute
    <3>5. CASE G!Unknown \/ G!CallRefused BY <1>w, <3>5 DEF G!Unknown, G!CallRefused
    <3>6. CASE G!Finish BY <1>w, <3>6, Zenon DEF G!Finish
    <3>7. CASE G!Exhausted BY <3>7 DEF G!Exhausted, G!VM
    <3> QED BY <1>2, <3>1, <3>2, <3>3, <3>4, <3>5, <3>6, <3>7
  <2>3. Computes BY <1>2, <2>2 DEF Computes
  <2> QED BY <1>0, <2>1, <2>3
<1>3. CASE UNCHANGED vars /\ G!Call
  <2>1. UNCHANGED Around BY <1>0, <1>3 DEF Around
  <2>2. g_host'.calls = g_host.calls + 1 /\ g_output' = g_output
    BY <1>3 DEF G!Call
  <2> QED BY <1>0, <1>3, <2>1, <2>2 DEF G!Call, G!Write, Computes
<1>4. CASE UNCHANGED vars /\ \E n \in LogLengths : G!Log(n)
  <2>1. UNCHANGED Around BY <1>0, <1>4 DEF Around
  <2>2. PICK n \in LogLengths : G!Log(n) BY <1>4
  <2>3. g_host'.calls = g_host.calls /\ g_at = "program" /\ g_request' = g_request
    BY <2>2 DEF G!Log
  <2>4. g_output'.calls = g_output.calls /\ g_at' \in {"program", "log"}
    <3>1. CASE G!NoLog BY <3>1 DEF G!NoLog
    <3>2. CASE G!SendLog(n) BY <3>2 DEF G!SendLog, G!Write
    <3> QED BY <2>2, <3>1, <3>2 DEF G!Log
  <2> QED BY <1>0, <1>4, <2>1, <2>3, <2>4 DEF Computes
<1>5. CASE GuestWrites /\ guest_out' = Append(guest_out, Piece(g_writer)) /\ G!Send
  <2>1. UNCHANGED Around /\ ~Stopped /\ guest_in' = guest_in BY <1>0, <1>5 DEF Around, GuestWrites
  <2>2. Whole(Piece(g_writer)) <=> G!Whole(G!Piece(g_writer))
    BY DEF Whole, Piece, G!Whole, G!Piece
  <2>3. G!Sent(g_writer.msg).calls = IF IsCall(g_writer.msg)
        THEN Append(g_output.calls, g_writer.msg.seq) ELSE g_output.calls
    BY DEF G!Sent, IsCall
  <2> QED BY <1>0, <1>5, <2>1, <2>2, <2>3 DEF G!Send, G!After, Sends
<1>6. CASE GuestReads /\ G!Receive(Head(guest_in))
  <2>1. UNCHANGED Around /\ ~Stopped /\ guest_in # <<>> /\ guest_in' = Tail(guest_in)
        /\ guest_out' = guest_out
    BY <1>0, <1>6 DEF Around, GuestReads
  <2>2. Whole(Head(guest_in)) <=> G!Whole(Head(guest_in)) BY DEF Whole, G!Whole
  <2> QED
    BY <1>0, <1>6, <2>1, <2>2, <1>w DEF G!guestVars, G!Receive, G!ReadPartial, G!ReadRequest,
       G!ReadReply, G!Usable, Receives
<1> QED BY <1>1, <1>2, <1>3, <1>4, <1>5, <1>6 DEF Program

(* A writer sends one piece, and rests after the last. *)
LEMMA Advances ==
  ASSUME NEW w \in Writer, pending(w)
  PROVE  /\ Piece(w) \in Chunk /\ Piece(w).msg = w.msg
         /\ IF Whole(Piece(w)) THEN Advance(w) = Idle
            ELSE pending(Advance(w)) /\ Advance(w).msg = w.msg
<1>1. w.off \in Nat /\ w.msg \in Message /\ w.msg.size \in Nat BY DEF Writer, Message
<1>2. Piece(w) \in Chunk /\ Piece(w).msg = w.msg /\ Piece(w).no = w.off + 1 BY <1>1 DEF Piece, Chunk
<1>3. CASE Whole(Piece(w)) BY <1>2, <1>3 DEF Advance, Whole
<1>4. CASE ~Whole(Piece(w))
  <2>1. Advance(w) = [w EXCEPT !.off = w.off + 1] /\ w.off + 1 # w.msg.size
    BY <1>2, <1>4 DEF Advance, Whole
  <2>2. Advance(w).msg = w.msg /\ Advance(w).off = w.off + 1 BY <1>1, <2>1 DEF Writer
  <2> QED BY <1>1, <1>2, <1>4, <2>1, <2>2 DEF pending
<1> QED BY <1>2, <1>3, <1>4

LEMMA IdleRests == ~pending(Idle) BY DEF pending, Idle, NoMessage

(* What a frame of the verdicts is not. *)
LEMMA NoCall ==
  \A own \in BOOLEAN, t \in Tags :
    LET w == Load(failure(own, t)) IN
    /\ w \in Writer /\ pending(w) /\ w.msg.kind = "completed" /\ w.msg.own = own
    /\ Piece(w) \in Chunk /\ Piece(w).msg = w.msg /\ ~IsCall(w.msg)
<1> TAKE own \in BOOLEAN, t \in Tags
<1> DEFINE w == Load(failure(own, t))
<1>1. w \in Writer BY FrameTypes
<1>2. pending(w) /\ w.msg.kind = "completed" BY FailureFacts
<1>3. w.msg.own = own BY DEF Load, failure
<1> HIDE DEF w
<1> QED BY <1>1, <1>2, <1>3, Advances DEF w, IsCall

(* A step of the whole is one of these. *)
Aside == UNCHANGED <<client, guest, taken>> /\ (SupervisorStep \/ Lost \/ Kernel)
LEMMA EngineMoves ==
  ASSUME [EngineNext]_engineVars
  PROVE  Aside \/ Client \/ Cancel \/ Deadline \/ Program \/ UNCHANGED engineVars
<1>1. SupervisorStep \/ Lost \/ Kernel => UNCHANGED taken
  <2>1. ASSUME SupervisorStep PROVE UNCHANGED taken
    BY <2>1 DEF SupervisorStep, AdmitFails, AdmitPartial, Refuse, Spawn, AdmitRequest, RequestPiece,
       InTime, Expire, MemoryFits, MemoryCeiling, HostSilent, HostEof, HostPartial, HostRefused,
       HostReply, HostPiece, FeedWaits, FeedBroken, Feed, DrainWaits, DrainBroken, Drain,
       GuestSkipped, GuestEof, GuestPartial, GuestRefused, GuestEvent, GuestPiece, NotReaped, Reap,
       Kill, Wait, Report
  <2> QED BY <2>1 DEF Lost, Kernel, Tick, GuestExits, GuestDead
<1> QED
  BY <1>1 DEF EngineNext, Aside, Supervising, Environment, ProcessEnds, Over, Kernel, engineVars

-----------------------------------------------------------------------------
(* A call travels onward: written by the guest, relayed, served. *)
CallsSent ==
  /\ \A i \in DOMAIN guest_out :
       Whole(guest_out[i]) /\ IsCall(guest_out[i].msg) => guest_out[i].msg.seq <= Len(g_output.calls)
  /\ sequence <= Len(g_output.calls)
CallsRelayed ==
  /\ pending(to_host) /\ IsCall(to_host.msg) => to_host.msg.seq <= sequence
  /\ \A i \in DOMAIN wire : IsCall(wire[i].msg) => wire[i].msg.seq <= sequence
CallsServed ==
  /\ c_at = "call" => c_asked <= sequence
  /\ Len(effects) <= sequence
Onward == CallsSent /\ CallsRelayed /\ CallsServed

(* What the supervisor takes from the guest and relays. *)
LEMMA EventTaken ==
  ASSUME TypeOK, GuestEvent
  PROVE  LET c == Head(guest_out) IN
         /\ guest_out # <<>> /\ 1 \in DOMAIN guest_out /\ c = guest_out[1]
              /\ c \in Chunk /\ c.msg \in Message
         /\ Whole(c) /\ Relayed(c.msg) /\ guest_out' = Tail(guest_out) /\ ~pending(to_host)
         /\ to_host' = to_host \/ to_host' = Load(c.msg)
         /\ IF IsCall(c.msg) THEN c.msg.seq = sequence + 1 /\ sequence' = sequence + 1
              /\ pending_sequence' = sequence + 1
            ELSE UNCHANGED <<sequence, pending_sequence>>
         /\ UNCHANGED <<request, to_guest, host_in, guest_in, wire, answered, child>>
<1>1. guest_out # <<>> /\ guest_out \in Seq(Chunk) BY DEF GuestEvent, GuestPiece, TypeOK
<1>2. 1 \in DOMAIN guest_out /\ Head(guest_out) = guest_out[1] /\ Head(guest_out) \in Chunk BY <1>1
<1>3. Head(guest_out).msg \in Message BY <1>2 DEF Chunk
<1> QED
  BY <1>1, <1>2, <1>3 DEF GuestEvent, GuestPiece, QueueForHost, Relayed, CallAllowed, IsCall,
     GuestReadable

(* What the guest says when it calls. *)
LEMMA CallSaid ==
  ASSUME Asked, g_at = "call"
  PROVE  /\ IsCall(g_writer.msg) /\ g_writer.msg.own /\ g_writer.msg.tag = "listed"
         /\ g_writer.msg.seq = g_host.calls
<1>1. PICK data \in Shapes : g_writer.msg = G!CallFrame(g_host.sequence, data) BY DEF Asked
<1>2. g_host.sequence = g_host.calls BY DEF Asked
<1> QED BY <1>1, <1>2 DEF G!CallFrame, G!Outgoing, IsCall

(* The supervisor counts no call the guest has not sent. *)
LEMMA SentStep ==
  ASSUME TypeOK, Asked, CallsSent, [EngineNext]_engineVars
  PROVE  CallsSent'
<1>0. guest_out \in Seq(Chunk) /\ sequence \in Nat /\ g_output.calls \in Seq(Nat)
      /\ Len(g_output.calls) \in Nat
      /\ g_writer \in Writer
  BY DEF TypeOK, Asked
<1>1. ASSUME UNCHANGED <<guest_out, sequence>>, g_output'.calls = g_output.calls PROVE CallsSent'
  BY <1>1 DEF CallsSent
<1>2. ASSUME guest_out # <<>>, guest_out' = Tail(guest_out), g_output'.calls = g_output.calls,
      sequence' <= Len(g_output.calls)
      PROVE CallsSent'
  BY <1>0, <1>2, Rest DEF CallsSent
<1>3. CASE Aside
  <2>1. UNCHANGED g_output BY <1>3 DEF Aside, guest
  <2>2. CASE GuestEvent
    <3>1. guest_out # <<>> /\ guest_out' = Tail(guest_out) BY <2>2, EventTaken
    <3>2. sequence' <= Len(g_output.calls) BY <2>2, EventTaken DEF CallsSent
    <3> QED BY <1>2, <2>1, <3>1, <3>2
  <2>3. CASE TakesFromGuest
    BY <1>2, <2>1, <2>3 DEF TakesFromGuest, CallsSent
  <2>4. CASE Spawn \/ Held \/ TakesFromHost \/ HostReply \/ Feed
   
     BY <1>1, <2>1, <2>4 DEF Spawn, AdmitRequest, RequestPiece, Held, TakesFromHost, HostReply,
        HostPiece, Feed
  <2> QED BY <1>3, <2>2, <2>3, <2>4, SupervisorMoves DEF Aside
<1>4. CASE Client \/ Cancel \/ Deadline
  <2>1. UNCHANGED <<guest_out, sequence, g_output>>
    BY <1>4, ClientMoves DEF guest, Middle, Lost
  <2> QED BY <1>1, <2>1
<1>5. CASE Program
  <2>1. UNCHANGED sequence /\ (Computes \/ Sends \/ Receives) BY <1>5, ProgramMoves DEF Around
  <2>2. CASE Computes \/ Receives BY <1>1, <2>1, <2>2 DEF Computes, Receives
  <2>3. CASE Sends
    <3> DEFINE p == Piece(g_writer)
    <3>w. g_at = "call" => g_writer.msg.seq = g_host.calls BY CallSaid
    <3>1. p \in Chunk /\ p.msg = g_writer.msg BY <1>0 DEF Piece, Chunk, Writer
    <3>2. IsCall(p.msg) => p.msg.seq = Len(g_output.calls) + 1
      BY <2>3, <3>1, <3>w DEF Sends, G!Writing, Asked, IsCall
    <3>3. Len(g_output'.calls) = IF Whole(p) /\ IsCall(p.msg) THEN Len(g_output.calls) + 1
          ELSE Len(g_output.calls)
      <4>1. CASE Whole(p) /\ IsCall(p.msg)
        <5>1. g_output'.calls = Append(g_output.calls, p.msg.seq) BY <2>3, <3>1, <4>1 DEF Sends
        <5>2. p.msg.seq = Len(g_output.calls) + 1 BY <3>2, <4>1
        <5> HIDE DEF p
        <5> QED BY <1>0, <4>1, <5>1, <5>2
      <4>2. CASE Whole(p) /\ ~IsCall(p.msg) BY <2>3, <3>1, <4>2 DEF Sends
      <4>3. CASE ~Whole(p) BY <2>3, <4>3 DEF Sends
      <4> QED BY <4>1, <4>2, <4>3
    <3>4. guest_out' = Append(guest_out, p) BY <2>3 DEF Sends
    <3> HIDE DEF p
    <3>5. ASSUME NEW i \in DOMAIN guest_out', Whole(guest_out'[i]), IsCall(guest_out'[i].msg)
          PROVE guest_out'[i].msg.seq <= Len(g_output'.calls)
      <4>1. CASE i \in 1 .. Len(guest_out)
        <5>1. guest_out'[i] = guest_out[i] /\ i \in DOMAIN guest_out
          BY <1>0, <3>1, <3>4, <4>1, Appended
        <5>2. guest_out[i].msg.seq \in Nat
          <6>1. guest_out[i] \in Chunk BY <1>0, <5>1
          <6> QED BY <6>1 DEF Chunk, Message
        <5> QED BY <1>0, <3>3, <3>5, <5>1, <5>2 DEF CallsSent
      <4>2. CASE i = Len(guest_out) + 1
        <5>1. guest_out'[i] = p BY <1>0, <3>1, <3>4, <4>2, Appended
        <5> QED BY <3>2, <3>3, <3>5, <5>1, <1>0
      <4> QED BY <1>0, <3>1, <3>4, <4>1, <4>2, Appended
    <3> QED BY <1>0, <2>1, <3>3, <3>5 DEF CallsSent
  <2> QED BY <2>1, <2>2, <2>3
<1>6. CASE UNCHANGED engineVars BY <1>1, <1>6 DEF engineVars, guest
<1> QED BY <1>3, <1>4, <1>5, <1>6, EngineMoves

(* A piece of the buffered frame goes to stdout. *)
LEMMA DrainFacts ==
  ASSUME TypeOK, Drain
  PROVE  LET p == Piece(to_host) IN
         /\ pending(to_host) /\ p \in Chunk /\ p.msg = to_host.msg /\ wire' = Append(wire, p)
         /\ wire \in Seq(Chunk)
         /\ IF Whole(p) THEN to_host' = Idle ELSE pending(to_host') /\ to_host'.msg = to_host.msg
BY Advances DEF Drain, Unsent, TypeOK

(* What Append adds satisfies what the rest does. *)
LEMMA RelayedAppend ==
  ASSUME wire \in Seq(Chunk), NEW c \in Chunk, wire' = Append(wire, c), CallsRelayed,
         IsCall(c.msg) => c.msg.seq <= sequence
  PROVE  \A i \in DOMAIN wire' : IsCall(wire'[i].msg) => wire'[i].msg.seq <= sequence
<1>1. ASSUME NEW i \in DOMAIN wire', IsCall(wire'[i].msg) PROVE wire'[i].msg.seq <= sequence
  <2>1. CASE i \in 1 .. Len(wire) BY <1>1, <2>1, Appended DEF CallsRelayed
  <2>2. CASE i = Len(wire) + 1 BY <1>1, <2>2, Appended
  <2> QED BY <2>1, <2>2, Appended
<1> QED BY <1>1

(* No call is queued or on stdout that the supervisor has not counted. *)
LEMMA RelayedStep ==
  ASSUME TypeOK, Asked, CallsRelayed, [EngineNext]_engineVars
  PROVE  CallsRelayed'
<1>0. wire \in Seq(Chunk) /\ sequence \in Nat BY DEF TypeOK
<1>1. ASSUME UNCHANGED <<to_host, wire, sequence>> PROVE CallsRelayed'
  BY <1>1 DEF CallsRelayed
<1>2. CASE Aside
  <2>1. CASE GuestEvent
    <3> DEFINE c == Head(guest_out)
    <3>1. /\ c \in Chunk /\ (to_host' = to_host \/ to_host' = Load(c.msg))
          /\ IF IsCall(c.msg) THEN c.msg.seq = sequence + 1 /\ sequence' = sequence + 1
               ELSE sequence' = sequence
          /\ wire' = wire
      BY <2>1, EventTaken
    <3> HIDE DEF c
    <3>2. sequence' >= sequence BY <1>0, <3>1
    <3>3. pending(to_host') /\ IsCall(to_host'.msg) => to_host'.msg.seq <= sequence'
      <4>1. CASE to_host' = Load(c.msg)
        <5>1. to_host'.msg = c.msg BY <4>1 DEF Load
        <5> QED BY <1>0, <3>1, <5>1
      <4>2. CASE to_host' = to_host
        <5>1. to_host.msg.seq \in Nat BY DEF TypeOK, Writer, Message
        <5> QED BY <1>0, <3>2, <4>2, <5>1, <3>1 DEF CallsRelayed
      <4> QED BY <3>1, <4>1, <4>2
    <3>4. \A i \in DOMAIN wire' : IsCall(wire'[i].msg) => wire'[i].msg.seq <= sequence'
      <4>1. \A i \in DOMAIN wire : wire[i] \in Chunk BY <1>0
      <4>2. \A i \in DOMAIN wire : wire[i].msg.seq \in Nat BY <4>1 DEF Chunk, Message
      <4> QED BY <1>0, <3>1, <3>2, <4>2 DEF CallsRelayed
    <3> QED BY <3>3, <3>4 DEF CallsRelayed
  <2>2. CASE Held /\ Drain
    <3>1. sequence' = sequence BY <2>2 DEF Held
    <3>2. IsCall(to_host.msg) => to_host.msg.seq <= sequence BY <2>2, DrainFacts DEF CallsRelayed
    <3>3. pending(to_host') /\ IsCall(to_host'.msg) => to_host'.msg.seq <= sequence
      BY <2>2, <3>2, DrainFacts, IdleRests
    <3>4. \A i \in DOMAIN wire' : IsCall(wire'[i].msg) => wire'[i].msg.seq <= sequence
      BY <1>0, <2>2, <3>2, DrainFacts, RelayedAppend
    <3> QED BY <3>1, <3>3, <3>4 DEF CallsRelayed
  <2>3. CASE Held /\ Concludes
    <3>1. sequence' = sequence BY <2>3 DEF Held
    <3>2. to_host' = to_host \/ ~(pending(to_host') /\ IsCall(to_host'.msg))
      BY <2>3, IdleRests, NoCall DEF Concludes
    <3>3. \A i \in DOMAIN wire' : IsCall(wire'[i].msg) => wire'[i].msg.seq <= sequence
      <4>1. CASE wire' = wire BY <4>1 DEF CallsRelayed
      <4>2. ASSUME NEW own \in BOOLEAN, NEW t \in Tags, wire' = Append(wire, Piece(Load(failure(own, t))))
            PROVE \A i \in DOMAIN wire' : IsCall(wire'[i].msg) => wire'[i].msg.seq <= sequence
        BY <1>0, <4>2, NoCall, RelayedAppend
      <4> QED BY <2>3, <4>1, <4>2 DEF Concludes
    <3> QED BY <3>1, <3>2, <3>3 DEF CallsRelayed
  <2>4. CASE Spawn \/ TakesFromHost \/ TakesFromGuest \/ HostReply \/ Feed \/ (Held
        /\ UNCHANGED <<wire, to_host>>)
   
     BY <1>1, <2>4 DEF Spawn, AdmitRequest, RequestPiece, Held, TakesFromHost, TakesFromGuest,
        HostReply, HostPiece, Feed
  <2> QED BY <1>2, <2>1, <2>2, <2>3, <2>4, SupervisorMoves DEF Aside
<1>3. CASE Client \/ Cancel \/ Deadline
  BY <1>1, <1>3, ClientMoves DEF Middle, Lost
<1>4. CASE Program BY <1>1, <1>4, ProgramMoves DEF Around
<1>5. CASE UNCHANGED engineVars BY <1>1, <1>5 DEF engineVars
<1> QED BY <1>2, <1>3, <1>4, <1>5, EngineMoves

(* The supervisor's counter of calls only grows. *)
LEMMA CounterGrows ==
  ASSUME TypeOK, Asked, [EngineNext]_engineVars
  PROVE  sequence' \in {sequence, sequence + 1}
<1>1. CASE Aside
  <2>1. CASE GuestEvent BY <2>1, EventTaken
  <2>2. CASE ~GuestEvent
   
     BY <1>1, <2>2, SupervisorMoves DEF Aside, Spawn, AdmitRequest, RequestPiece, Held,
        TakesFromHost, TakesFromGuest,
       HostReply, HostPiece, Feed
  <2> QED BY <2>1, <2>2
<1>2. CASE Client \/ Cancel \/ Deadline BY <1>2, ClientMoves DEF Middle, Lost
<1>3. CASE Program BY <1>3, ProgramMoves DEF Around
<1>4. CASE UNCHANGED engineVars BY <1>4 DEF engineVars
<1> QED BY <1>1, <1>2, <1>3, <1>4, EngineMoves

(* The client carries out no call the supervisor has not counted. *)
LEMMA ServedStep ==
  ASSUME TypeOK, Asked, Served, CallsRelayed, CallsServed, [EngineNext]_engineVars
  PROVE  CallsServed'
<1>0. sequence \in Nat /\ sequence' \in Nat /\ sequence <= sequence' BY CounterGrows DEF TypeOK
<1>s. effects \in Seq(Nat) /\ Len(effects) \in Nat /\ c_asked \in Nat BY DEF Served
<1>1. ASSUME UNCHANGED effects, c_at' = "call" => c_at = "call" /\ c_asked' = c_asked
      PROVE CallsServed'
  BY <1>0, <1>s, <1>1 DEF CallsServed
<1>2. CASE UNCHANGED client BY <1>1, <1>2 DEF client
<1>3. CASE Client \/ Cancel \/ Deadline
  <2>1. CASE Opens \/ Pauses \/ Puts \/ Responds
    BY <1>1, <2>1 DEF Opens, Pauses, Puts, Responds, Waiting
  <2>2. CASE IsAsked
    <3>1. /\ taken + 1 \in DOMAIN wire /\ IsCall(wire[taken + 1].msg)
               /\ c_asked' = wire[taken + 1].msg.seq
          /\ effects' = effects
      BY <2>2 DEF IsAsked, TypeOK
    <3>2. c_asked' <= sequence BY <3>1 DEF CallsRelayed
    <3>3. c_asked' \in Nat
      <4>1. wire[taken + 1] \in Chunk BY <3>1 DEF TypeOK
      <4> QED BY <3>1, <4>1 DEF Chunk, Message
    <3> QED BY <1>0, <1>s, <3>1, <3>2, <3>3 DEF CallsServed
  <2>3. CASE Invokes
    <3>1. Len(effects') = Len(effects) + 1 /\ c_at' = "effect" /\ Len(effects) + 1 = c_asked
      BY <1>s, <2>3 DEF Invokes, Served
    <3>2. c_asked <= sequence BY <2>3 DEF Invokes, CallsServed
    <3> QED BY <1>0, <1>s, <3>1, <3>2 DEF CallsServed
  <2> QED BY <1>2, <1>3, <2>1, <2>2, <2>3, ClientMoves
<1>4. CASE Aside \/ Program \/ UNCHANGED engineVars
  BY <1>2, <1>4 DEF Aside, Program, engineVars
<1> QED BY <1>3, <1>4, EngineMoves

LEMMA OnwardStep ==
  ASSUME TypeOK, Asked, Served, Onward, [EngineNext]_engineVars
  PROVE  Onward'
BY SentStep, RelayedStep, ServedStep DEF Onward

(* A reply travels backward: written after its effect, accepted in turn. *)
Backward ==
  /\ \A i \in DOMAIN host_in : host_in[i].msg.kind = "reply" => host_in[i].msg.seq <= Len(effects)
  /\ answered <= Len(effects)
  /\ pending_sequence \in {0, sequence}

(* What the supervisor takes from the client and feeds to the guest. *)
LEMMA ReplyTaken ==
  ASSUME TypeOK, CInv, pending_sequence \in {0, sequence}, HostReply
  PROVE  LET c == Head(host_in) IN
         /\ host_in # <<>> /\ 1 \in DOMAIN host_in /\ c = host_in[1] /\ c \in Chunk /\ c.msg \in Message
         /\ Whole(c) /\ c.msg.own /\ c.msg.kind = "reply" /\ c.msg.seq = answered + 1
         /\ host_in' = Tail(host_in)
         /\ sequence = answered + 1 /\ pending_sequence = sequence
              /\ pending_sequence' = 0 /\ pc = "hostin"
         /\ \/ UNCHANGED <<to_guest, answered>> /\ pc' = "kill"
            \/ answered' = answered + 1 /\ ~pending(to_guest) /\ to_guest' = Load(c.msg) /\ pc' = "feed"
         /\ UNCHANGED <<request, to_host, sequence, guest_in, guest_out, wire, child>>
<1>1. host_in # <<>> /\ host_in \in Seq(Chunk) /\ pc = "hostin" BY DEF HostReply, HostPiece, TypeOK
<1>2. 1 \in DOMAIN host_in /\ Head(host_in) = host_in[1] /\ Head(host_in) \in Chunk BY <1>1
<1>3. Head(host_in).msg \in Message BY <1>2 DEF Chunk
<1>4. /\ pending_sequence # 0 /\ Head(host_in).msg.seq = pending_sequence
           /\ Head(host_in).msg.kind = "reply" /\ Head(host_in).msg.own
      /\ Whole(Head(host_in)) /\ host_in' = Tail(host_in) /\ pending_sequence' = 0
      /\ \/ UNCHANGED <<to_guest, answered>> /\ pc' = "kill"
         \/ answered' = answered + 1 /\ ~pending(to_guest)
              /\ to_guest' = Load(Head(host_in).msg) /\ pc' = "feed"
      /\ UNCHANGED <<request, to_host, sequence, guest_in, guest_out, wire, child>>
  BY DEF HostReply, HostPiece, IsReply
<1>5. sequence = answered + 1 BY <1>1, <1>4 DEF CInv, Outstanding, Loop
<1> QED BY <1>1, <1>2, <1>3, <1>4, <1>5

(* The supervisor accepts no reply to a call that was not carried out. *)
LEMMA BackwardStep ==
  ASSUME TypeOK, CInv, Asked, Served, Backward, [EngineNext]_engineVars
  PROVE  Backward'
<1>0. /\ host_in \in Seq(Chunk) /\ answered \in Nat /\ sequence \in Nat
      /\ effects \in Seq(Nat) /\ Len(effects) \in Nat /\ c_asked \in Nat /\ c_sequence \in Nat
  BY DEF TypeOK, Served
<1>t. \A i \in DOMAIN host_in : host_in[i].msg.seq \in Nat
  <2>1. \A i \in DOMAIN host_in : host_in[i] \in Chunk BY <1>0
  <2> QED BY <2>1 DEF Chunk, Message
<1>1. ASSUME UNCHANGED <<host_in, answered, pending_sequence, sequence>>,
      Len(effects') \in Nat, Len(effects) <= Len(effects')
      PROVE Backward'
  BY <1>0, <1>1, <1>t DEF Backward
<1>2. ASSUME host_in # <<>>, host_in' = Tail(host_in), UNCHANGED effects,
      pending_sequence' \in {0, sequence'},
             answered' <= Len(effects)
      PROVE Backward'
  BY <1>0, <1>2, Rest DEF Backward
<1>3. CASE Aside
  <2>1. UNCHANGED effects BY <1>3 DEF Aside, client
  <2>2. CASE HostReply
    <3>1. answered' <= Len(effects) BY <1>0, <2>2, ReplyTaken DEF Backward
    <3> QED BY <1>2, <2>1, <2>2, <3>1, ReplyTaken DEF Backward
  <2>3. CASE TakesFromHost BY <1>2, <2>1, <2>3 DEF TakesFromHost, Backward
  <2>4. CASE GuestEvent
    <3>1. /\ host_in' = host_in /\ answered' = answered
          /\ UNCHANGED <<pending_sequence, sequence>> \/ pending_sequence' = sequence'
      BY <2>4, EventTaken
    <3> QED BY <2>1, <3>1 DEF Backward
  <2>5. CASE Spawn
    <3>1. /\ host_in # <<>> /\ host_in' = Tail(host_in)
               /\ UNCHANGED <<pending_sequence, sequence, answered>>
      BY <2>5 DEF Spawn, AdmitRequest, RequestPiece
    <3> QED BY <1>2, <2>1, <3>1 DEF Backward
  <2>6. CASE Held \/ TakesFromGuest \/ Feed
    BY <1>0, <1>1, <2>1, <2>6 DEF Held, TakesFromGuest, Feed
  <2> QED BY <1>3, <2>2, <2>3, <2>4, <2>5, <2>6, SupervisorMoves DEF Aside
<1>4. CASE Client \/ Cancel \/ Deadline
  <2>1. CASE Lost /\ UNCHANGED client BY <1>0, <1>1, <2>1 DEF Lost, client
  <2>2. CASE UNCHANGED Middle /\ (Opens \/ Pauses \/ IsAsked \/ Responds)
    BY <1>0, <1>1, <2>2 DEF Middle, Opens, Pauses, IsAsked, Responds
  <2>3. CASE UNCHANGED Middle /\ Invokes
    <3>1. Len(effects') = Len(effects) + 1 BY <1>0, <2>3 DEF Invokes
    <3> QED BY <1>0, <1>1, <2>3, <3>1 DEF Middle, Invokes
  <2>4. CASE UNCHANGED Middle /\ Puts
    <3> DEFINE p == Piece(c_writer)
    <3>1. p \in Chunk /\ p.msg = c_writer.msg /\ host_in' = Append(host_in, p)
      BY <2>4, Advances DEF Puts, Served
    <3>2. p.msg.kind = "reply" => p.msg.seq <= Len(effects)
      <4>1. c_at = "write" BY <2>4 DEF Puts
      <4>2. CASE c_writer.msg = Request
        BY <3>1, <4>2, EngineAssumption DEF C!ClientAssumption
      <4>3. CASE (\E data \in ReplyData : c_writer.msg = C!Reply(c_sequence, data))
                 /\ Len(effects) = c_sequence
        <5>1. c_writer.msg.seq = c_sequence BY <4>3 DEF C!Reply
        <5> QED BY <1>0, <3>1, <4>3, <5>1
      <4> QED BY <4>1, <4>2, <4>3 DEF Served
    <3> HIDE DEF p
    <3>3. ASSUME NEW i \in DOMAIN host_in', host_in'[i].msg.kind = "reply"
          PROVE host_in'[i].msg.seq <= Len(effects)
      <4>1. CASE i \in 1 .. Len(host_in) BY <1>0, <3>1, <3>3, <4>1, Appended DEF Backward
      <4>2. CASE i = Len(host_in) + 1 BY <1>0, <3>1, <3>2, <3>3, <4>2, Appended
      <4> QED BY <1>0, <3>1, <4>1, <4>2, Appended
    <3>4. UNCHANGED <<effects, answered, pending_sequence, sequence>> BY <2>4 DEF Middle, Puts
    <3> QED BY <3>3, <3>4 DEF Backward
  <2> QED BY <1>4, <2>1, <2>2, <2>3, <2>4, ClientMoves
<1>5. CASE Program
  <2>1. UNCHANGED <<host_in, answered, pending_sequence, sequence, effects>>
    BY <1>5, ProgramMoves DEF Around, client
  <2> QED BY <1>0, <1>1, <2>1
<1>6. CASE UNCHANGED engineVars BY <1>0, <1>1, <1>6 DEF engineVars, client
<1> QED BY <1>3, <1>4, <1>5, <1>6, EngineMoves

-----------------------------------------------------------------------------
(* A reply reaches the guest before it goes on. *)
Given == IF g_at \in {"call", "await"} THEN g_host.calls - 1 ELSE g_host.calls

Unfed == child = "none" => g_at = "read" /\ guest_in = <<>> /\ ~pending(to_guest)
LastWhole == \A i \in DOMAIN guest_in : Whole(guest_in[i]) => i = Len(guest_in) /\ ~pending(to_guest)
InStep == ~Stopped =>
            /\ pending(to_guest) \/ guest_in # <<>> => g_at = "read" \/ answered = Given + 1
            /\ answered \in {Given, Given + 1}
Fed == Unfed /\ LastWhole /\ InStep

(* When a reply is accepted, the guest has had every one before it. *)
LEMMA ReplyAwaited ==
  ASSUME TypeOK, CInv, Asked, InStep, CallsSent, Backward, HostReply
  PROVE  /\ answered = Given /\ guest_in = <<>> /\ ~pending(to_guest)
         /\ g_at # "read" /\ ~Stopped /\ answered + 1 <= Len(g_output.calls)
<1>1. pc = "hostin" /\ sequence = answered + 1
  BY ReplyTaken DEF Backward
<1>2. ~Stopped BY <1>1 DEF Stopped
<1>3. /\ answered + 1 <= Len(g_output.calls) /\ answered \in Nat /\ Len(g_output.calls) \in Nat
      /\ g_host.calls \in Nat /\ Len(g_output.calls) <= g_host.calls
  BY <1>1 DEF CallsSent, TypeOK, Asked
<1>4. g_at # "read" BY <1>3 DEF Asked
<1>5. answered = Given
  <2>1. answered \in {Given, Given + 1} BY <1>2 DEF InStep
  <2>2. g_host.calls = Len(g_output.calls) + (IF g_at = "call" THEN 1 ELSE 0) BY <1>2 DEF Asked
  <2>3. CASE g_at = "call"
    <3>1. Given = Len(g_output.calls) BY <1>3, <2>2, <2>3 DEF Given
    <3> QED BY <1>3, <2>1, <3>1
  <2>4. CASE g_at # "call"
    <3>1. g_host.calls = Len(g_output.calls) BY <1>3, <2>2, <2>4
    <3>2. Given \in {Len(g_output.calls) - 1, Len(g_output.calls)} BY <3>1 DEF Given
    <3> QED BY <1>3, <2>1, <3>2
  <2> QED BY <2>3, <2>4
<1>6. guest_in = <<>> /\ ~pending(to_guest)
  <2>1. Given \in Int BY <1>3 DEF Given
  <2> QED BY <1>2, <1>4, <1>5, <2>1 DEF InStep
<1> QED BY <1>2, <1>3, <1>4, <1>5, <1>6

(* Before the guest is spawned it has read nothing. *)
LEMMA UnfedStep ==
  ASSUME TypeOK, CInv, Asked, Unfed, InStep, CallsSent, Backward, [EngineNext]_engineVars
  PROVE  Unfed'
<1>1. ASSUME UNCHANGED <<g_at, guest_in, to_guest>>, child' = "none" => child = "none" PROVE Unfed'
  BY <1>1 DEF Unfed
<1>2. CASE Aside
  <2>1. UNCHANGED g_at BY <1>2 DEF Aside, guest
  <2>2. CASE HostReply
    <3>1. g_at # "read" /\ child' = child BY <2>2, ReplyAwaited, ReplyTaken DEF Backward
    <3> QED BY <3>1 DEF Unfed
  <2>3. CASE Feed BY <2>3 DEF Feed, Unfed
  <2>4. CASE Spawn BY <2>4 DEF Spawn, Unfed
  <2>5. CASE Stays /\ (Held \/ TakesFromHost \/ TakesFromGuest)
    BY <1>1, <2>1, <2>5 DEF Stays, Held, TakesFromHost, TakesFromGuest
  <2>6. CASE GuestEvent BY <1>1, <2>1, <2>6, EventTaken
  <2> QED BY <1>2, <2>2, <2>3, <2>4, <2>5, <2>6, SupervisorMoves DEF Aside
<1>3. CASE Client \/ Cancel \/ Deadline
  BY <1>1, <1>3, ClientMoves DEF Middle, Lost, guest
<1>4. CASE Program BY <1>4, ProgramMoves DEF Around, Unfed
<1>5. CASE UNCHANGED engineVars BY <1>1, <1>5 DEF engineVars, guest
<1> QED BY <1>2, <1>3, <1>4, <1>5, EngineMoves

(* The guest's input holds one frame at a time. *)
LEMMA LastWholeStep ==
  ASSUME TypeOK, CInv, Doomed, Asked, Unfed, LastWhole, InStep, CallsSent,
        Backward, [EngineNext]_engineVars
  PROVE  LastWhole'
<1>0. guest_in \in Seq(Chunk) /\ Len(guest_in) \in Nat /\ to_guest \in Writer BY DEF TypeOK
<1>1. ASSUME UNCHANGED <<guest_in, to_guest>> PROVE LastWhole'
  BY <1>1 DEF LastWhole
<1>2. CASE Aside
  <2>2. CASE HostReply
    <3>1. guest_in = <<>> /\ guest_in' = guest_in BY <2>2, ReplyAwaited, ReplyTaken DEF Backward
    <3> QED BY <3>1 DEF LastWhole
  <2>3. CASE Feed
    <3> DEFINE p == Piece(to_guest)
    <3>1. pending(to_guest) /\ guest_in' = Append(guest_in, p) /\ to_guest' = Advance(to_guest)
      BY <2>3 DEF Feed
    <3>2. p \in Chunk /\ (Whole(p) => ~pending(to_guest')) BY <1>0, <3>1, Advances, IdleRests
    <3> HIDE DEF p
    <3>3. ASSUME NEW i \in DOMAIN guest_in', Whole(guest_in'[i])
          PROVE i = Len(guest_in') /\ ~pending(to_guest')
      <4>1. CASE i \in 1 .. Len(guest_in) BY <1>0, <3>1, <3>2, <3>3, <4>1, Appended DEF LastWhole
      <4>2. CASE i = Len(guest_in) + 1 BY <1>0, <3>1, <3>2, <3>3, <4>2, Appended
      <4> QED BY <1>0, <3>1, <3>2, <4>1, <4>2, Appended
    <3> QED BY <3>3 DEF LastWhole
  <2>4. CASE Spawn
    <3>1. guest_in' = guest_in /\ pc = "admit" BY <2>4 DEF Spawn, AdmitRequest, RequestPiece
    <3>2. guest_in = <<>> BY <3>1 DEF Doomed, Unfed
    <3> QED BY <3>1, <3>2 DEF LastWhole
  <2>5. CASE Held \/ TakesFromHost \/ TakesFromGuest
    BY <1>1, <2>5 DEF Held, TakesFromHost, TakesFromGuest
  <2>6. CASE GuestEvent BY <1>1, <2>6, EventTaken
  <2> QED BY <1>2, <2>2, <2>3, <2>4, <2>5, <2>6, SupervisorMoves DEF Aside
<1>3. CASE Client \/ Cancel \/ Deadline
  BY <1>1, <1>3, ClientMoves DEF Middle, Lost
<1>4. CASE Program
  <2>1. UNCHANGED to_guest /\ (Computes \/ Sends \/ Receives) BY <1>4, ProgramMoves DEF Around
  <2>2. CASE Computes \/ Sends BY <1>1, <2>1, <2>2 DEF Computes, Sends
  <2>3. CASE Receives
    <3>1. guest_in # <<>> /\ guest_in' = Tail(guest_in) BY <2>3 DEF Receives
    <3>2. Len(Tail(guest_in)) = Len(guest_in) - 1 BY <1>0, <3>1
    <3> QED BY <1>0, <2>1, <3>1, <3>2, Rest DEF LastWhole
  <2> QED BY <2>1, <2>2, <2>3
<1>5. CASE UNCHANGED engineVars BY <1>1, <1>5 DEF engineVars
<1> QED BY <1>2, <1>3, <1>4, <1>5, EngineMoves

(* The guest goes on only with the reply to its last call. *)
LEMMA InStepStep ==
  ASSUME TypeOK, CInv, Doomed, Asked, Fed, CallsSent, Backward, [EngineNext]_engineVars
  PROVE  InStep'
<1> SUFFICES ASSUME ~Stopped' PROVE InStep' BY DEF InStep
<1>0. /\ ~Stopped /\ Unfed /\ LastWhole /\ InStep /\ answered \in Nat /\ g_host.calls \in Nat
      /\ guest_in \in Seq(Chunk) /\ Len(guest_in) \in Nat
  BY EngineStep, StaysStopped DEF Fed, TypeOK, Asked
<1>i. /\ pending(to_guest) \/ guest_in # <<>> => g_at = "read" \/ answered = Given + 1
      /\ answered \in {Given, Given + 1}
  BY <1>0 DEF InStep
<1>1. ASSUME UNCHANGED <<g_at, guest_in, to_guest, answered>>, Given' = Given PROVE InStep'
  BY <1>0, <1>1 DEF InStep
<1>2. CASE Aside
  <2>1. UNCHANGED <<g_at, g_host>> /\ Given' = Given BY <1>2 DEF Aside, guest, Given
  <2>2. CASE HostReply
    <3>1. /\ answered = Given /\ guest_in = <<>> /\ ~pending(to_guest) /\ guest_in' = guest_in
          /\ (answered' = answered /\ to_guest' = to_guest) \/ answered' = answered + 1
      BY <1>0, <2>2, ReplyAwaited, ReplyTaken DEF Backward
    <3> QED BY <2>1, <3>1 DEF InStep
  <2>3. CASE Feed
    <3>1. pending(to_guest) /\ answered' = answered BY <2>3 DEF Feed
    <3> QED BY <1>i, <2>1, <3>1 DEF InStep
  <2>4. CASE Spawn
    <3>1. pc = "admit" /\ answered' = answered BY <2>4 DEF Spawn, AdmitRequest, RequestPiece
    <3>2. g_at = "read" BY <1>0, <3>1 DEF Doomed, Unfed
    <3> QED BY <1>i, <2>1, <3>1, <3>2 DEF InStep
  <2>5. CASE Held \/ TakesFromHost \/ TakesFromGuest
    BY <1>1, <2>1, <2>5 DEF Held, TakesFromHost, TakesFromGuest
  <2>6. CASE GuestEvent BY <1>1, <2>1, <2>6, EventTaken
  <2> QED BY <1>2, <2>2, <2>3, <2>4, <2>5, <2>6, SupervisorMoves DEF Aside
<1>3. CASE Client \/ Cancel \/ Deadline
  <2>1. UNCHANGED <<g_at, guest_in, to_guest, answered>> /\ Given' = Given
    BY <1>3, ClientMoves DEF Middle, Lost, guest, Given
  <2> QED BY <1>1, <2>1
<1>4. CASE Program
  <2>1. UNCHANGED <<to_guest, answered>> /\ (Computes \/ Sends \/ Receives)
    BY <1>4, ProgramMoves DEF Around
  <2>2. CASE Computes
    <3>1. /\ guest_in' = guest_in /\ g_at # "read" /\ g_at' # "read" /\ Given' = Given
      BY <1>0, <2>2 DEF Computes, CallOpen, Given
    <3> QED BY <1>i, <2>1, <3>1 DEF InStep
  <2>3. CASE Sends
    <3>1. /\ guest_in' = guest_in /\ g_at # "read" /\ g_at' # "read" /\ Given' = Given
      BY <2>3 DEF Sends, G!Writing, Given
    <3> QED BY <1>i, <2>1, <3>1 DEF InStep
  <2>4. CASE Receives
    <3>1. guest_in # <<>> /\ guest_in' = Tail(guest_in) /\ g_host' = g_host BY <2>4 DEF Receives
    <3>2. CASE g_at' = g_at
      <4>1. Given' = Given BY <3>1, <3>2 DEF Given
      <4> QED BY <1>i, <2>1, <3>1, <3>2, <4>1 DEF InStep
    <3>3. CASE g_at' # g_at
      <4>1. Whole(Head(guest_in)) /\ Head(guest_in) = guest_in[1] /\ 1 \in DOMAIN guest_in
        BY <1>0, <2>4, <3>1, <3>3 DEF Receives
      <4>2. Len(guest_in) = 1 /\ ~pending(to_guest) BY <1>0, <4>1 DEF LastWhole
      <4>3. guest_in' = <<>> BY <1>0, <3>1, <4>2
      <4>4. CASE g_at = "read" /\ ~CallOpen'
        <5>1. Given' = Given BY <3>1, <4>4 DEF Given, CallOpen
        <5> QED BY <1>i, <2>1, <4>2, <4>3, <5>1 DEF InStep
      <4>5. CASE g_at = "await" /\ g_at' = "program"
        <5>1. answered = g_host.calls BY <1>0, <1>i, <3>1, <4>5 DEF Given
        <5>2. Given' = g_host.calls BY <3>1, <4>5 DEF Given
        <5> QED BY <2>1, <4>2, <4>3, <5>1, <5>2 DEF InStep
      <4> QED BY <2>4, <3>3, <4>4, <4>5 DEF Receives
    <3> QED BY <3>2, <3>3
  <2> QED BY <2>1, <2>2, <2>3, <2>4
<1>5. CASE UNCHANGED engineVars
  <2>1. UNCHANGED <<g_at, guest_in, to_guest, answered>> /\ Given' = Given
    BY <1>5 DEF engineVars, guest, Given
  <2> QED BY <1>1, <2>1
<1> QED BY <1>2, <1>3, <1>4, <1>5, EngineMoves

-----------------------------------------------------------------------------
(* The whole journey of calls and replies. *)
Journey == Onward /\ Backward /\ Fed

LEMMA JourneyAlways == EngineSpec => []Journey
<1>1. EngineInit => Journey
  <2> SUFFICES ASSUME EngineInit PROVE Journey OBVIOUS
  <2>1. Len(g_output.calls) = 0 /\ g_host.calls = 0 /\ g_at = "read"
    BY DEF EngineInit, G!Init, G!Nothing
  <2>2. effects = <<>> /\ c_at = "start" BY DEF EngineInit, C!Init
  <2>3. ~pending(to_host) /\ ~pending(to_guest) BY IdleRests DEF EngineInit, Init
  <2> QED
    BY <2>1, <2>2, <2>3 DEF EngineInit, Init, Journey, Onward, CallsSent, CallsRelayed,
       CallsServed,
          Backward, Fed, Unfed, LastWhole, InStep, Given
<1>2. /\ TypeOK /\ CInv /\ Doomed /\ Asked /\ Served /\ Journey /\ [EngineNext]_engineVars
      => Journey'
  BY OnwardStep, BackwardStep, UnfedStep, LastWholeStep, InStepStep DEF Journey, Onward, Fed
<1>3. EngineSpec => [](TypeOK /\ CInv)
  BY EngineImplementsSupervisor, TypeCorrect, CountInvariance, PTL
<1>4. EngineSpec => []Doomed
  <2>1. EngineInit => Doomed BY DEF EngineInit, Init, Doomed
  <2> QED BY <2>1, DoomedStep, EngineStep, PTL DEF EngineSpec
<1> QED BY <1>1, <1>2, <1>3, <1>4, AskedAlways, ServedAlways, PTL DEF EngineSpec

(* EffectsExact, for any budgets, frames, pipes, faults and cancellations: a call the
   program asked for is carried out once, in turn, and only then does it go on
   (guest.rs:60-140, supervisor.rs:97-188, Client.php:103-120). *)
THEOREM EffectsAreExact == EngineSpec => []EffectsExact
<1>1. TypeOK /\ Asked /\ Served /\ Journey => EffectsExact
  <2> SUFFICES ASSUME TypeOK, Asked, Served, Journey PROVE EffectsExact OBVIOUS
  <2>1. /\ Len(effects) \in Nat /\ Len(g_output.calls) \in Nat /\ g_host.calls \in Nat /\ sequence \in Nat
        /\ answered \in Nat
        /\ Len(effects) <= sequence /\ sequence <= Len(g_output.calls)
             /\ Len(g_output.calls) <= g_host.calls
        /\ answered <= Len(effects)
    BY SMTT(20) DEF TypeOK, Asked, Served, Journey, Onward, CallsSent, CallsServed, Backward
  <2>2. ~Stopped /\ g_at \in {"program", "log"} => g_host.calls \in {answered, answered - 1}
    BY <2>1 DEF Journey, Fed, InStep, Given
  <2>3. ~Stopped /\ g_at \in {"program", "log"} => g_host.calls = Len(effects)
    BY <2>1, <2>2
  <2>4. \A i \in DOMAIN effects : effects[i] = i BY DEF Served
  <2> QED BY <2>1, <2>3, <2>4 DEF EffectsExact
<1>2. EngineSpec => []TypeOK BY EngineImplementsSupervisor, TypeCorrect, PTL
<1> QED BY <1>1, <1>2, AskedAlways, ServedAlways, JourneyAlways, PTL

-----------------------------------------------------------------------------
(* Which frames each pipe holds: PeersAgree. *)
(* The client has not written its request yet. *)
Asking == c_at = "start" \/ (c_at = "write" /\ c_writer.msg.kind = "request")

(* One request, the client's, reaches the supervisor and the guest. *)
Requested ==
  /\ request \in {NoMessage, Request}
  /\ child # "none" => request = Request
  /\ ~Stopped /\ g_at # "read" => g_request = request
  /\ g_at = "read" => /\ \A i \in DOMAIN guest_in : guest_in[i].msg = Request
                      /\ pending(to_guest) => to_guest.msg = Request

(* The supervisor's input: the request, then one reply at a time, the one it expects. *)
AdmitInlet == pc = "admit" => \A i \in DOMAIN host_in :
                host_in[i].msg = Request /\ (Whole(host_in[i]) => i = Len(host_in) /\ ~Asking)
LoopInlet == pc \in Loop =>
  /\ ~Asking
  /\ \A i \in DOMAIN host_in :
       LET m == host_in[i].msg
       IN  /\ m.kind = "reply" /\ m.own /\ m.seq = answered + 1
           /\ Whole(host_in[i]) => i = Len(host_in) /\ Len(replies) = answered + 1
Inlet == AdmitInlet /\ LoopInlet /\ answered <= Len(replies)

(* What has been proved so far. *)
Known == TypeOK /\ CInv /\ Doomed /\ Asked /\ Served /\ Journey

(* Before the guest has read its request there are no calls and no effects. *)
LEMMA NothingYet ==
  ASSUME Known, child = "none" \/ g_at = "read"
  PROVE  sequence = 0 /\ effects = <<>> /\ g_at = "read"
<1>1. g_at = "read" BY DEF Known, Journey, Fed, Unfed
<1>2. /\ sequence <= Len(g_output.calls) /\ Len(g_output.calls) <= 0 /\ sequence \in Nat
      /\ Len(effects) <= sequence /\ effects \in Seq(Nat) /\ Len(g_output.calls) \in Nat
  BY <1>1 DEF Known, Journey, Onward, CallsSent, CallsServed, Asked, TypeOK, Served
<1>3. sequence = 0 BY <1>2
<1>4. Len(effects) = 0 BY <1>2, <1>3
<1>5. effects = <<>> BY <1>2, <1>4
<1> QED BY <1>1, <1>3, <1>5

LEMMA TheRequest ==
  /\ Request \in Message /\ Request.kind = "request" /\ Request.tag \notin {"unparsable", "refused"}
  /\ Request # NoMessage /\ Request.seq \in Nat
<1>1. Request \in Message /\ Request.kind = "request" /\ Request.tag \in {"run", "validate"}
  BY EngineAssumption DEF C!ClientAssumption, C!Message, C!Kinds, C!Tags, C!Data, Message, Kinds,
     Tags, Data
<1> QED BY <1>1 DEF NoMessage, Message

LEMMA Shorter ==
  ASSUME NEW s \in Seq(Chunk), s # <<>>
  PROVE  Len(Tail(s)) = Len(s) - 1 /\ Len(s) \in Nat /\ Len(s) >= 1 /\ (Len(s) = 1 => Tail(s) = <<>>)
<1>1. Len(s) \in Nat /\ Len(s) # 0 OBVIOUS
<1>2. Tail(s) \in Seq(Chunk) OBVIOUS
<1>3. Len(Tail(s)) = Len(s) - 1 OBVIOUS
<1>e. \A t \in Seq(Chunk) : Len(t) = 0 => t = <<>> OBVIOUS
<1>4. Len(Tail(s)) = 0 => Tail(s) = <<>> BY <1>2, <1>e
<1> QED BY <1>1, <1>3, <1>4

(* What is at the head of the supervisor's input. *)
LEMMA RequestTaken ==
  ASSUME TypeOK, Inlet, host_in # <<>>
  PROVE  /\ host_in \in Seq(Chunk) /\ 1 \in DOMAIN host_in /\ Head(host_in) = host_in[1]
         /\ pc = "admit" => Head(host_in).msg = Request
         /\ pc = "admit" /\ Whole(Head(host_in)) => ~Asking /\ Tail(host_in) = <<>>
         /\ pc \in Loop /\ Whole(Head(host_in)) => Tail(host_in) = <<>> /\ Len(replies) = answered + 1
<1>1. host_in \in Seq(Chunk) /\ 1 \in DOMAIN host_in /\ Head(host_in) = host_in[1] BY DEF TypeOK
<1>2. Len(host_in) \in Nat /\ Len(host_in) >= 1 BY <1>1, Shorter
<1>3. Len(host_in) = 1 => Tail(host_in) = <<>> BY <1>1, Shorter
<1>4. DOMAIN host_in = 1 .. Len(host_in) BY <1>1
<1>5. Len(host_in) >= 1 BY <1>1, <1>2, <1>4
<1> QED BY <1>1, <1>3, <1>5 DEF Inlet, AdmitInlet, LoopInlet

LEMMA RequestedStep ==
  ASSUME Known, Requested, Inlet, [EngineNext]_engineVars
  PROVE  Requested'
<1>0. /\ guest_in \in Seq(Chunk) /\ to_guest \in Writer
      /\ TypeOK /\ CInv /\ Doomed /\ Asked /\ Served /\ Onward /\ Backward /\ Fed
  BY DEF Known, TypeOK, Journey
<1>s. Stopped => Stopped' BY EngineStep, StaysStopped
<1>1. ASSUME UNCHANGED <<request, g_at, g_request, guest_in, to_guest>>, child' # "none" => child # "none"
      PROVE  Requested'
  BY <1>1, <1>s DEF Requested
<1>2. CASE Aside
  <2>1. UNCHANGED <<g_at, g_request>> BY <1>2 DEF Aside, guest
  <2>2. CASE HostReply
    <3>1. g_at # "read" BY <1>0, <2>2, ReplyAwaited DEF Onward, Fed
    <3>2. UNCHANGED <<request, child>> BY <2>2 DEF HostReply
    <3> QED BY <1>s, <2>1, <3>1, <3>2 DEF Requested
  <2>3. CASE Feed
    <3> DEFINE p == Piece(to_guest)
    <3>1. /\ pending(to_guest) /\ guest_in' = Append(guest_in, p) /\ to_guest' = Advance(to_guest)
          /\ UNCHANGED <<request, child>>
      BY <2>3 DEF Feed
    <3>2. p \in Chunk /\ p.msg = to_guest.msg /\ (pending(to_guest') => to_guest'.msg = to_guest.msg)
      BY <1>0, <3>1, Advances, IdleRests
    <3> HIDE DEF p
    <3>3. ASSUME g_at = "read", NEW i \in DOMAIN guest_in' PROVE guest_in'[i].msg = Request
      <4>1. CASE i \in 1 .. Len(guest_in) BY <1>0, <3>1, <3>2, <3>3, <4>1, Appended DEF Requested
      <4>2. CASE i = Len(guest_in) + 1 BY <1>0, <3>1, <3>2, <3>3, <4>2, Appended DEF Requested
      <4> QED BY <1>0, <3>1, <3>2, <4>1, <4>2, Appended
    <3>4. g_at = "read" /\ pending(to_guest') => to_guest'.msg = Request BY <3>1, <3>2 DEF Requested
    <3> QED BY <1>s, <2>1, <3>1, <3>3, <3>4 DEF Requested
  <2>4. CASE Spawn
    <3>1. pc = "admit" /\ host_in # <<>> /\ request' = Head(host_in).msg
          /\ to_guest' = Load(Head(host_in).msg)
          /\ guest_in' = guest_in
      BY <2>4 DEF Spawn, AdmitRequest, RequestPiece
    <3>2. request' = Request /\ to_guest'.msg = Request BY <1>0, <3>1, RequestTaken DEF Load
    <3>3. g_at = "read" /\ guest_in = <<>> BY <1>0, <3>1 DEF Doomed, Fed, Unfed
    <3> QED BY <2>1, <3>1, <3>2, <3>3 DEF Requested
  <2>5. CASE Stays /\ TakesFromHost
    <3>1. CASE request' = request BY <1>1, <2>1, <2>5, <3>1 DEF TakesFromHost, Stays
    <3>2. CASE pc = "admit" /\ request' = Head(host_in).msg
      <4>1. request' = Request BY <1>0, <2>5, <3>2, RequestTaken DEF TakesFromHost
      <4>2. g_at = "read" BY <1>0, <3>2 DEF Doomed, Fed, Unfed
      <4> QED BY <2>1, <2>5, <4>1, <4>2 DEF TakesFromHost, Requested
    <3> QED BY <2>5, <3>1, <3>2 DEF TakesFromHost
  <2>6. CASE Stays /\ (Held \/ TakesFromGuest \/ GuestEvent)
    BY <1>1, <1>0, <2>1, <2>6, EventTaken DEF Held, TakesFromGuest, Stays
  <2> QED BY <1>2, <2>2, <2>3, <2>4, <2>5, <2>6, SupervisorMoves DEF Aside
<1>3. CASE Client \/ Cancel \/ Deadline
  BY <1>0, <1>1, <1>3, ClientMoves DEF Middle, Lost, guest
<1>4. CASE Program
  <2>1. /\ UNCHANGED <<pc, request, to_guest, child>> /\ child = "running"
             /\ (Computes \/ Sends \/ Receives)
    BY <1>0, <1>4, ProgramMoves DEF Around
  <2>2. CASE Computes
    BY <1>s, <2>1, <2>2 DEF Computes, Requested
  <2>3. CASE Sends
    BY <1>s, <2>1, <2>3 DEF Sends, G!Writing, Requested
  <2>4. CASE Receives
    <3>1. guest_in # <<>> /\ guest_in' = Tail(guest_in) BY <2>4 DEF Receives
    <3>2. Head(guest_in) = guest_in[1] /\ 1 \in DOMAIN guest_in BY <1>0, <3>1, Rest
    <3>3. CASE UNCHANGED <<g_at, g_request>>
      BY <1>0, <1>s, <2>1, <3>1, <3>3, Rest DEF Requested
    <3>4. CASE g_at = "read" /\ g_at' # "read"
               /\ (Head(guest_in).msg.kind = "request" /\ Head(guest_in).msg.tag # "unparsable"
                    => g_request' = Head(guest_in).msg)
      <4>1. Head(guest_in).msg = Request BY <3>2, <3>4 DEF Requested
      <4>2. g_request' = Request BY <3>4, <4>1, TheRequest
      <4> QED BY <2>1, <3>4, <4>2 DEF Requested
    <3>5. CASE g_at = "await" /\ g_at' = "program" /\ g_request' = g_request
      BY <1>s, <2>1, <3>5 DEF Requested
    <3> QED BY <2>4, <3>3, <3>4, <3>5 DEF Receives
  <2> QED BY <2>1, <2>2, <2>3, <2>4
<1>5. CASE UNCHANGED engineVars BY <1>1, <1>5 DEF engineVars, guest
<1> QED BY <1>0, <1>2, <1>3, <1>4, <1>5, EngineMoves

LEMMA InletStep ==
  ASSUME Known, Inlet, [EngineNext]_engineVars
  PROVE  Inlet'
<1>0. /\ host_in \in Seq(Chunk) /\ answered \in Nat /\ sequence \in Nat
           /\ replies \in Seq(Nat) /\ Len(replies) \in Nat
      /\ effects \in Seq(Nat) /\ Len(effects) \in Nat /\ c_sequence \in Nat /\ c_writer \in Writer
      /\ TypeOK /\ CInv /\ Doomed /\ Asked /\ Served /\ Onward /\ Backward /\ Fed
      /\ AdmitInlet /\ LoopInlet /\ answered <= Len(replies) /\ Len(host_in) \in Nat
  BY DEF Known, TypeOK, Journey, Served, Inlet
<1>1. ASSUME UNCHANGED <<host_in, answered, replies>>, Stays, Asking' => Asking PROVE Inlet'
  BY <1>1 DEF Inlet, AdmitInlet, LoopInlet, Stays
<1>2. ASSUME host_in # <<>>, host_in' = Tail(host_in), UNCHANGED <<answered,
      replies>>, Stays, Asking' => Asking PROVE Inlet'
  <2>1. Len(Tail(host_in)) = Len(host_in) - 1 BY <1>0, <1>2, Shorter
  <2>2. AdmitInlet' BY <1>0, <1>2, <2>1, Rest DEF AdmitInlet, Stays
  <2>3. LoopInlet' BY <1>0, <1>2, <2>1, Rest DEF LoopInlet, Stays
  <2> QED BY <1>0, <1>2, <2>2, <2>3 DEF Inlet
<1>3. CASE Aside
  <2>1. UNCHANGED <<c_at, c_writer, replies>> /\ Asking' = Asking BY <1>3 DEF Aside, client, Asking
  <2>2. CASE HostReply
    <3>1. /\ pc = "hostin" /\ host_in # <<>> /\ Whole(Head(host_in)) /\ host_in' = Tail(host_in)
          /\ \/ answered' = answered /\ pc' = "kill"
             \/ answered' = answered + 1 /\ pc' = "feed"
      BY <1>0, <2>2, ReplyTaken DEF Backward
    <3>2. pc \in Loop BY <3>1 DEF Loop
    <3>3. host_in' = <<>> /\ Len(replies) = answered + 1 /\ ~Asking
      BY <1>0, <3>1, <3>2, RequestTaken DEF Inlet, LoopInlet
    <3> QED BY <1>0, <2>1, <3>1, <3>3 DEF Inlet, AdmitInlet, LoopInlet, Loop
  <2>3. CASE Spawn
    <3>1. pc = "admit" /\ host_in # <<>> /\ Whole(Head(host_in))
          /\ host_in' = Tail(host_in) /\ pc' = "watchdog"
          /\ answered' = answered
      BY <2>3 DEF Spawn, AdmitRequest, RequestPiece
    <3>2. host_in' = <<>> /\ ~Asking BY <1>0, <3>1, RequestTaken DEF Inlet
    <3> QED BY <1>0, <2>1, <3>1, <3>2 DEF Inlet, AdmitInlet, LoopInlet
  <2>4. CASE Stays /\ TakesFromHost BY <1>2, <2>1, <2>4 DEF TakesFromHost
  <2>5. CASE Stays /\ (Held \/ TakesFromGuest \/ Feed)
    BY <1>1, <2>1, <2>5 DEF Held, TakesFromGuest, Feed
  <2>6. CASE Stays /\ GuestEvent BY <1>0, <1>1, <2>1, <2>6, EventTaken
  <2> QED BY <1>3, <2>2, <2>3, <2>4, <2>5, <2>6, SupervisorMoves DEF Aside
<1>4. CASE Client \/ Cancel \/ Deadline
  <2>1. CASE Lost /\ UNCHANGED client
    <3>1. Stays /\ UNCHANGED <<host_in, answered, replies>> /\ Asking' = Asking
      BY <2>1 DEF Lost, Stays, client, Asking, Loop
    <3> QED BY <1>1, <3>1
  <2>2. CASE UNCHANGED Middle /\ (Opens \/ Pauses \/ IsAsked \/ Invokes \/ Responds)
    <3>1. Stays /\ UNCHANGED <<host_in, answered, replies>>
      BY <2>2 DEF Middle, Stays, Opens, Pauses, IsAsked, Invokes, Responds
    <3>2. Asking' => Asking
      BY <2>2 DEF Asking, Waiting, Opens, Pauses, IsAsked, Invokes, Responds, C!Reply, Load
    <3> QED BY <1>1, <3>1, <3>2
  <2>3. CASE UNCHANGED Middle /\ Puts
    <3> DEFINE p == Piece(c_writer)
    <3>0. /\ pc' = pc /\ answered' = answered /\ c_at = "write" /\ pending(c_writer)
               /\ c_writer' = Advance(c_writer)
          /\ host_in' = Append(host_in, p)
      BY <1>0, <2>3 DEF Middle, Puts, Served
    <3>1. p \in Chunk /\ p.msg = c_writer.msg /\ (~Whole(p) => c_writer'.msg = c_writer.msg)
      BY <1>0, <3>0, Advances
    <3>2. Whole(p) => c_at' = "read" /\ replies' = IF c_writer.msg.kind = "reply"
          THEN Append(replies, c_writer.msg.seq) ELSE replies
      BY <2>3 DEF Puts
    <3>3. ~Whole(p) => c_at' = c_at /\ replies' = replies
      BY <2>3 DEF Puts
    <3> HIDE DEF p
    <3>4. Whole(p) => ~Asking' BY <3>2 DEF Asking
    <3>5. CASE c_writer.msg = Request
      <4>1. Asking /\ replies' = replies BY <3>0, <3>2, <3>3, <3>5, TheRequest DEF Asking
      <4>2. pc \notin Loop BY <1>0, <4>1 DEF LoopInlet
      <4>3. ASSUME pc = "admit", NEW i \in DOMAIN host_in'
            PROVE  host_in'[i].msg = Request /\ (Whole(host_in'[i]) => i = Len(host_in') /\ ~Asking')
        <5>1. CASE i \in 1 .. Len(host_in)
          BY <1>0, <3>0, <3>1, <4>1, <4>3, <5>1, Appended DEF AdmitInlet
        <5>2. CASE i = Len(host_in) + 1 BY <1>0, <3>0, <3>1, <3>4, <3>5, <4>3, <5>2, Appended
        <5> QED BY <1>0, <3>0, <3>1, <5>1, <5>2, Appended
      <4> QED BY <1>0, <3>0, <4>1, <4>2, <4>3 DEF Inlet, AdmitInlet, LoopInlet
    <3>6. CASE /\ \E data \in ReplyData : c_writer.msg = C!Reply(c_sequence, data)
               /\ Len(effects) = c_sequence /\ Len(replies) + 1 = c_sequence
      <4>1. /\ c_writer.msg.kind = "reply" /\ c_writer.msg.own /\ c_writer.msg.seq = c_sequence
        BY <3>6 DEF C!Reply
      <4>2. ~Asking /\ ~Asking' BY <3>0, <3>1, <3>3, <3>4, <4>1 DEF Asking
      <4>3. pc # "admit"
        <5>1. SUFFICES ASSUME pc = "admit" PROVE FALSE OBVIOUS
        <5>2. effects = <<>> BY <1>0, <5>1, NothingYet DEF Doomed
        <5>3. Len(effects) = 0 BY <5>2
        <5> QED BY <1>0, <3>6, <5>3
      <4>4. Whole(p) => replies' = Append(replies, c_sequence) BY <3>2, <4>1
      <4>5. Len(replies') = IF Whole(p) THEN Len(replies) + 1 ELSE Len(replies)
        BY <1>0, <3>3, <4>4
      <4>6. pc \in Loop => Len(replies) = answered /\ c_sequence = answered + 1
        <5>1. Len(effects) <= sequence /\ sequence <= answered + 1
          BY <1>0 DEF Onward, CallsServed, CInv, Outstanding
        <5> QED BY <1>0, <3>6, <5>1
      <4>7. ASSUME pc \in Loop, NEW i \in DOMAIN host_in'
            PROVE  LET m == host_in'[i].msg
                   IN  /\ m.kind = "reply" /\ m.own /\ m.seq = answered + 1
                       /\ Whole(host_in'[i]) => i = Len(host_in') /\ Len(replies') = answered + 1
        <5>1. CASE i \in 1 .. Len(host_in)
          <6>1. host_in'[i] = host_in[i] /\ i \in DOMAIN host_in BY <1>0, <3>0, <3>1, <5>1, Appended
          <6>2. ~Whole(host_in[i]) BY <1>0, <4>6, <4>7, <6>1 DEF LoopInlet
          <6> QED BY <1>0, <4>7, <6>1, <6>2 DEF LoopInlet
        <5>2. CASE i = Len(host_in) + 1
          <6>1. host_in'[i] = p /\ Len(host_in') = Len(host_in) + 1
            BY <1>0, <3>0, <3>1, <5>2, Appended
          <6> QED BY <1>0, <3>1, <4>1, <4>5, <4>6, <4>7, <5>2, <6>1
        <5> QED BY <1>0, <3>0, <3>1, <5>1, <5>2, Appended
      <4> QED BY <1>0, <3>0, <4>2, <4>3, <4>5, <4>7 DEF Inlet, AdmitInlet, LoopInlet
    <3> QED BY <1>0, <3>0, <3>5, <3>6 DEF Served
  <2> QED BY <1>0, <1>4, <2>1, <2>2, <2>3, ClientMoves
<1>5. CASE Program
  <2>1. Stays /\ UNCHANGED <<host_in, answered, replies>> /\ Asking' = Asking
    BY <1>0, <1>5, ProgramMoves DEF Around, Stays, client, Asking
  <2> QED BY <1>1, <2>1
<1>6. CASE UNCHANGED engineVars
  <2>1. Stays /\ UNCHANGED <<host_in, answered, replies>> /\ Asking' = Asking
    BY <1>6 DEF engineVars, Stays, client, Asking
  <2> QED BY <1>1, <2>1
<1> QED BY <1>3, <1>4, <1>5, <1>6, EngineMoves

(* The guest's output: at most one whole call, its last, not counted yet. *)
OutletAt(i) ==
  LET m == guest_out[i].msg
  IN  /\ m.own /\ m.kind \in {"call", "log", "completed"}
      /\ m.data # "buried" /\ m.tag # "engine_error"
      /\ IsCall(m) => /\ m.seq = g_host.calls /\ m.tag = "listed" /\ g_at \in {"call", "await"}
                      /\ sequence < m.seq
                      /\ Whole(guest_out[i]) => i = Len(guest_out) /\ g_at = "await"
Outlet == ~Stopped => \A i \in DOMAIN guest_out : OutletAt(i)

(* While the supervisor lives the guest has its request, and writes under its identity. *)
Speaks == ~Stopped /\ g_at = "report" => g_writer.msg.own

LEMMA SpeaksStep ==
  ASSUME Known, Requested, Speaks, [EngineNext]_engineVars
  PROVE  Speaks'
<1> SUFFICES ASSUME ~Stopped', g_at' = "report" PROVE g_writer'.msg.own BY DEF Speaks
<1>0. ~Stopped /\ guest_in \in Seq(Chunk) /\ g_writer \in Writer
  BY EngineStep, StaysStopped DEF Known, TypeOK, Asked
<1>1. CASE UNCHANGED guest BY <1>0, <1>1 DEF Speaks, guest
<1>2. CASE Program
  <2>w. /\ G!Fail(TRUE) => g_writer'.msg.own
        /\ \A h, e, j : G!Conclude(h, e, j) => g_at' = "event"
        /\ \A e : G!Raised(e) => g_at' = "event"
        /\ \A c : G!Return(c) => g_at' = "program"
    BY DEF G!Fail, G!Completed, G!Outgoing, G!Write, G!Load, G!Conclude, G!Raised, G!Return
  <2>1. CASE G!NoRequest BY <1>0, <2>1 DEF G!NoRequest
  <2>2. CASE G!Enter \/ G!Boot BY <2>w, <2>2 DEF G!Enter, G!Boot
  <2>3. CASE G!AdmissionFails \/ G!Admitted BY <2>w, <2>3 DEF G!AdmissionFails, G!Admitted, G!Execute
  <2>4. CASE G!Unknown \/ G!CallRefused \/ G!NoReply
    BY <2>w, <2>4 DEF G!Unknown, G!CallRefused, G!NoReply
  <2>5. CASE G!Call \/ \E n \in LogLengths : G!Log(n)
    BY <2>5 DEF G!Call, G!Log, G!NoLog, G!SendLog, G!Write
  <2>6. CASE G!Finish BY <2>w, <2>6 DEF G!Finish
  <2>7. CASE G!Broken BY <1>0, <2>7 DEF G!Broken
  <2>8. CASE G!Exhausted BY <2>8 DEF G!Exhausted
  <2>9. CASE G!Send
    <3>1. CASE G!Whole(G!Piece(g_writer)) BY <2>9, <3>1 DEF G!Send, G!After
    <3>2. CASE ~G!Whole(G!Piece(g_writer))
      <4>1. g_writer' = [g_writer EXCEPT !.off = @ + 1] /\ g_at' = g_at
        BY <2>9, <3>2 DEF G!Send, G!Advance, G!Whole, G!Piece
      <4>2. g_writer'.msg = g_writer.msg BY <1>0, <4>1 DEF Writer
      <4> QED BY <1>0, <4>1, <4>2 DEF Speaks
    <3> QED BY <3>1, <3>2
  <2>10. CASE guest_in # <<>> /\ G!Receive(Head(guest_in))
    <3> DEFINE c == Head(guest_in)
    <3>1. CASE G!ReadPartial(c) BY <1>0, <3>1 DEF G!ReadPartial, G!guestVars, Speaks
    <3>2. CASE G!ReadReply(c) BY <2>w, <3>2 DEF G!ReadReply
    <3>3. CASE G!ReadRequest(c)
      <4>1. c = guest_in[1] /\ 1 \in DOMAIN guest_in BY <1>0, <2>10
      <4>2. c.msg = Request BY <3>3, <4>1 DEF G!ReadRequest, Requested
      <4>3. G!Usable(c.msg) BY <4>2, TheRequest DEF G!Usable
      <4> HIDE DEF c
      <4> QED BY <2>w, <3>3, <4>3 DEF G!ReadRequest
    <3> QED BY <2>10, <3>1, <3>2, <3>3 DEF G!Receive
  <2> QED
    BY <1>2, <2>1, <2>2, <2>3, <2>4, <2>5, <2>6, <2>7, <2>8, <2>9, <2>10 DEF Program, GuestReads
<1>3. ~Program => UNCHANGED guest
  BY DEF EngineNext, Client, Cancel, Deadline, ProcessEnds, Supervising, Environment, Over, engineVars
<1> QED BY <1>1, <1>2, <1>3

LEMMA OutletStep ==
  ASSUME Known, Speaks, Outlet, [EngineNext]_engineVars
  PROVE  Outlet'
<1>k. TypeOK /\ CInv /\ Asked /\ Served /\ Onward /\ Backward /\ Fed BY DEF Known, Journey
<1>a. guest_out \in Seq(Chunk) /\ sequence \in Nat /\ answered \in Nat BY <1>k DEF TypeOK
<1>b. g_writer \in Writer /\ g_host.calls \in Nat /\ g_output.calls \in Seq(Nat) BY <1>k DEF Asked
<1>c. effects \in Seq(Nat) BY <1>k DEF Served
<1>0. /\ guest_out \in Seq(Chunk) /\ Len(guest_out) \in Nat /\ sequence \in Nat /\ g_writer \in Writer
      /\ g_host.calls \in Nat /\ g_output.calls \in Seq(Nat) /\ Len(g_output.calls) \in Nat
      /\ answered \in Nat /\ effects \in Seq(Nat) /\ Len(effects) \in Nat
      /\ TypeOK /\ CInv /\ Asked /\ Served /\ Onward /\ Backward /\ Fed
  BY <1>a, <1>b, <1>c, <1>k
<1>s. ~Stopped' => ~Stopped BY EngineStep, StaysStopped
<1>1. ASSUME UNCHANGED <<guest_out, sequence, g_at, g_host>> PROVE Outlet'
  BY <1>1, <1>s DEF Outlet, OutletAt
<1>2. ASSUME guest_out # <<>>, guest_out' = Tail(guest_out), UNCHANGED <<g_at, g_host>>,
             sequence' = sequence \/ guest_out' = <<>>
      PROVE Outlet'
  <2>1. Len(Tail(guest_out)) = Len(guest_out) - 1 BY <1>0, <1>2, Shorter
  <2>2. CASE guest_out' = <<>> BY <2>2 DEF Outlet
  <2>3. CASE sequence' = sequence
    <3>1. ASSUME ~Stopped, NEW i \in DOMAIN guest_out' PROVE OutletAt(i)'
      <4>1. i + 1 \in DOMAIN guest_out /\ guest_out'[i] = guest_out[i + 1] /\ i \in Int
        BY <1>0, <1>2, <3>1, Rest
      <4>2. OutletAt(i + 1) BY <3>1, <4>1 DEF Outlet
      <4> QED BY <1>0, <1>2, <2>1, <2>3, <4>1, <4>2 DEF OutletAt
    <3> QED BY <1>s, <3>1 DEF Outlet
  <2> QED BY <1>2, <2>2, <2>3
<1>3. CASE Aside
  <2>1. UNCHANGED <<g_at, g_host>> BY <1>3 DEF Aside, guest
  <2>2. CASE GuestEvent
    <3>1. /\ guest_out # <<>> /\ 1 \in DOMAIN guest_out /\ guest_out' = Tail(guest_out)
          /\ Whole(guest_out[1])
          /\ IsCall(guest_out[1].msg) \/ sequence' = sequence
      BY <1>0, <2>2, EventTaken
    <3>2. ~Stopped BY <2>2 DEF GuestEvent, GuestPiece, GuestReadable, Stopped
    <3>3. IsCall(guest_out[1].msg) => Len(guest_out) = 1 BY <3>1, <3>2 DEF Outlet, OutletAt
    <3>4. sequence' = sequence \/ guest_out' = <<>> BY <1>0, <3>1, <3>3, Shorter
    <3> QED BY <1>2, <2>1, <3>1, <3>4
  <2>3. CASE TakesFromGuest BY <1>2, <2>1, <2>3 DEF TakesFromGuest
  <2>4. CASE Spawn \/ Held \/ TakesFromHost \/ HostReply \/ Feed
   
     BY <1>1, <2>1, <2>4 DEF Spawn, AdmitRequest, RequestPiece, Held, TakesFromHost, HostReply,
        HostPiece, Feed
  <2> QED BY <1>3, <2>2, <2>3, <2>4, SupervisorMoves DEF Aside
<1>4. CASE Client \/ Cancel \/ Deadline
  <2>1. UNCHANGED <<guest_out, sequence, g_at, g_host>>
    BY <1>0, <1>4, ClientMoves DEF guest, Middle, Lost
  <2> QED BY <1>1, <2>1
<1>5. CASE Program
  <2>1. UNCHANGED sequence /\ (Computes \/ Sends \/ Receives) BY <1>0, <1>5, ProgramMoves DEF Around
  <2>2. ASSUME ~Stopped => g_at \notin {"call", "await"}
        \/ g_host.calls <= sequence, guest_out' = guest_out
        PROVE Outlet'
    BY <1>s, <1>0, <2>1, <2>2 DEF Outlet, OutletAt
  <2>3. CASE Computes BY <2>2, <2>3, <1>s DEF Computes, CallOpen, Outlet
  <2>4. CASE Receives
    <3>1. /\ ~Stopped /\ guest_in # <<>> /\ UNCHANGED <<guest_out, g_host>>
          /\ g_at' = g_at \/ g_at = "read" \/ g_at = "await"
      BY <2>4 DEF Receives
    <3>2. CASE g_at' = g_at BY <1>1, <2>1, <3>1, <3>2
    <3>3. CASE g_at = "read" BY <2>2, <3>1, <3>3
    <3>4. CASE g_at = "await"
      <4>1. answered = g_host.calls BY <1>0, <3>1, <3>4 DEF Fed, InStep, Given
      <4>2. answered <= Len(effects) /\ Len(effects) <= sequence
        BY <1>0 DEF Backward, Onward, CallsServed
      <4> QED BY <1>0, <2>2, <3>1, <4>1, <4>2
    <3> QED BY <3>1, <3>2, <3>3, <3>4
  <2>5. CASE Sends
    <3> DEFINE p == Piece(g_writer)
    <3>1. p \in Chunk /\ p.msg = g_writer.msg BY <1>0 DEF Piece, Chunk, Writer
    <3>2. guest_out' = Append(guest_out, p) /\ ~Stopped /\ g_at \in G!Writing /\ g_host' = g_host
      BY <2>5 DEF Sends
    <3>3. IF Whole(p) THEN g_at' = CASE g_at = "call" -> "await" [] g_at = "log" -> "program" [] OTHER -> "exit"
          ELSE g_at' = g_at
      BY <2>5 DEF Sends
    <3>4. g_at = "call" => /\ IsCall(p.msg) /\ p.msg.own /\ p.msg.tag = "listed"
          /\ p.msg.seq = g_host.calls
                           /\ sequence < g_host.calls
      <4>1. g_at = "call" => /\ IsCall(g_writer.msg) /\ g_writer.msg.own
                             /\ g_writer.msg.tag = "listed" /\ g_writer.msg.seq = g_host.calls
        BY <1>0, CallSaid
      <4>2. g_at = "call" => g_host.calls = Len(g_output.calls) + 1 BY <1>0, <3>2 DEF Asked
      <4>3. sequence <= Len(g_output.calls) BY <1>0 DEF Onward, CallsSent
      <4> QED BY <1>0, <3>1, <4>1, <4>2, <4>3
    <3>8. p.msg.own /\ p.msg.data # "buried" /\ p.msg.tag # "engine_error"
      BY <1>0, <3>1, <3>2 DEF Asked, Speaks
    <3>5. g_at # "call" => p.msg.kind \in {"log", "completed"}
      BY <1>0, <3>1, <3>2 DEF Asked, G!Writing
    <3> HIDE DEF p
    <3>6. Len(guest_out') = Len(guest_out) + 1 /\ DOMAIN guest_out' = 1 .. Len(guest_out) + 1
      BY <1>0, <3>1, <3>2, Appended
    <3>7. ASSUME NEW i \in DOMAIN guest_out' PROVE OutletAt(i)'
      <4>1. CASE i \in 1 .. Len(guest_out)
        <5>1. guest_out'[i] = guest_out[i] /\ i \in DOMAIN guest_out
          BY <1>0, <3>1, <3>2, <4>1, Appended
        <5>2. OutletAt(i) BY <3>2, <5>1 DEF Outlet
        <5>3. IsCall(guest_out[i].msg) => g_at = "call" /\ ~Whole(guest_out[i])
          BY <5>2, <3>2 DEF OutletAt, G!Writing
        <5>4. g_at = "call" => g_at' \in {"call", "await"} BY <3>3
        <5> QED BY <2>1, <3>2, <5>1, <5>2, <5>3, <5>4 DEF OutletAt
      <4>2. CASE i = Len(guest_out) + 1
        <5>1. guest_out'[i] = p BY <1>0, <3>1, <3>2, <4>2, Appended
        <5>2. IsCall(p.msg) => g_at = "call" BY <3>5 DEF IsCall
        <5>3. g_at = "call" => IF Whole(p) THEN g_at' = "await" ELSE g_at' = "call" BY <3>3
        <5>4. p.msg.kind \in {"call", "log", "completed"} BY <3>4, <3>5 DEF IsCall
        <5> QED BY <2>1, <3>2, <3>4, <3>6, <3>8, <4>2, <5>1, <5>2, <5>3, <5>4 DEF OutletAt
      <4> QED BY <1>0, <3>1, <3>2, <4>1, <4>2, Appended
    <3> QED BY <3>7 DEF Outlet
  <2> QED BY <2>1, <2>3, <2>4, <2>5
<1>6. CASE UNCHANGED engineVars BY <1>1, <1>6 DEF engineVars, guest
<1> QED BY <1>3, <1>4, <1>5, <1>6, EngineMoves

(* A message the client refuses even if it decodes it. *)
Foreign(m) == ~m.own \/ m.kind \notin {"log", "call", "completed"}

LEMMA PlainFacts ==
  ASSUME NEW m \in Message
  PROVE  /\ C!Unusable(Plain(m)) <=> Foreign(m)
         /\ C!Unusable(m) => Foreign(m) \/ m.data # "plain"
         /\ ~C!Unusable(m) => ~Foreign(m)
         /\ IsReply(Plain(m)) <=> m.kind = "reply" /\ m.own /\ pending_sequence # 0
                                  /\ m.seq = pending_sequence
<1>1. /\ Plain(m).own = m.own /\ Plain(m).kind = m.kind /\ Plain(m).seq = m.seq
      /\ Plain(m).data = "plain"
  BY DEF Plain, Message
<1> QED BY <1>1 DEF C!Unusable, Foreign, IsReply

(* Only a diagnostic without identity is foreign to the client, and then nothing ran. *)
Clean ==
  /\ pending(to_host) => ~Foreign(to_host.msg)
  /\ \A i \in DOMAIN wire : Foreign(wire[i].msg) => child = "none" /\ Stopped
(* Calls reach stdout in the order of their numbers. *)
Ordered ==
  /\ \A i, j \in DOMAIN wire :
       i < j /\ IsCall(wire[i].msg) /\ IsCall(wire[j].msg) /\ Whole(wire[i])
             => wire[i].msg.seq < wire[j].msg.seq
  /\ pending(to_host) /\ IsCall(to_host.msg) =>
       \A i \in DOMAIN wire : IsCall(wire[i].msg) /\ Whole(wire[i]) => wire[i].msg.seq < to_host.msg.seq
(* What the client has not read is ahead of what it has. *)
Unread ==
  c_at \in Waiting =>
    /\ \A i \in DOMAIN wire : i > taken /\ IsCall(wire[i].msg) => wire[i].msg.seq > c_sequence
    /\ pending(to_host) /\ IsCall(to_host.msg) => to_host.msg.seq > c_sequence

(* A verdict with identity is one the client reads. *)
LEMMA ToldProperly ==
  \A own \in BOOLEAN, t \in Tags :
    LET w == Load(failure(own, t)) IN own => ~Foreign(w.msg)
BY NoCall DEF Foreign

LEMMA CleanStep ==
  ASSUME Known, Requested, Clean, [EngineNext]_engineVars
  PROVE  Clean'
<1>k. TypeOK /\ CInv /\ Asked /\ Served BY DEF Known
<1>w. wire \in Seq(Chunk) BY <1>k DEF TypeOK
<1>s. Stopped => Stopped' BY EngineStep, StaysStopped
<1>1. ASSUME UNCHANGED <<wire, to_host>>, child = "none" /\ Stopped => child' = "none" PROVE Clean'
  BY <1>1, <1>s DEF Clean
<1>2. ASSUME NEW c \in Chunk, wire' = Append(wire, c), child' = "none" <=> child = "none",
             Foreign(c.msg) => child = "none" /\ Stopped',
             pending(to_host') => ~Foreign(to_host'.msg)
      PROVE Clean'
  <2>1. ASSUME NEW i \in DOMAIN wire', Foreign(wire'[i].msg) PROVE child' = "none" /\ Stopped'
    <3>1. CASE i \in 1 .. Len(wire) BY <1>s, <1>w, <1>2, <2>1, <3>1, Appended DEF Clean
    <3>2. CASE i = Len(wire) + 1 BY <1>w, <1>2, <2>1, <3>2, Appended
    <3> QED BY <1>w, <1>2, <2>1, <3>1, <3>2, Appended
  <2> QED BY <1>2, <2>1 DEF Clean
<1>3. CASE Aside
  <2>1. CASE GuestEvent
    <3> DEFINE c == Head(guest_out)
    <3>1. /\ to_host' = to_host \/ to_host' = Load(c.msg)
          /\ wire' = wire /\ child' = child /\ Relayed(c.msg)
      BY <1>k, <2>1, EventTaken
    <3> HIDE DEF c
    <3>2. ~Foreign(c.msg) BY <3>1 DEF Foreign, Relayed
    <3>3. to_host' = Load(c.msg) => to_host'.msg = c.msg BY DEF Load
    <3> QED BY <1>s, <3>1, <3>2, <3>3 DEF Clean
  <2>2. CASE Stays /\ Drain
    <3>1. ~Foreign(to_host.msg) BY <1>k, <2>2, DrainFacts DEF Clean
    <3>2. pending(to_host') => ~Foreign(to_host'.msg) BY <1>k, <2>2, <3>1, DrainFacts, IdleRests
    <3> QED BY <1>k, <1>2, <2>2, <3>1, <3>2, DrainFacts DEF Stays
  <2>3. CASE Stays /\ Concludes
    <3>1. pending(to_host') => ~Foreign(to_host'.msg)
      <4>1. CASE to_host' = to_host BY <4>1 DEF Clean
      <4>2. CASE to_host' = Idle BY <4>2, IdleRests
      <4>3. ASSUME NEW t \in Tags, to_host' = Load(failure(TRUE, t)) PROVE ~Foreign(to_host'.msg)
        <5>1. TRUE \in BOOLEAN OBVIOUS
        <5> QED BY <4>3, <5>1, ToldProperly, Zenon
      <4> QED BY <2>3, <4>1, <4>2, <4>3 DEF Concludes
    <3>2. CASE wire' = wire BY <1>s, <2>3, <3>1, <3>2 DEF Stays, Clean
    <3>3. ASSUME NEW own \in BOOLEAN, NEW t \in Tags, wire' = Append(wire, Piece(Load(failure(own, t)))),
                 own \/ (request = NoMessage /\ pc' = "exit")
          PROVE Clean'
      <4> DEFINE c == Piece(Load(failure(own, t)))
      <4>1. c \in Chunk /\ (own => ~Foreign(c.msg)) BY NoCall, ToldProperly
      <4>2. request = NoMessage => child = "none" BY TheRequest DEF Requested
      <4>3. pc' = "exit" => Stopped' BY DEF Stopped
      <4> HIDE DEF c
      <4>4. wire' = Append(wire, c) BY <3>3 DEF c
      <4>5. child' = "none" <=> child = "none" BY <2>3 DEF Stays
      <4>6. Foreign(c.msg) => child = "none" /\ Stopped' BY <3>3, <4>1, <4>2, <4>3
      <4> QED BY <1>2, <3>1, <4>1, <4>4, <4>5, <4>6
    <3> QED BY <2>3, <3>2, <3>3 DEF Concludes
  <2>4. CASE Spawn
    <3>1. UNCHANGED <<wire, to_host>> /\ pc = "admit" BY <2>4 DEF Spawn, AdmitRequest, RequestPiece
    <3>2. ~Stopped BY <3>1 DEF Stopped
    <3> QED BY <1>1, <3>1, <3>2
  <2>5. CASE Stays /\ (TakesFromHost \/ TakesFromGuest \/ HostReply \/ Feed \/ (Held
        /\ UNCHANGED <<wire, to_host>>))
    BY <1>1, <2>5 DEF Stays, TakesFromHost, TakesFromGuest, HostReply, HostPiece, Feed
  <2> QED BY <1>3, <2>1, <2>2, <2>3, <2>4, <2>5, SupervisorMoves DEF Aside
<1>4. CASE Client \/ Cancel \/ Deadline
  BY <1>1, <1>4, <1>k, ClientMoves DEF Middle, Lost
<1>5. CASE Program BY <1>1, <1>5, <1>k, ProgramMoves DEF Around
<1>6. CASE UNCHANGED engineVars BY <1>1, <1>6 DEF engineVars
<1> QED BY <1>3, <1>4, <1>5, <1>6, EngineMoves

(* How stdout grows: nothing, a piece of to_host, or a verdict's. *)
Queues(m) == /\ ~pending(to_host) /\ (to_host' = to_host \/ to_host' = Load(m))
             /\ m \in Message /\ (IsCall(m) => m.seq = sequence + 1)
Grows(c) == /\ c \in Chunk /\ wire' = Append(wire, c)
            /\ \/ ~IsCall(c.msg)
               \/ pending(to_host) /\ c.msg = to_host.msg /\ (Whole(c) => ~pending(to_host'))
            /\ pending(to_host') /\ IsCall(to_host'.msg) => pending(to_host) /\ to_host'.msg = to_host.msg

LEMMA WireMoves ==
  ASSUME TypeOK, Asked, [EngineNext]_engineVars
  PROVE  /\ \/ UNCHANGED <<wire, to_host>>
            \/ wire' = wire /\ ~(pending(to_host') /\ IsCall(to_host'.msg))
            \/ wire' = wire /\ \E m \in Message : Queues(m)
            \/ \E c \in Chunk : Grows(c)
         /\ wire' # wire \/ to_host' # to_host => UNCHANGED <<client, taken>>
<1>1. CASE Aside
  <2>0. UNCHANGED <<client, taken>> BY <1>1 DEF Aside
  <2>1. CASE GuestEvent
    <3> DEFINE c == Head(guest_out)
    <3>1. /\ to_host' = to_host \/ to_host' = Load(c.msg)
          /\ c.msg \in Message /\ (IsCall(c.msg) => c.msg.seq = sequence + 1)
          /\ wire' = wire /\ ~pending(to_host)
      BY <2>1, EventTaken
    <3> HIDE DEF c
    <3>2. Queues(c.msg) BY <3>1 DEF Queues
    <3> QED BY <2>0, <3>1, <3>2
  <2>2. CASE Drain
    <3> DEFINE c == Piece(to_host)
    <3>1. /\ pending(to_host) /\ c \in Chunk /\ c.msg = to_host.msg /\ wire' = Append(wire, c)
          /\ IF Whole(c) THEN to_host' = Idle ELSE pending(to_host') /\ to_host'.msg = to_host.msg
      BY <2>2, DrainFacts
    <3> HIDE DEF c
    <3>2. Grows(c) BY <3>1, IdleRests DEF Grows
    <3> QED BY <2>0, <3>1, <3>2
  <2>3. CASE Concludes
    <3>1. to_host' = to_host \/ ~(pending(to_host') /\ IsCall(to_host'.msg))
      BY <2>3, IdleRests, NoCall DEF Concludes
    <3>2. CASE wire' = wire BY <2>0, <3>1, <3>2
    <3>3. ASSUME NEW own \in BOOLEAN, NEW t \in Tags, wire' = Append(wire, Piece(Load(failure(own, t))))
          PROVE \E c \in Chunk : Grows(c)
      <4> DEFINE c == Piece(Load(failure(own, t)))
      <4>1. c \in Chunk /\ ~IsCall(c.msg) BY NoCall
      <4>2. wire' = Append(wire, c) BY <3>3
      <4> HIDE DEF c
      <4>3. Grows(c) BY <3>1, <4>1, <4>2 DEF Grows
      <4> QED BY <4>1, <4>3
    <3> QED BY <2>0, <2>3, <3>2, <3>3 DEF Concludes
  <2>4. CASE Spawn \/ TakesFromHost \/ TakesFromGuest \/ HostReply \/ Feed \/ UNCHANGED <<wire, to_host>>
   
     BY <2>0, <2>4 DEF Spawn, AdmitRequest, RequestPiece, TakesFromHost, TakesFromGuest,
        HostReply, HostPiece, Feed
  <2> QED BY <1>1, <2>1, <2>2, <2>3, <2>4, SupervisorMoves DEF Aside
<1>2. CASE Client \/ Cancel \/ Deadline
  BY <1>2, ClientMoves DEF Middle, Lost
<1>3. CASE Program BY <1>3, ProgramMoves DEF Around
<1>4. CASE UNCHANGED engineVars BY <1>4 DEF engineVars
<1> QED BY <1>1, <1>2, <1>3, <1>4, EngineMoves

LEMMA OrderedStep ==
  ASSUME Known, Ordered, [EngineNext]_engineVars
  PROVE  Ordered'
<1>k. TypeOK /\ Asked /\ CallsRelayed BY DEF Known, Journey, Onward
<1>0. wire \in Seq(Chunk) /\ sequence \in Nat BY <1>k DEF TypeOK
<1>t. \A i \in DOMAIN wire : IsCall(wire[i].msg) => wire[i].msg.seq < sequence + 1
  <2>1. \A i \in DOMAIN wire : wire[i] \in Chunk BY <1>0
  <2>2. \A i \in DOMAIN wire : wire[i].msg.seq \in Nat BY <2>1 DEF Chunk, Message
  <2> QED BY <1>0, <1>k, <2>2 DEF CallsRelayed
<1>1. CASE UNCHANGED <<wire, to_host>> BY <1>1 DEF Ordered
<1>2. CASE wire' = wire /\ ~(pending(to_host') /\ IsCall(to_host'.msg)) BY <1>2 DEF Ordered
<1>3. ASSUME NEW m \in Message, wire' = wire, Queues(m) PROVE Ordered'
  <2>1. to_host' = to_host \/ to_host'.msg = m BY <1>3 DEF Queues, Load
  <2> QED BY <1>3, <1>t, <2>1 DEF Queues, Ordered
<1>4. ASSUME NEW c \in Chunk, Grows(c) PROVE Ordered'
  <2>1. wire' = Append(wire, c) BY <1>4 DEF Grows
  <2>2. DOMAIN wire' = 1 .. Len(wire) + 1 /\ DOMAIN wire = 1 .. Len(wire) /\ Len(wire) \in Nat
        /\ wire'[Len(wire) + 1] = c /\ \A i \in 1 .. Len(wire) : wire'[i] = wire[i]
    BY <1>0, <2>1, Appended
  <2>3. ASSUME NEW i \in DOMAIN wire', NEW j \in DOMAIN wire', i < j,
        IsCall(wire'[i].msg), IsCall(wire'[j].msg),
               Whole(wire'[i])
        PROVE wire'[i].msg.seq < wire'[j].msg.seq
    <3>1. i \in 1 .. Len(wire) /\ wire'[i] = wire[i] BY <2>2, <2>3
    <3>2. CASE j \in 1 .. Len(wire) BY <2>2, <2>3, <3>1, <3>2 DEF Ordered
    <3>3. CASE j = Len(wire) + 1
      <4>1. pending(to_host) /\ IsCall(to_host.msg) /\ wire'[j].msg = to_host.msg
        BY <1>4, <2>2, <2>3, <3>3 DEF Grows
      <4> QED BY <2>2, <2>3, <3>1, <4>1 DEF Ordered
    <3> QED BY <2>2, <3>2, <3>3
  <2>4. ASSUME pending(to_host'), IsCall(to_host'.msg), NEW i \in DOMAIN wire',
        IsCall(wire'[i].msg), Whole(wire'[i])
        PROVE wire'[i].msg.seq < to_host'.msg.seq
    <3>1. pending(to_host) /\ to_host'.msg = to_host.msg BY <1>4, <2>4 DEF Grows
    <3>2. i # Len(wire) + 1
      BY <1>4, <2>2, <2>4 DEF Grows
    <3>3. i \in DOMAIN wire /\ wire'[i] = wire[i] BY <2>2, <3>2
    <3> QED BY <2>4, <3>1, <3>3 DEF Ordered
  <2> QED BY <2>3, <2>4 DEF Ordered
<1> QED BY <1>k, <1>1, <1>2, <1>3, <1>4, WireMoves

(* While the client goes on, its count is not ahead of the supervisor's. *)
LEMMA NotAhead ==
  ASSUME TypeOK, Served, CallsServed, c_at \in Waiting
  PROVE  c_sequence <= sequence
<1>1. Len(effects) <= sequence /\ sequence \in Nat /\ Len(effects) \in Nat /\ c_sequence \in Nat
  BY DEF TypeOK, Served, CallsServed
<1> QED BY <1>1 DEF Served, CallsServed, Waiting

LEMMA UnreadStep ==
  ASSUME Known, Ordered, Unread, [EngineNext]_engineVars
  PROVE  Unread'
<1>k. TypeOK /\ Asked /\ Served /\ CallsServed BY DEF Known, Journey, Onward
<1>0. wire \in Seq(Chunk) /\ sequence \in Nat /\ c_sequence \in Nat /\ taken \in Nat
  BY <1>k DEF TypeOK, Served
<1>1. CASE UNCHANGED <<client, taken>>
  <2>0. UNCHANGED <<c_at, c_sequence, taken>> BY <1>1 DEF client
  <2>1. CASE UNCHANGED <<wire, to_host>> BY <2>0, <2>1 DEF Unread
  <2>2. CASE wire' = wire /\ ~(pending(to_host') /\ IsCall(to_host'.msg)) BY <2>0, <2>2 DEF Unread
  <2>3. ASSUME NEW m \in Message, wire' = wire, Queues(m) PROVE Unread'
    <3>1. to_host' = to_host \/ to_host'.msg = m BY <2>3 DEF Queues, Load
    <3>2. c_at \in Waiting => sequence + 1 > c_sequence BY <1>k, <1>0, NotAhead
    <3> QED BY <2>0, <2>3, <3>1, <3>2 DEF Queues, Unread
  <2>4. ASSUME NEW c \in Chunk, Grows(c) PROVE Unread'
    <3>1. wire' = Append(wire, c) BY <2>4 DEF Grows
    <3>2. ASSUME c_at \in Waiting, NEW i \in DOMAIN wire', i > taken, IsCall(wire'[i].msg)
          PROVE wire'[i].msg.seq > c_sequence
      <4>1. CASE i \in 1 .. Len(wire) BY <1>0, <3>1, <3>2, <4>1, Appended DEF Unread
      <4>2. CASE i = Len(wire) + 1
        <5>1. wire'[i] = c BY <1>0, <3>1, <4>2, Appended
        <5>2. pending(to_host) /\ c.msg = to_host.msg BY <2>4, <3>2, <5>1 DEF Grows
        <5> QED BY <3>2, <5>1, <5>2 DEF Unread
      <4> QED BY <1>0, <3>1, <4>1, <4>2, Appended
    <3>3. c_at \in Waiting /\ pending(to_host') /\ IsCall(to_host'.msg) => to_host'.msg.seq > c_sequence
      BY <2>4 DEF Grows, Unread
    <3> QED BY <2>0, <3>2, <3>3 DEF Unread
  <2> QED BY <1>k, <2>1, <2>2, <2>3, <2>4, WireMoves
<1>2. CASE UNCHANGED Middle /\ (Opens \/ Pauses \/ Puts \/ IsAsked \/ Invokes \/ Responds)
  <2>1. UNCHANGED <<wire, to_host>> BY <1>2 DEF Middle
  <2>2. CASE Opens \/ Puts \/ Invokes \/ Responds
    BY <2>1, <2>2 DEF Opens, Puts, Invokes, Responds, Unread, Waiting
  <2>3. CASE Pauses BY <1>0, <2>1, <2>3 DEF Pauses, Unread
  <2>4. CASE IsAsked
    <3> DEFINE c == wire[taken + 1]
    <3>1. /\ taken + 1 \in DOMAIN wire /\ taken' = taken + 1 /\ Whole(c) /\ IsCall(c.msg)
          /\ c_sequence' = c_sequence + 1 /\ c.msg.seq = c_sequence + 1
      BY <1>0, <2>4 DEF IsAsked
    <3> QED BY <1>0, <2>1, <3>1 DEF Unread, Ordered
  <2> QED BY <1>2, <2>2, <2>3, <2>4
<1>3. CASE Client \/ Cancel \/ Deadline
  BY <1>1, <1>2, <1>3, <1>k, ClientMoves DEF Lost
<1>4. CASE Aside BY <1>1, <1>4 DEF Aside
<1>5. CASE Program BY <1>k, <1>1, <1>5, ProgramMoves DEF Around
<1>6. CASE UNCHANGED engineVars BY <1>1, <1>6 DEF engineVars
<1> QED BY <1>3, <1>4, <1>5, <1>6, EngineMoves

(* The invariant of the pipes. *)
Alike == Requested /\ Inlet /\ Speaks /\ Outlet /\ Clean /\ Ordered /\ Unread

LEMMA AlikeAlways == EngineSpec => [](Known /\ Alike)
<1>1. EngineInit => Alike
  <2> SUFFICES ASSUME EngineInit PROVE Alike OBVIOUS
  <2>1. Init /\ c_at = "start" /\ g_at = "read" /\ c_sequence = 0
    BY DEF EngineInit, C!Init, G!Init
  <2>2. ~pending(to_host) /\ ~pending(to_guest) BY IdleRests DEF EngineInit, Init
  <2> QED BY <2>1, <2>2 DEF Init, Alike, Requested, Inlet, AdmitInlet, LoopInlet, Loop, Speaks, Outlet,
          Clean, Ordered, Unread, EngineInit, C!Init
<1>2. Known /\ Alike /\ [EngineNext]_engineVars => Alike'
  BY RequestedStep, InletStep, SpeaksStep, OutletStep, CleanStep, OrderedStep, UnreadStep DEF Alike
<1>3. EngineSpec => [](TypeOK /\ CInv)
  BY EngineImplementsSupervisor, TypeCorrect, CountInvariance, PTL
<1>4. EngineSpec => []Doomed
  <2>1. EngineInit => Doomed BY DEF EngineInit, Init, Doomed
  <2> QED BY <2>1, DoomedStep, EngineStep, PTL DEF EngineSpec
<1>5. TypeOK /\ CInv /\ Doomed /\ Asked /\ Served /\ Journey => Known BY DEF Known
<1>6. EngineSpec => []Known BY <1>3, <1>4, <1>5, AskedAlways, ServedAlways, JourneyAlways, PTL
<1> QED BY <1>1, <1>2, <1>6, PTL DEF EngineSpec

(* What is in the guest's input, or on its way there, is the reply it waits for. *)
Answered(m, n) == m.own /\ m.kind = "reply" /\ m.seq = n
Answerable == g_at = "await" \/ (~Stopped /\ g_at # "read")
Replied ==
  /\ g_at = "await" /\ guest_in # <<>> => answered = g_host.calls
  /\ Answerable => /\ \A i \in DOMAIN guest_in : Answered(guest_in[i].msg, answered)
                   /\ pending(to_guest) => Answered(to_guest.msg, answered)

LEMMA RepliedStep ==
  ASSUME Known, Known', Replied, [EngineNext]_engineVars
  PROVE  Replied'
<1>0. /\ TypeOK /\ CInv /\ Doomed /\ Asked /\ Unfed /\ LastWhole /\ InStep /\ CallsSent /\ Backward
      /\ guest_in \in Seq(Chunk) /\ Len(guest_in) \in Nat /\ to_guest \in Writer
      /\ answered \in Nat /\ g_host.calls \in Nat
  <2>1. TypeOK /\ CInv /\ Doomed /\ Asked /\ Unfed /\ LastWhole /\ InStep /\ CallsSent /\ Backward
    BY DEF Known, Journey, Onward, Fed
  <2>2. guest_in \in Seq(Chunk) /\ to_guest \in Writer /\ answered \in Nat BY ONLY <2>1 DEF TypeOK
  <2>3. g_host.calls \in Nat BY ONLY <2>1 DEF Asked
  <2> QED BY <2>1, <2>2, <2>3
<1>s. Stopped => Stopped' BY EngineStep, StaysStopped
<1>i. ~Stopped' /\ g_at' = "await" /\ guest_in' # <<>> => answered' = g_host'.calls
  <2>1. InStep' /\ g_host'.calls \in Nat BY DEF Known, Journey, Fed, Asked
  <2> SUFFICES ASSUME ~Stopped', g_at' = "await", guest_in' # <<>> PROVE answered' = g_host'.calls OBVIOUS
  <2>2. answered' = Given' + 1 BY <2>1 DEF InStep
  <2>3. Given' = g_host'.calls - 1 BY DEF Given
  <2> QED BY <2>1, <2>2, <2>3
<1>1. ASSUME UNCHANGED <<g_at, g_host, guest_in, to_guest, answered>> PROVE Replied'
  <2>1. Answerable' => Answerable BY <1>s, <1>1 DEF Answerable
  <2> QED BY <1>1, <2>1 DEF Replied, Answered
<1>2. CASE Aside
  <2>1. UNCHANGED <<g_at, g_host>> BY <1>2 DEF Aside, guest
  <2>2. CASE HostReply
    <3> DEFINE c == Head(host_in)
    <3>1. guest_in = <<>> /\ ~pending(to_guest) /\ guest_in' = guest_in BY <1>0, <2>2, ReplyAwaited, ReplyTaken DEF Backward
    <3>2. \/ to_guest' = to_guest
          \/ answered' = answered + 1 /\ to_guest' = Load(c.msg) /\ c.msg.own
               /\ c.msg.kind = "reply" /\ c.msg.seq = answered + 1
      BY <1>0, <2>2, ReplyTaken DEF Backward
    <3> HIDE DEF c
    <3>3. pending(to_guest') => Answered(to_guest'.msg, answered') BY <3>1, <3>2 DEF Answered, Load
    <3> QED BY <3>1, <3>3 DEF Replied, Answered
  <2>3. CASE Feed
    <3> DEFINE p == Piece(to_guest)
    <3>1. /\ pending(to_guest) /\ guest_in' = Append(guest_in, p) /\ to_guest' = Advance(to_guest)
          /\ answered' = answered /\ pc = "feed" /\ pc' = "drain"
      BY <2>3 DEF Feed
    <3>2. p \in Chunk /\ p.msg = to_guest.msg /\ (pending(to_guest') => to_guest'.msg = to_guest.msg)
      BY <1>0, <3>1, Advances, IdleRests
    <3> HIDE DEF p
    <3>3. ~Stopped /\ ~Stopped' BY <3>1 DEF Stopped
    <3> SUFFICES ASSUME Answerable'
                 PROVE  /\ \A i \in DOMAIN guest_in' : Answered(guest_in'[i].msg, answered')
                        /\ pending(to_guest') => Answered(to_guest'.msg, answered')
      BY <1>i, <3>3 DEF Replied, Answered
    <3>4. Answerable BY <2>1, <3>3 DEF Answerable
    <3>5. Answered(to_guest.msg, answered) /\ \A i \in DOMAIN guest_in : Answered(guest_in[i].msg, answered)
      BY <3>1, <3>4 DEF Replied
    <3>6. ASSUME NEW i \in DOMAIN guest_in' PROVE Answered(guest_in'[i].msg, answered')
      <4>1. CASE i \in 1 .. Len(guest_in) BY <1>0, <3>1, <3>2, <3>5, <4>1, Appended DEF Answered
      <4>2. CASE i = Len(guest_in) + 1 BY <1>0, <3>1, <3>2, <3>5, <4>2, Appended DEF Answered
      <4> QED BY <1>0, <3>1, <3>2, <4>1, <4>2, Appended
    <3> QED BY <3>1, <3>2, <3>5, <3>6 DEF Answered
  <2>4. CASE Spawn
    <3>1. pc = "admit" /\ pc' = "watchdog" BY <2>4 DEF Spawn, AdmitRequest, RequestPiece, Continue
    <3>2. g_at = "read" BY <1>0, <3>1 DEF Doomed, Unfed
    <3> QED BY <2>1, <3>2 DEF Replied, Answerable
  <2>5. CASE Held \/ TakesFromHost \/ TakesFromGuest
    BY <1>1, <2>1, <2>5 DEF Held, TakesFromHost, TakesFromGuest
  <2>6. CASE GuestEvent BY <1>0, <1>1, <2>1, <2>6, EventTaken
  <2> QED BY <1>2, <2>2, <2>3, <2>4, <2>5, <2>6, SupervisorMoves DEF Aside
<1>3. CASE Client \/ Cancel \/ Deadline
  BY <1>0, <1>1, <1>3, ClientMoves DEF Middle, Lost, guest
<1>4. CASE Program
  <2>1. UNCHANGED <<pc, to_guest, answered>> /\ (Computes \/ Sends \/ Receives)
    BY <1>0, <1>4, ProgramMoves DEF Around
  <2>2. CASE Computes
    <3>1. guest_in' = guest_in /\ g_at' # "await" /\ (~Stopped => g_at # "read") BY <2>2 DEF Computes
    <3>2. Answerable' => Answerable BY <2>1, <3>1 DEF Answerable, Stopped
    <3> QED BY <2>1, <3>1, <3>2 DEF Replied, Answered
  <2>3. CASE Sends
    <3>1. ~Stopped /\ ~Stopped' /\ guest_in' = guest_in /\ g_at # "read"
      BY <2>1, <2>3 DEF Sends, G!Writing, Stopped
    <3>2. Answerable BY <3>1 DEF Answerable
    <3> QED BY <1>i, <2>1, <3>1, <3>2 DEF Replied, Answered
  <2>4. CASE Receives
    <3>1. ~Stopped /\ ~Stopped' /\ guest_in # <<>> /\ guest_in' = Tail(guest_in)
      BY <2>1, <2>4 DEF Receives, Stopped
    <3>2. CASE g_at = "read" /\ g_at' # "read"
      <4>1. Whole(Head(guest_in)) /\ Head(guest_in) = guest_in[1] /\ 1 \in DOMAIN guest_in
        BY <1>0, <2>4, <3>1, <3>2 DEF Receives
      <4>2. Len(guest_in) = 1 /\ ~pending(to_guest) BY <1>0, <4>1 DEF LastWhole
      <4>3. guest_in' = <<>> BY <1>0, <3>1, <4>2, Shorter
      <4> QED BY <2>1, <4>2, <4>3 DEF Replied
    <3>3. CASE g_at # "read" \/ g_at' = "read"
      <4>1. Answerable' => Answerable BY <3>1, <3>3, <2>4 DEF Answerable, Receives, CallOpen
      <4>2. \A i \in DOMAIN guest_in' : i + 1 \in DOMAIN guest_in /\ guest_in'[i] = guest_in[i + 1]
        BY <1>0, <3>1, Rest
      <4> QED BY <1>i, <2>1, <3>1, <4>1, <4>2 DEF Replied, Answered
    <3> QED BY <3>2, <3>3
  <2> QED BY <2>1, <2>2, <2>3, <2>4
<1>5. CASE UNCHANGED engineVars BY <1>1, <1>5 DEF engineVars, guest
<1> QED BY <1>2, <1>3, <1>4, <1>5, EngineMoves

LEMMA RepliedAlways == EngineSpec => []Replied
<1>1. EngineInit => Replied
  BY IdleRests DEF EngineInit, Init, G!Init, Replied, Answerable
<1>2. Known /\ Known' /\ Replied /\ [EngineNext]_engineVars => Replied' BY RepliedStep
<1> QED BY <1>1, <1>2, AlikeAlways, PTL DEF EngineSpec

(* The guest refuses its request for no reason, and a reply for its values alone. *)
LEMMA GuestHears ==
  ASSUME Known, Alike, Replied, Present(Ahead(guest_in))
  PROVE  /\ g_at = "read" => G!Usable(Ahead(guest_in)) /\ Ahead(guest_in).tag # "refused"
         /\ g_at = "await" => G!Answers(Ahead(guest_in))
<1>1. guest_in # <<>> /\ guest_in \in Seq(Chunk)
  BY DEF Ahead, Present, NoMessage, Known, TypeOK
<1>2. 1 \in DOMAIN guest_in /\ Ahead(guest_in) = guest_in[1].msg BY <1>1, Rest DEF Ahead
<1>3. g_at = "read" => Ahead(guest_in) = Request BY <1>2 DEF Alike, Requested
<1>4. g_at = "await" => Answered(Ahead(guest_in), answered) /\ answered = g_host.calls
  BY <1>1, <1>2 DEF Replied, Answerable
<1>5. g_host.sequence = g_host.calls BY DEF Known, Asked
<1> QED BY <1>3, <1>4, <1>5, TheRequest DEF Answered, G!Usable, G!Answers

(* The supervisor refuses no frame of the guest. *)
LEMMA GuestAgrees ==
  ASSUME Known, Alike, pc = "guestin", Present(Ahead(guest_out))
  PROVE  Relayed(Ahead(guest_out))
<1> DEFINE m == guest_out[1].msg
<1>k. TypeOK /\ CInv /\ Asked /\ Served /\ Onward /\ Backward /\ Fed /\ Requested /\ Outlet
  BY DEF Known, Journey, Alike
<1>1. guest_out # <<>> BY DEF Ahead, Present, NoMessage
<1>2. 1 \in DOMAIN guest_out /\ Ahead(guest_out) = m BY <1>1, <1>k, Rest DEF Ahead, TypeOK
<1>3. ~Stopped BY DEF Stopped
<1>4. /\ m.own /\ m.kind \in {"call", "log", "completed"} /\ m.data # "buried"
      /\ IsCall(m) => /\ m.seq = g_host.calls /\ m.tag = "listed" /\ g_at \in {"call", "await"}
                      /\ sequence < m.seq
  BY <1>2, <1>3, <1>k DEF Outlet, OutletAt
<1> HIDE DEF m
<1>5. CASE ~IsCall(m) BY <1>2, <1>4, <1>5 DEF Relayed, IsCall
<1>6. CASE IsCall(m)
  <2>1. g_request = Request /\ request = Request
    BY <1>3, <1>4, <1>6, <1>k DEF Requested, Fed, Unfed
  <2>2. request.tag # "validate" /\ m.seq <= request.seq
    BY <1>4, <1>6, <1>k, <2>1 DEF Asked
  <2>3. answered \in {g_host.calls - 1, g_host.calls}
    BY <1>3, <1>4, <1>6, <1>k DEF Fed, InStep, Given, Asked
  <2>4. answered \in Nat /\ Len(effects) \in Nat /\ sequence \in Nat /\ g_host.calls \in Nat
    BY <1>k DEF TypeOK, Served, Asked
  <2>5. answered <= Len(effects) /\ Len(effects) <= sequence
    BY <1>k DEF Backward, Onward, CallsServed
  <2>6. sequence = answered /\ m.seq = sequence + 1 BY <1>4, <1>6, <2>3, <2>4, <2>5
  <2>7. pending_sequence = 0 BY <1>k, <2>4, <2>6 DEF CInv, Outstanding, Loop
  <2> QED BY <1>2, <1>4, <1>6, <2>2, <2>6, <2>7 DEF Relayed, CallAllowed, IsCall
<1> QED BY <1>5, <1>6

(* The supervisor refuses no frame of the client after the request, unless it is buried. *)
LEMMA HostAgrees ==
  ASSUME Known, Alike, pc = "hostin", Present(Ahead(host_in))
  PROVE  IsReply(Plain(Ahead(host_in)))
<1> DEFINE m == host_in[1].msg
<1>k. TypeOK /\ CInv /\ Served /\ Onward /\ Backward /\ LoopInlet
  BY DEF Known, Journey, Alike, Inlet
<1>1. host_in # <<>> BY DEF Ahead, Present, NoMessage
<1>2. 1 \in DOMAIN host_in /\ Ahead(host_in) = m BY <1>1, <1>k, Rest DEF Ahead, TypeOK
<1>3. pc \in Loop BY DEF Loop
<1>4. m.kind = "reply" /\ m.own /\ m.seq = answered + 1 /\ m.seq <= Len(effects)
  BY <1>2, <1>3, <1>k DEF LoopInlet, Backward
<1>8. m \in Message
  <2>1. host_in[1] \in Chunk BY <1>2, <1>k DEF TypeOK
  <2> QED BY <2>1 DEF Chunk
<1> HIDE DEF m
<1>5. answered \in Nat /\ Len(effects) \in Nat /\ sequence \in Nat /\ Len(effects) <= sequence
  BY <1>k DEF TypeOK, Served, Onward, CallsServed
<1>6. pending_sequence # 0 /\ sequence = answered + 1
  BY <1>3, <1>4, <1>5, <1>k DEF CInv, Outstanding
<1>7. pending_sequence = sequence BY <1>6, <1>k DEF Backward
<1> QED BY <1>2, <1>4, <1>5, <1>6, <1>7, <1>8, PlainFacts

(* The client refuses no frame of the supervisor for its identity, kind or number,
   but a diagnostic from before the admission. *)
LEMMA ClientAgrees ==
  ASSUME Known, Alike, c_at = "read", taken < Len(wire)
  PROVE  LET m == wire[taken + 1].msg
         IN  /\ Foreign(m) => child = "none" /\ effects = <<>>
             /\ m.kind = "call" => m.seq = c_sequence + 1 /\ m.seq <= Request.seq
<1> DEFINE m == wire[taken + 1].msg
<1>k. TypeOK /\ CInv /\ Served /\ Onward /\ Backward /\ Inlet /\ Requested /\ Clean /\ Unread
  BY DEF Known, Journey, Alike
<1>0. /\ answered \in Nat /\ sequence \in Nat /\ taken \in Nat
           /\ Len(replies) \in Nat /\ c_sequence \in Nat
      /\ Len(wire) \in Nat /\ DOMAIN wire = 1 .. Len(wire)
  BY <1>k DEF TypeOK, Served
<1>1. taken + 1 \in DOMAIN wire BY <1>0
<1>2. Foreign(m) => child = "none" /\ effects = <<>> BY <1>1, <1>k, NothingYet DEF Clean
<1>3. CASE m.kind = "call"
  <2>1. c_at \in Waiting BY DEF Waiting
  <2>2. m.seq > c_sequence BY <1>0, <1>1, <1>3, <1>k, <2>1 DEF Unread, IsCall
  <2>3. m.seq <= sequence BY <1>1, <1>3, <1>k DEF Onward, CallsRelayed, IsCall
  <2>4. sequence <= answered + 1 /\ answered <= Len(replies) /\ Len(replies) = c_sequence
    BY <1>k DEF CInv, Outstanding, Inlet, Served
  <2>5. m.seq \in Nat
    <3>1. wire[taken + 1] \in Chunk BY <1>k, <1>1 DEF TypeOK
    <3> QED BY <3>1 DEF Chunk, Message
  <2>6. m.seq = c_sequence + 1 /\ m.seq = sequence BY <1>0, <2>2, <2>3, <2>4, <2>5
  <2> HIDE DEF m
  <2>7. sequence <= request.seq /\ request # NoMessage
    <3>1. sequence # 0 BY <1>0, <2>6
    <3>2. sequence \in 1 .. request.seq
      <4>1. CASE QueuedCall BY <1>k, <4>1 DEF CInv, QueuedAuthorised
      <4>2. CASE ~QueuedCall
        <5>1. PICK i \in CallsOnWire : wire[i].msg.seq = sequence
          BY <1>0, <1>k, <3>1, <4>2 DEF CInv, Numbered, Begun
        <5> QED BY <1>k, <5>1 DEF CInv, CallsAuthorised
      <4> QED BY <4>1, <4>2
    <3>3. NoMessage.seq = 0 BY DEF NoMessage
    <3>4. request # NoMessage BY <1>0, <3>1, <3>2, <3>3
    <3>5. sequence <= request.seq BY <3>2
    <3> QED BY <3>4, <3>5
  <2>8. request = Request BY <1>k, <2>7 DEF Requested
  <2> QED BY <1>2, <1>3, <2>6, <2>7, <2>8 DEF m
<1> QED BY <1>2, <1>3

-----------------------------------------------------------------------------
(* What the application is told is what happened.  The logs are counted on
   their way from the guest to the client, the guest's result is followed to
   stdout and from there to execute(), and a client that failed is asked for
   its reason.                                                              *)

(* Counting the logs in a pipe. *)
IsLog(c) == Whole(c) /\ c.msg.kind = "log"
LogsIn(s, n) == {i \in 1 .. n : IsLog(s[i])}
LogCount(s) == Cardinality(LogsIn(s, Len(s)))
One(c) == IF IsLog(c) THEN 1 ELSE 0

LEMMA LogsFinite ==
  ASSUME NEW s, NEW n \in Nat
  PROVE  IsFiniteSet(LogsIn(s, n)) /\ Cardinality(LogsIn(s, n)) \in Nat
<1>1. IsFiniteSet(1 .. n) BY FS_Interval
<1>2. LogsIn(s, n) \subseteq 1 .. n BY DEF LogsIn
<1>3. IsFiniteSet(LogsIn(s, n)) BY <1>1, <1>2, FS_Subset
<1> QED BY <1>3, FS_CardinalityType

LEMMA LogsNext ==
  ASSUME NEW s, NEW n \in Nat
  PROVE  Cardinality(LogsIn(s, n + 1)) = Cardinality(LogsIn(s, n)) + One(s[n + 1])
<1>1. n + 1 \notin LogsIn(s, n) BY DEF LogsIn
<1>2. CASE IsLog(s[n + 1])
  <2>1. LogsIn(s, n + 1) = LogsIn(s, n) \cup {n + 1} BY <1>2 DEF LogsIn
  <2>2. IsFiniteSet(LogsIn(s, n)) BY LogsFinite
  <2>3. Cardinality(LogsIn(s, n) \cup {n + 1}) = Cardinality(LogsIn(s, n)) + 1
    BY <1>1, <2>2, FS_AddElement
  <2> QED BY <1>2, <2>1, <2>3 DEF One
<1>3. CASE ~IsLog(s[n + 1])
  <2>1. LogsIn(s, n + 1) = LogsIn(s, n) BY <1>3 DEF LogsIn
  <2>2. Cardinality(LogsIn(s, n)) \in Nat BY LogsFinite
  <2> QED BY <1>3, <2>1, <2>2 DEF One
<1> QED BY <1>2, <1>3

LEMMA LogsSame ==
  ASSUME NEW s, NEW t, NEW n \in Nat, \A i \in 1 .. n : t[i] = s[i]
  PROVE  LogsIn(t, n) = LogsIn(s, n)
BY DEF LogsIn

LEMMA LogsAppend ==
  ASSUME NEW s \in Seq(Chunk), NEW c \in Chunk
  PROVE  /\ LogCount(Append(s, c)) = LogCount(s) + One(c) /\ LogCount(s) \in Nat
         /\ \A n \in 0 .. Len(s) : LogsIn(Append(s, c), n) = LogsIn(s, n)
<1> DEFINE t == Append(s, c)
<1>1. /\ Len(t) = Len(s) + 1 /\ Len(s) \in Nat /\ t[Len(s) + 1] = c
      /\ \A i \in 1 .. Len(s) : t[i] = s[i]
  BY Appended
<1> HIDE DEF t
<1>2. \A n \in 0 .. Len(s) : LogsIn(t, n) = LogsIn(s, n) BY <1>1 DEF LogsIn
<1>3. Cardinality(LogsIn(t, Len(s) + 1)) = Cardinality(LogsIn(t, Len(s))) + One(c)
  BY <1>1, LogsNext
<1>4. LogCount(s) \in Nat BY <1>1, LogsFinite DEF LogCount
<1> QED BY <1>1, <1>2, <1>3, <1>4 DEF LogCount, t

LEMMA LogsTail ==
  ASSUME NEW s \in Seq(Chunk), s # <<>>
  PROVE  LogCount(s) = LogCount(Tail(s)) + One(Head(s)) /\ LogCount(Tail(s)) \in Nat
<1> DEFINE t == Tail(s)
           A == LogsIn(s, Len(s)) \ {1}
           B == LogsIn(t, Len(t))
           f == [i \in A |-> i - 1]
<1>1. /\ Len(s) \in Nat /\ Len(s) >= 1 /\ Len(t) = Len(s) - 1 /\ Head(s) = s[1]
      /\ \A i \in 1 .. Len(t) : t[i] = s[i + 1]
  OBVIOUS
<1> HIDE DEF t
<1>2. IsFiniteSet(LogsIn(s, Len(s))) /\ IsFiniteSet(A) BY <1>1, LogsFinite, FS_RemoveElement
<1>3. f \in Bijection(A, B)
  <2>1. \A i \in A : i \in 2 .. Len(s) /\ i - 1 \in B BY <1>1 DEF LogsIn
  <2>2. \A j \in B : j + 1 \in A /\ j \in Int BY <1>1 DEF LogsIn
  <2> HIDE DEF A, B
  <2>3. f \in [A -> B] BY <2>1
  <2>4. \A i, j \in A : f[i] = f[j] => i = j BY <2>1
  <2>5. \A j \in B : \E i \in A : f[i] = j
    <3> SUFFICES ASSUME NEW j \in B PROVE \E i \in A : f[i] = j OBVIOUS
    <3>1. f[j + 1] = j BY <2>2
    <3> QED BY <2>2, <3>1
  <2>6. f \in Injection(A, B) BY <2>3, <2>4 DEF Injection, IsInjective
  <2>7. f \in Surjection(A, B) BY <2>3, <2>5 DEF Surjection
  <2> QED BY <2>6, <2>7 DEF Bijection
<1>4. Cardinality(B) = Cardinality(A)
  <2> HIDE DEF A, B, f
  <2>1. ExistsBijection(A, B) BY <1>3 DEF ExistsBijection
  <2> QED BY <1>2, <2>1, FS_Bijection
<1>5. Cardinality(LogsIn(s, Len(s))) = Cardinality(A) + One(s[1]) /\ Cardinality(A) \in Nat
  <2>1. 1 \in LogsIn(s, Len(s)) <=> IsLog(s[1]) BY <1>1 DEF LogsIn
  <2>2. Cardinality(A) = IF IsLog(s[1]) THEN Cardinality(LogsIn(s, Len(s))) - 1
                         ELSE Cardinality(LogsIn(s, Len(s)))
    BY <1>2, <2>1, FS_RemoveElement
  <2>3. Cardinality(LogsIn(s, Len(s))) \in Nat /\ Cardinality(A) \in Nat
    BY <1>2, FS_CardinalityType
  <2> QED BY <2>2, <2>3 DEF One
<1> HIDE DEF A, B
<1> QED BY <1>1, <1>4, <1>5 DEF LogCount, B, t

(* The steps of the supervisor and the kernel, by what they tell. *)
Calm == UNCHANGED <<wire, to_host, guest_out, completed>> /\ (pc' \in Loop => pc \in Loop)
Skips ==
  /\ guest_out # <<>> /\ guest_out' = Tail(guest_out) /\ UNCHANGED <<wire, to_host, completed>>
  /\ pc' \in Loop => pc \in Loop /\ ~Whole(Head(guest_out))
Judges ==
  /\ UNCHANGED guest_out
  /\ completed => completed'
  /\ pc' \in Loop => pc \in Loop /\ completed'
  /\ \/ to_host' = to_host \/ to_host' = Idle
     \/ \E t \in Tags \ {"result", "engine_error"} : to_host' = Load(failure(TRUE, t))
  /\ \/ wire' = wire
     \/ \E own \in BOOLEAN, t \in Tags \ {"result"} :
          /\ wire' = Append(wire, Piece(Load(failure(own, t))))
          /\ t = "engine_error" => pc' = "exit"

LEMMA SupervisorTells ==
  ASSUME SupervisorStep \/ Lost \/ Kernel
  PROVE  UNCHANGED finished /\ (Spawn \/ Calm \/ Skips \/ GuestEvent \/ Drain \/ Judges)
<1>1. CASE AdmitFails \/ InTime \/ MemoryFits \/ HostSilent \/ HostEof \/ FeedWaits \/ FeedBroken \/ Feed
  BY <1>1 DEF AdmitFails, InTime, MemoryFits, HostSilent, HostEof, FeedWaits, FeedBroken, Feed, Loop, Calm
<1>2. CASE DrainWaits \/ DrainBroken \/ GuestSkipped \/ GuestEof \/ NotReaped
  BY <1>2 DEF DrainWaits, AfterDrain, DrainBroken, GuestSkipped, GuestEof, NotReaped, Loop, Calm
<1>3. CASE Kill \/ Wait \/ Lost \/ Kernel
  BY <1>3 DEF Kill, Wait, Lost, Kernel, Tick, GuestExits, GuestDead, Loop, Calm
<1>4. CASE AdmitPartial \/ Refuse \/ HostPartial \/ HostRefused \/ HostReply
  BY <1>4 DEF AdmitPartial, Refuse, AdmitRequest, RequestPiece, HostPartial, HostRefused, HostReply,
     HostPiece, Loop, Calm
<1>5. CASE GuestPartial \/ GuestRefused
  BY <1>5 DEF GuestPartial, GuestRefused, GuestPiece, Loop, Skips
<1>6. CASE Spawn \/ GuestEvent \/ Drain
  BY <1>6 DEF Spawn, AdmitRequest, RequestPiece, GuestEvent, GuestPiece, Drain
<1>t. /\ {"wall_timeout", "memory_limit"} \subseteq Tags \ {"result", "engine_error"}
      /\ "engine_error" \in Tags \ {"result"} /\ \A how : Verdict(how) \in Tags \ {"result", "engine_error"}
  BY DEF Tags, Verdict
<1>7. CASE MemoryCeiling
  BY <1>7, <1>t DEF MemoryCeiling, QueueForHost, Judges, Loop
<1>8. CASE Reap
  BY <1>8, <1>t DEF Reap, QueueForHost, Judges, Loop
<1>9. CASE Expire
  <2> DEFINE told == Load(failure(TRUE, "wall_timeout"))
  <2>1. Advance(told) = Idle BY FailureFacts
  <2>2. to_host' = to_host \/ to_host' = told \/ to_host' = Idle BY <1>9, <2>1 DEF Expire
  <2>3. wire' = wire \/ wire' = Append(wire, Piece(told)) BY <1>9 DEF Expire
  <2>4. UNCHANGED <<guest_out, completed, finished>> /\ pc' \notin Loop BY <1>9 DEF Expire, Loop
  <2> QED BY <1>t, <2>2, <2>3, <2>4 DEF Judges
<1>10. CASE Report
  <2>1. (request # NoMessage) \in BOOLEAN OBVIOUS
  <2>2. wire' = wire \/ wire' = Append(wire, Piece(Load(failure(request # NoMessage, "engine_error"))))
    BY <1>10 DEF Report
  <2>3. pc' = "exit" /\ pc' \notin Loop /\ UNCHANGED <<to_host, guest_out, completed, finished>>
    BY <1>10 DEF Report, Loop
  <2> QED BY <1>t, <2>1, <2>2, <2>3 DEF Judges
<1> QED
  BY <1>1, <1>2, <1>3, <1>4, <1>5, <1>6, <1>7, <1>8, <1>9, <1>10 DEF SupervisorStep

(* The client only reads what was told. *)
LEMMA ClientListens ==
  ASSUME Client \/ Cancel \/ Deadline
  PROVE  /\ UNCHANGED <<wire, to_host, guest_out, completed, finished, guest>>
         /\ pc' \in Loop => pc \in Loop
<1>1. CASE UNCHANGED vars BY <1>1 DEF Client, Cancel, Deadline
<1>2. CASE HostWrites \/ HostReads \/ HostCloses \/ HostDeaf
  BY <1>2 DEF Client, Cancel, Deadline, HostWrites, HostReads, HostCloses, HostDeaf
<1>3. CASE Lost BY <1>3 DEF Client, Cancel, Deadline, Lost, Loop
<1> QED BY <1>1, <1>2, <1>3 DEF Client, Cancel, Deadline

(* The program writes a piece, or nothing that is told. *)
Mute == UNCHANGED <<guest_out, finished>> /\ g_output'.logs = g_output.logs
Utters(p) ==
  /\ p \in Chunk /\ p = Piece(g_writer) /\ guest_out' = Append(guest_out, p)
  /\ g_at \in G!Writing /\ ~Stopped /\ g_host' = g_host
  /\ finished' = (finished \/ OwnResult(p))
  /\ g_output'.logs = g_output.logs + One(p)
  /\ Whole(p) /\ p.msg.kind = "completed" => g_at \in {"event", "report"} /\ g_at' = "exit"

LEMMA ProgramTells ==
  ASSUME TypeOK, Asked, g_output.logs \in Nat, Program
  PROVE  /\ g_at # "exit" /\ UNCHANGED <<wire, to_host, pc, completed>>
         /\ Mute \/ \E p \in Chunk : Utters(p)
<1>1. CASE UNCHANGED vars
  <2>w. /\ \A own : G!Fail(own) => UNCHANGED g_output
        /\ \A s, e, j : G!Conclude(s, e, j) => UNCHANGED g_output
        /\ \A e : G!Raised(e) => UNCHANGED g_output
        /\ \A c : G!Return(c) => UNCHANGED g_output
    BY DEF G!Write, G!Fail, G!Conclude, G!Raised, G!Return
  <2>0. UNCHANGED <<wire, to_host, pc, completed, guest_out, finished>> BY <1>1
  <2>1. CASE G!NoRequest \/ G!Enter \/ G!AdmissionFails \/ G!Admitted
    BY <2>0, <2>1, <2>w DEF G!NoRequest, G!Enter, G!AdmissionFails, G!Admitted, G!Execute, Mute
  <2>2. CASE G!Boot BY <2>0, <2>2, <2>w DEF G!Boot, Mute
  <2>3. CASE G!Unknown \/ G!CallRefused \/ G!Call \/ G!NoReply
    BY <2>0, <2>3, <2>w DEF G!Unknown, G!CallRefused, G!Call, G!Write, G!NoReply, Mute
  <2>4. CASE G!Finish BY <2>0, <2>4, <2>w DEF G!Finish, Mute
  <2>5. CASE G!Broken BY <2>0, <2>5, <2>w DEF G!Broken, G!Writing, Mute
  <2>6. CASE G!Exhausted BY <2>0, <2>6 DEF G!Exhausted, G!VM, Mute
  <2>7. ASSUME NEW n \in LogLengths, G!Log(n) PROVE Mute /\ g_at # "exit"
    <3>1. g_at # "exit" BY <2>7 DEF G!Log
    <3>2. CASE G!NoLog
      <4>1. g_output' = [g_output EXCEPT !.refused = TRUE] BY <3>2 DEF G!NoLog
      <4>2. g_output'.logs = g_output.logs BY <4>1
      <4> QED BY <2>0, <3>1, <4>2 DEF Mute
    <3>3. CASE G!SendLog(n) BY <2>0, <3>1, <3>3 DEF G!SendLog, Mute
    <3> QED BY <2>7, <3>2, <3>3 DEF G!Log
  <2>8. CASE GuestWrites
    <3>1. guest_out' = guest_out /\ guest_out \in Seq(Chunk) BY <1>1 DEF TypeOK
    <3>2. PICK w : guest_out' = Append(guest_out, Piece(w)) BY <2>8 DEF GuestWrites
    <3>3. Len(Append(guest_out, Piece(w))) = Len(guest_out) + 1 BY <3>1
    <3> QED BY <3>1, <3>2, <3>3
  <2>9. CASE GuestReads
    <3>1. guest_in' = guest_in /\ guest_in \in Seq(Chunk) /\ guest_in # <<>>
      BY <1>1, <2>9 DEF TypeOK, GuestReads
    <3>2. guest_in' = Tail(guest_in) BY <2>9 DEF GuestReads
    <3>3. Len(Tail(guest_in)) = Len(guest_in) - 1 BY <3>1
    <3> QED BY <3>1, <3>2, <3>3
  <2> QED BY <2>1, <2>2, <2>3, <2>4, <2>5, <2>6, <2>7, <2>8, <2>9 DEF Program
<1>2. CASE GuestReads /\ G!Receive(Head(guest_in))
  <2>1. UNCHANGED <<wire, to_host, pc, completed, guest_out, finished>> BY <1>2 DEF GuestReads
  <2>2. UNCHANGED g_output /\ g_at # "exit"
    BY <1>2 DEF G!Receive, G!ReadPartial, G!ReadRequest, G!ReadReply, G!Fail, G!Return, G!guestVars
  <2> QED BY <2>1, <2>2 DEF Mute
<1>3. CASE GuestWrites /\ guest_out' = Append(guest_out, Piece(g_writer)) /\ G!Send
  <2> DEFINE p == Piece(g_writer)
  <2>1. UNCHANGED <<wire, to_host, pc, completed>> /\ ~Stopped BY <1>3 DEF GuestWrites
  <2>2. g_at \in G!Writing /\ g_host' = g_host BY <1>3 DEF G!Send
  <2>3. p \in Chunk /\ p.msg = g_writer.msg BY DEF Asked, Piece, Chunk, Writer
  <2>4. finished' = (finished \/ OwnResult(p))
    <3>1. PICK w : /\ guest_out' = Append(guest_out, Piece(w))
                   /\ finished' = (finished \/ (Whole(Piece(w)) /\ w.msg.own /\ w.msg.kind = "completed"))
      BY <1>3 DEF GuestWrites
    <3>2. guest_out \in Seq(Chunk) BY DEF TypeOK
    <3>3. Piece(w) = p
      <4>1. Append(guest_out, Piece(w)) = Append(guest_out, p) BY <1>3, <3>1
      <4> QED BY <3>2, <4>1
    <3>4. Piece(w).msg = w.msg BY DEF Piece
    <3> QED BY <3>1, <3>3, <3>4 DEF OwnResult
  <2>5. Whole(p) <=> G!Whole(G!Piece(g_writer)) BY DEF Whole, Piece, G!Whole, G!Piece
  <2>6. g_output'.logs = g_output.logs + One(p)
    <3>1. G!Sent(g_writer.msg).logs = IF g_writer.msg.kind = "log" THEN g_output.logs + 1 ELSE g_output.logs
      BY DEF G!Sent
    <3> QED BY <1>3, <2>3, <2>5, <3>1 DEF G!Send, One, IsLog
  <2>7. Whole(p) /\ p.msg.kind = "completed" => g_at \in {"event", "report"} /\ g_at' = "exit"
    <3> SUFFICES ASSUME Whole(p), p.msg.kind = "completed" PROVE g_at \in {"event", "report"} /\ g_at' = "exit"
      OBVIOUS
    <3>1. g_at # "call" /\ g_at # "log" BY <2>3, CallSaid DEF Asked, IsCall
    <3>2. g_at \in {"event", "report"} BY <2>2, <3>1 DEF G!Writing
    <3> QED BY <1>3, <2>5, <3>1, <3>2 DEF G!Send, G!After
  <2> HIDE DEF p
  <2>8. Utters(p) BY <1>3, <2>1, <2>2, <2>3, <2>4, <2>6, <2>7 DEF Utters, p
  <2>9. g_at # "exit" BY <2>2 DEF G!Writing
  <2> QED BY <2>1, <2>3, <2>8, <2>9
<1> QED BY <1>1, <1>2, <1>3 DEF Program

(* Where the client is, and what the guest has logged. *)
Placed ==
  /\ c_at \in Waiting \cup C!Cleanup
  /\ c_returned = "none" <=> c_at \in Waiting
  /\ c_logs \in Nat /\ c_logBytes \in Nat
Unlogged == g_output.logs \in Nat /\ (g_at = "read" => g_output.logs = 0)

(* All that is known of the three processes and the pipes. *)
Settled == Known /\ Alike /\ Replied /\ CutPieces /\ IInv /\ Fate /\ Placed /\ Unlogged

LEMMA SettledAlways == EngineSpec => []Settled
<1>1. CP!CInv => Placed
  <2> SUFFICES ASSUME CP!CInv PROVE Placed OBVIOUS
  <2>1. CP!PlaceOK /\ CP!CountsOK BY DEF CP!CInv, CP!Typed
  <2> QED BY <2>1 DEF CP!PlaceOK, CP!CountsOK, CP!Unfinished, CP!Cleanup, Placed, Waiting, C!Cleanup
<1>2. GP!GInv => Unlogged
  <2> SUFFICES ASSUME GP!GInv PROVE Unlogged OBVIOUS
  <2>1. GP!TypeOK /\ GP!Stages BY DEF GP!GInv
  <2> QED BY <2>1 DEF GP!TypeOK, GP!Stages, GP!Nothing, Unlogged
<1>3. EngineSpec => []IInv /\ []Fate BY EngineImplementsSupervisor, Invariance, FateInvariant, PTL
<1>4. Known /\ Alike /\ Replied /\ CutPieces /\ IInv /\ Fate /\ Placed /\ Unlogged => Settled BY DEF Settled
<1> QED BY <1>1, <1>2, <1>3, <1>4, AlikeAlways, RepliedAlways, CutInvariant, ClientHolds, GuestHolds, PTL

-----------------------------------------------------------------------------
(* When the guest has written its result it is done, and every call was carried out. *)
Delivered == finished => g_at = "exit" /\ Len(effects) = g_host.calls

LEMMA DeliveredStep ==
  ASSUME Settled, Settled', Delivered, [EngineNext]_engineVars
  PROVE  Delivered'
<1>0. /\ TypeOK /\ Asked /\ Served /\ CallsSent /\ CallsServed /\ Backward /\ InStep
      /\ g_output.logs \in Nat
  BY DEF Settled, Known, Journey, Onward, Fed, Unlogged
<1>e. effects \in Seq(Nat) /\ c_asked \in Nat BY <1>0 DEF Served
<1>n. /\ answered \in Nat /\ Len(effects) \in Nat /\ sequence \in Nat /\ Len(g_output.calls) \in Nat
      /\ g_host.calls \in Nat
  BY <1>0, <1>e DEF TypeOK, Asked
<1>p. /\ Len(effects') <= sequence' /\ sequence' <= Len(g_output'.calls)
      /\ Len(g_output'.calls) <= g_host'.calls
      /\ Len(effects') \in Nat /\ sequence' \in Nat /\ Len(g_output'.calls) \in Nat /\ g_host'.calls \in Nat
  <2>1. TypeOK' /\ Asked' /\ Served' /\ CallsSent' /\ CallsServed'
    BY DEF Settled, Known, Journey, Onward
  <2>2. effects' \in Seq(Nat) BY <2>1 DEF Served
  <2>3. g_output'.calls \in Seq(Nat) /\ g_host'.calls \in Nat /\ Len(g_output'.calls) <= g_host'.calls
    BY <2>1 DEF Asked
  <2>4. sequence' \in Nat BY <2>1 DEF TypeOK
  <2> QED BY <2>1, <2>2, <2>3, <2>4 DEF CallsSent, CallsServed
<1>1. ASSUME UNCHANGED <<guest, finished>> PROVE Delivered'
  <2> SUFFICES ASSUME finished PROVE g_at' = "exit" /\ Len(effects') = g_host'.calls BY <1>1 DEF Delivered
  <2>1. g_at' = "exit" /\ g_host' = g_host /\ Len(effects) = g_host.calls
    BY <1>1 DEF guest, Delivered
  <2>2. Len(effects') <= g_host'.calls BY <1>p
  <2>3. Len(effects) <= Len(effects') /\ Len(effects) \in Nat /\ Len(effects') \in Nat
    <3>1. effects' = effects \/ effects' = Append(effects, c_asked)
      <4>1. CASE Client \/ Cancel \/ Deadline
        BY <1>0, <4>1, ClientMoves DEF client, Opens, Pauses, Puts, IsAsked, Invokes, Responds
      <4> QED BY <4>1, EngineMoves DEF Aside, Program, client, engineVars
    <3> QED BY <1>e, <1>n, <1>p, <3>1
  <2> QED BY <1>n, <1>p, <2>1, <2>2, <2>3
<1>2. CASE Program
  <2>0. UNCHANGED client BY <1>2 DEF Program
  <2>1. ~finished BY <1>0, <1>2, ProgramTells DEF Delivered
  <2>2. CASE Mute BY <2>1, <2>2 DEF Mute, Delivered
  <2>3. ASSUME NEW p \in Chunk, Utters(p) PROVE Delivered'
    <3> SUFFICES ASSUME finished' PROVE g_at' = "exit" /\ Len(effects') = g_host'.calls BY DEF Delivered
    <3>1. OwnResult(p) /\ ~Stopped BY <2>1, <2>3 DEF Utters
    <3>2. g_at \in {"event", "report"} /\ g_at' = "exit" /\ g_host' = g_host
      BY <2>3, <3>1 DEF Utters, OwnResult
    <3>3. Len(g_output.calls) = g_host.calls 
      <4>1. g_host.calls = Len(g_output.calls) + (IF g_at = "call" THEN 1 ELSE 0)
        BY <1>0, <3>1 DEF Asked
      <4>2. g_at # "call" BY <3>2
      <4>3. Len(g_output.calls) \in Nat /\ g_host.calls \in Nat BY <1>n
      <4> QED BY <4>1, <4>2, <4>3
    <3>4. answered \in {g_host.calls, g_host.calls + 1} BY <1>0, <3>1, <3>2 DEF InStep, Given
    <3>5. answered <= Len(effects) /\ Len(effects) <= sequence /\ sequence <= Len(g_output.calls)
      BY <1>0 DEF Backward, CallsServed, CallsSent
    <3>7. Len(effects) = g_host.calls BY <1>n, <3>3, <3>4, <3>5
    <3> QED BY <2>0, <3>2, <3>7 DEF client
  <2> QED BY <1>0, <1>2, <2>2, <2>3, ProgramTells
<1>3. CASE Client \/ Cancel \/ Deadline BY <1>1, <1>3, ClientListens
<1>4. CASE Aside BY <1>1, <1>4, SupervisorTells DEF Aside
<1>5. CASE UNCHANGED engineVars BY <1>1, <1>5 DEF engineVars
<1> QED BY <1>2, <1>3, <1>4, <1>5, EngineMoves

(* Nothing is written behind the guest's result. *)
OwnLast == \A i \in DOMAIN guest_out : OwnResult(guest_out[i]) => i = Len(guest_out)

LEMMA OwnLastStep ==
  ASSUME Settled, Delivered, OwnLast, [EngineNext]_engineVars
  PROVE  OwnLast'
<1>0. /\ TypeOK /\ Asked /\ g_output.logs \in Nat /\ GuestConcludes /\ guest_out \in Seq(Chunk)
      /\ Len(guest_out) \in Nat
  BY DEF Settled, Known, Unlogged, Fate, TypeOK
<1>1. ASSUME UNCHANGED guest_out PROVE OwnLast' BY <1>1 DEF OwnLast
<1>2. ASSUME guest_out # <<>>, guest_out' = Tail(guest_out) PROVE OwnLast'
  <2>1. Len(Tail(guest_out)) = Len(guest_out) - 1 BY <1>0, <1>2, Shorter
  <2> QED BY <1>0, <1>2, <2>1, Rest DEF OwnLast
<1>3. CASE Program
  <2>1. g_at # "exit" BY <1>0, <1>3, ProgramTells
  <2>2. CASE Mute BY <1>1, <2>2 DEF Mute
  <2>3. ASSUME NEW p \in Chunk, Utters(p) PROVE OwnLast'
    <3>1. ~finished BY <2>1 DEF Delivered
    <3>2. \A i \in DOMAIN guest_out : ~OwnResult(guest_out[i]) BY <1>0, <3>1 DEF GuestConcludes
    <3>3. guest_out' = Append(guest_out, p) BY <2>3 DEF Utters
    <3> QED BY <1>0, <3>2, <3>3, Appended DEF OwnLast
  <2> QED BY <1>0, <1>3, <2>2, <2>3, ProgramTells
<1>4. CASE Client \/ Cancel \/ Deadline BY <1>1, <1>4, ClientListens
<1>5. CASE Aside
  <2>1. CASE Spawn BY <1>1, <2>1 DEF Spawn
  <2>2. CASE Calm \/ Judges BY <1>1, <2>2 DEF Calm, Judges
  <2>3. CASE Skips BY <1>2, <2>3 DEF Skips
  <2>4. CASE GuestEvent BY <1>0, <1>2, <2>4, EventTaken
  <2>5. CASE Drain BY <1>1, <2>5 DEF Drain
  <2> QED BY <1>5, <2>1, <2>2, <2>3, <2>4, <2>5, SupervisorTells DEF Aside
<1>6. CASE UNCHANGED engineVars BY <1>1, <1>6 DEF engineVars
<1> QED BY <1>3, <1>4, <1>5, <1>6, EngineMoves

(* The calls on their way to the client are of listed paths, and none is when validating. *)
Allowed(m) == IsCall(m) => m.tag = "listed" /\ Request.tag # "validate"
Listed == /\ pending(to_host) => Allowed(to_host.msg)
          /\ \A i \in DOMAIN wire : Allowed(wire[i].msg)

LEMMA ListedAppend ==
  ASSUME wire \in Seq(Chunk), NEW c \in Chunk, wire' = Append(wire, c), Listed, Allowed(c.msg)
  PROVE  \A i \in DOMAIN wire' : Allowed(wire'[i].msg)
BY Appended DEF Listed

LEMMA ListedStep ==
  ASSUME Settled, Listed, [EngineNext]_engineVars
  PROVE  Listed'
<1>0. TypeOK /\ Asked /\ g_output.logs \in Nat /\ Requested /\ Unborn /\ wire \in Seq(Chunk)
  BY DEF Settled, Known, Alike, Unlogged, Fate, TypeOK
<1>1. ASSUME UNCHANGED <<wire, to_host>> PROVE Listed' BY <1>1 DEF Listed
<1>2. CASE Aside
  <2>1. CASE Spawn BY <1>1, <2>1 DEF Spawn
  <2>2. CASE Calm \/ Skips BY <1>1, <2>2 DEF Calm, Skips
  <2>3. CASE GuestEvent
    <3> DEFINE m == Head(guest_out).msg
    <3>1. Relayed(m) /\ (to_host' = to_host \/ to_host' = Load(m)) /\ wire' = wire
      BY <1>0, <2>3, EventTaken
    <3>2. request = Request
      <4>1. pc = "guestin" BY <2>3 DEF GuestEvent, GuestPiece
      <4>2. child # "none" BY <1>0, <4>1 DEF Unborn, Guestless
      <4> QED BY <1>0, <4>2 DEF Requested
    <3> HIDE DEF m
    <3>3. Allowed(m) BY <3>1, <3>2 DEF Relayed, CallAllowed, Allowed, IsCall
    <3> QED BY <3>1, <3>3 DEF Listed, Load
  <2>4. CASE Drain
    <3> DEFINE p == Piece(to_host)
    <3>1. /\ pending(to_host) /\ p \in Chunk /\ p.msg = to_host.msg /\ wire' = Append(wire, p)
          /\ to_host' = Idle \/ to_host'.msg = to_host.msg
      BY <1>0, <2>4, DrainFacts
    <3> HIDE DEF p
    <3>2. Allowed(to_host.msg) BY <3>1 DEF Listed
    <3>3. pending(to_host') => Allowed(to_host'.msg) BY <3>1, <3>2, IdleRests
    <3> QED BY <1>0, <3>1, <3>2, <3>3, ListedAppend DEF Listed
  <2>5. CASE Judges
    <3>1. pending(to_host') => Allowed(to_host'.msg)
      <4>1. \A t \in Tags : Allowed(Load(failure(TRUE, t)).msg) BY NoCall DEF Allowed
      <4> QED BY <2>5, <4>1, IdleRests DEF Judges, Listed
    <3>2. \A i \in DOMAIN wire' : Allowed(wire'[i].msg)
      <4>1. CASE wire' = wire BY <4>1 DEF Listed
      <4>2. ASSUME NEW own \in BOOLEAN, NEW t \in Tags, wire' = Append(wire, Piece(Load(failure(own, t))))
            PROVE  \A i \in DOMAIN wire' : Allowed(wire'[i].msg)
        <5> DEFINE c == Piece(Load(failure(own, t)))
        <5>1. c \in Chunk /\ ~IsCall(c.msg) BY NoCall
        <5>2. wire' = Append(wire, c) BY <4>2
        <5> HIDE DEF c
        <5> QED BY <1>0, <5>1, <5>2, ListedAppend DEF Allowed
      <4> QED BY <2>5, <4>1, <4>2 DEF Judges
    <3> QED BY <3>1, <3>2 DEF Listed
  <2> QED BY <1>2, <2>1, <2>2, <2>3, <2>4, <2>5, SupervisorTells DEF Aside
<1>3. CASE Client \/ Cancel \/ Deadline BY <1>1, <1>3, ClientListens
<1>4. CASE Program BY <1>0, <1>1, <1>4, ProgramTells
<1>5. CASE UNCHANGED engineVars BY <1>1, <1>5 DEF engineVars
<1> QED BY <1>2, <1>3, <1>4, <1>5, EngineMoves

(* The logs on their way: those the guest sent are in its pipe, in the supervisor's
   hand or on stdout. *)
InHand == IF pending(to_host) /\ to_host.msg.kind = "log" THEN 1 ELSE 0
LogsRelayed == pc \in Loop /\ ~completed =>
                 g_output.logs = LogCount(guest_out) + InHand + LogCount(wire)

LEMMA Counted ==
  ASSUME TypeOK
  PROVE  LogCount(guest_out) \in Nat /\ LogCount(wire) \in Nat /\ InHand \in {0, 1}
<1>1. Len(guest_out) \in Nat /\ Len(wire) \in Nat BY DEF TypeOK
<1>2. LogCount(guest_out) \in Nat /\ LogCount(wire) \in Nat BY <1>1, LogsFinite DEF LogCount
<1> QED BY <1>2 DEF InHand

LEMMA LoadPends ==
  ASSUME NEW c \in Chunk, Whole(c)
  PROVE  pending(Load(c.msg)) /\ Load(c.msg).msg = c.msg
BY DEF Chunk, Message, Whole, pending, Load

LEMMA LogsRelayedStep ==
  ASSUME Settled, LogsRelayed, [EngineNext]_engineVars
  PROVE  LogsRelayed'
<1>0. /\ TypeOK /\ Asked /\ g_output.logs \in Nat /\ wire \in Seq(Chunk) /\ guest_out \in Seq(Chunk)
      /\ to_host \in Writer /\ LogCount(guest_out) \in Nat /\ LogCount(wire) \in Nat /\ InHand \in {0, 1}
  BY Counted DEF Settled, Known, Unlogged, TypeOK
<1> SUFFICES ASSUME pc' \in Loop, ~completed'
             PROVE  g_output'.logs = LogCount(guest_out)' + InHand' + LogCount(wire)'
  BY DEF LogsRelayed
<1>1. ASSUME UNCHANGED <<guest_out, wire, to_host>>, g_output'.logs = g_output.logs,
             pc \in Loop, ~completed
      PROVE  g_output'.logs = LogCount(guest_out)' + InHand' + LogCount(wire)'
  BY <1>1 DEF LogsRelayed, InHand, LogCount, LogsIn, IsLog
<1>2. CASE Aside
  <2>0. UNCHANGED g_output BY <1>2 DEF Aside, guest
  <2>1. CASE Spawn
    <3>1. pc = "admit" /\ UNCHANGED <<wire, to_host, guest_out>>
      BY <2>1 DEF Spawn, AdmitRequest, RequestPiece
    <3>2. child = "none" /\ wire = <<>> /\ guest_out = <<>> /\ ~pending(to_host)
      BY <3>1 DEF Settled, Known, Doomed, Fate, Unborn, IInv, Before
    <3>3. g_output.logs = 0 BY <3>2 DEF Settled, Unlogged, Known, Journey, Fed, Unfed
    <3>4. LogCount(<<>>) = 0
      <4>1. LogsIn(<<>>, 0) = {} /\ Len(<<>>) = 0 BY DEF LogsIn
      <4> QED BY <4>1, FS_EmptySet DEF LogCount
    <3>5. InHand' = 0 BY <3>1, <3>2 DEF InHand
    <3>6. LogCount(wire)' = 0 /\ LogCount(guest_out)' = 0 BY <3>1, <3>2, <3>4 DEF LogCount, LogsIn, IsLog
    <3> QED BY <2>0, <3>3, <3>5, <3>6
  <2>2. CASE Calm BY <1>1, <2>0, <2>2 DEF Calm
  <2>3. CASE Skips
    <3>1. guest_out # <<>> /\ pc \in Loop /\ ~Whole(Head(guest_out)) /\ guest_out' = Tail(guest_out)
          /\ UNCHANGED <<wire, to_host, completed>>
      BY <2>3 DEF Skips
    <3>2. LogCount(guest_out) = LogCount(Tail(guest_out)) + One(Head(guest_out)) BY <1>0, <3>1, LogsTail
    <3>3. One(Head(guest_out)) = 0 BY <3>1 DEF One, IsLog
    <3>4. LogCount(guest_out)' = LogCount(Tail(guest_out)) BY <3>1 DEF LogCount, LogsIn, IsLog
    <3>5. LogCount(wire)' = LogCount(wire) /\ InHand' = InHand
      BY <3>1 DEF LogCount, LogsIn, IsLog, InHand
    <3> QED BY <1>0, <2>0, <3>1, <3>2, <3>3, <3>4, <3>5, LogsTail DEF LogsRelayed
  <2>4. CASE GuestEvent
    <3> DEFINE c == Head(guest_out)
    <3>1. /\ guest_out # <<>> /\ c \in Chunk /\ Whole(c) /\ guest_out' = Tail(guest_out)
          /\ ~pending(to_host) /\ wire' = wire
      BY <1>0, <2>4, EventTaken
    <3>2. pc \in Loop /\ ~completed BY <2>4 DEF GuestEvent, GuestPiece, GuestReadable, Loop
    <3>3. to_host' = Load(c.msg) BY <2>4, <3>1 DEF GuestEvent, QueueForHost
    <3>4. InHand = 0 BY <3>1 DEF InHand
    <3>5. InHand' = One(c) BY <3>1, <3>3, LoadPends DEF InHand, One, IsLog
    <3>6. LogCount(guest_out) = LogCount(Tail(guest_out)) + One(c) /\ LogCount(Tail(guest_out)) \in Nat
      BY <1>0, <3>1, LogsTail
    <3> HIDE DEF c
    <3>7. LogCount(guest_out)' = LogCount(Tail(guest_out)) /\ LogCount(wire)' = LogCount(wire)
      BY <3>1 DEF LogCount, LogsIn, IsLog
    <3>8. One(c) \in Nat BY DEF One
    <3> QED BY <1>0, <2>0, <3>2, <3>4, <3>5, <3>6, <3>7, <3>8 DEF LogsRelayed
  <2>5. CASE Drain
    <3> DEFINE p == Piece(to_host)
    <3>1. /\ pending(to_host) /\ p \in Chunk /\ p.msg = to_host.msg /\ wire' = Append(wire, p)
          /\ IF Whole(p) THEN to_host' = Idle ELSE pending(to_host') /\ to_host'.msg = to_host.msg
      BY <1>0, <2>5, DrainFacts
    <3>2. pc \in Loop /\ UNCHANGED <<guest_out, completed>> BY <2>5 DEF Drain, Loop
    <3> HIDE DEF p
    <3>3. LogCount(Append(wire, p)) = LogCount(wire) + One(p) BY <1>0, <3>1, LogsAppend
    <3>4. InHand = InHand' + One(p) /\ InHand' \in Nat
      BY <3>1, IdleRests DEF InHand, One, IsLog
    <3>5. LogCount(guest_out)' = LogCount(guest_out) /\ LogCount(wire)' = LogCount(Append(wire, p))
      BY <3>1, <3>2 DEF LogCount, LogsIn, IsLog
    <3>6. One(p) \in Nat BY DEF One
    <3> QED BY <1>0, <2>0, <3>2, <3>3, <3>4, <3>5, <3>6 DEF LogsRelayed
  <2>6. CASE Judges BY <2>6 DEF Judges
  <2> QED BY <1>2, <2>1, <2>2, <2>3, <2>4, <2>5, <2>6, SupervisorTells DEF Aside
<1>3. CASE Client \/ Cancel \/ Deadline BY <1>1, <1>3, ClientListens DEF guest
<1>4. CASE Program
  <2>0. UNCHANGED <<wire, to_host, pc, completed>> BY <1>0, <1>4, ProgramTells
  <2>1. CASE Mute BY <1>1, <2>0, <2>1 DEF Mute
  <2>2. ASSUME NEW p \in Chunk, Utters(p)
        PROVE  g_output'.logs = LogCount(guest_out)' + InHand' + LogCount(wire)'
    <3>1. guest_out' = Append(guest_out, p) /\ g_output'.logs = g_output.logs + One(p)
      BY <2>2 DEF Utters
    <3>2. LogCount(Append(guest_out, p)) = LogCount(guest_out) + One(p) BY <1>0, LogsAppend
    <3>3. LogCount(guest_out)' = LogCount(Append(guest_out, p)) /\ LogCount(wire)' = LogCount(wire)
          /\ InHand' = InHand
      BY <2>0, <3>1 DEF LogCount, LogsIn, IsLog, InHand
    <3>4. One(p) \in Nat BY DEF One
    <3> QED BY <1>0, <2>0, <3>1, <3>2, <3>3, <3>4 DEF LogsRelayed
  <2> QED BY <1>0, <1>4, <2>1, <2>2, ProgramTells
<1>5. CASE UNCHANGED engineVars BY <1>1, <1>5 DEF engineVars, guest
<1> QED BY <1>2, <1>3, <1>4, <1>5, EngineMoves

(* From the moment the supervisor takes the result all the guest's logs are on stdout. *)
IsResult(m) == m.kind = "completed" /\ m.tag = "result"
ResultUnderway == \/ pending(to_host) /\ IsResult(to_host.msg)
                  \/ \E i \in DOMAIN wire : IsResult(wire[i].msg)
LogsTold ==
  ResultUnderway =>
    /\ finished /\ g_output.logs = LogCount(wire)
    /\ pc \in Loop => completed
    /\ pending(to_host) => to_host.msg.kind = "completed"

(* A piece of a conclusion on stdout is no log. *)
LEMMA ConclusionAppended ==
  ASSUME wire \in Seq(Chunk), NEW c \in Chunk, wire' = Append(wire, c), c.msg.kind = "completed"
  PROVE  LogCount(wire)' = LogCount(wire)
<1>1. LogCount(Append(wire, c)) = LogCount(wire) + One(c) /\ LogCount(wire) \in Nat BY LogsAppend
<1>2. One(c) = 0 BY DEF One, IsLog
<1>3. LogCount(wire)' = LogCount(Append(wire, c)) BY DEF LogCount, LogsIn, IsLog
<1> QED BY <1>1, <1>2, <1>3

LEMMA LogsToldStep ==
  ASSUME Settled, Delivered, OwnLast, LogsRelayed, LogsTold, [EngineNext]_engineVars
  PROVE  LogsTold'
<1>0. /\ TypeOK /\ Asked /\ g_output.logs \in Nat /\ wire \in Seq(Chunk) /\ guest_out \in Seq(Chunk)
      /\ to_host \in Writer /\ LogCount(guest_out) \in Nat /\ LogCount(wire) \in Nat
  BY Counted DEF Settled, Known, Unlogged, TypeOK
<1>1. ASSUME UNCHANGED <<wire, to_host>>, g_output'.logs = g_output.logs \/ ~finished,
             finished => finished', pc' \in Loop => pc \in Loop, completed => completed'
      PROVE  LogsTold'
  <2>1. ResultUnderway' = ResultUnderway BY <1>1 DEF ResultUnderway, IsResult
  <2>2. LogCount(wire)' = LogCount(wire) BY <1>1 DEF LogCount, LogsIn, IsLog
  <2> QED BY <1>1, <2>1, <2>2 DEF LogsTold
<1>2. CASE Aside
  <2>0. UNCHANGED <<g_output, finished>> BY <1>2, SupervisorTells DEF Aside, guest
  <2>1. CASE Spawn
    <3>1. pc = "admit" /\ UNCHANGED <<wire, to_host>> BY <2>1 DEF Spawn, AdmitRequest, RequestPiece
    <3>2. wire = <<>> /\ ~pending(to_host)
      BY <3>1 DEF Settled, Known, Doomed, Fate, Unborn, IInv, Before
    <3>3. ~ResultUnderway' BY <3>1, <3>2 DEF ResultUnderway
    <3> QED BY <3>3 DEF LogsTold
  <2>2. CASE Calm BY <1>1, <2>0, <2>2 DEF Calm
  <2>3. CASE Skips BY <1>1, <2>0, <2>3 DEF Skips
  <2>4. CASE GuestEvent
    <3> DEFINE c == Head(guest_out)
    <3>1. /\ guest_out # <<>> /\ 1 \in DOMAIN guest_out /\ c = guest_out[1] /\ c \in Chunk /\ Whole(c)
          /\ Relayed(c.msg) /\ guest_out' = Tail(guest_out) /\ ~pending(to_host) /\ wire' = wire
      BY <1>0, <2>4, EventTaken
    <3>2. pc \in Loop /\ ~completed BY <2>4 DEF GuestEvent, GuestPiece, GuestReadable, Loop
    <3>3. to_host' = Load(c.msg) /\ completed' = (c.msg.kind = "completed")
      BY <2>4, <3>1 DEF GuestEvent, QueueForHost
    <3>4. ~ResultUnderway BY <3>2 DEF LogsTold
    <3>5. CASE c.msg.kind = "completed"
      <4>1. OwnResult(c) BY <3>1, <3>5 DEF OwnResult, Relayed
      <4>2. finished /\ Len(guest_out) = 1
        BY <3>1, <4>1 DEF Settled, Fate, GuestConcludes, OwnLast
      <4>3. Tail(guest_out) = <<>> BY <1>0, <3>1, <4>2, Shorter
      <4>4. LogCount(guest_out) = LogCount(Tail(guest_out)) + One(c) BY <1>0, <3>1, LogsTail
      <4>5. LogCount(<<>>) = 0
        <5>1. LogsIn(<<>>, 0) = {} /\ Len(<<>>) = 0 BY DEF LogsIn
        <5> QED BY <5>1, FS_EmptySet DEF LogCount
      <4>6. One(c) = 0 BY <3>5 DEF One, IsLog
      <4>7. InHand = 0 BY <3>1 DEF InHand
      <4>8. g_output.logs = LogCount(wire)
        <5>1. g_output.logs = LogCount(guest_out) + InHand + LogCount(wire) BY <3>2 DEF LogsRelayed
        <5>2. LogCount(Tail(guest_out)) = 0 BY <4>3, <4>5
        <5> HIDE DEF c
        <5>3. LogCount(guest_out) = 0 BY <4>4, <4>6, <5>2
        <5> QED BY <1>0, <4>7, <5>1, <5>3
      <4>9. LogCount(wire)' = LogCount(wire) BY <3>1 DEF LogCount, LogsIn, IsLog
      <4> HIDE DEF c
      <4>10. to_host'.msg.kind = "completed" BY <3>3, <3>5 DEF Load
      <4> QED BY <2>0, <3>3, <3>5, <4>2, <4>8, <4>9, <4>10 DEF LogsTold
    <3>6. CASE c.msg.kind # "completed"
      <4> HIDE DEF c
      <4>1. ~IsResult(to_host'.msg) BY <3>3, <3>6 DEF Load, IsResult
      <4>2. ~ResultUnderway' BY <3>1, <3>4, <4>1 DEF ResultUnderway, IsResult
      <4> QED BY <4>2 DEF LogsTold
    <3> QED BY <3>5, <3>6
  <2>5. CASE Drain
    <3> DEFINE p == Piece(to_host)
    <3>1. /\ pending(to_host) /\ p \in Chunk /\ p.msg = to_host.msg /\ wire' = Append(wire, p)
          /\ IF Whole(p) THEN to_host' = Idle ELSE pending(to_host') /\ to_host'.msg = to_host.msg
      BY <1>0, <2>5, DrainFacts
    <3>2. pc \in Loop /\ UNCHANGED completed BY <2>5 DEF Drain, Loop
    <3> HIDE DEF p
    <3> SUFFICES ASSUME ResultUnderway' PROVE LogsTold' BY DEF LogsTold
    <3>3. ResultUnderway
      <4>1. CASE pending(to_host') /\ IsResult(to_host'.msg)
        BY <3>1, <4>1, IdleRests DEF ResultUnderway
      <4>2. ASSUME NEW i \in DOMAIN wire', IsResult(wire'[i].msg) PROVE ResultUnderway
        <5>1. CASE i \in 1 .. Len(wire) BY <1>0, <3>1, <4>2, <5>1, Appended DEF ResultUnderway
        <5>2. CASE i = Len(wire) + 1 BY <1>0, <3>1, <4>2, <5>2, Appended DEF ResultUnderway
        <5> QED BY <1>0, <3>1, <5>1, <5>2, Appended
      <4> QED BY <4>1, <4>2 DEF ResultUnderway
    <3>4. p.msg.kind = "completed" BY <3>1, <3>3 DEF LogsTold
    <3>5. LogCount(wire)' = LogCount(wire) BY <1>0, <3>1, <3>4, ConclusionAppended
    <3>6. pending(to_host') => to_host'.msg.kind = "completed" BY <3>1, <3>4, IdleRests
    <3> QED BY <2>0, <3>2, <3>3, <3>5, <3>6 DEF LogsTold
  <2>6. CASE Judges
    <3> SUFFICES ASSUME ResultUnderway' PROVE LogsTold' BY DEF LogsTold
    <3>1. ASSUME NEW own \in BOOLEAN, NEW t \in Tags \ {"result"}
          PROVE  LET w == Load(failure(own, t)) IN
                 /\ Piece(w) \in Chunk /\ Piece(w).msg.kind = "completed" /\ w.msg.kind = "completed"
                 /\ ~IsResult(w.msg) /\ ~IsResult(Piece(w).msg)
      BY <3>1, NoCall DEF IsResult, Load, failure
    <3>2. \/ to_host' = to_host \/ ~pending(to_host')
          \/ to_host'.msg.kind = "completed" /\ ~IsResult(to_host'.msg)
      BY <2>6, <3>1, IdleRests DEF Judges
    <3>3. wire' = wire \/ \E c \in Chunk : wire' = Append(wire, c) /\ c.msg.kind = "completed"
                                           /\ ~IsResult(c.msg)
      <4>1. ASSUME NEW own \in BOOLEAN, NEW t \in Tags \ {"result"},
                   wire' = Append(wire, Piece(Load(failure(own, t))))
            PROVE  \E c \in Chunk : wire' = Append(wire, c) /\ c.msg.kind = "completed" /\ ~IsResult(c.msg)
        <5> DEFINE c == Piece(Load(failure(own, t)))
        <5>1. c \in Chunk /\ c.msg.kind = "completed" /\ ~IsResult(c.msg) BY <3>1
        <5>2. wire' = Append(wire, c) BY <4>1
        <5> HIDE DEF c
        <5> QED BY <5>1, <5>2
      <4> QED BY <2>6, <4>1 DEF Judges
    <3>4. ResultUnderway
      <4>1. CASE pending(to_host') /\ IsResult(to_host'.msg)
        BY <3>2, <4>1 DEF ResultUnderway
      <4>2. ASSUME NEW i \in DOMAIN wire', IsResult(wire'[i].msg) PROVE ResultUnderway
        <5>1. CASE wire' = wire BY <4>2, <5>1 DEF ResultUnderway
        <5>2. ASSUME NEW c \in Chunk, wire' = Append(wire, c), ~IsResult(c.msg) PROVE ResultUnderway
          <6>1. CASE i \in 1 .. Len(wire) BY <1>0, <4>2, <5>2, <6>1, Appended DEF ResultUnderway
          <6>2. CASE i = Len(wire) + 1 BY <1>0, <4>2, <5>2, <6>2, Appended
          <6> QED BY <1>0, <4>2, <5>2, <6>1, <6>2, Appended
        <5> QED BY <3>3, <5>1, <5>2
      <4> QED BY <4>1, <4>2 DEF ResultUnderway
    <3>5. LogCount(wire)' = LogCount(wire)
      <4>1. CASE wire' = wire BY <4>1 DEF LogCount, LogsIn, IsLog
      <4>2. ASSUME NEW c \in Chunk, wire' = Append(wire, c), c.msg.kind = "completed"
            PROVE  LogCount(wire)' = LogCount(wire)
        BY <1>0, <4>2, ConclusionAppended
      <4> QED BY <3>3, <4>1, <4>2
    <3>6. pending(to_host') => to_host'.msg.kind = "completed" BY <3>2, <3>4 DEF LogsTold
    <3>7. (pc' \in Loop => pc \in Loop) /\ (completed => completed') BY <2>6 DEF Judges
    <3> QED BY <2>0, <3>4, <3>5, <3>6, <3>7 DEF LogsTold
  <2> QED BY <1>2, <2>1, <2>2, <2>3, <2>4, <2>5, <2>6, SupervisorTells DEF Aside
<1>3. CASE Client \/ Cancel \/ Deadline BY <1>1, <1>3, ClientListens DEF guest
<1>4. CASE Program
  <2>0. g_at # "exit" /\ UNCHANGED <<wire, to_host, pc, completed>> BY <1>0, <1>4, ProgramTells
  <2>1. ~finished BY <2>0 DEF Delivered
  <2> QED BY <1>1, <2>0, <2>1
<1>5. CASE UNCHANGED engineVars BY <1>1, <1>5 DEF engineVars, guest
<1> QED BY <1>2, <1>3, <1>4, <1>5, EngineMoves

-----------------------------------------------------------------------------
(* Once the supervisor has stopped nothing more comes to stdout. *)
LEMMA WireFrozen == Stopped /\ [Next]_vars => wire' = wire
<1> SUFFICES ASSUME Stopped, [Next]_vars PROVE wire' = wire OBVIOUS
<1>1. ~SupervisorStep
  BY DEF Stopped, SupervisorStep, AdmitFails, AdmitPartial, Refuse, Spawn, AdmitRequest, RequestPiece,
     InTime, Expire, MemoryFits, MemoryCeiling, HostSilent, HostEof, HostPartial, HostRefused,
     HostReply, HostPiece, FeedWaits, FeedBroken, Feed, DrainWaits, DrainBroken, Drain,
     GuestSkipped, GuestEof, GuestPartial, GuestRefused, GuestEvent, GuestPiece, NotReaped, Reap,
     Kill, Wait, Report
<1>2. CASE Lost BY <1>2 DEF Lost
<1>3. CASE Kernel \/ Host \/ Guest \/ Terminated \/ UNCHANGED vars
  BY <1>3 DEF Kernel, Tick, GuestExits, GuestDead, Host, HostWrites, HostReads, HostCloses,
     HostDeaf, Guest, GuestReads, GuestWrites, GuestCloses, Terminated
<1> QED BY <1>1, <1>2, <1>3 DEF Next

(* A diagnostic is the last of stdout, and the supervisor is gone. *)
Diagnosed ==
  /\ pending(to_host) => ~Diagnostic(to_host)
  /\ \A i \in DOMAIN wire : Diagnostic(wire[i]) => Told(i) /\ Stopped

LEMMA DiagnosedStep ==
  ASSUME Settled, Diagnosed, [EngineNext]_engineVars
  PROVE  Diagnosed'
<1>0. TypeOK /\ Asked /\ Outlet /\ g_output.logs \in Nat /\ wire \in Seq(Chunk)
  BY DEF Settled, Known, Alike, Unlogged, TypeOK
<1>s. Stopped => Stopped' BY EngineStep, StaysStopped
<1>1. ASSUME UNCHANGED <<wire, to_host>> PROVE Diagnosed'
  BY <1>s, <1>1 DEF Diagnosed, Diagnostic, Told
<1>2. ASSUME NEW c \in Chunk, wire' = Append(wire, c), Diagnostic(c) => Stopped' /\ Whole(c) /\ c.msg.kind = "completed"
      PROVE  \A i \in DOMAIN wire' : Diagnostic(wire'[i]) => Told(i)' /\ Stopped'
  <2> SUFFICES ASSUME NEW i \in DOMAIN wire', Diagnostic(wire'[i]) PROVE Told(i)' /\ Stopped' OBVIOUS
  <2>1. CASE i \in 1 .. Len(wire) BY <1>0, <1>s, <1>2, <2>1, Appended DEF Diagnosed, Told
  <2>2. CASE i = Len(wire) + 1 BY <1>0, <1>2, <2>2, Appended DEF Told
  <2> QED BY <1>0, <1>2, <2>1, <2>2, Appended
<1>3. CASE Aside
  <2>1. CASE Spawn \/ Calm \/ Skips BY <1>1, <2>1 DEF Spawn, AdmitRequest, RequestPiece, Calm, Skips
  <2>2. CASE GuestEvent
    <3> DEFINE c == Head(guest_out)
    <3>1. /\ 1 \in DOMAIN guest_out /\ c = guest_out[1] /\ wire' = wire
          /\ to_host' = to_host \/ to_host' = Load(c.msg)
      BY <1>0, <2>2, EventTaken
    <3>2. ~Stopped BY <2>2 DEF GuestEvent, GuestPiece, Stopped
    <3>3. c.msg.tag # "engine_error" BY <1>0, <3>1, <3>2 DEF Outlet, OutletAt
    <3> HIDE DEF c
    <3> QED BY <1>s, <3>1, <3>3 DEF Diagnosed, Diagnostic, Load, Told
  <2>3. CASE Drain
    <3> DEFINE p == Piece(to_host)
    <3>1. /\ pending(to_host) /\ p \in Chunk /\ p.msg = to_host.msg /\ wire' = Append(wire, p)
          /\ to_host' = Idle \/ to_host'.msg = to_host.msg
      BY <1>0, <2>3, DrainFacts
    <3> HIDE DEF p
    <3>2. ~Diagnostic(p) /\ (pending(to_host') => ~Diagnostic(to_host'))
      BY <3>1, IdleRests DEF Diagnosed, Diagnostic
    <3> QED BY <1>2, <3>1, <3>2 DEF Diagnosed
  <2>4. CASE Judges
    <3>1. pending(to_host') => ~Diagnostic(to_host')
      BY <2>4, IdleRests DEF Judges, Diagnosed, Diagnostic, Load, failure
    <3>2. CASE wire' = wire BY <1>s, <3>1, <3>2 DEF Diagnosed, Told
    <3>3. ASSUME NEW own \in BOOLEAN, NEW t \in Tags, wire' = Append(wire, Piece(Load(failure(own, t)))),
                 t = "engine_error" => pc' = "exit"
          PROVE Diagnosed'
      <4> DEFINE c == Piece(Load(failure(own, t)))
      <4>1. c \in Chunk /\ Whole(c) /\ c.msg.kind = "completed" /\ c.msg.tag = t BY NoCall, FailureFacts
      <4>2. wire' = Append(wire, c) BY <3>3
      <4> HIDE DEF c
      <4>3. Diagnostic(c) => Stopped' BY <3>3, <4>1 DEF Diagnostic, Stopped
      <4> QED BY <1>2, <3>1, <4>1, <4>2, <4>3 DEF Diagnosed
    <3> QED BY <2>4, <3>2, <3>3 DEF Judges
  <2> QED BY <1>3, <2>1, <2>2, <2>3, <2>4, SupervisorTells DEF Aside
<1>4. CASE Client \/ Cancel \/ Deadline BY <1>1, <1>4, ClientListens
<1>5. CASE Program BY <1>0, <1>1, <1>5, ProgramTells
<1>6. CASE UNCHANGED engineVars BY <1>1, <1>6 DEF engineVars
<1> QED BY <1>3, <1>4, <1>5, <1>6, EngineMoves

(* The client stands where the frames it read end, in the middle of the last one, or
   behind a diagnostic that it took for the rest of another frame. *)
Between == ~pending(c_reader) /\ (taken > 0 => Whole(wire[taken]))
Within  == pending(c_reader) /\ taken > 0 /\ c_reader.msg = wire[taken].msg /\ c_reader.off = wire[taken].no
Behind  == Stopped /\ taken > 0 /\ taken = Len(wire)
Followed == taken \in 0 .. Len(wire) /\ (c_at \in Waiting => Between \/ Within \/ Behind)

(* What comes next continues the frame, or is a diagnostic and the last. *)
LEMMA InTurn ==
  ASSUME Settled, Diagnosed, Followed, c_at = "read", taken < Len(wire)
  PROVE  LET c == wire[taken + 1]
         IN  /\ taken + 1 \in DOMAIN wire /\ c \in Chunk /\ c.no \in 1 .. c.msg.size
             /\ C!InPlace(c) \/ Diagnostic(c)
             /\ Diagnostic(c) => Told(taken + 1) /\ Stopped /\ taken + 1 = Len(wire)
<1> DEFINE c == wire[taken + 1]
<1>0. /\ TypeOK /\ Cut(wire) /\ OutputFramed /\ Concluded /\ wire \in Seq(Chunk) /\ taken \in Nat
      /\ Len(wire) \in Nat /\ DOMAIN wire = 1 .. Len(wire) /\ c_reader \in Writer
  BY DEF Settled, Known, CutPieces, IInv, TypeOK, Followed, Served
<1>1. taken + 1 \in DOMAIN wire /\ (taken > 0 => taken \in DOMAIN wire) BY <1>0
<1>2. c \in Chunk /\ c.no \in 1 .. c.msg.size BY <1>0, <1>1 DEF Cut
<1>3. Diagnostic(c) => Told(taken + 1) /\ Stopped BY <1>1 DEF Diagnosed
<1>4. Told(taken + 1) => taken + 1 = Len(wire) BY <1>0, <1>1 DEF Concluded
<1>5. ASSUME ~Diagnostic(c) PROVE C!InPlace(c)
  <2>1. c.msg \in Message /\ c.no \in Nat /\ c.msg.size \in Nat /\ c = [msg |-> c.msg, no |-> c.no]
    BY <1>2 DEF Chunk, Message
  <2>2. IF First(c) THEN taken = 0 \/ Whole(wire[taken])
        ELSE taken > 0 /\ wire[taken] = [c EXCEPT !.no = @ - 1]
    BY <1>0, <1>1, <1>5 DEF OutputFramed
  <2>3. Between \/ Within BY DEF Followed, Behind, Waiting
  <2>4. taken > 0 => wire[taken].msg.size \in Nat /\ wire[taken].no \in 1 .. wire[taken].msg.size
    <3> SUFFICES ASSUME taken > 0
                 PROVE  wire[taken].msg.size \in Nat /\ wire[taken].no \in 1 .. wire[taken].msg.size
      OBVIOUS
    <3>1. taken \in DOMAIN wire /\ wire[taken] \in Chunk BY <1>0, <1>1
    <3>2. wire[taken].msg \in Message BY <3>1 DEF Chunk
    <3> QED BY <1>0, <3>1, <3>2 DEF Cut, Message
  <2> HIDE DEF c
  <2>5. ~First(c) => taken > 0 /\ wire[taken].msg = c.msg /\ wire[taken].no = c.no - 1
    BY <2>1, <2>2
  <2>6. CASE Between
    <3>1. First(c) BY <1>2, <2>1, <2>4, <2>5, <2>6 DEF Between, Whole, c
    <3>2. ~C!pending(c_reader) BY <2>6 DEF Between, pending, C!pending
    <3> QED BY <2>1, <3>1, <3>2 DEF C!InPlace, C!Awaited, C!Piece, C!Load, First
  <2>7. CASE Within
    <3>1. taken > 0 /\ c_reader.msg = wire[taken].msg /\ c_reader.off = wire[taken].no /\ C!pending(c_reader)
      BY <2>7 DEF Within, pending, C!pending
    <3>2. ~Whole(wire[taken]) BY <2>4, <2>7, <3>1 DEF Within, pending, Whole
    <3>3. ~First(c) BY <2>2, <3>1, <3>2
    <3>4. c.msg = c_reader.msg /\ c.no = c_reader.off + 1 BY <2>1, <2>4, <2>5, <3>1, <3>3
    <3> QED BY <2>1, <3>1, <3>4 DEF C!InPlace, C!Awaited, C!Piece
  <2> QED BY <2>3, <2>6, <2>7
<1> QED BY <1>1, <1>2, <1>3, <1>4, <1>5

(* Whatever the client takes, it is again at one of the three places. *)
LEMMA FollowedStep ==
  ASSUME Settled, Diagnosed, Followed, [EngineNext]_engineVars
  PROVE  Followed'
<1>0. /\ TypeOK /\ Asked /\ wire \in Seq(Chunk) /\ taken \in Nat /\ Len(wire) \in Nat /\ c_reader \in Writer
      /\ taken \in 0 .. Len(wire)
  BY DEF Settled, Known, TypeOK, Served, Followed
<1>s. Stopped => Stopped' /\ wire' = wire BY EngineStep, StaysStopped, WireFrozen
<1>1. ASSUME UNCHANGED <<taken, c_reader>>, c_at' \in Waiting => c_at \in Waiting,
             wire' = wire \/ \E c \in Chunk : wire' = Append(wire, c)
      PROVE  Followed'
  <2>1. /\ taken > 0 => wire'[taken] = wire[taken]
        /\ taken' \in 0 .. Len(wire')
    <3>1. CASE wire' = wire BY <1>0, <1>1, <3>1
    <3>2. ASSUME NEW c \in Chunk, wire' = Append(wire, c)
          PROVE  (taken > 0 => wire'[taken] = wire[taken]) /\ taken' \in 0 .. Len(wire')
      BY <1>0, <1>1, <3>2, Appended
    <3> QED BY <1>1, <3>1, <3>2
  <2>2. Between => Between' BY <1>1, <2>1 DEF Between
  <2>3. Within => Within' BY <1>1, <2>1 DEF Within
  <2>4. Behind => Behind' BY <1>s, <1>1 DEF Behind
  <2> QED BY <1>1, <2>1, <2>2, <2>3, <2>4 DEF Followed
<1>2. CASE UNCHANGED <<client, taken>>
  <2>1. UNCHANGED <<taken, c_reader, c_at>> BY <1>2 DEF client
  <2>2. wire' = wire \/ \E c \in Chunk : wire' = Append(wire, c) BY <1>0, WireMoves DEF Grows
  <2> QED BY <1>1, <2>1, <2>2
<1>3. CASE Client \/ Cancel \/ Deadline
  <2>0. wire' = wire BY <1>3, ClientListens
  <2>1. CASE HostReads /\ C!Get(wire[taken + 1])
    <3> DEFINE c == wire[taken + 1]
    <3>1. taken < Len(wire) /\ taken' = taken + 1 /\ UNCHANGED pc BY <2>1 DEF HostReads
    <3>2. c_at = "read"
      BY <2>1 DEF C!Get, C!ReadPartial, C!ReadSwallowed, C!ReadUnusable, C!ReadLog, C!ReadCall,
         C!ReadCompleted, C!ReadPiece, C!Reading
    <3>3. /\ c \in Chunk /\ c.no \in 1 .. c.msg.size /\ (C!InPlace(c) \/ Diagnostic(c))
          /\ Diagnostic(c) => Stopped /\ taken + 1 = Len(wire)
      BY <3>1, <3>2, InTurn
    <3>4. taken' \in 0 .. Len(wire') /\ taken' > 0 /\ wire'[taken'] = c BY <1>0, <2>0, <3>1
    <3>5. c.msg \in Message /\ c.no \in Nat /\ c.msg.size \in Nat BY <3>3 DEF Chunk, Message
    <3> HIDE DEF c
    <3>6. CASE C!InPlace(c)
      <4>1. CASE c_at' \notin Waiting BY <3>4, <4>1 DEF Followed
      <4>2. CASE c_at' \in Waiting
        <5>1. C!ReadPiece(c)
          BY <2>1, <3>6, <4>2 DEF C!Get, C!ReadPartial, C!ReadSwallowed, C!ReadUnusable, C!ReadLog,
             C!ReadCall, C!ReadCompleted, c
        <5> DEFINE w == C!Awaited(c)
        <5>2. c_reader' = C!Advance(w) /\ c = C!Piece(w) BY <5>1 DEF C!ReadPiece, C!InPlace
        <5>3. w \in Writer BY <1>0, <3>5 DEF C!Awaited, C!Load, Writer
        <5> HIDE DEF w
        <5>4. w.msg = c.msg /\ w.off + 1 = c.no /\ w.off \in Nat BY <5>2, <5>3 DEF C!Piece, Writer
        <5>5. CASE c.no = c.msg.size
          <6>1. c_reader' = Idle BY <5>2, <5>4, <5>5 DEF C!Advance, C!Idle, Idle, C!NoMessage, NoMessage
          <6>2. Between' BY <3>4, <5>5, <6>1, IdleRests DEF Between, Whole
          <6> QED BY <3>4, <6>2 DEF Followed
        <5>6. CASE c.no # c.msg.size
          <6>1. c_reader' = [w EXCEPT !.off = w.off + 1] BY <5>2, <5>4, <5>6 DEF C!Advance
          <6>2. c_reader'.msg = c.msg /\ c_reader'.off = c.no BY <5>3, <5>4, <6>1 DEF Writer
          <6>3. c.no < c.msg.size BY <3>3, <3>5, <5>6
          <6>4. Within' BY <3>4, <6>2, <6>3 DEF Within, pending
          <6> QED BY <3>4, <6>4 DEF Followed
        <5> QED BY <5>5, <5>6
      <4> QED BY <4>1, <4>2
    <3>7. CASE Diagnostic(c) /\ ~C!InPlace(c)
      <4>1. Behind' BY <1>s, <2>0, <3>1, <3>3, <3>4, <3>7 DEF Behind
      <4> QED BY <3>4, <4>1 DEF Followed
    <3> QED BY <3>3, <3>6, <3>7
  <2>2. CASE ~(HostReads /\ C!Get(wire[taken + 1]))
    <3>1. UNCHANGED <<taken, c_reader>> /\ (c_at' \in Waiting => c_at \in Waiting)
      <4> USE DEF C!Go, C!Throw, C!Leave, C!execution, C!counts, C!clientVars, Waiting
      <4>1. CASE Cancel BY <4>1 DEF Cancel, C!Cancelled, C!Polling
      <4>2. CASE Deadline BY <4>2 DEF Deadline, C!Late
      <4>3. CASE UNCHANGED vars /\ (C!Start \/ C!Interrupted \/ C!PutBroken \/ C!ReadEnded)
        BY <4>3 DEF C!Start, C!Interrupted, C!Polling, C!PutBroken, C!ReadEnded
      <4>4. CASE UNCHANGED vars /\ (C!Invoke \/ C!Answer \/ C!Reaped \/ C!Terminate)
        BY <4>4 DEF C!Invoke, C!Answer, C!Reaped, C!Terminate
      <4>5. CASE HostWrites /\ C!Put BY <4>5 DEF HostWrites, C!Put
      <4>6. CASE (HostCloses /\ C!CloseInput) \/ (HostDeaf /\ C!CloseOutput)
        BY <4>6 DEF HostCloses, HostDeaf, C!CloseInput, C!CloseOutput
      <4>7. CASE Lost /\ UNCHANGED client BY <4>7 DEF Lost, client
      <4> QED BY <1>3, <2>2, <4>1, <4>2, <4>3, <4>4, <4>5, <4>6, <4>7 DEF Client
    <3> QED BY <1>1, <2>0, <3>1
  <2> QED BY <2>1, <2>2
<1>4. CASE Aside BY <1>2, <1>4 DEF Aside
<1>5. CASE Program BY <1>0, <1>2, <1>5, ProgramMoves DEF Around
<1>6. CASE UNCHANGED engineVars BY <1>2, <1>6 DEF engineVars
<1> QED BY <1>2, <1>3, <1>4, <1>5, <1>6, EngineMoves

(* What the client has made of what it read. *)
Concluding(c) == Whole(c) /\ c.msg.kind = "completed"
Final(c) == Concluding(c) /\ ~Diagnostic(c)
Failed == c_returned = "host_transport_error"
Heard ==
  /\ taken \in 0 .. Len(wire)
  /\ c_at \in Waiting => \A i \in 1 .. taken : ~Final(wire[i])
  /\ c_returned # "none" /\ ~Failed =>
       \E i \in 1 .. taken : Concluding(wire[i]) /\ wire[i].msg.tag = c_returned
  /\ ~Failed => c_logs = Cardinality(LogsIn(wire, taken))

(* The client's steps, by what it hears. *)
Ignores ==
  /\ UNCHANGED <<taken, c_logs>>
  /\ c_at' \in Waiting => c_at \in Waiting
  /\ c_returned' = c_returned \/ Failed'
Hears(c) ==
  /\ taken < Len(wire) /\ taken' = taken + 1 /\ c = wire[taken + 1] /\ c_at = "read"
  /\ \/ Failed' /\ c_at' \notin Waiting
     \/ ~IsLog(c) /\ ~Final(c) /\ UNCHANGED <<c_logs, c_returned>>
     \/ IsLog(c) /\ c_logs' = c_logs + 1 /\ c_returned' = c_returned
     \/ Concluding(c) /\ c_returned' = c.msg.tag /\ c_at' \notin Waiting /\ c_logs' = c_logs

LEMMA ClientHears ==
  ASSUME Settled, Diagnosed, Followed, Client \/ Cancel \/ Deadline
  PROVE  Ignores \/ \E c : Hears(c)
<1> USE DEF C!Go, C!Throw, C!Leave, C!execution, C!counts, C!clientVars
<1>1. CASE Cancel BY <1>1 DEF Cancel, C!Cancelled, C!Polling, Waiting, Ignores, Failed
<1>2. CASE Deadline BY <1>2 DEF Deadline, C!Late, Waiting, Ignores
<1>3. CASE UNCHANGED vars /\ (C!Start \/ C!Interrupted \/ C!PutBroken \/ C!ReadEnded)
  BY <1>3 DEF C!Start, C!Interrupted, C!Polling, C!PutBroken, C!ReadEnded, Waiting, Ignores, Failed
<1>4. CASE UNCHANGED vars /\ (C!Invoke \/ C!Answer \/ C!Reaped \/ C!Terminate)
  BY <1>4 DEF C!Invoke, C!Answer, C!Reaped, C!Terminate, Waiting, Ignores, Failed
<1>5. CASE HostWrites /\ C!Put
  BY <1>5 DEF HostWrites, C!Put, Waiting, Ignores, Failed
<1>6. CASE HostReads /\ C!Get(wire[taken + 1])
  <2> DEFINE c == wire[taken + 1]
  <2>1. taken < Len(wire) /\ taken' = taken + 1 BY <1>6 DEF HostReads
  <2>w. Whole(c) <=> C!Whole(c) BY DEF Whole, C!Whole
  <2>d. c_at = "read" => C!InPlace(c) \/ (Diagnostic(c) /\ Told(taken + 1)) BY <2>1, InTurn
  <2> HIDE DEF c
  <2> SUFFICES Hears(c) OBVIOUS
  <2>c. c = wire[taken + 1] BY DEF c
  <2>2. CASE C!ReadPartial(c) \/ C!ReadUnusable(c)
    BY <2>1, <2>w, <2>c, <2>2 DEF C!ReadPartial, C!ReadUnusable, C!ReadPiece, C!Reading, Hears, IsLog, Final, Concluding,
       Failed, Waiting
  <2>3. CASE C!ReadLog(c)
    BY <2>1, <2>w, <2>c, <2>3 DEF C!ReadLog, C!ReadPiece, C!Reading, Hears, IsLog, Failed, Waiting
  <2>4. CASE C!ReadCall(c)
    BY <2>1, <2>w, <2>c, <2>4 DEF C!ReadCall, C!ReadPiece, C!Reading, Hears, IsLog, Final, Concluding, Failed, Waiting
  <2>5. CASE C!ReadCompleted(c)
    BY <2>1, <2>w, <2>c, <2>5 DEF C!ReadCompleted, C!ReadPiece, C!Reading, Hears, Concluding, Failed, Waiting
  <2>6. CASE C!ReadSwallowed(c)
    <3>1. c_at = "read" /\ ~C!InPlace(c) BY <2>6 DEF C!ReadSwallowed, C!Reading
    <3>2. Diagnostic(c) /\ ~IsLog(c) BY <2>c, <2>d, <3>1 DEF Told, IsLog
    <3> QED BY <2>1, <2>c, <2>6, <3>1, <3>2 DEF C!ReadSwallowed, Hears, Final, Failed, Waiting
  <2> QED BY <1>6, <2>2, <2>3, <2>4, <2>5, <2>6 DEF C!Get, c
<1>7. CASE (HostCloses /\ C!CloseInput) \/ (HostDeaf /\ C!CloseOutput)
  BY <1>7 DEF HostCloses, HostDeaf, C!CloseInput, C!CloseOutput, Waiting, Ignores
<1>8. CASE Lost /\ UNCHANGED client BY <1>8 DEF Lost, client, Waiting, Ignores
<1> QED BY <1>1, <1>2, <1>3, <1>4, <1>5, <1>6, <1>7, <1>8 DEF Client

LEMMA HeardStep ==
  ASSUME Settled, Diagnosed, Followed, Heard, [EngineNext]_engineVars
  PROVE  Heard'
<1>0. /\ TypeOK /\ Asked /\ Placed /\ g_output.logs \in Nat /\ wire \in Seq(Chunk) /\ taken \in Nat
      /\ Len(wire) \in Nat /\ taken <= Len(wire)
  BY DEF Settled, Known, Unlogged, TypeOK, Heard
<1>1. CASE UNCHANGED <<client, taken>>
  <2>0. UNCHANGED <<c_at, c_returned, c_logs, taken>> BY <1>1 DEF client
  <2>1. CASE wire' = wire BY <2>0, <2>1 DEF Heard, Failed, LogsIn
  <2>2. ASSUME NEW c \in Chunk, wire' = Append(wire, c) PROVE Heard'
    <3>1. Len(wire') = Len(wire) + 1 /\ \A i \in 1 .. taken : wire'[i] = wire[i]
      BY <1>0, <2>2, Appended
    <3>2. LogsIn(wire', taken') = LogsIn(wire, taken) BY <1>0, <2>0, <3>1, LogsSame
    <3>3. taken' \in 0 .. Len(wire') BY <1>0, <2>0, <3>1
    <3>4. c_at' \in Waiting => \A i \in 1 .. taken' : ~Final(wire'[i])
      BY <2>0, <3>1 DEF Heard
    <3>5. c_returned' # "none" /\ ~Failed' =>
            \E i \in 1 .. taken' : Concluding(wire'[i]) /\ wire'[i].msg.tag = c_returned'
      BY <2>0, <3>1 DEF Heard, Failed
    <3>6. ~Failed' => c_logs' = Cardinality(LogsIn(wire', taken')) BY <2>0, <3>2 DEF Heard, Failed
    <3> QED BY <3>3, <3>4, <3>5, <3>6 DEF Heard, Failed, LogsIn, IsLog, Final, Concluding, Diagnostic
  <2> QED BY <1>0, <2>1, <2>2, WireMoves DEF Grows
<1>2. CASE Client \/ Cancel \/ Deadline
  <2>0. wire' = wire BY <1>2, ClientListens
  <2>1. CASE Ignores
    BY <2>0, <2>1 DEF Ignores, Heard, Failed, LogsIn
  <2>2. ASSUME NEW c, Hears(c) PROVE Heard'
    <3>0. /\ taken' = taken + 1 /\ taken + 1 <= Len(wire) /\ c = wire[taken + 1]
          /\ c_at \in Waiting /\ c_returned = "none"
          /\ c_logs = Cardinality(LogsIn(wire, taken)) /\ c_logs \in Nat
      BY <1>0, <2>2 DEF Hears, Waiting, Placed, Heard, Failed
    <3>1. \A i \in 1 .. taken : ~Final(wire[i]) BY <3>0 DEF Heard
    <3>2. Cardinality(LogsIn(wire, taken')) = c_logs + One(c) BY <1>0, <3>0, LogsNext
    <3>3. taken' \in 0 .. Len(wire') BY <1>0, <2>0, <3>0
    <3>4. taken + 1 \in 1 .. taken' /\ \A i \in 1 .. taken' : i = taken + 1 \/ i \in 1 .. taken
      BY <1>0, <3>0
    <3>5. c_at' \in Waiting => ~Final(c)
      BY <1>0, <2>2 DEF Hears, IsLog, Final, Concluding
    <3>6. c_at' \in Waiting => \A i \in 1 .. taken' : ~Final(wire[i])
      BY <3>0, <3>1, <3>4, <3>5
    <3>7. ~Failed' => c_logs' = c_logs + One(c)
      BY <2>2, <3>0 DEF Hears, One, IsLog, Final, Concluding
    <3>8. c_returned' # "none" /\ ~Failed' => Concluding(c) /\ c.msg.tag = c_returned'
      BY <2>2, <3>0 DEF Hears
    <3> QED BY <2>0, <3>0, <3>2, <3>3, <3>4, <3>6, <3>7, <3>8 DEF Heard, Failed, LogsIn, IsLog, Final, Concluding, Diagnostic
  <2> QED BY <1>2, <2>1, <2>2, ClientHears
<1>3. CASE Aside BY <1>1, <1>3 DEF Aside
<1>4. CASE Program BY <1>0, <1>1, <1>4, ProgramMoves DEF Around
<1>5. CASE UNCHANGED engineVars BY <1>1, <1>5 DEF engineVars
<1> QED BY <1>1, <1>2, <1>3, <1>4, <1>5, EngineMoves

(* No guest before the client has written its request. *)
Preparing == Asking => child = "none"

LEMMA PreparingStep ==
  ASSUME Settled, Preparing, [EngineNext]_engineVars
  PROVE  Preparing'
<1>0. TypeOK /\ Asked /\ Served /\ Inlet /\ host_in \in Seq(Chunk) BY DEF Settled, Known, Alike, TypeOK
<1>1. ASSUME UNCHANGED client, child' = "none" <=> child = "none" PROVE Preparing'
  BY <1>1 DEF Preparing, Asking, client
<1>2. CASE Aside
  <2>0. UNCHANGED client BY <1>2 DEF Aside
  <2>1. CASE Spawn
    <3>1. pc = "admit" /\ host_in # <<>> /\ Whole(Head(host_in)) BY <2>1 DEF Spawn, AdmitRequest, RequestPiece
    <3>2. ~Asking BY <1>0, <3>1, RequestTaken
    <3> QED BY <2>0, <3>2 DEF Preparing, Asking, client
  <2>2. CASE Stays BY <1>1, <2>0, <2>2 DEF Stays
  <2> QED BY <1>2, <2>1, <2>2, SupervisorMoves DEF Aside
<1>3. CASE Client \/ Cancel \/ Deadline
  <2>1. CASE Lost /\ UNCHANGED client BY <1>1, <2>1 DEF Lost
  <2>2. CASE UNCHANGED Middle /\ (Opens \/ Pauses \/ Invokes \/ IsAsked)
    BY <2>2 DEF Middle, Opens, Pauses, Invokes, IsAsked, Preparing, Asking, Waiting
  <2>3. CASE UNCHANGED Middle /\ Responds
    BY <2>3 DEF Middle, Responds, Preparing, Asking, Load, C!Reply
  <2>4. CASE UNCHANGED Middle /\ Puts
    <3>1. Asking' => Asking
      <4>1. pending(c_writer) /\ c_writer \in Writer BY <1>0, <2>4 DEF Puts, Served
      <4> QED BY <2>4, <4>1, Advances DEF Puts, Asking
    <3> QED BY <2>4, <3>1 DEF Middle, Preparing
  <2> QED BY <1>0, <1>3, <2>1, <2>2, <2>3, <2>4, ClientMoves
<1>4. CASE Program BY <1>0, <1>1, <1>4, ProgramMoves DEF Around
<1>5. CASE UNCHANGED engineVars BY <1>1, <1>5 DEF engineVars
<1> QED BY <1>2, <1>3, <1>4, <1>5, EngineMoves

(* Why the client failed, if it was neither late nor cancelled. *)
NoGuest == child = "none" /\ (pc = "admit" => \A i \in DOMAIN host_in : ~Whole(host_in[i]))
Cause == \/ Len(effects) > Len(replies)
         \/ c_logBytes > LogLimit
         \/ Stopped /\ ~ConclusionTold
         \/ NoGuest
         \/ taken > 0 /\ wire[taken].msg.data # "plain"
Failing == Failed /\ ~c_late /\ ~MayCancel => Cause

LEMMA NothingAsked ==
  ASSUME Settled, Preparing, Asking
  PROVE  NoGuest
BY DEF Settled, Alike, Inlet, AdmitInlet, Preparing, NoGuest

(* A step with which the client fails. *)
LEMMA FailsForCause ==
  ASSUME Settled, Diagnosed, Followed, Listed, Heard, Preparing, Client \/ Cancel \/ Deadline, ~Failed, Failed',
         ~c_late', ~MayCancel
  PROVE  Cause'
<1> USE DEF C!Go, C!Throw, C!Leave, C!execution, C!counts, C!clientVars
<1>0. /\ TypeOK /\ Served /\ Placed /\ Clean /\ WireTruthful /\ wire \in Seq(Chunk) /\ taken \in Nat
      /\ Len(effects) \in Nat /\ Len(replies) \in Nat /\ c_sequence \in Nat
  <2>1. Known /\ Alike /\ Fate /\ Placed BY DEF Settled
  <2>2. TypeOK /\ Served BY <2>1 DEF Known
  <2>3. Clean /\ WireTruthful BY <2>1 DEF Alike, Fate
  <2>4. wire \in Seq(Chunk) /\ taken \in Nat BY ONLY <2>2 DEF TypeOK
  <2>5. Len(effects) \in Nat /\ Len(replies) \in Nat /\ c_sequence \in Nat
    BY ONLY <2>2 DEF Served
  <2> QED BY <2>1, <2>2, <2>3, <2>4, <2>5, Zenon
<1>1. CASE Cancel BY <1>1 DEF Cancel, C!Cancelled
<1>2. CASE Deadline BY <1>2 DEF Deadline, C!Late, Failed
<1>3. CASE UNCHANGED <<vars, c_late>> /\ (C!Start \/ C!Interrupted \/ C!PutBroken \/ C!Answer)
  <2>1. CASE C!Interrupted BY <1>3, <2>1 DEF C!Interrupted, C!InTime
  <2>2. CASE C!Start
    <3>1. NoGuest BY <2>2, NothingAsked DEF C!Start, Asking
    <3> QED BY <1>3, <3>1 DEF NoGuest, Cause
  <2>3. CASE C!PutBroken
    <3>1. CASE Asking
      <4>1. NoGuest BY <3>1, NothingAsked
      <4> QED BY <1>3, <4>1 DEF NoGuest, Cause
    <3>2. CASE ~Asking
      <4>1. Len(replies) + 1 = c_sequence /\ Len(effects) = c_sequence
        BY <1>0, <2>3, <3>2, TheRequest DEF C!PutBroken, Served, Asking
      <4> QED BY <1>0, <2>3, <4>1 DEF C!PutBroken, Cause
    <3> QED BY <3>1, <3>2
  <2>4. CASE C!Answer
    <3>1. Len(replies) + 1 = c_sequence /\ Len(effects) = c_sequence
      BY <1>0, <2>4 DEF C!Answer, Served
    <3> QED BY <1>0, <2>4, <3>1 DEF C!Answer, Cause
  <2> QED BY <1>3, <2>1, <2>2, <2>3, <2>4
<1>4. CASE UNCHANGED <<vars, c_late>> /\ (C!Invoke \/ C!Reaped \/ C!Terminate)
  BY <1>4 DEF C!Invoke, C!Reaped, C!Terminate, Failed
<1>5. CASE HostWrites /\ C!Put BY <1>5 DEF C!Put, Failed
<1>6. CASE HostReads /\ C!Get(wire[taken + 1])
  <2> DEFINE c == wire[taken + 1]
  <2>1. taken < Len(wire) /\ taken' = taken + 1 /\ UNCHANGED <<pc, child, wire>> BY <1>6 DEF HostReads
  <2>2. taken + 1 \in DOMAIN wire BY <1>0, <2>1
  <2>3. CASE C!ReadPartial(c) BY <2>3 DEF C!ReadPartial, Failed
  <2>4. CASE C!ReadUnusable(c)
    <3>1. C!Unusable(c.msg) BY <2>4 DEF C!ReadUnusable
    <3>2. c.msg \in Message
      <4>1. c \in Chunk BY <1>0, <2>2
      <4> QED BY <4>1 DEF Chunk
    <3>3. Foreign(c.msg) => child = "none" /\ Stopped BY <1>0, <2>2 DEF Clean
    <3>4. taken' > 0 /\ wire'[taken'] = c BY <1>0, <2>1
    <3> HIDE DEF c
    <3>5. Foreign(c.msg) \/ c.msg.data # "plain" BY <3>1, <3>2, PlainFacts
    <3>6. CASE Foreign(c.msg) BY <2>1, <3>3, <3>6 DEF Stopped, NoGuest, Cause
    <3>7. CASE c.msg.data # "plain" BY <3>4, <3>7 DEF Cause
    <3> QED BY <3>5, <3>6, <3>7
  <2>5. CASE C!ReadLog(c)
    BY <2>5 DEF C!ReadLog, C!LogSpent, Failed, Cause
  <2>6. CASE C!ReadCall(c)
    <3>1. c_at = "read" /\ c.msg.kind = "call" /\ ~C!Unusable(c.msg)
      BY <2>6 DEF C!ReadCall, C!ReadPiece, C!Reading
    <3>2. c.msg.seq = c_sequence + 1 /\ c.msg.seq <= Request.seq
      BY <2>1, <3>1, ClientAgrees DEF Settled
    <3>3. c.msg.tag = "listed" /\ Request.tag # "validate"
      BY <2>2, <3>1 DEF Listed, Allowed, IsCall
    <3> HIDE DEF c
    <3>4. C!Acceptable(c.msg) BY <3>2, <3>3 DEF C!Acceptable, C!InSequence
    <3> QED BY <2>6, <3>3, <3>4 DEF C!ReadCall, Failed
  <2>7. CASE C!ReadCompleted(c)
    <3>1. c.msg.kind = "completed" BY <2>7 DEF C!ReadCompleted
    <3>2. Truthful(c.msg) BY <1>0, <2>2 DEF WireTruthful
    <3> HIDE DEF c
    <3>3. c.msg.tag \notin {"none", "host_transport_error"} BY <3>1, <3>2 DEF Truthful, Verdict
    <3> QED BY <2>7, <3>3 DEF C!ReadCompleted, Failed
  <2>8. CASE C!ReadSwallowed(c)
    <3>1. c_at = "read" /\ ~C!InPlace(c) BY <2>8 DEF C!ReadSwallowed, C!Reading
    <3>2. Diagnostic(c) /\ Stopped /\ taken + 1 = Len(wire) BY <2>1, <3>1, InTurn
    <3>3. \A i \in DOMAIN wire : Told(i) => i = Len(wire) BY DEF Settled, IInv, Concluded
    <3>4. ~ConclusionTold BY <3>2, <3>3 DEF ConclusionTold, Told
    <3> QED BY <2>1, <3>2, <3>4 DEF Stopped, ConclusionTold, Diagnostic, Cause
  <2> QED BY <1>6, <2>3, <2>4, <2>5, <2>6, <2>7, <2>8 DEF C!Get
<1>7. CASE (HostCloses /\ C!CloseInput) \/ (HostDeaf /\ C!CloseOutput)
  BY <1>7 DEF C!CloseInput, C!CloseOutput, Failed
<1>8. CASE Lost /\ UNCHANGED client BY <1>8 DEF client, Failed
<1>9. CASE taken = Len(wire) /\ C!ReadEnded /\ UNCHANGED <<vars, c_late>>
  <2>1. ~ConclusionTold
    BY <1>0, <1>9 DEF C!ReadEnded, Waiting, Heard, Final, Concluding, ConclusionTold
  <2>2. Stopped' /\ ~ConclusionTold' BY <1>9, <2>1 DEF C!ReadEnded, Stopped, ConclusionTold, Diagnostic
  <2> QED BY <2>2 DEF Cause
<1> QED BY <1>1, <1>2, <1>3, <1>4, <1>5, <1>6, <1>7, <1>8, <1>9 DEF Client

(* What a failed client has missed is not told any more. *)
LEMMA FailingStep ==
  ASSUME Settled, Diagnosed, Followed, Listed, Heard, Preparing, Failing, [EngineNext]_engineVars
  PROVE  Failing'
<1>0. /\ TypeOK /\ Asked /\ Placed /\ Inlet /\ Unborn
      /\ host_in \in Seq(Chunk)
  BY DEF Settled, Known, Alike, Fate, TypeOK
<1> SUFFICES ASSUME Failed', ~c_late', ~MayCancel PROVE Cause' BY DEF Failing
<1>n. [Next]_vars BY EngineStep
<1>w. taken > 0 /\ taken' = taken => wire'[taken'] = wire[taken]
  <2>1. wire \in Seq(Chunk) /\ taken \in 0 .. Len(wire) BY <1>0 DEF TypeOK, Heard
  <2>2. CASE wire' = wire BY <2>2
  <2>3. ASSUME NEW c \in Chunk, wire' = Append(wire, c) PROVE taken > 0 => wire'[taken] = wire[taken]
    BY <2>1, <2>3, Appended
  <2> QED BY <1>0, <2>2, <2>3, WireMoves DEF Grows
<1>1. ASSUME Failed, Cause, UNCHANGED <<effects, replies, c_logBytes, taken>>, NoGuest => NoGuest'
      PROVE Cause'
  <2>1. Stopped /\ ~ConclusionTold => Stopped' /\ ~ConclusionTold'
    BY <1>n, StaysStopped, WireFrozen DEF ConclusionTold, Diagnostic
  <2> QED BY <1>1, <1>w, <2>1 DEF Cause
<1>2. CASE Client \/ Cancel \/ Deadline
  <2>1. CASE ~Failed BY <1>2, <2>1, FailsForCause
  <2>2. CASE Failed
    <3>1. c_at \in C!Cleanup BY <1>0, <2>2 DEF Failed, Placed
    <3>2. /\ ~c_late /\ UNCHANGED <<effects, replies, c_logBytes, taken, host_in, child>>
          /\ pc' = "admit" => pc = "admit"
      <4> USE DEF C!Cleanup, C!execution, C!counts, C!clientVars
      <4>1. CASE Cancel BY <3>1, <4>1 DEF Cancel, C!Cancelled, C!Polling
      <4>2. CASE Deadline BY <4>2 DEF Deadline, C!Late
      <4>3. CASE UNCHANGED <<vars, c_late>> /\ (C!Reaped \/ C!Terminate)
        BY <4>3 DEF C!Reaped, C!Terminate
      <4>4. CASE UNCHANGED c_late /\ ((HostCloses /\ C!CloseInput) \/ (HostDeaf /\ C!CloseOutput))
        BY <4>4 DEF HostCloses, HostDeaf, C!CloseInput, C!CloseOutput
      <4>5. CASE Lost /\ UNCHANGED client BY <4>5 DEF Lost, client
      <4>6. ~(C!Start \/ C!Interrupted \/ C!PutBroken \/ C!Invoke \/ C!Answer \/ C!ReadEnded \/ C!Put)
        BY <3>1 DEF C!Start, C!Interrupted, C!Polling, C!PutBroken, C!Invoke, C!Answer, C!ReadEnded, C!Put
      <4>7. ~C!Get(wire[taken + 1])
        BY <3>1 DEF C!Get, C!ReadPartial, C!ReadSwallowed, C!ReadUnusable, C!ReadLog, C!ReadCall,
           C!ReadCompleted, C!ReadPiece, C!Reading
      <4> QED BY <1>2, <4>1, <4>2, <4>3, <4>4, <4>5, <4>6, <4>7 DEF Client
    <3> QED BY <1>1, <2>2, <3>2 DEF Failing, NoGuest
  <2> QED BY <2>1, <2>2
<1>3. ASSUME UNCHANGED <<client, taken>>, NoGuest => NoGuest' PROVE Cause'
  BY <1>1, <1>3 DEF client, Failed, Failing
<1>4. CASE Aside
  <2>1. UNCHANGED <<client, taken>> BY <1>4 DEF Aside
  <2>2. NoGuest => NoGuest'
    <3> SUFFICES ASSUME NoGuest PROVE NoGuest' OBVIOUS
    <3>1. child = "none" /\ pc \in Guestless /\ ~pending(to_host) BY <1>0 DEF NoGuest, Unborn
    <3>2. CASE Spawn
      <4>1. pc = "admit" /\ host_in # <<>> /\ Whole(Head(host_in)) BY <3>2 DEF Spawn, AdmitRequest, RequestPiece
      <4>2. 1 \in DOMAIN host_in /\ Head(host_in) = host_in[1] BY <1>0, <4>1, Rest
      <4> QED BY <4>1, <4>2 DEF NoGuest
    <3>3. ASSUME Stays, UNCHANGED host_in PROVE NoGuest' BY <3>1, <3>3 DEF Stays, NoGuest
    <3>4. CASE Stays /\ TakesFromHost
      <4>1. \A i \in DOMAIN Tail(host_in) : i + 1 \in DOMAIN host_in /\ Tail(host_in)[i] = host_in[i + 1]
        BY <1>0, <3>4, Rest DEF TakesFromHost
      <4> QED BY <3>1, <3>4, <4>1 DEF Stays, TakesFromHost, NoGuest
    <3>5. CASE Stays /\ (HostReply \/ Feed \/ GuestEvent)
      BY <3>1, <3>5 DEF HostReply, HostPiece, Feed, GuestEvent, GuestPiece, Guestless
    <3> QED BY <1>4, <3>2, <3>3, <3>4, <3>5, SupervisorMoves DEF Aside, Held, TakesFromGuest
  <2> QED BY <1>3, <2>1, <2>2
<1>5. CASE Program BY <1>0, <1>3, <1>5, ProgramMoves DEF Around, NoGuest
<1>6. CASE UNCHANGED engineVars BY <1>3, <1>6 DEF engineVars, NoGuest
<1> QED BY <1>2, <1>4, <1>5, <1>6, EngineMoves

-----------------------------------------------------------------------------
(* The invariant of what is told, and heard. *)
Telling == Delivered /\ OwnLast /\ Listed /\ LogsRelayed /\ LogsTold /\ Diagnosed
           /\ Followed /\ Heard /\ Preparing /\ Failing

LEMMA TellingAlways == EngineSpec => [](Settled /\ Telling)
<1>1. EngineInit => Telling
  <2> SUFFICES ASSUME EngineInit PROVE Telling OBVIOUS
  <2>1. /\ wire = <<>> /\ guest_out = <<>> /\ to_host = Idle /\ taken = 0 /\ pc = "admit" /\ ~finished
        /\ child = "none" /\ c_returned = "none" /\ c_logs = 0 /\ c_reader = Idle
    BY DEF EngineInit, Init, C!Init, C!Idle, Idle, C!NoMessage, NoMessage
  <2>2. ~pending(to_host) BY <2>1, IdleRests
  <2>3. Delivered /\ OwnLast /\ Listed /\ LogsRelayed /\ Preparing
    BY <2>1, <2>2 DEF Delivered, OwnLast, Listed, LogsRelayed, Loop, Preparing
  <2>4. LogsTold BY <2>1, <2>2 DEF LogsTold, ResultUnderway
  <2>5. Heard
    <3>1. LogsIn(wire, 0) = {} BY DEF LogsIn
    <3>2. Cardinality(LogsIn(wire, taken)) = 0 BY <2>1, <3>1, FS_EmptySet
    <3>3. taken \in 0 .. Len(wire) /\ 1 .. taken = {} BY <2>1
    <3> QED BY <2>1, <3>2, <3>3 DEF Heard
  <2>6. Failing BY <2>1 DEF Failing, Failed
  <2>7. Diagnosed BY <2>1, <2>2 DEF Diagnosed
  <2>8. Followed BY <2>1, IdleRests DEF Followed, Between
  <2> QED BY <2>3, <2>4, <2>5, <2>6, <2>7, <2>8 DEF Telling
<1>2. Settled /\ Settled' /\ Telling /\ [EngineNext]_engineVars => Telling'
  BY DeliveredStep, OwnLastStep, ListedStep, LogsRelayedStep, LogsToldStep, DiagnosedStep,
     FollowedStep, HeardStep,
     PreparingStep, FailingStep DEF Telling
<1> QED BY <1>1, <1>2, SettledAlways, PTL DEF EngineSpec

(* PeersAgree, for any budgets, frames, pipes, faults and cancellations: what one of
   the three processes finds in a pipe it refuses for its values alone, and stdout is
   out of frame only at an engine_error (supervisor.rs:97-146, guest.rs:197-219,
   main.rs:58-62, Client.php:87-106). *)
THEOREM PeersDoAgree == EngineSpec => []PeersAgree
<1>1. ASSUME Settled, Telling PROVE PeersAgree
  <2>1. Known /\ Alike /\ Replied /\ Diagnosed /\ Followed BY <1>1 DEF Settled, Telling
  <2>2. ASSUME c_at = "read", taken < Len(wire)
        PROVE  LET c == wire[taken + 1]
               IN  /\ C!InPlace(c) \/ Diagnostic(c)
                   /\ C!Unusable(Plain(c.msg)) => child = "none" /\ effects = <<>>
                   /\ c.msg.kind = "call" => c.msg.seq = c_sequence + 1 /\ c.msg.seq <= Request.seq
    <3> DEFINE c == wire[taken + 1]
    <3>1. c \in Chunk /\ (C!InPlace(c) \/ Diagnostic(c)) BY <1>1, <2>1, <2>2, InTurn
    <3>2. c.msg \in Message BY <3>1 DEF Chunk
    <3>3. /\ Foreign(c.msg) => child = "none" /\ effects = <<>>
          /\ c.msg.kind = "call" => c.msg.seq = c_sequence + 1 /\ c.msg.seq <= Request.seq
      BY <2>1, <2>2, ClientAgrees
    <3> HIDE DEF c
    <3>4. C!Unusable(Plain(c.msg)) => Foreign(c.msg) BY <3>2, PlainFacts
    <3> QED BY <3>1, <3>3, <3>4 DEF c
  <2> QED BY <2>1, <2>2, GuestAgrees, HostAgrees, GuestHears DEF PeersAgree
<1> QED BY <1>1, TellingAlways, PTL

(* What the client was told is the last piece on stdout. *)
LEMMA LastHeard ==
  ASSUME Settled, Heard, c_returned # "none", ~Failed
  PROVE  LET m == wire[Len(wire)].msg IN
         /\ taken = Len(wire) /\ m.kind = "completed" /\ m.tag = c_returned
         /\ Len(wire) \in DOMAIN wire
<1>0. /\ Concluded /\ wire \in Seq(Chunk) /\ Len(wire) \in Nat /\ taken \in 0 .. Len(wire)
  BY DEF Settled, IInv, TypeOK, Heard
<1>1. PICK i \in 1 .. taken : Concluding(wire[i]) /\ wire[i].msg.tag = c_returned BY DEF Heard
<1>2. i \in DOMAIN wire BY <1>0
<1>3. i = Len(wire) BY <1>0, <1>1, <1>2 DEF Concluded, Told, Concluding
<1> QED BY <1>0, <1>1, <1>2, <1>3 DEF Concluding

LEMMA ResultTrue ==
  ASSUME Settled, Telling, AppTold("result")
  PROVE  /\ g_at \in {"event", "report", "exit"} /\ finished
         /\ c_logs = g_output.logs /\ Len(effects) = g_host.calls
<1>0. Delivered /\ LogsTold /\ Heard BY DEF Telling
<1>1. c_returned = "result" /\ c_returned # "none" /\ ~Failed BY DEF AppTold, Failed
<1>2. taken = Len(wire) /\ IsResult(wire[Len(wire)].msg) /\ Len(wire) \in DOMAIN wire
  BY <1>0, <1>1, LastHeard DEF IsResult
<1>3. ResultUnderway BY <1>2 DEF ResultUnderway
<1>4. finished /\ g_output.logs = LogCount(wire) BY <1>0, <1>3 DEF LogsTold
<1>5. c_logs = LogCount(wire) BY <1>0, <1>1, <1>2 DEF Heard, LogCount
<1> QED BY <1>0, <1>4, <1>5 DEF Delivered

LEMMA VerdictTrue ==
  ASSUME Settled, Telling,
         c_returned \in {"instruction_limit", "memory_limit", "cpu_limit", "guest_terminated", "wall_timeout"}
  PROVE  \/ c_returned = Verdict(status) /\ ~finished
         \/ c_returned = "memory_limit" /\ MemoryProbe
         \/ c_returned = "wall_timeout" /\ expired
<1>1. c_returned # "none" /\ ~Failed /\ Heard BY DEF Failed, Telling
<1>2. Len(wire) \in DOMAIN wire /\ wire[Len(wire)].msg.kind = "completed"
      /\ wire[Len(wire)].msg.tag = c_returned
  BY <1>1, LastHeard
<1>3. Truthful(wire[Len(wire)].msg) BY <1>2 DEF Settled, Fate, WireTruthful
<1> QED BY <1>2, <1>3 DEF Truthful

LEMMA FailureTrue ==
  ASSUME Settled, Telling, Failed, ConclusionTold, ~c_late, ~MayCancel
  PROVE  \/ Len(effects) > Len(replies) \/ c_logBytes > LogLimit
         \/ taken > 0 /\ wire[taken].msg.data # "plain"
<1>1. Cause BY DEF Telling, Failing
<1>2. child # "none" BY DEF Settled, Fate, Unborn, ConclusionTold
<1> QED BY <1>1, <1>2 DEF Cause, NoGuest

(* ReturnedTrue, for any budgets, frames, pipes, faults and cancellations: what execute()
   returns is what happened.  A result is the guest's, with every log and effect before it;
   a verdict tells how the guest ended; and a conclusion on stdout is lost only for a reason
   of the client's own (guest.rs:60-286, supervisor.rs:97-188, Client.php:77-161). *)
THEOREM WhatIsReturnedIsTrue == EngineSpec => []ReturnedTrue
<1>1. Settled /\ Telling => ReturnedTrue
  <2> SUFFICES ASSUME Settled, Telling PROVE ReturnedTrue OBVIOUS
  <2>1. c_returned \in {"instruction_limit", "memory_limit", "cpu_limit", "guest_terminated"}
          => \/ c_returned = Verdict(status) /\ ~finished
             \/ AppTold("memory_limit") /\ MemoryProbe
    BY VerdictTrue DEF AppTold
  <2>2. AppTold("wall_timeout") => expired \/ status = "alarm"
    <3>1. Verdict(status) = "wall_timeout" => status = "alarm" BY DEF Verdict
    <3> QED BY <3>1, VerdictTrue DEF AppTold
  <2>3. AppTold("host_transport_error") /\ ConclusionTold /\ ~c_late /\ ~MayCancel
          => \/ Len(effects) > Len(replies) \/ c_logBytes > LogLimit
             \/ taken > 0 /\ wire[taken].msg.data # "plain"
    BY FailureTrue DEF AppTold, Failed
  <2> QED BY <2>1, <2>2, <2>3, ResultTrue DEF ReturnedTrue
<1> QED BY <1>1, TellingAlways, PTL
=============================================================================
