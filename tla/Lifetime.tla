------------------------------ MODULE Lifetime -------------------------------
(***************************************************************************)
(* How a guest process comes to run its program, and what ends it: from the  *)
(* fork in supervisor.rs through isolation::enter() to guest::run().  The    *)
(* supervisor may be killed between any two of these steps; every system     *)
(* call may fail.  Clocks count milliseconds.                                *)
(***************************************************************************)
EXTENDS Integers

CONSTANTS
  Second,      \* milliseconds in a second
  WallMs,      \* limits.wall_ms
  CpuMs,       \* limits.cpu_ms
  Startup      \* CPU milliseconds the process may burn before its timer is set

ASSUME LifetimeAssumption ==
  /\ Second \in Nat /\ Second > 1
  /\ WallMs \in Nat \ {0} /\ CpuMs \in Nat \ {0}     \* Request::validate
  /\ Startup \in Nat /\ Startup < Second

VARIABLES
  platform,    \* "linux", "macos", or "other"
  blocked,     \* the signal mask, inherited over fork and exec and never changed
  supervisor,  \* "alive" or "dead"
  sent,        \* the request frame is in the guest's stdin
  at,          \* the guest's next step
  deathsig,    \* PR_SET_PDEATHSIG is set
  known,       \* the parent watch_parent() has seen
  watched,     \* the process the kqueue watches: a pid may be used again
  watcher,     \* the parent-watch thread runs
  event,       \* NOTE_EXIT is queued
  ignored,     \* signals ignored, at first as inherited over exec
  wall, cpu,   \* what ITIMER_REAL and ITIMER_PROF have left, 0 when disarmed
  rlimit,      \* RLIMIT_CPU in seconds, 0 when not set
  burnt,       \* CPU time of the process
  ambient,     \* an inherited descriptor above stderr is open
  confined,    \* the platform's policy is in force
  signals,     \* signals on their way
  ended        \* "no", or how the guest ended

given     == <<platform, blocked>>
parentage == <<supervisor, sent>>
watch     == <<deathsig, known, watched, watcher, event>>
timers    == <<ignored, wall, cpu, rlimit, burnt>>
policy    == <<ambient, confined>>
vars == <<given, parentage, at, watch, timers, policy, signals, ended>>

Enter == {"wall", "cpu", "rlimit", "descriptors", "parent", "kevent", "recheck", "thread", "platform"}
Fatal == {"alarm", "prof"}

Clocks == wall \in 0 .. WallMs /\ cpu \in 0 .. CpuMs /\ rlimit \in Nat /\ burnt \in Nat

TypeOK ==
  /\ platform \in {"linux", "macos", "other"}
  /\ supervisor \in {"alive", "dead"} /\ sent \in BOOLEAN
  /\ at \in Enter \cup {"prctl", "getppid", "read", "program", "done"}
  /\ deathsig \in BOOLEAN /\ known \in {"none", "supervisor"}
  /\ watched \in {"none", "supervisor", "other"} /\ watcher \in BOOLEAN /\ event \in BOOLEAN
  /\ ignored \subseteq Fatal /\ blocked \subseteq Fatal
  /\ Clocks
  /\ ambient \in BOOLEAN /\ confined \in BOOLEAN
  /\ signals \subseteq Fatal \cup {"kill", "rlimit"}
  /\ ended \in Fatal \cup {"no", "kill", "rlimit", "126", "error", "finished"}
  /\ ended = "no" <=> at # "done"

Init ==
  /\ platform \in {"linux", "macos", "other"}
  /\ supervisor = "alive" /\ sent = FALSE
  /\ at = IF platform = "linux" THEN "prctl" ELSE "read"
  /\ deathsig = FALSE /\ known = "none" /\ watched = "none" /\ watcher = FALSE /\ event = FALSE
  /\ ignored \in SUBSET Fatal /\ blocked \in SUBSET Fatal
  /\ wall = 0 /\ cpu = 0 /\ rlimit = 0 /\ burnt = 0
  /\ ambient \in BOOLEAN /\ confined = FALSE
  /\ signals = {} /\ ended = "no"

-----------------------------------------------------------------------------
Step(from, to) == at = from /\ at' = to /\ UNCHANGED <<given, parentage, signals, ended>>
End(how) == at' = "done" /\ ended' = how /\ UNCHANGED <<given, parentage, watch, timers, policy, signals>>

(* getppid(): an orphan is adopted by init. *)
Parent == IF supervisor = "alive" THEN "supervisor" ELSE "init"

(* pre_exec, in the forked child.  A signal of a parent that is gone already
   is never sent.                                                            *)
DeathSignal_Skipped == Step("prctl", "getppid") /\ UNCHANGED <<watch, timers, policy>>
DeathSignal == Step("prctl", "getppid") /\ deathsig' = TRUE
               /\ UNCHANGED <<known, watched, watcher, event, timers, policy>>

SameParent == Parent = "supervisor"
StillMine == Step("getppid", "read") /\ SameParent /\ UNCHANGED <<watch, timers, policy>>
NotMine   == at = "getppid" /\ ~SameParent /\ End("error")

(* main(): read_frame of the pipe, which ends with the supervisor. *)
ReadRequest == sent /\ Step("read", "wall") /\ UNCHANGED <<watch, timers, policy>>
NoRequest   == at = "read" /\ ~sent /\ supervisor = "dead" /\ End("error")

(* enter(), in its order.  setitimer() with a zero value disarms. *)
Timeval_Whole(ms) == [sec |-> ms \div Second, usec |-> ms * 1000]
Timeval(ms) == [sec |-> ms \div Second, usec |-> (ms % Second) * 1000]
Setitimer(value) == value.sec * Second + value.usec \div 1000

(* signal(SIG_DFL) changes the disposition; the mask stays as it is. *)
Caught_Inherited(s) == ignored
Caught(s) == ignored \ {s}

WallTimer == /\ Step("wall", "cpu")
             /\ ignored' = Caught("alarm") /\ wall' = Setitimer(Timeval(WallMs))
             /\ UNCHANGED <<cpu, rlimit, burnt, watch, policy>>

CpuTimer == /\ Step("cpu", "rlimit")
            /\ ignored' = Caught("prof") /\ cpu' = Setitimer(Timeval(CpuMs))
            /\ UNCHANGED <<wall, rlimit, burnt, watch, policy>>

CpuSeconds_Exact == (CpuMs + Second - 1) \div Second
CpuSeconds == (CpuMs + Second - 1) \div Second + 1
Rlimit == Step("rlimit", "descriptors") /\ rlimit' = CpuSeconds
          /\ UNCHANGED <<ignored, wall, cpu, burnt, watch, policy>>

CloseAmbient == Step("descriptors", IF platform = "macos" THEN "parent" ELSE "platform")
                /\ ambient' = FALSE
                /\ UNCHANGED <<confined, watch, timers>>

(* watch_parent() on macOS.  The pid may be nobody's by now, or another's. *)
Orphaned == at \in {"parent", "recheck"} /\ Parent # "supervisor" /\ End("error")

KnowParent == Step("parent", "kevent") /\ Parent = "supervisor" /\ known' = Parent
              /\ UNCHANGED <<deathsig, watched, watcher, event, timers, policy>>

Watch == /\ Step("kevent", "recheck")
         /\ watched' \in IF Parent = known THEN {known} ELSE {"other"}
         /\ UNCHANGED <<deathsig, known, watcher, event, timers, policy>>

Unadopted_Unchecked == TRUE
Unadopted == Parent = known
Recheck == Step("recheck", "thread") /\ Unadopted /\ UNCHANGED <<watch, timers, policy>>

SpawnWatcher == Step("thread", "platform") /\ watcher' = TRUE
                /\ UNCHANGED <<deathsig, known, watched, event, timers, policy>>

(* platform(): seccomp, Seatbelt, or no containment and no guest. *)
Confine == Step("platform", "program") /\ platform # "other" /\ confined' = TRUE
           /\ UNCHANGED <<ambient, watch, timers>>

Uncontained == at = "platform" /\ platform = "other" /\ End("error")

Fails == at \in Enter \cup {"prctl"} /\ End("error")

(* guest::run() and the final frame; the program may also never end. *)
Finish == at = "program" /\ End("finished")

(* The watcher's thread: an event, or a failing wait. *)
Watcher == watcher /\ at # "done" /\ End("126")
Noticed == event /\ Watcher

Startups == \/ DeathSignal \/ StillMine \/ NotMine \/ ReadRequest \/ NoRequest
            \/ WallTimer \/ CpuTimer \/ Rlimit \/ CloseAmbient
            \/ Orphaned \/ KnowParent \/ Watch \/ Recheck \/ SpawnWatcher \/ Confine \/ Uncontained

-----------------------------------------------------------------------------
(* The supervisor writes the request, and may be killed at any time. *)
Send == supervisor = "alive" /\ at \notin {"prctl", "getppid"} /\ ~sent /\ sent' = TRUE
        /\ UNCHANGED <<given, supervisor, at, watch, timers, policy, signals, ended>>

Dies == /\ supervisor = "alive" /\ supervisor' = "dead"
        /\ signals' = signals \cup (IF deathsig THEN {"kill"} ELSE {})
        /\ event' = (event \/ watched = "supervisor")
        /\ UNCHANGED <<given, sent, at, deathsig, known, watched, watcher, timers, policy, ended>>

(* Time: a timer's signal is lost on a process that ignores it, and waits for ever
   on one that blocks it.                                                    *)
Arriving == signals \ blocked

Expiring(left, s) == IF left = 1 /\ s \notin ignored THEN {s} ELSE {}
Less(left) == IF left = 0 THEN 0 ELSE left - 1

Tick == /\ at # "done" /\ wall > 0
        /\ wall' = Less(wall) /\ signals' = signals \cup Expiring(wall, "alarm")
        /\ UNCHANGED <<given, parentage, at, watch, ignored, cpu, rlimit, burnt, policy, ended>>

Burn == /\ at # "done" /\ Arriving = {} /\ (rlimit = 0 => burnt < Startup)
        /\ burnt' = burnt + 1 /\ cpu' = Less(cpu)
        /\ signals' = signals \cup Expiring(cpu, "prof")
                        \cup (IF rlimit > 0 /\ burnt' = rlimit * Second THEN {"rlimit"} ELSE {})
        /\ UNCHANGED <<given, parentage, at, watch, ignored, wall, rlimit, policy, ended>>

Deliver == at # "done" /\ \E s \in Arriving : End(s)

Over == at = "done" /\ UNCHANGED vars

Next == \/ Startups \/ Fails \/ Finish \/ Watcher
        \/ Send \/ Dies \/ Tick \/ Burn \/ Deliver \/ Over

Spec == Init /\ [][Next]_vars

(* No clock: the guest is scheduled and signals arrive. *)
Scheduled == WF_vars(Startups) /\ WF_vars(Noticed) /\ WF_vars(Deliver)

FairSpec == Spec /\ Scheduled

ClockRuns == WF_vars(Tick)

-----------------------------------------------------------------------------
Doomed == "kill" \in signals \/ (watcher /\ event)
Owned == supervisor = "alive" /\ (deathsig \/ (watcher /\ watched = "supervisor"))

(* No program runs that could outlive its supervisor, its time or its
   confinement: whatever happened between fork and guest::run(), the death of
   the supervisor is on its way or will be noticed (supervisor.rs:43-54,
   isolation.rs:136-196), both timers run and, whatever was ignored before, are no
   longer (isolation.rs:81-110), and nothing inherited is open (isolation.rs:207-234). *)
NeverUnguarded ==
  at = "program" =>
    /\ Doomed \/ Owned
    /\ wall > 0 \/ "alarm" \in signals
    /\ cpu > 0 \/ "prof" \in signals
    /\ ignored = {}
    /\ confined /\ ~ambient

(* A program that burns its CPU time is told so: ITIMER_PROF, which means
   cpu_limit, always comes before RLIMIT_CPU, which would read as
   guest_terminated, unless whoever started the engine blocks SIGPROF
   (isolation.rs:97-117, supervisor.rs:155-165). *)
ProfFirst == "rlimit" \in signals => "prof" \in blocked

(* A killed supervisor takes the guest along wherever it stands, without the
   help of a clock (supervisor.rs:43-54, isolation.rs:136-196). *)
OrphansDie == supervisor = "dead" ~> at = "done"

(* A program ends, though it never returns, blocks on its host, or was started by
   a process that ignores the signals of its timers; one that blocks SIGALRM leaves
   it to the other limits (isolation.rs:72-110). *)
ProgramsEnd == ClockRuns => (at = "program" /\ "alarm" \notin blocked ~> at = "done")
=============================================================================
