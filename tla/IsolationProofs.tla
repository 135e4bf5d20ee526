--------------------------- MODULE IsolationProofs ---------------------------
(* The three parts of isolation.rs: the life of a guest, for any limits and any
   startup cost below a second; the filter, for any list, any architecture and
   any number; the probe, for whatever may be asked for. *)
EXTENDS MCIsolation, TLAPS

-----------------------------------------------------------------------------
(* Lifetime.  Arithmetic. *)
LEMMA Division ==
  ASSUME NEW t \in Nat
  PROVE  /\ t \div Second \in Nat /\ t % Second \in 0 .. Second - 1
         /\ t = Second * (t \div Second) + (t % Second)
BY LifetimeAssumption

LEMMA Thousandths == ASSUME NEW t \in Nat PROVE (t * 1000) \div 1000 = t
OBVIOUS

(* A timer set from milliseconds runs for just these milliseconds. *)
LEMMA TimersExact == ASSUME NEW ms \in Nat PROVE Setitimer(Timeval(ms)) = ms
BY Division, Thousandths, LifetimeAssumption DEF Setitimer, Timeval

(* RLIMIT_CPU lies more than any startup above the timer. *)
LEMMA CpuSecondsAbove ==
  CpuSeconds \in Nat \ {0} /\ CpuSeconds * Second > Startup + CpuMs
<1> DEFINE t == CpuMs + Second - 1
           q == t \div Second
<1>1. t \in Nat BY LifetimeAssumption
<1>2. q \in Nat /\ t % Second \in 0 .. Second - 1 /\ t = Second * q + (t % Second)
  BY <1>1, Division
<1>3. CpuSeconds = q + 1 BY DEF CpuSeconds
<1>4. Second * q >= CpuMs
  <2> HIDE DEF q
  <2> QED BY <1>2, LifetimeAssumption
<1>5. (q + 1) * Second = Second * q + Second
  <2> HIDE DEF q
  <2> QED BY <1>2, LifetimeAssumption
<1> HIDE DEF q
<1> QED BY <1>2, <1>3, <1>4, <1>5, LifetimeAssumption

-----------------------------------------------------------------------------
USE DEF vars, given, parentage, watch, timers, policy, Enter, Fatal, Step, End

LEMMA TypesInit == Init => TypeOK
<1>1. Init => Clocks BY LifetimeAssumption DEF Init, Clocks
<1> QED BY <1>1 DEF Init, TypeOK

LEMMA ClocksStep == Clocks /\ [Next]_vars => Clocks'
<1> SUFFICES ASSUME Clocks, [Next]_vars PROVE Clocks' OBVIOUS
<1> USE DEF Clocks
<1>1. CASE DeathSignal BY <1>1 DEF DeathSignal
<1>2. CASE StillMine BY <1>2 DEF StillMine
<1>3. CASE NotMine BY <1>3 DEF NotMine
<1>4. CASE ReadRequest BY <1>4 DEF ReadRequest
<1>5. CASE NoRequest BY <1>5 DEF NoRequest
<1>6. CASE WallTimer BY <1>6, TimersExact, LifetimeAssumption DEF WallTimer
<1>7. CASE CpuTimer BY <1>7, TimersExact, LifetimeAssumption DEF CpuTimer
<1>8. CASE Rlimit BY <1>8, CpuSecondsAbove DEF Rlimit
<1>9. CASE CloseAmbient BY <1>9 DEF CloseAmbient
<1>10. CASE Orphaned BY <1>10 DEF Orphaned
<1>11. CASE KnowParent BY <1>11 DEF KnowParent
<1>12. CASE Watch BY <1>12 DEF Watch
<1>13. CASE Recheck BY <1>13 DEF Recheck
<1>14. CASE SpawnWatcher BY <1>14 DEF SpawnWatcher
<1>15. CASE Confine BY <1>15 DEF Confine
<1>16. CASE Uncontained BY <1>16 DEF Uncontained
<1>17. CASE Fails BY <1>17 DEF Fails
<1>18. CASE Finish BY <1>18 DEF Finish
<1>19. CASE Watcher BY <1>19 DEF Watcher
<1>20. CASE Deliver BY <1>20 DEF Deliver
<1>21. CASE Send BY <1>21 DEF Send
<1>22. CASE Dies BY <1>22 DEF Dies
<1>23. CASE Tick BY <1>23, LifetimeAssumption DEF Tick, Less
<1>24. CASE Burn BY <1>24, LifetimeAssumption DEF Burn, Less
<1>25. CASE Over BY <1>25 DEF Over
<1>26. CASE UNCHANGED vars BY <1>26
<1> QED
  BY <1>1, <1>2, <1>3, <1>4, <1>5, <1>6, <1>7, <1>8, <1>9, <1>10, <1>11, <1>12, <1>13,
     <1>14, <1>15, <1>16, <1>17, <1>18, <1>19, <1>20, <1>21, <1>22, <1>23, <1>24, <1>25,
     <1>26 DEF Next, Startups

LEMMA TypesStep == TypeOK /\ [Next]_vars => TypeOK'
<1> SUFFICES ASSUME TypeOK, [Next]_vars PROVE TypeOK' OBVIOUS
<1> USE DEF TypeOK
<1>c. Clocks' BY ClocksStep
<1>1. CASE DeathSignal BY <1>1, <1>c DEF DeathSignal
<1>2. CASE StillMine BY <1>2, <1>c DEF StillMine, Parent
<1>3. CASE NotMine BY <1>3, <1>c DEF NotMine
<1>4. CASE ReadRequest BY <1>4, <1>c DEF ReadRequest
<1>5. CASE NoRequest BY <1>5, <1>c DEF NoRequest
<1>6. CASE WallTimer BY <1>6, <1>c DEF WallTimer, Caught
<1>7. CASE CpuTimer BY <1>7, <1>c DEF CpuTimer, Caught
<1>8. CASE Rlimit BY <1>8, <1>c DEF Rlimit
<1>9. CASE CloseAmbient BY <1>9, <1>c, ZenonT(40) DEF CloseAmbient
<1>10. CASE Orphaned BY <1>10, <1>c DEF Orphaned, Parent
<1>11. CASE KnowParent BY <1>11, <1>c DEF KnowParent, Parent
<1>12. CASE Watch BY <1>12, <1>c DEF Watch, Parent
<1>13. CASE Recheck BY <1>13, <1>c DEF Recheck, Parent
<1>14. CASE SpawnWatcher BY <1>14, <1>c DEF SpawnWatcher
<1>15. CASE Confine BY <1>15, <1>c DEF Confine
<1>16. CASE Uncontained BY <1>16, <1>c DEF Uncontained
<1>17. CASE Fails BY <1>17, <1>c DEF Fails
<1>18. CASE Finish BY <1>18, <1>c DEF Finish
<1>19. CASE Watcher BY <1>19, <1>c DEF Watcher
<1>20. CASE Deliver BY <1>20, <1>c DEF Deliver, Arriving
<1>21. CASE Send BY <1>21, <1>c DEF Send
<1>22. CASE Dies BY <1>22, <1>c DEF Dies
<1>23. CASE Tick BY <1>23, <1>c DEF Tick, Expiring
<1>24. CASE Burn BY <1>24, <1>c DEF Burn, Expiring
<1>25. CASE Over BY <1>25, <1>c DEF Over
<1>26. CASE UNCHANGED vars BY <1>26, <1>c
<1> QED
  BY <1>1, <1>2, <1>3, <1>4, <1>5, <1>6, <1>7, <1>8, <1>9, <1>10, <1>11, <1>12, <1>13,
     <1>14, <1>15, <1>16, <1>17, <1>18, <1>19, <1>20, <1>21, <1>22, <1>23, <1>24, <1>25,
     <1>26 DEF Next, Startups

(* Type correctness; the timers never hold more than the request's limits. *)
THEOREM LifetimeTypes == Spec => []TypeOK
BY TypesInit, TypesStep, PTL DEF Spec

-----------------------------------------------------------------------------
(* What each part of enter() has achieved once execution is past it. *)
PastWall == {"cpu", "rlimit", "descriptors", "parent", "kevent", "recheck", "thread", "platform", "program"}
PastCpu  == PastWall \ {"cpu"}
PastDescriptors == PastCpu \ {"rlimit", "descriptors"}

Timed ==
  /\ at \in PastWall => "alarm" \notin ignored /\ (wall > 0 \/ "alarm" \in signals)
  /\ at \in PastCpu => "prof" \notin ignored /\ (cpu > 0 \/ "prof" \in signals)

Enclosed ==
  /\ at \in PastDescriptors => ~ambient
  /\ at = "program" => confined /\ platform # "other"

OwnedLinux ==
  platform = "linux" =>
    /\ at \notin {"parent", "kevent", "recheck", "thread"}
    /\ at \notin {"prctl", "done"} => deathsig
    /\ at \notin {"prctl", "getppid", "done"} => supervisor = "alive" \/ "kill" \in signals

OwnedMacos ==
  platform = "macos" =>
    /\ at \notin {"prctl", "getppid"}
    /\ at \in {"kevent", "recheck", "thread", "platform", "program"} => known = "supervisor"
    /\ at = "recheck" => watched = "supervisor" \/ supervisor = "dead"
    /\ at \in {"thread", "platform", "program"} => watched = "supervisor"
    /\ at \in {"recheck", "thread", "platform", "program"} /\ watched = "supervisor"
         => supervisor = "alive" \/ event
    /\ at \in {"platform", "program"} => watcher

Guards == Timed /\ Enclosed /\ OwnedLinux /\ OwnedMacos

LEMMA GuardsStep == TypeOK /\ Guards /\ [Next]_vars => Guards'
<1> SUFFICES ASSUME TypeOK, Guards, [Next]_vars PROVE Guards' OBVIOUS
<1> USE DEF TypeOK, Guards, Timed, Enclosed, OwnedLinux, OwnedMacos, PastWall, PastCpu, PastDescriptors
<1>1. CASE DeathSignal BY <1>1 DEF DeathSignal
<1>2. CASE StillMine BY <1>2 DEF StillMine, SameParent, Parent
<1>3. CASE NotMine BY <1>3 DEF NotMine
<1>4. CASE ReadRequest BY <1>4 DEF ReadRequest
<1>5. CASE NoRequest BY <1>5 DEF NoRequest
<1>6. CASE WallTimer BY <1>6, TimersExact, LifetimeAssumption DEF WallTimer, Caught
<1>7. CASE CpuTimer BY <1>7, TimersExact, LifetimeAssumption DEF CpuTimer, Caught
<1>8. CASE Rlimit BY <1>8 DEF Rlimit
<1>9. CASE CloseAmbient BY <1>9 DEF CloseAmbient
<1>10. CASE Orphaned BY <1>10 DEF Orphaned, Parent
<1>11. CASE KnowParent BY <1>11 DEF KnowParent, Parent
<1>12. CASE Watch BY <1>12 DEF Watch, Parent
<1>13. CASE Recheck BY <1>13 DEF Recheck, Unadopted, Parent
<1>14. CASE SpawnWatcher BY <1>14 DEF SpawnWatcher
<1>15. CASE Confine BY <1>15 DEF Confine
<1>16. CASE Uncontained BY <1>16 DEF Uncontained
<1>17. CASE Fails BY <1>17 DEF Fails
<1>18. CASE Finish BY <1>18 DEF Finish
<1>19. CASE Watcher BY <1>19 DEF Watcher
<1>20. CASE Deliver BY <1>20 DEF Deliver
<1>21. CASE Send BY <1>21 DEF Send
<1>22. CASE Dies BY <1>22 DEF Dies
<1>23. CASE Tick BY <1>23, LifetimeAssumption DEF Tick, Less, Expiring, Clocks
<1>24. CASE Burn BY <1>24, LifetimeAssumption DEF Burn, Less, Expiring, Clocks
<1>25. CASE Over BY <1>25 DEF Over
<1>26. CASE UNCHANGED vars BY <1>26
<1> QED
  BY <1>1, <1>2, <1>3, <1>4, <1>5, <1>6, <1>7, <1>8, <1>9, <1>10, <1>11, <1>12, <1>13,
     <1>14, <1>15, <1>16, <1>17, <1>18, <1>19, <1>20, <1>21, <1>22, <1>23, <1>24, <1>25,
     <1>26 DEF Next, Startups

(* NeverUnguarded (supervisor.rs:43-54, isolation.rs:72-129, 136-196). *)
THEOREM ProgramsAreGuarded == Spec => []NeverUnguarded
<1>1. Init => TypeOK /\ Guards
  BY TypesInit DEF Init, Guards, Timed, Enclosed, OwnedLinux, OwnedMacos, PastWall, PastCpu, PastDescriptors
<1>2. TypeOK /\ Guards => NeverUnguarded
  BY DEF TypeOK, Guards, Timed, Enclosed, OwnedLinux, OwnedMacos, PastWall, PastCpu, PastDescriptors,
         NeverUnguarded, Doomed, Owned
<1> QED BY <1>1, <1>2, TypesStep, GuardsStep, PTL DEF Spec

-----------------------------------------------------------------------------
(* The CPU time burnt stays below RLIMIT_CPU until ITIMER_PROF has expired. *)
Burning ==
  /\ "rlimit" \in signals => "prof" \in blocked
  /\ at # "done" /\ rlimit = 0 => burnt <= Startup
  /\ at # "done" /\ rlimit # 0 => rlimit = CpuSeconds /\ at \in PastCpu
  /\ at \in PastCpu /\ "prof" \notin signals => burnt + cpu <= Startup + CpuMs
  /\ at = "cpu" => rlimit = 0

LEMMA BurningStep == TypeOK /\ Guards /\ Burning /\ [Next]_vars => Burning'
<1> SUFFICES ASSUME TypeOK, Guards, Burning, [Next]_vars PROVE Burning' OBVIOUS
<1> USE DEF TypeOK, Burning, PastCpu, PastWall
<1>1. CASE DeathSignal BY <1>1 DEF DeathSignal
<1>2. CASE StillMine BY <1>2 DEF StillMine
<1>3. CASE NotMine BY <1>3 DEF NotMine
<1>4. CASE ReadRequest BY <1>4 DEF ReadRequest
<1>5. CASE NoRequest BY <1>5 DEF NoRequest
<1>6. CASE WallTimer BY <1>6, TimersExact, LifetimeAssumption DEF WallTimer
<1>7. CASE CpuTimer BY <1>7, TimersExact, LifetimeAssumption DEF CpuTimer, Clocks
<1>8. CASE Rlimit BY <1>8, CpuSecondsAbove, LifetimeAssumption DEF Rlimit
<1>9. CASE CloseAmbient BY <1>9 DEF CloseAmbient
<1>10. CASE Orphaned BY <1>10 DEF Orphaned
<1>11. CASE KnowParent BY <1>11 DEF KnowParent
<1>12. CASE Watch BY <1>12 DEF Watch
<1>13. CASE Recheck BY <1>13 DEF Recheck
<1>14. CASE SpawnWatcher BY <1>14 DEF SpawnWatcher
<1>15. CASE Confine BY <1>15 DEF Confine
<1>16. CASE Uncontained BY <1>16 DEF Uncontained
<1>17. CASE Fails BY <1>17 DEF Fails
<1>18. CASE Finish BY <1>18 DEF Finish
<1>19. CASE Watcher BY <1>19 DEF Watcher
<1>20. CASE Deliver BY <1>20 DEF Deliver
<1>21. CASE Send BY <1>21 DEF Send
<1>22. CASE Dies BY <1>22 DEF Dies
<1>23. CASE Tick BY <1>23 DEF Tick, Expiring
<1>24. CASE Burn
  <2>1. burnt' = burnt + 1 /\ at' = at /\ rlimit' = rlimit /\ blocked' = blocked
    BY <1>24 DEF Burn
  <2>0. ("prof" \in signals => "prof" \in blocked) /\ signals \subseteq signals'
    BY <1>24 DEF Burn, Arriving
  <2>2. at \in PastCpu /\ "prof" \notin signals => cpu > 0 /\ "prof" \notin ignored
    BY <2>1 DEF Guards, Timed
  <2>3. at \in PastCpu /\ "prof" \notin signals => burnt' + cpu' <= Startup + CpuMs
    BY <1>24, <2>1, <2>2, LifetimeAssumption DEF Burn, Less, Clocks
  <2>4. at \in PastCpu /\ "prof" \notin signals => cpu' >= 0
    BY <1>24, <2>2 DEF Burn, Less, Clocks
  <2>5. rlimit # 0 /\ "prof" \notin signals => burnt' # rlimit * Second
    <3>1. rlimit # 0 => rlimit = CpuSeconds /\ at \in PastCpu
      BY <1>24 DEF Burn
    <3>2. rlimit # 0 /\ "prof" \notin signals => burnt' <= Startup + CpuMs
      BY <2>1, <2>3, <2>4, <3>1, <1>24, LifetimeAssumption DEF Burn, Less, Clocks
    <3>3. rlimit # 0 /\ "prof" \notin signals => burnt' < CpuSeconds * Second
      <4> DEFINE p == CpuSeconds * Second
      <4>1. p \in Nat BY CpuSecondsAbove, LifetimeAssumption
      <4>2. p > Startup + CpuMs BY CpuSecondsAbove
      <4>3. burnt' \in Nat BY <2>1 DEF Clocks
      <4> HIDE DEF p
      <4>4. rlimit # 0 /\ "prof" \notin signals => burnt' < p BY <3>2, <4>1, <4>2, <4>3, LifetimeAssumption
      <4> QED BY <4>4 DEF p
    <3> DEFINE q == CpuSeconds * Second
    <3>4. q \in Nat /\ burnt' \in Nat BY <2>1, CpuSecondsAbove, LifetimeAssumption DEF Clocks
    <3>5. rlimit # 0 /\ "prof" \notin signals => burnt' < q BY <3>3
    <3> HIDE DEF q
    <3>6. rlimit # 0 /\ "prof" \notin signals => burnt' # q BY <3>4, <3>5
    <3> QED BY <3>1, <3>6 DEF q
  <2>6. "rlimit" \in signals' => "prof" \in blocked'
    BY <1>24, <2>0, <2>1, <2>5 DEF Burn, Expiring
  <2>7. rlimit = 0 => burnt' <= Startup
    BY <1>24, <2>1, LifetimeAssumption DEF Burn, Clocks
  <2> QED BY <2>0, <2>1, <2>3, <2>6, <2>7
<1>25. CASE Over BY <1>25 DEF Over
<1>26. CASE UNCHANGED vars BY <1>26
<1> QED
  BY <1>1, <1>2, <1>3, <1>4, <1>5, <1>6, <1>7, <1>8, <1>9, <1>10, <1>11, <1>12, <1>13,
     <1>14, <1>15, <1>16, <1>17, <1>18, <1>19, <1>20, <1>21, <1>22, <1>23, <1>24, <1>25,
     <1>26 DEF Next, Startups

(* ProfFirst (isolation.rs:97-117). *)
THEOREM CpuLimitIsTold == Spec => []ProfFirst
<1>1. Init => TypeOK /\ Guards /\ Burning
  BY TypesInit, LifetimeAssumption DEF Init, Guards, Timed, Enclosed, OwnedLinux, OwnedMacos,
         PastWall, PastCpu, PastDescriptors, Burning
<1>2. Burning => ProfFirst BY DEF Burning, ProfFirst
<1> QED BY <1>1, <1>2, TypesStep, GuardsStep, BurningStep, PTL DEF Spec

-----------------------------------------------------------------------------
(* Seccomp. *)
USE SeccompAssumption DEF filterVars

(* What each instruction is. *)
LEMMA Extent == n \in Nat /\ DOMAIN filter = 1 .. 2 * n + 5
BY DEF n, filter

LEMMA FirstFour == /\ filter[1] = load(ArchAt) /\ filter[2] = jump(ARCH, 1, 0)
              /\ filter[3] = ret(KILL) /\ filter[4] = load(NumberAt)
BY Extent DEF filter, Prologue

LEMMA EachNumber ==
  ASSUME NEW i \in 1 .. n
  PROVE  filter[2 * i + 3] = jump(allow[i], 0, 1) /\ filter[2 * i + 4] = ret(ALLOW)
<1>1. (2 * i + 3) \in DOMAIN filter /\ (2 * i + 4) \in DOMAIN filter BY Extent
<1>2. (2 * i + 3) % 2 = 1 /\ ((2 * i + 3) - 3) \div 2 = i /\ (2 * i + 4) % 2 = 0
  OBVIOUS
<1>3. 2 * i + 3 > 4 /\ 2 * i + 3 # 2 * n + 5 /\ 2 * i + 4 # 2 * n + 5 BY Extent
<1> QED BY <1>1, <1>2, <1>3, Extent DEF filter, Test

LEMMA LastKills == filter[2 * n + 5].code = "ret" /\ filter[2 * n + 5].k = KILL
BY Extent DEF filter, ret

LEMMA EachField ==
  ASSUME NEW i \in 1 .. n
  PROVE  /\ filter[2 * i + 3].code = "jump" /\ filter[2 * i + 3].k = allow[i]
         /\ filter[2 * i + 3].jt = 0 /\ filter[2 * i + 3].jf = 1
         /\ filter[2 * i + 4].code = "ret" /\ filter[2 * i + 4].k = ALLOW
<1>1. filter[2 * i + 3] = [code |-> "jump", k |-> allow[i], jt |-> 0, jf |-> 1]
  BY EachNumber DEF jump
<1>2. filter[2 * i + 4] = [code |-> "ret", k |-> ALLOW, jt |-> 0, jf |-> 0]
  BY EachNumber DEF ret
<1> QED BY <1>1, <1>2

LEMMA Place ==
  ASSUME NEW k \in 5 .. 2 * n + 4
  PROVE  \E i \in 1 .. n : k = 2 * i + 3 \/ k = 2 * i + 4
<1>1. n \in Nat BY Extent
<1>2. CASE k % 2 = 1
  <2>1. (k - 3) \div 2 \in 1 .. n /\ k = 2 * ((k - 3) \div 2) + 3 BY <1>1, <1>2
  <2> QED BY <2>1
<1>3. CASE k % 2 = 0
  <2>1. (k - 4) \div 2 \in 1 .. n /\ k = 2 * ((k - 4) \div 2) + 4 BY <1>1, <1>3
  <2> QED BY <2>1
<1> QED BY <1>1, <1>2, <1>3

-----------------------------------------------------------------------------
(* Where execution stands tells what has been found out so far. *)
Knows ==
  /\ n \in Nat /\ pc \in 0 .. 2 * n + 5
  /\ nr \in Int /\ arch \in Foreign \cup {ARCH} /\ A \in Int /\ process \in {"runs", "killed"}
  /\ pc = 2 => A = arch
  /\ pc = 3 => arch # ARCH
  /\ pc >= 4 => arch = ARCH
  /\ pc >= 5 => A = nr
  /\ \A i \in 1 .. n : pc = 2 * i + 4 => allow[i] = nr
  /\ \A i \in 1 .. n : pc >= 2 * i + 5 => allow[i] # nr

LEMMA KnowsStep == Knows /\ [FilterNext]_filterVars => Knows'
<1> SUFFICES ASSUME Knows, [FilterNext]_filterVars PROVE Knows' OBVIOUS
<1> USE DEF Knows
<1>n. n' = n BY DEF n
<1>s. n \in Nat BY Extent
<1>1. CASE SystemCall
  BY <1>1, <1>n, <1>s DEF SystemCall
<1>2. CASE Load
  <2>1. pc \in {1, 4}
    <3>1. pc \in 1 .. 2 * n + 5 /\ filter[pc].code = "load" BY <1>2, Extent DEF Load, This
    <3>2. CASE pc \in {2, 3} BY <3>1, <3>2, FirstFour DEF jump, ret
    <3>3. CASE pc \in 5 .. 2 * n + 4
      <4>1. PICK i \in 1 .. n : pc = 2 * i + 3 \/ pc = 2 * i + 4 BY <3>3, Place
      <4>2. filter[2 * i + 3].code = "jump" /\ filter[2 * i + 4].code = "ret" BY EachField
      <4> QED BY <3>1, <4>1, <4>2
    <3>4. CASE pc = 2 * n + 5 BY <3>1, <3>4, LastKills
    <3> QED BY <3>1, <3>2, <3>3, <3>4, <1>s
  <2>2. filter[1].k = ArchAt /\ filter[4].k = NumberAt BY FirstFour DEF load
  <2> QED BY <1>2, <1>n, <1>s, <2>1, <2>2 DEF Load, ArchAt, NumberAt
<1>3. CASE Jump
  <2>0. pc \in 1 .. 2 * n + 5 /\ filter[pc].code = "jump" BY <1>3, Extent DEF Jump, This
  <2>1. CASE pc = 2
    <3>1. filter[2].k = ARCH /\ filter[2].jt = 1 /\ filter[2].jf = 0 BY FirstFour DEF jump
    <3>2. pc' = IF arch = ARCH THEN 4 ELSE 3 BY <1>3, <2>1, <3>1 DEF Jump
    <3> QED BY <1>3, <1>n, <1>s, <2>1, <3>2, SMTT(20) DEF Jump
  <2>2. CASE pc \in 5 .. 2 * n + 4
    <3>1. PICK i \in 1 .. n : pc = 2 * i + 3 \/ pc = 2 * i + 4 BY <2>2, Place
    <3>a. filter[2 * i + 4].code = "ret" BY EachField
    <3>2. pc = 2 * i + 3 BY <2>0, <3>1, <3>a
    <3>3. filter[pc].k = allow[i] /\ filter[pc].jt = 0 /\ filter[pc].jf = 1 BY <3>2, EachField
    <3>4. pc' = IF nr = allow[i] THEN 2 * i + 4 ELSE 2 * i + 5
      BY <1>3, <1>s, <3>2, <3>3 DEF Jump
    <3>5. UNCHANGED <<nr, arch, A, process>> BY <1>3 DEF Jump
    <3>6. \A j \in 1 .. n : pc' = 2 * j + 4 => allow[j] = nr
      BY <1>s, <3>4
    <3>7. \A j \in 1 .. n : pc' >= 2 * j + 5 => allow[j] # nr
      BY <1>s, <3>2, <3>4
    <3> QED BY <1>n, <1>s, <3>2, <3>4, <3>5, <3>6, <3>7
  <2>3. CASE pc \in {1, 3, 4} BY <2>0, <2>3, FirstFour DEF load, ret
  <2>4. CASE pc = 2 * n + 5 BY <2>0, <2>4, LastKills
  <2>5. pc = 2 \/ pc \in 5 .. 2 * n + 4 \/ pc \in {1, 3, 4} \/ pc = 2 * n + 5
    <3> HIDE DEF Knows
    <3> QED BY <1>s, <2>0
  <2> HIDE DEF Knows
  <2> QED BY <2>1, <2>2, <2>3, <2>4, <2>5
<1>4. CASE Permit \/ Kill
  BY <1>4, <1>n, <1>s DEF Permit, Kill
<1>5. CASE Killed \/ UNCHANGED filterVars
  BY <1>5, <1>n DEF Killed
<1> QED BY <1>1, <1>2, <1>3, <1>4, <1>5 DEF FilterNext

LEMMA PermitExact == Knows /\ Permit => arch = ARCH /\ Listed
<1> SUFFICES ASSUME Knows, Permit PROVE arch = ARCH /\ Listed OBVIOUS
<1>s. n \in Nat BY Extent
<1>1. pc \in 1 .. 2 * n + 5 /\ filter[pc].code = "ret" /\ filter[pc].k = ALLOW
  BY Extent DEF Permit, This
<1>2. pc \notin {1, 2, 3, 4} BY <1>1, FirstFour DEF load, jump, ret, KILL, ALLOW
<1>3. pc # 2 * n + 5 BY <1>1, LastKills DEF KILL, ALLOW
<1>a. pc \in 5 .. 2 * n + 4 BY <1>1, <1>2, <1>3, <1>s
<1>4. PICK i \in 1 .. n : pc = 2 * i + 3 \/ pc = 2 * i + 4 BY <1>a, Place
<1>b. filter[2 * i + 3].code = "jump" BY EachField
<1>5. pc = 2 * i + 4 BY <1>1, <1>4, <1>b
<1>6. allow[i] = nr BY <1>5 DEF Knows
<1>7. arch = ARCH BY <1>a, <1>s DEF Knows
<1> QED BY <1>6, <1>7 DEF Listed

LEMMA KillExact == Knows /\ Kill => ~(arch = ARCH /\ Listed)
<1> SUFFICES ASSUME Knows, Kill PROVE ~(arch = ARCH /\ Listed) OBVIOUS
<1>s. n \in Nat BY Extent
<1>1. pc \in 1 .. 2 * n + 5 /\ filter[pc].code = "ret" /\ filter[pc].k = KILL
  BY Extent DEF Kill, This
<1>2. pc \notin {1, 2, 4} BY <1>1, FirstFour DEF load, jump
<1>3. CASE pc = 3 BY <1>3, <1>s DEF Knows
<1>4. CASE pc \in 5 .. 2 * n + 4
  <2>1. PICK i \in 1 .. n : pc = 2 * i + 3 \/ pc = 2 * i + 4 BY <1>4, Place
  <2>2. filter[2 * i + 3].code = "jump" /\ filter[2 * i + 4].k = ALLOW BY EachField
  <2> QED BY <1>1, <2>1, <2>2 DEF KILL, ALLOW
<1>5. CASE pc = 2 * n + 5
  <2>1. \A i \in 1 .. n : pc >= 2 * i + 5 BY <1>5, <1>s
  <2> QED BY <2>1 DEF Knows, Listed
<1>6. pc = 3 \/ pc \in 5 .. 2 * n + 4 \/ pc = 2 * n + 5
  <2>1. pc \in 1 .. 2 * n + 5 BY <1>1
  <2>2. pc # 1 /\ pc # 2 /\ pc # 4 BY <1>2
  <2> QED BY <2>1, <2>2, <1>s
<1> QED BY <1>3, <1>4, <1>5, <1>6

(* GateExact: isolation.rs:344-354 allows exactly its list, for any list. *)
THEOREM TheGateIsExact == FilterSpec => GateExact
<1>1. FilterInit => Knows BY Extent DEF FilterInit, Knows
<1> QED BY <1>1, KnowsStep, PermitExact, KillExact, PTL DEF FilterSpec, GateExact

(* The interpreter never leaves the filter: every jump of isolation.rs:351 lands on
   an instruction, for any list. *)
THEOREM GateTypes == FilterSpec => []FilterTypes
<1>1. FilterInit => Knows BY Extent DEF FilterInit, Knows
<1>2. Knows => FilterTypes BY Extent DEF Knows, FilterTypes, filter
<1> QED BY <1>1, <1>2, KnowsStep, PTL DEF FilterSpec

-----------------------------------------------------------------------------
(* Probe.  What is known at each stage: an executable that was asked for exists,
   the platform has a policy, and the answer awaiting its verdict is one that the
   policy, or its absence, gives. *)
Answered == IF enforced THEN P!Contained \ {"SIGSYS"} ELSE P!Free

Probed ==
  /\ stage \in {"qualify", "enter", "attempt"} => response = "none" /\ exit = "none"
  /\ stage \in {"enter", "attempt", "judge"} => ~P!Missing
  /\ asked \in {"linux", "macos", "other"} /\ (stage \in {"attempt", "judge"} => asked # "other")
  /\ stage = "judge" => capability \in P!Known /\ exit = "none" /\ response \in Answered
  /\ P!ProbeTells

LEMMA ProbedStep == Probed /\ [P!Next]_(P!vars) => Probed'
<1> SUFFICES ASSUME Probed, [P!Next]_(P!vars) PROVE Probed' OBVIOUS
<1> USE DEF Probed, Answered, P!ProbeTells, P!ProbeSound, P!ProbeComplete, P!Missing, P!Exit, P!Given
<1>0. UNCHANGED <<asked, capability, executable, enforced>> BY DEF P!Next, P!vars
<1>1. CASE P!Unqualified BY <1>0, <1>1 DEF P!Unqualified
<1>2. CASE P!Qualified BY <1>0, <1>2 DEF P!Qualified
<1>3. CASE P!Entered \/ P!EnterFails BY <1>0, <1>3 DEF P!Entered, P!EnterFails
<1>4. CASE P!Attempt
  <2>1. CASE response' = "SIGSYS"
    <3>1. stage' = "exit" /\ exit' = "SIGSYS" BY <1>4, <2>1 DEF P!Attempt
    <3> QED BY <1>0, <2>1, <3>1
  <2>2. CASE response' # "SIGSYS"
    <3>1. stage = "attempt" /\ stage' = "judge" /\ UNCHANGED exit BY <1>4, <2>2 DEF P!Attempt
    <3>2. response' \in Answered' /\ capability' \in P!Known
      BY <1>0, <1>4, <2>2 DEF P!Attempt, P!Contained, P!Free, P!Known
    <3> QED BY <1>0, <3>1, <3>2 DEF P!Known
  <2> QED BY <2>1, <2>2
<1>5. CASE P!Unknown BY <1>0, <1>5 DEF P!Unknown
<1>6. CASE P!Judge
  <2>1. stage = "judge" /\ stage' = "exit" /\ response' = response
    BY <1>6 DEF P!Judge
  <2>2. exit' = IF P!Denied THEN "0" ELSE "1" BY <1>6 DEF P!Judge
  <2>3. capability \in P!Known /\ response \in Answered /\ ~P!Missing BY <2>1
  <2>4. P!Denied => response \notin {"none", "done"} /\ (response = "ENOENT" => executable)
    BY <2>3 DEF P!Denied, P!Process, P!PermissionDenied
  <2>5. enforced => P!Denied
    <3>1. asked \in {"linux", "macos"} BY <2>1
    <3>2. enforced => response \in P!Contained \ {"SIGSYS"} BY <2>3
    <3> HIDE DEF Probed, Answered, P!Missing
    <3>3. CASE asked = "linux" BY <3>2, <3>3 DEF P!Contained
    <3>4. CASE asked = "macos"
      <4>1. enforced => \/ response = "EPERM"
                        \/ capability = "process" /\ response \in {"ENOENT", "failure"}
        BY <3>2, <3>4 DEF P!Contained
      <4> QED BY <3>4, <4>1 DEF P!Denied, P!Process, P!PermissionDenied
    <3> QED BY <3>1, <3>3, <3>4
  <2> QED BY <1>0, <2>1, <2>2, <2>4, <2>5
<1>7. CASE P!Over \/ UNCHANGED P!vars
  <2>1. UNCHANGED <<stage, response, exit>> BY <1>7 DEF P!Over, P!vars
  <2>2. Answered' = Answered BY <1>0 DEF P!Contained, P!Free
  <2> QED BY <1>0, <2>1, <2>2
<1> QED BY <1>1, <1>2, <1>3, <1>4, <1>5, <1>6, <1>7 DEF P!Next

(* ProbeTells (isolation.rs:9-67, main.rs:17-26), whatever can be asked for. *)
THEOREM TheProbeIsTrue == P!Spec => []ProbeTells
<1>1. P!Init => Probed
  BY DEF P!Init, Probed, P!ProbeTells, P!ProbeSound, P!ProbeComplete, P!Missing
<1>2. Probed => ProbeTells BY DEF Probed, ProbeTells
<1> QED BY <1>1, <1>2, ProbedStep, PTL DEF P!Spec

-----------------------------------------------------------------------------
(* The three side by side, as they are checked: each keeps what it keeps alone. *)
Strengthened == TypeOK /\ Guards /\ Burning /\ Knows /\ Probed

LEMMA IdlePartsHold == /\ NoGuest => TypeOK /\ Guards /\ Burning
                       /\ NoFilter => Knows
                       /\ NoProbe => Probed
<1>0. NoGuest => Clocks BY LifetimeAssumption DEF NoGuest, Clocks
<1>1. NoGuest => TypeOK BY <1>0 DEF NoGuest, TypeOK
<1>2. NoGuest => Guards /\ Burning
  BY DEF NoGuest, Guards, Timed, Enclosed, OwnedLinux, OwnedMacos, PastWall, PastCpu,
         PastDescriptors, Burning
<1>3. NoFilter => Knows BY Extent DEF NoFilter, Knows
<1>4. NoProbe => Probed BY DEF NoProbe, Probed, P!ProbeTells, P!ProbeSound, P!ProbeComplete
<1> QED BY <1>1, <1>2, <1>3, <1>4

LEMMA PartsStart == IsolationInit => Strengthened
<1>1. Init => TypeOK /\ Guards /\ Burning
  BY TypesInit, LifetimeAssumption DEF Init, Guards, Timed, Enclosed, OwnedLinux, OwnedMacos,
         PastWall, PastCpu, PastDescriptors, Burning
<1>2. FilterInit => Knows BY Extent DEF FilterInit, Knows
<1>3. P!Init => Probed
  BY DEF P!Init, Probed, P!ProbeTells, P!ProbeSound, P!ProbeComplete, P!Missing
<1> QED BY <1>1, <1>2, <1>3, IdlePartsHold DEF IsolationInit, Strengthened

LEMMA PartsStep ==
  ASSUME [IsolationNext]_<<vars, filterVars, probe>>
  PROVE  [Next]_vars /\ [FilterNext]_filterVars /\ [P!Next]_(P!vars)
<1> USE DEF probe, P!vars
<1>1. CASE Next /\ UNCHANGED <<filterVars, probe>> BY <1>1
<1>2. CASE FilterNext /\ UNCHANGED <<vars, probe>> BY <1>2
<1>3. CASE P!Next /\ UNCHANGED <<vars, filterVars>> BY <1>3
<1>4. CASE UNCHANGED <<vars, filterVars, probe>> BY <1>4
<1> QED BY <1>1, <1>2, <1>3, <1>4 DEF IsolationNext

(* Every invariant that is checked of isolation.rs, and the gate's exactness, of the
   specification that is checked. *)
THEOREM IsolationHolds ==
  IsolationSpec => [](TypeOK /\ NeverUnguarded /\ ProfFirst /\ ProbeTells) /\ GateExact
<1>1. Strengthened /\ [IsolationNext]_<<vars, filterVars, probe>> => Strengthened'
  BY PartsStep, TypesStep, GuardsStep, BurningStep, KnowsStep, ProbedStep DEF Strengthened
<1>2. Strengthened => TypeOK /\ NeverUnguarded /\ ProfFirst /\ ProbeTells
  <2>1. TypeOK /\ Guards => NeverUnguarded
    BY DEF TypeOK, Guards, Timed, Enclosed, OwnedLinux, OwnedMacos, PastWall, PastCpu,
           PastDescriptors, NeverUnguarded, Doomed, Owned
  <2> QED BY <2>1 DEF Strengthened, Burning, ProfFirst, Probed, ProbeTells
<1>3. Strengthened /\ [IsolationNext]_<<vars, filterVars, probe>>
        => [ /\ Permit => arch = ARCH /\ Listed
             /\ Kill   => ~(arch = ARCH /\ Listed) ]_filterVars
  BY PermitExact, KillExact DEF Strengthened
<1> QED BY <1>1, <1>2, <1>3, PartsStart, PTL DEF IsolationSpec, GateExact
=============================================================================
