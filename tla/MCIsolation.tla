----------------------------- MODULE MCIsolation -----------------------------
(***************************************************************************)
(* The parts of isolation.rs side by side: the life of a guest process, the  *)
(* filter at its system calls, the operator's probe.  They share nothing, so *)
(* one of them is started and the others stand at their end.                 *)
(*                                                                         *)
(* Five numbers in the filter, one listed twice, against the listed ones,    *)
(* their neighbours, and the architecture's own value.                       *)
(***************************************************************************)
EXTENDS Lifetime, Seccomp

CONSTANT Capabilities

VARIABLES asked, capability, executable, enforced, stage, response, exit

probe == <<asked, capability, executable, enforced, stage, response, exit>>

P == INSTANCE Probe WITH platform <- asked, at <- stage

MCAllow == <<0, 3, 7, 3, 1>>
MCNumbers == {0, 1, 2, 3, 4, 7, 8, 62}

-----------------------------------------------------------------------------
NoGuest ==
  /\ platform = "other" /\ blocked = {} /\ supervisor = "dead" /\ sent = FALSE /\ at = "done" /\ ended = "error"
  /\ deathsig = FALSE /\ known = "none" /\ watched = "none" /\ watcher = FALSE /\ event = FALSE
  /\ ignored = {} /\ wall = 0 /\ cpu = 0 /\ rlimit = 0 /\ burnt = 0
  /\ ambient = FALSE /\ confined = FALSE /\ signals = {}

NoFilter == nr = 0 /\ arch = ARCH /\ pc = 0 /\ A = 0 /\ process = "killed"

NoProbe == /\ asked = "other" /\ capability = "file" /\ executable = FALSE /\ enforced = FALSE
           /\ stage = "exit" /\ response = "none" /\ exit = "1"

IsolationInit == \/ Init /\ NoFilter /\ NoProbe
                 \/ NoGuest /\ FilterInit /\ NoProbe
                 \/ NoGuest /\ NoFilter /\ P!Init

IsolationNext == \/ Next /\ UNCHANGED <<filterVars, probe>>
                 \/ FilterNext /\ UNCHANGED <<vars, probe>>
                 \/ P!Next /\ UNCHANGED <<vars, filterVars>>

IsolationSpec == IsolationInit /\ [][IsolationNext]_<<vars, filterVars, probe>> /\ Scheduled

-----------------------------------------------------------------------------
(* The probe's verdict means what an operator takes it to mean: see Probe
   (isolation.rs:9-67).                                                      *)
ProbeTells == P!ProbeTells
=============================================================================
