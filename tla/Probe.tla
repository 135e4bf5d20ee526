-------------------------------- MODULE Probe --------------------------------
(***************************************************************************)
(* ruby-engine --isolation-probe=<capability>: an operator's test of the     *)
(* containment itself (isolation.rs, probe; main.rs).  It enters the policy, *)
(* tries one forbidden operation, and exits 0 when that was denied.  The     *)
(* policy may or may not hold, and an operation may fail for other reasons.  *)
(***************************************************************************)
EXTENDS Naturals

CONSTANT Capabilities   \* what may be asked for

VARIABLES
  platform, capability,
  executable,  \* /usr/bin/true is a file
  enforced,    \* the policy denies what it should
  at,
  response,    \* what the operation came to
  exit         \* "none", 0, 1 or "SIGSYS"

vars == <<platform, capability, executable, enforced, at, response, exit>>

Known == {"file", "network", "process"}

Init ==
  /\ platform \in {"linux", "macos", "other"} /\ capability \in Capabilities
  /\ executable \in BOOLEAN /\ enforced \in BOOLEAN
  /\ at = "qualify" /\ response = "none" /\ exit = "none"

Given == UNCHANGED <<platform, capability, executable, enforced>>
Exit(code) == at' = "exit" /\ exit' = code

Missing == capability = "process" /\ ~executable

Unqualified == at = "qualify" /\ Missing /\ Exit("1") /\ UNCHANGED response
Qualified == at = "qualify" /\ ~Missing /\ at' = "enter" /\ UNCHANGED <<response, exit>>

Entered == at = "enter" /\ platform # "other" /\ at' = "attempt" /\ UNCHANGED <<response, exit>>
EnterFails == at = "enter" /\ Exit("1") /\ UNCHANGED response

(* The kernel: the filter on Linux kills, Seatbelt answers.  Without a policy
   the operation is done, or fails as operations do.                         *)
Contained == IF platform = "linux" THEN {"SIGSYS"}
             ELSE IF capability = "process" THEN {"EPERM", "ENOENT", "failure"} ELSE {"EPERM"}
Free == CASE capability = "file"    -> {"done", "EACCES", "ENOENT"}
          [] capability = "network" -> {"done", "ECONNREFUSED"}
          [] capability = "process" -> IF executable THEN {"done", "EAGAIN"} ELSE {"ENOENT"}

Attempt ==
  /\ at = "attempt" /\ capability \in Known
  /\ response' \in IF enforced THEN Contained ELSE Free
  /\ IF response' = "SIGSYS" THEN Exit("SIGSYS") ELSE at' = "judge" /\ UNCHANGED exit

Unknown == at = "attempt" /\ capability \notin Known /\ Exit("1") /\ UNCHANGED response

(* io::ErrorKind *)
PermissionDenied == response \in {"EPERM", "EACCES"}

Process_Plain == response = "failure" \/ PermissionDenied
Process == \/ response = "failure"
           \/ PermissionDenied
           \/ platform = "macos" /\ response = "ENOENT"

Denied == IF capability = "process" THEN Process ELSE PermissionDenied

Judge == at = "judge" /\ Exit(IF Denied THEN "0" ELSE "1") /\ UNCHANGED response
Over == at = "exit" /\ UNCHANGED <<at, response, exit>>

Next == (Unqualified \/ Qualified \/ Entered \/ EnterFails \/ Attempt \/ Unknown \/ Judge \/ Over) /\ Given
Spec == Init /\ [][Next]_vars

-----------------------------------------------------------------------------
(* Success is never reported of an operation that was carried out or never tried, nor of an
   executable that was not there to be denied (isolation.rs:9-16, 30-66).    *)
ProbeSound == exit = "0" => response \notin {"none", "done"} /\ (response = "ENOENT" => executable)

(* A policy that holds passes its probe, by a verdict or by the filter's signal
   (tests/execution.rs:16-19).                                               *)
ProbeComplete ==
  at = "exit" /\ enforced /\ response # "none" => exit \in {"0", "SIGSYS"}

(* An operator may believe the probe (isolation.rs:9-67, main.rs:17-26). *)
ProbeTells == ProbeSound /\ ProbeComplete
=============================================================================
