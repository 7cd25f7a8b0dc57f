---------------------------- MODULE StatusReport ----------------------------
(***************************************************************************)
(* What stop and status tell about the containers of a Space               *)
(* (src/space/status.rs, lifecycle.rs): each lists what exists, observes     *)
(* the static components and the Assistants in two inspections, and judges   *)
(* them against a requested stop.  Docker, Team and the person change what   *)
(* runs meanwhile.                                                          *)
(***************************************************************************)
EXTENDS Naturals, FiniteSets

CONSTANTS
  Apps,       \* the Assistants
  MaxChanges  \* bound: changes by others

ASSUME ReportAssumption ==
  /\ MaxChanges \in Nat
  /\ Apps \cap {"brain", "team", "init"} = {}

VARIABLES
  space,  \* the installed Space
  report  \* the command, and what was told last

reportVars == <<space, report>>

(* The init component is the one-shot Account setup, whose exit code counts. *)
(* healthy is the one health that is no problem of a service; restarting    *)
(* stands for paused as well.                                              *)
Serving    == {"brain", "team"}
Static     == Serving \cup {"init"}
Components == Static \cup Apps

Health  == {"healthy", "unhealthy"}
Runtime == Health \cup { "missing", "created", "restarting", "removing",
                         "exited0", "exited", "dead" }
Exited  == {"exited0", "exited"}

NoReport ==
  [ kind |-> "none", pc |-> "idle", listed |-> {}, seen |-> <<>>, apart |-> {},
    round |-> 0, said |-> "none", next |-> "none", quiet |-> TRUE, advised |-> "none" ]

ReportTypeOK ==
  /\ space.at \in [Components -> Runtime] /\ space.detached \subseteq Serving
  /\ {space.stop, space.current, space.marked} \subseteq BOOLEAN
  /\ space.changes \in 0 .. MaxChanges
  /\ report.kind \in {"none", "status", "stop", "install"}
  /\ report.pc \in {"idle", "record", "list", "stopTeam", "stopRest", "static", "apps", "attach",
                    "render"}
  /\ report.listed \subseteq Components /\ DOMAIN report.seen \subseteq Components
  /\ report.said \in {"none", "absent", "busy", "failed", "stopped", "healthy", "attention"}
  /\ report.next \in {"none", "start", "stop", "install"}

(* Running or at rest but for one component.  The attachment and the graph *)
(* count only where nothing rests.                                         *)
Rested(c) == IF c = "init" THEN "exited0" ELSE "exited"
InOrder(c) == CASE c = "init" -> "exited0" [] c \in Apps -> "unhealthy" [] OTHER -> "healthy"

ReportInit ==
  /\ \E rest, stop, current, marked \in BOOLEAN, odd \in Components, detached \in SUBSET {"brain"} :
       \E r \in Runtime :
         /\ rest \/ stop \/ ~marked => current /\ detached = {}
         /\ stop => marked
         /\ space = [ at |-> [ c \in Components |->
                        IF c = odd THEN r ELSE IF rest THEN Rested(c) ELSE InOrder(c) ],
                      detached |-> detached, stop |-> stop, current |-> current,
                      marked |-> marked, changes |-> 0 ]
  /\ report = NoReport

-----------------------------------------------------------------------------
(* How a command goes on and ends.                                         *)

Present == {c \in Components : space.at[c] # "missing"}

ReportAt(pc) == report' = [report EXCEPT !.pc = pc]

Tells(said, next) ==
  report' = [NoReport EXCEPT !.kind = report.kind, !.said = said, !.next = next,
               !.quiet = report.quiet, !.advised = report.advised]

(* What is told is what the person acts on, unless something changed since. *)
Begins(kind, pc) ==
  report' = [NoReport EXCEPT !.kind = kind, !.pc = pc, !.round = 1,
               !.advised = IF report.quiet THEN report.next ELSE "none"]

Status ==
  /\ report.pc = "idle"
  /\ \/ report' = [NoReport EXCEPT !.kind = "status", !.said =
                      IF space.marked THEN "busy" ELSE "absent"]
     \/ space.marked /\ Begins("status", "list")
  /\ UNCHANGED space

Stop ==
  /\ report.pc = "idle" /\ space.marked
  /\ Begins("stop", "list")
  /\ UNCHANGED space

(* stop_absent: without a marker what is left is only told.                *)
StopAbsent ==
  /\ report.pc = "idle" /\ ~space.marked
  /\ report' = [NoReport EXCEPT !.kind = "stop",
                  !.said = IF Present = {} THEN "absent" ELSE "failed"]
  /\ UNCHANGED space

(* Inventory::inspect.  What it lists is stopped, under a recorded stop.    *)
List ==
  /\ report.pc = "list"
  /\ report' = [report EXCEPT !.listed = Present,
       !.pc = IF report.kind = "stop" /\ report.round = 1 THEN "record" ELSE "static"]
  /\ UNCHANGED space

WriteStopped ==
  /\ report.pc = "record"
  /\ space' = [space EXCEPT !.stop = TRUE]
  /\ ReportAt("stopTeam")

(* docker stop rests what runs and leaves everything else as it is.  What   *)
(* is gone fails it when the others are stopped.                           *)
StoppedOf(cs, code) ==
  [c \in Components |->
     IF c \notin cs \/ space.at[c] \notin Health \cup {"restarting"} THEN space.at[c]
     ELSE IF c = "init" THEN code ELSE "exited"]

StopListed(pc, cs, then) ==
  /\ report.pc = pc
  /\ \E code \in Exited : space' = [space EXCEPT !.at = StoppedOf(cs, code)]
  /\ IF cs \subseteq Present
       THEN report' = [report EXCEPT !.pc = then, !.round = 2]
       ELSE Tells("failed", "none")

StopTeamFirst == StopListed("stopTeam", report.listed \cap {"team"}, "stopRest")
StopOthers    == StopListed("stopRest", report.listed \ {"team"}, "list")

(* runtime_snapshot.  A listed container that is gone fails the inspection; *)
(* a static component that was not listed is missing.                      *)
Observes(pc, cs, then) ==
  /\ report.pc = pc
  /\ IF report.listed \cap cs \subseteq Present
       THEN report' = [report EXCEPT !.pc = then,
              !.seen = [ c \in DOMAIN report.seen \cup cs |->
                 IF c \notin cs THEN report.seen[c]
                 ELSE IF c \in report.listed THEN space.at[c] ELSE "missing" ]]
       ELSE Tells("failed", "none")
  /\ UNCHANGED space

ObserveStatic == Observes("static", Static, "apps")
ObserveApps   ==
  Observes("apps", Apps \cap report.listed, IF report.kind = "stop" THEN "render" ELSE "attach")

(* detached_services: what runs and is not attached as it is declared.     *)
ObserveAttachment ==
  /\ report.pc = "attach"
  /\ report' = [report EXCEPT !.pc = "render",
       !.apart = {c \in space.detached : space.at[c] \in Health}]
  /\ UNCHANGED space

-----------------------------------------------------------------------------
(* status.rs. *)

SeenApps == DOMAIN report.seen \cap Apps

static_stopped ==
  /\ report.seen["init"] = "exited0"
  /\ \A c \in Serving : report.seen[c] \in Exited

fully_stopped_seen == static_stopped /\ \A a \in SeenApps : report.seen[a] \in Exited

(* Mutant: a service that is missing is only stopped again.                *)
ReconcilesDead ==
  \/ \E c \in Serving \cup SeenApps : report.seen[c] = "dead"
  \/ report.seen["init"] # "exited0"

stop_requires_reconciliation ==
  \/ \E c \in Serving : report.seen[c] \in {"missing", "dead"}
  \/ report.seen["init"] # "exited0"
  \/ \E a \in SeenApps : report.seen[a] = "dead"

ServiceProblem(c) == report.seen[c] # "healthy" \/ c \in report.apart
Problems ==
  \/ ~space.current
  \/ \E c \in Serving : ServiceProblem(c)
  \/ report.seen["init"] # "exited0"
  \/ \E a \in SeenApps : report.seen[a] \notin Health

(* render, and incomplete_stop_error of a stop.                            *)
Render ==
  /\ report.pc = "render"
  /\ IF space.stop
       THEN IF fully_stopped_seen THEN Tells("stopped", "start")
            ELSE Tells("attention", IF stop_requires_reconciliation THEN "install" ELSE "stop")
       ELSE IF Problems THEN Tells("attention", "start") ELSE Tells("healthy", "none")
  /\ UNCHANGED space

(* A Docker call fails.                                                    *)
ObservationFails ==
  /\ report.pc \notin {"idle", "render"}
  /\ report' = [NoReport EXCEPT !.kind = report.kind, !.said = "failed", !.quiet = FALSE]
  /\ UNCHANGED space

-----------------------------------------------------------------------------
(* Others. *)

(* External: install as told, which recreates the members and lets Team     *)
(* replace an Assistant; a stop follows.                                   *)
Reconcile ==
  /\ report.pc = "idle" /\ report.next = "install" /\ report.quiet
  /\ space' = [space EXCEPT !.at = [c \in Components |->
                                      IF c \in Apps /\ @[c] = "missing" THEN @[c] ELSE InOrder(c)],
                            !.detached = {}, !.current = TRUE, !.stop = FALSE]
  /\ report' = [report EXCEPT !.kind = "install", !.next = "stop"]

(* What Docker, Team and the person make of a container.                   *)
Becomes(r) ==
  CASE r = "missing" -> {"unhealthy", "created"}
    [] r = "created" -> {"unhealthy", "missing"}
    [] r \in Health -> (Health \ {r}) \cup {"exited", "restarting", "dead"}
    [] r = "restarting" -> {"unhealthy", "exited"}
    [] r = "removing" -> {"missing", "dead"}
    [] r \in Exited -> {"unhealthy", "removing"}
    [] r = "dead" -> {"missing"}

Changes1(c, r) ==
  /\ space.changes < MaxChanges /\ r \in Becomes(space.at[c])
  /\ space' = [space EXCEPT !.at[c] = r, !.changes = @ + 1]
  /\ report' = [report EXCEPT !.quiet = FALSE]

ReportNext ==
  \/ Status \/ Stop \/ StopAbsent \/ WriteStopped \/ List
  \/ StopTeamFirst \/ StopOthers
  \/ ObserveStatic \/ ObserveApps \/ ObserveAttachment
  \/ Render \/ ObservationFails \/ Reconcile
  \/ \E c \in Components, r \in Runtime : Changes1(c, r)

-----------------------------------------------------------------------------
(* Properties.                                                             *)

(* A service or an Assistant that was created and never started.           *)
NeverStarted == {c \in Serving \cup Apps : space.at[c] = "created"}

(* What the advice to stop again must come to.                             *)
Removing == \E c \in Components : space.at[c] = "removing"
Restopped == report.kind = "stop" /\ report.advised = "stop"

(* While nobody else changes anything, what is told is true of the Space    *)
(* when it is told: stopped only over a recorded stop with nothing running,  *)
(* healthy only when all of it runs as declared.  What a stop or status     *)
(* says to run next completes the stop, with two exceptions: Docker may     *)
(* still be removing a container; and docker stop leaves alone what was     *)
(* created and never started, which a stop neither takes for stopped nor    *)
(* for a reason to install, so it gives the same advice once more           *)
(* (fully_stopped, render, incomplete_stop_error,                          *)
(* stop_requires_reconciliation).                                          *)
ReportsHelp ==
  report.pc = "idle" /\ report.quiet =>
    /\ report.said = "stopped" =>
         /\ space.stop
         /\ \A c \in Present : space.at[c] \in Exited
    /\ report.said = "healthy" =>
         /\ space.current /\ ~space.stop
         /\ \A c \in Serving : space.at[c] = "healthy" /\ c \notin space.detached
         /\ \A a \in Apps \cap Present : space.at[a] \in Health
    /\ Restopped =>
         \/ report.said = "stopped" \/ Removing
         \/ NeverStarted # {} /\ report.said = "attention" /\ report.next = "stop"
=============================================================================
