---------------------------- MODULE MemberStart ----------------------------
(***************************************************************************)
(* How the members of a Space are brought up (src/space/lifecycle.rs,      *)
(* docker.rs, members.rs, attachment.rs): a candidate is downloaded and    *)
(* admitted beside its probes, what it replaces is removed beside the look  *)
(* at the initializer, Compose starts it, and what runs is judged.  The    *)
(* reset (reset.rs, admin.rs) starts an installed Space to ask its Admin.   *)
(*                                                                         *)
(* Docker detaches a member whose published port is taken when it starts:   *)
(* the start fails, and a later one runs it detached and reports success.  *)
(***************************************************************************)
EXTENDS Naturals, FiniteSets

CONSTANT Changes   \* the sets of images a new release may change

VARIABLES
  members,   \* the long-running containers
  ground,    \* the port, the installed files, the initializer, what images can
  start      \* the command

startVars == <<members, ground, start>>

(* In the order they depend on each other; admin publishes the port.       *)
Services == <<"egress", "team", "admin">>
Service  == {"egress", "team", "admin"}
Releases == {"old", "new"}

ImageOf(m, r) == IF r = "new" /\ m \in ground.changed THEN "new" ELSE "old"

(* The configuration hash of the initializer: its image is the egress.     *)
InitHash(r) ==
  IF r = "new" /\ (ground.initChanged \/ "egress" \in ground.changed)
    THEN "new" ELSE "old"

Member == [at : {"absent", "stopped", "running"}, attached : BOOLEAN, image : Releases]

NoStart ==
  [ kind |-> "none", pc |-> "idle", release |-> "old", end |-> "none",
    auth |-> "none", pulls |-> 0, socket |-> "none",
    init |-> "none", removal |-> "none",
    up |-> 0, recreate |-> {}, tries |-> 0 ]

StartKinds == {"apply", "reset", "recover"}

StartTypeOK ==
  /\ members \in [Service -> Member]
  /\ ground \in
       [ taken : BOOLEAN, live : Releases, changed : Changes,
         initChanged : BOOLEAN, reads : BOOLEAN, reaches : BOOLEAN,
         exited : Releases \cup {"none"}, capability : Releases \cup {"none", "broken"},
         projected : BOOLEAN ]
  /\ start.kind \in StartKinds \cup {"none"} /\ start.release \in Releases
  /\ start.pc \in {"idle", "pull", "admit", "replace", "init", "up", "judge",
                   "recreate", "prove", "session", "team", "admin", "attest",
                   "ask", "answer", "clear"}
  /\ start.end \in {"none", "started", "refused", "failed", "authorized", "unavailable"}
  /\ start.recreate \subseteq Service
  /\ start.up \in 0 .. 4 /\ start.pulls \in 0 .. 3 /\ start.tries \in 0 .. 2

StartInit ==
  /\ \E changed \in Changes, initChanged, reads, reaches \in BOOLEAN :
       /\ initChanged => "egress" \notin changed
       /\ reads \/ reaches
       /\ ground = [ taken |-> FALSE, live |-> "old", changed |-> changed,
                     initChanged |-> initChanged, reads |-> reads,
                     reaches |-> reaches, exited |-> "old",
                     capability |-> "old", projected |-> FALSE ]
  /\ members = [m \in Service |-> [at |-> "running", attached |-> TRUE, image |-> "old"]]
  /\ start = NoStart

----------------------------------------------------------------------------
(* The host.                                                               *)

(* Another process takes the port while Admin does not hold it, or gives it *)
(* back.                                                                   *)
PortChanges ==
  /\ ground.taken \/ members["admin"].at # "running" \/ ~members["admin"].attached
  /\ ground' = [ground EXCEPT !.taken = ~@]
  /\ UNCHANGED <<members, start>>

MemberStops(m) ==
  /\ members[m].at = "running"
  /\ members' = [members EXCEPT ![m].at = "stopped"]
  /\ UNCHANGED <<ground, start>>

CapabilityBreaks ==
  /\ start.pc = "idle"
  /\ ground' = [ground EXCEPT !.capability = "broken"]
  /\ start' = NoStart /\ UNCHANGED members

----------------------------------------------------------------------------
(* What Docker does with one member.                                       *)

Blocked(m) == m = "admin" /\ ground.taken

(* docker start, of a member whose container is there.                     *)
DockerStarted(m) ==
  IF members[m].at = "running" THEN members[m]
  ELSE IF Blocked(m) THEN [members[m] EXCEPT !.attached = FALSE]
  ELSE [members[m] EXCEPT !.at = "running"]

Created(m) ==
  [ at |-> IF Blocked(m) THEN "stopped" ELSE "running",
    attached |-> ~Blocked(m), image |-> ImageOf(m, ground.live) ]

(* compose up: a container that is missing or of another image is created.  *)
Upped(m) ==
  IF members[m].at = "absent" \/ members[m].image # ImageOf(m, ground.live)
    THEN Created(m) ELSE DockerStarted(m)

----------------------------------------------------------------------------
(* The command.                                                            *)

StartTo(c) == start' = c
Ended(how) == [NoStart EXCEPT !.end = how]

(* A failure before the files are replaced leaves everything; one after it *)
(* is rolled back to the installed release (SpaceLifecycle).               *)
StartFails ==
  /\ start.pc # "idle"
  /\ StartTo(Ended(IF start.pc \in {"pull", "admit"} THEN "refused" ELSE "failed"))
  /\ ground' = [ground EXCEPT !.live = IF start.kind = "apply" THEN "old" ELSE @]
  /\ UNCHANGED members

BeginApply ==
  /\ start.pc = "idle" /\ ground.live = "old"
  /\ \E r \in Releases : StartTo([NoStart EXCEPT !.kind = "apply", !.pc = "pull", !.release = r])
  /\ UNCHANGED <<members, ground>>

BeginAdmin(kind) ==
  /\ start.pc = "idle"
  /\ \E stopped \in BOOLEAN :
       StartTo([NoStart EXCEPT !.kind = kind,
                  !.pc = IF kind = "reset" /\ stopped THEN "up" ELSE "team"])
  /\ UNCHANGED <<members, ground>>

----------------------------------------------------------------------------
(* download_and_admit_candidate: Admin is downloaded first; its probe and   *)
(* the probe of the socket run beside the other downloads.                 *)

KeepHost == UNCHANGED <<members, ground>>

ChangedAdmin == ImageOf("admin", start.release) # ImageOf("admin", ground.live)

PullAdmin ==
  /\ start.pc = "pull" /\ KeepHost
  /\ StartTo([start EXCEPT !.pc = "admit", !.pulls = 1,
                           !.auth = IF ChangedAdmin THEN "running" ELSE "skipped"])

(* The other images, one after the other; a failed one ends the downloads. *)
Pull ==
  /\ start.pc = "admit" /\ start.pulls < 3 /\ KeepHost
  /\ StartTo([start EXCEPT !.pulls = @ + 1,
                           !.socket = IF @ = "none" THEN "running" ELSE @])

ProbeAdmin ==
  /\ start.auth = "running" /\ KeepHost
  /\ StartTo([start EXCEPT !.auth = IF ground.reads THEN "usable" ELSE "unusable"])

ProbeSocket ==
  /\ start.socket = "running" /\ KeepHost
  /\ StartTo([start EXCEPT !.socket = IF ground.reaches THEN "reached" ELSE "unreached"])

(* The scope ends when its threads have; the answers are judged in order,  *)
(* and that of the socket after the deferral and the port.                 *)
ProbeEnded == start.auth # "running"
Usable     == start.auth \in {"skipped", "usable"}

Admit ==
  /\ start.pc = "admit" /\ start.pulls = 3
  /\ start.auth # "running" /\ start.socket # "running"
  /\ KeepHost
  /\ StartTo(IF Usable /\ start.socket = "reached"
               THEN [start EXCEPT !.pc = "replace"] ELSE Ended("refused"))

----------------------------------------------------------------------------
(* replace_and_start.                                                      *)

Replaced == {m \in Service : members[m].at # "absent"
                             /\ members[m].image # ImageOf(m, start.release)}

(* Two replaced images or more are removed at once, beside the look at the *)
(* initializer.                                                            *)
RemoveFirst ==
  Cardinality({m \in Service :
    ImageOf(m, start.release) # ImageOf(m, ground.live)}) >= 2

ReplaceFiles ==
  /\ start.pc = "replace" /\ UNCHANGED members
  /\ ground' = [ground EXCEPT !.live = start.release]
  /\ StartTo([start EXCEPT !.pc = "init", !.init = "records",
                           !.removal = IF RemoveFirst THEN "stop" ELSE "done"])

RemoveReplaced ==
  /\ start.pc = "init" /\ start.removal \in {"stop", "remove"}
  /\ members' = [m \in Service |->
       IF m \notin Replaced THEN members[m]
       ELSE [members[m] EXCEPT !.at =
               IF start.removal = "stop" THEN "stopped" ELSE "absent"]]
  /\ StartTo([start EXCEPT !.removal = IF @ = "stop" THEN "remove" ELSE "done"])
  /\ UNCHANGED ground

InitExited == ground.exited # "none" /\ members["egress"].at = "running"

(* completed_init_matches: the initializer exited 0 under the candidate    *)
(* configuration, and the egress of the same image runs.                   *)
completed_init_matches ==
  /\ ground.exited = InitHash(ground.live)
  /\ members["egress"].at = "running"
  /\ members["egress"].image = ImageOf("egress", ground.exited)

InitRecords ==
  /\ start.pc = "init" /\ start.init = "records" /\ KeepHost
  /\ StartTo([start EXCEPT !.init = IF completed_init_matches THEN "reads" ELSE "again"])

(* account_capability_reads, inside the egress that runs.                  *)
capability_reads == members["egress"].at = "running" /\ ground.capability # "broken"

InitReads ==
  /\ start.pc = "init" /\ start.init = "reads" /\ KeepHost
  /\ StartTo([start EXCEPT !.init = IF capability_reads THEN "current" ELSE "again"])

(* Any look that fails runs the initializer again.                         *)
InitUnseen ==
  /\ start.pc = "init" /\ start.init \in {"records", "reads"} /\ KeepHost
  /\ StartTo([start EXCEPT !.init = "again"])

InitJudged ==
  /\ start.pc = "init" /\ start.init \in {"current", "again"}
  /\ start.removal = "done" /\ KeepHost
  /\ StartTo([start EXCEPT !.pc = "up", !.up = IF start.init = "current" THEN 1 ELSE 0])

----------------------------------------------------------------------------
(* compose_up: the initializer unless it is current, then the members.     *)

RunInitializer ==
  /\ start.pc = "up" /\ start.up = 0
  /\ StartTo([start EXCEPT !.up = 1])
  /\ ground' = [ground EXCEPT !.exited = InitHash(ground.live),
                              !.capability = InitHash(ground.live)]
  /\ UNCHANGED members

InitializerFails ==
  /\ start.pc = "up" /\ start.up = 0
  /\ StartTo(Ended("failed"))
  /\ ground' = [ground EXCEPT !.exited = "none",
                              !.live = IF start.kind = "apply" THEN "old" ELSE @]
  /\ UNCHANGED members

(* After a member that does not come up Compose fails.                     *)
UpMember ==
  /\ start.pc = "up" /\ start.up \in 1 .. 3
  /\ LET m == Services[start.up] IN
       /\ members' = [members EXCEPT ![m] = Upped(m)]
       /\ StartTo([start EXCEPT !.up = IF Upped(m).at = "running" THEN @ + 1 ELSE 4])
  /\ UNCHANGED ground

Up ==
  /\ start.pc = "up" /\ start.up = 4
  /\ IF members["admin"].at = "running"
       THEN StartTo([start EXCEPT !.up = 0,
                       !.pc = IF start.kind = "apply" THEN "judge" ELSE "team"]) /\ KeepHost
       ELSE /\ StartTo(Ended("failed")) /\ UNCHANGED members
            /\ ground' = [ground EXCEPT !.live = IF start.kind = "apply" THEN "old" ELSE @]

----------------------------------------------------------------------------
(* converge: what Docker started detached is created again, and proved.    *)

ConfiguredDetached == {}
judged_detached ==
  {m \in Service : members[m].at = "running" /\ ~members[m].attached}

AfterConverge == [start EXCEPT !.recreate = {},
                    !.pc = IF start.kind = "apply" THEN "session" ELSE "attest"]

Judged ==
  /\ start.pc = "judge" /\ KeepHost
  /\ StartTo(IF judged_detached = {} THEN AfterConverge
             ELSE [start EXCEPT !.pc = "recreate", !.recreate = judged_detached])

Recreate ==
  /\ start.pc = "recreate" /\ UNCHANGED ground
  /\ members' = [m \in Service |->
       IF m \in start.recreate THEN Created(m) ELSE members[m]]
  /\ StartTo([start EXCEPT !.pc = "prove"])

recreation_proved ==
  /\ \A m \in start.recreate : members[m].at = "running" /\ members[m].attached
  /\ judged_detached = {}

Prove ==
  /\ start.pc = "prove" /\ recreation_proved /\ KeepHost
  /\ StartTo(AfterConverge)

(* The last proof of an apply: Admin answers and can read its record.      *)
CanRead == members["admin"].image = "old" \/ ground.reads

Session ==
  /\ start.pc = "session" /\ members["admin"].at = "running" /\ CanRead /\ KeepHost
  /\ StartTo(Ended("started"))

----------------------------------------------------------------------------
(* start_admin_for_reset and prepare_admin_for_recovery.                   *)

ResetOr(how) == Ended(IF start.kind = "recover" THEN "unavailable" ELSE how)

(* start_container_if_present.  A recovery without an Admin starts nothing.  *)
StartTeam ==
  /\ start.pc = "team" /\ UNCHANGED ground
  /\ IF \/ members["team"].at = "absent"
        \/ start.kind = "recover" /\ members["admin"].at = "absent"
     THEN UNCHANGED members
     ELSE members' = [members EXCEPT !["team"] = DockerStarted("team")]
  /\ StartTo([start EXCEPT !.pc = "admin"])

(* The attestation reads what the container was configured with, not what  *)
(* it is attached to.                                                      *)
StartAdmin ==
  /\ start.pc = "admin" /\ UNCHANGED ground
  /\ IF members["admin"].at = "absent"
       THEN /\ UNCHANGED members
            /\ StartTo(IF start.kind = "reset" THEN [start EXCEPT !.pc = "judge"]
                       ELSE Ended("unavailable"))
       ELSE /\ members' = [members EXCEPT !["admin"] = DockerStarted("admin")]
            /\ StartTo(IF DockerStarted("admin").at # "running" THEN ResetOr("failed")
                       ELSE [start EXCEPT !.pc =
                              IF start.kind = "reset" THEN "judge" ELSE "attest"])

(* admin_attestation: the owned Admin runs, and one loopback port is bound. *)
attested == members["admin"].at = "running"

(* A recovery only looks for detached members: it trusts no graph.         *)
Attest ==
  /\ start.pc = "attest" /\ KeepHost
  /\ StartTo(IF attested /\ judged_detached = {}
               THEN [start EXCEPT !.pc = "ask"] ELSE ResetOr("failed"))

(* admin_reset: a capability is projected to Admin for each request, first *)
(* without and then with the password, and cleared whatever it answers.    *)
AskAdmin ==
  /\ start.pc = "ask" /\ UNCHANGED members
  /\ ground' = [ground EXCEPT !.projected = TRUE]
  /\ \E answer \in {"complete", "password", "error"} :
       StartTo([start EXCEPT !.pc = "clear", !.tries = @ + 1, !.auth = answer])

ClearCapability ==
  /\ start.pc = "clear" /\ UNCHANGED members
  /\ ground' = [ground EXCEPT !.projected = FALSE]
  /\ StartTo(CASE start.auth = "complete" -> Ended("authorized")
               [] start.auth = "password" /\ start.tries = 1 -> [start EXCEPT !.pc = "ask"]
               [] OTHER -> Ended("failed"))

----------------------------------------------------------------------------

HostStep == PortChanges \/ (\E m \in Service : MemberStops(m)) \/ CapabilityBreaks

ApplyStep ==
  \/ PullAdmin \/ Pull \/ ProbeAdmin \/ ProbeSocket \/ Admit
  \/ ReplaceFiles \/ RemoveReplaced \/ InitRecords \/ InitReads \/ InitUnseen \/ InitJudged
  \/ RunInitializer \/ InitializerFails \/ UpMember \/ Up
  \/ Judged \/ Recreate \/ Prove \/ Session

ResetStep == StartTeam \/ StartAdmin \/ Attest \/ AskAdmin \/ ClearCapability

StartNext ==
  \/ HostStep \/ BeginApply \/ (\E kind \in {"reset", "recover"} : BeginAdmin(kind))
  \/ ApplyStep \/ ResetStep \/ StartFails

StartSpec == StartInit /\ [][StartNext]_startVars

----------------------------------------------------------------------------

(* A start that is reported, and a reset that is asked, leave no member    *)
(* running without its networks or its port, whatever held the port when a *)
(* member started before; and the Account egress of a started release has  *)
(* a capability made under its own configuration, even when the            *)
(* initializer was left out (converge, prepare_admin_for_recovery,         *)
(* completed_init_is_current).                                             *)
StartedAsDeclared ==
  /\ start.end \in {"started", "authorized"} \/ start.pc \in {"ask", "clear"} =>
       \A m \in Service : members[m].at = "running" => members[m].attached
  /\ start.end = "started" => ground.capability = InitHash(ground.live)

(* No Admin is ever created that cannot read the authentication record it  *)
(* finds, and no Team that cannot reach the Docker socket, although the    *)
(* probes run beside the downloads (download_and_admit_candidate).         *)
AdmittedBeforeTouched ==
  /\ members["admin"].image = "new" => ground.reads
  /\ members["team"].image = "new" => ground.reaches
=============================================================================
