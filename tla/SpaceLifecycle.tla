--------------------------- MODULE SpaceLifecycle ---------------------------
(***************************************************************************)
(* One Local Space under the lifecycle commands of `shimpz`: install,      *)
(* start (by hand, by the scheduler, by a deploy request), update, stop    *)
(* and the two resets.  A command holds the lifecycle lock from its first  *)
(* read to its last write, so at most one run exists; what makes the code  *)
(* hard is that a run is a long sequence of separate durable steps, any of *)
(* which can fail, and that the process or the host can die between two.   *)
(*                                                                         *)
(* One step of the code that changes a file, the containers, the volumes,  *)
(* the storage pool or the scheduler is one action.  Reads made under the  *)
(* lock are part of the action that acts on them: nobody else writes what  *)
(* they read.  The choice of CLI executable and the deploy request files   *)
(* are the business of CliHandoff, the pacing of scheduled runs that of    *)
(* ReleasePoll.                                                            *)
(***************************************************************************)
EXTENDS Naturals

CONSTANTS
  Releases,      \* release references a run may resolve
  Developer,     \* those built on this host; the rest are published
  Ordinal,       \* [Releases -> Nat], the order of published releases
  Epoch,         \* [Releases -> Nat], the stored format of the runtime state
  None,          \* an absent file, record or release
  Encrypted,     \* whether the profile keeps an encrypted pool (native Linux)
  ScopedReset    \* whether a scoped reset may start containers to authenticate

ASSUME ReleasesAssumption ==
  /\ Developer \subseteq Releases
  /\ Ordinal \in [Releases -> Nat]
  /\ Epoch \in [Releases -> Nat]
  /\ None \notin Releases
  /\ None \notin Nat
  /\ Encrypted \in BOOLEAN
  /\ ScopedReset \in BOOLEAN

VARIABLES
  disk,   \* the Space's records under ~/.shimpz
  host,   \* containers, volumes, storage pool, scheduler
  pc,     \* the next step of the run that holds the lock, "idle" if none
  run,    \* what that run has in memory
  hist    \* observer: what the Space has been through, never read by a guard

vars == <<disk, host, pc, run, hist>>

Ref    == Releases \cup {None}
Epochs == {Epoch[r] : r \in Releases}
Mark   == Epochs \cup {None}

(* The status record of a release: "reconciled" stands for the outcomes    *)
(* current and updated, "rollback" for rollback-needed.                    *)
Status == [release : Releases, outcome : {"reconciled", "rollback"}]

Disk == [ marker : BOOLEAN, env : Ref, graph : Ref,
          envBackup : Ref, graphBackup : Ref,
          status : Status \cup {None}, failed : Ref,
          stopped : BOOLEAN, epoch : Mark ]

EmptyDisk == [ marker |-> FALSE, env |-> None, graph |-> None,
               envBackup |-> None, graphBackup |-> None,
               status |-> None, failed |-> None,
               stopped |-> FALSE, epoch |-> None ]

(* made is the release whose containers exist, up the one whose containers *)
(* run, data the stored format of the runtime-state volumes (None when     *)
(* they are empty), owned whether any Docker resource of the Space exists. *)
Host == [ made : Ref, up : Ref, data : Mark, owned : BOOLEAN,
          pool : {"absent", "locked", "open"}, scheduler : BOOLEAN ]

Kinds == {"none", "apply", "stop", "reset", "recover"}

Run == [ kind : Kinds, cand : Ref, prev : Ref,
         scheduled : BOOLEAN, channel : BOOLEAN, preserve : BOOLEAN,
         memoryError : BOOLEAN, restoring : BOOLEAN, target : Mark ]

NoRun == [ kind |-> "none", cand |-> None, prev |-> None,
           scheduled |-> FALSE, channel |-> FALSE, preserve |-> FALSE,
           memoryError |-> FALSE, restoring |-> FALSE, target |-> None ]

(* What the last run reported: "ended" stands for every answer the          *)
(* properties do not tell apart (an error, a deferral, a locked pool...).  *)
Outcomes == {"none", "ready", "kept", "restored", "ended"}

(* healthy: releases whose start was proved in this Space; interrupted: a  *)
(* run died, or could not rename a backup, between its first write of the  *)
(* live records and its last; abandoned: the last release a rollback gave  *)
(* up on for good; outcome: how the last run ended.                        *)
Hist == [ healthy : SUBSET Releases, interrupted : BOOLEAN,
          abandoned : Ref, outcome : Outcomes ]

NewHist(o) == [ healthy |-> {}, interrupted |-> FALSE,
                abandoned |-> None, outcome |-> o ]

Steps == { "idle", "mark", "admit", "backupGraph", "backupEnv",
           "reconcile", "stopOld", "clear", "record",
           "writeEnv", "writeGraph", "clearStopped", "up", "prove",
           "commit",
           "dropBackup", "forgetFailed", "schedule",
           "down", "remember", "restoreGraph", "restoreEnv",
           "restoreStorage", "startPrevious", "rollbackStatus", "disable",
           "stop", "authorize",
           "removeDocker", "removeStorage", "removeSchedule", "removeFiles" }

Init ==
  /\ disk = EmptyDisk
  /\ host = [ made |-> None, up |-> None, data |-> None, owned |-> FALSE,
              pool |-> IF Encrypted THEN "absent" ELSE "open",
              scheduler |-> FALSE ]
  /\ pc = "idle"
  /\ run = NoRun
  /\ hist = NewHist("none")

-----------------------------------------------------------------------------
(* Helpers. *)

Go(from, to) == pc = from /\ pc' = to

(* Mutant of End: the memory of the run outlives its lock.                 *)
EndKeepingRun(o) ==
  /\ pc' = "idle"
  /\ hist' = [hist EXCEPT !.outcome = o]
  /\ UNCHANGED run

(* The run ends with `o` and drops the lifecycle lock.                     *)
End(o) ==
  /\ pc' = "idle"
  /\ run' = NoRun
  /\ hist' = [hist EXCEPT !.outcome = o]

fresh == run.prev = None

(* Starting release r on the volumes: containers leave stored data alone   *)
(* but fill empty volumes in their own format.                             *)
Started(r) ==
  [host EXCEPT !.made = r, !.up = r, !.owned = TRUE,
               !.data = IF host.data = None THEN Epoch[r] ELSE host.data]

(* No container starts while the pool under its volumes is closed.         *)
Startable(r) == IF host.pool = "open" THEN {Started(r)} ELSE {}

Stopped == [host EXCEPT !.up = None]

(* Where the live records are between an apply's first write of them and   *)
(* its commit or the end of its rollback, or are being removed.            *)
Window == { "writeGraph", "clearStopped", "up", "prove", "commit", "down",
            "remember", "restoreGraph", "restoreEnv",
            "removeDocker", "removeStorage", "removeFiles" }

Interrupted == hist.interrupted \/ pc \in Window

EndDirty(o) ==
  /\ pc' = "idle"
  /\ run' = NoRun
  /\ hist' = [hist EXCEPT !.outcome = o, !.interrupted = Interrupted]

(* What commit_evidence reads from the two records.                        *)
Evidence(r) ==
  /\ disk.env = r
  /\ disk.status # None
  /\ disk.status.release = r
  /\ disk.status.outcome = "reconciled"

-----------------------------------------------------------------------------
(* Beginning a run: take the lock, read the records, resolve a release.    *)

(* The environment is absent or fails a check of its record, which is the  *)
(* same here, or the pool of a Space that has one is gone.                 *)
Corrupt ==
  disk.marker /\ (disk.env = None \/ (Encrypted /\ host.pool = "absent"))

(* Only forward moves among published releases; a developer release, and   *)
(* the return from one, is always admitted.                                *)
ForwardAdmitted(r, installed) ==
  \/ r \in Developer
  \/ installed = None
  \/ installed \in Developer
  \/ /\ Ordinal[r] >= Ordinal[installed]
     /\ r = installed <=> Ordinal[r] = Ordinal[installed]

Begin(kind, r, prev, scheduled, channel, preserve) ==
  /\ run' = [NoRun EXCEPT !.kind = kind, !.cand = r, !.prev = prev,
                          !.scheduled = scheduled,
                          !.channel = channel /\ scheduled,
                          !.preserve = preserve]
  /\ hist' = IF disk.marker THEN [hist EXCEPT !.outcome = "none"]
                            ELSE NewHist("none")
  /\ UNCHANGED host

(* An unmarked home is adopted only when it holds no record and Docker     *)
(* holds no resource of the Space.                                         *)
InstallFresh(r, channel) ==
  /\ Go("idle", "mark")
  /\ ~disk.marker
  /\ [disk EXCEPT !.stopped = FALSE] = EmptyDisk
  /\ ~host.owned
  /\ Encrypted => host.pool = "absent"
  /\ channel => r \notin Developer
  /\ Begin("apply", r, None, FALSE, channel, FALSE)
  /\ disk' = [disk EXCEPT !.stopped = FALSE]

InstallOver(r, channel) ==
  /\ Go("idle", "admit")
  /\ disk.marker /\ ~Corrupt
  /\ channel => r \notin Developer
  /\ ForwardAdmitted(r, disk.env)
  /\ Begin("apply", r, disk.env, FALSE, channel, FALSE)
  /\ UNCHANGED disk

(* A corrupt Space is removed after an explicit yes, then installed anew.  *)
InstallRecover(r, channel) ==
  /\ Go("idle", "authorize")
  /\ Corrupt
  /\ channel => r \notin Developer
  /\ Begin("recover", r, None, FALSE, channel, FALSE)
  /\ UNCHANGED disk

(* What a start selects: the exact release, else the installed developer   *)
(* release, else the stable channel.                                       *)
Selectable(r, channel) ==
  channel => IF disk.env \in Developer THEN r = disk.env
                                       ELSE r \notin Developer

StartReady(scheduled) ==
  /\ pc = "idle"
  /\ disk.marker /\ disk.env # None
  /\ scheduled => host.scheduler

StartStopped ==
  /\ StartReady(TRUE)
  /\ disk.stopped
  /\ End("ended")
  /\ UNCHANGED <<disk, host>>

(* Mutant of StartSelected: a scheduled start overlooks the stop intent.   *)
StartSelectedStopped(r, scheduled, channel) ==
  /\ StartReady(scheduled)
  /\ Selectable(r, channel)
  /\ channel => disk.failed # r
  /\ ForwardAdmitted(r, disk.env)
  /\ pc' = "admit"
  /\ Begin("apply", r, disk.env, scheduled, channel, FALSE)
  /\ UNCHANGED disk

(* failed_release_decision, UseSelected. *)
StartSelected(r, scheduled, channel) ==
  /\ StartReady(scheduled)
  /\ scheduled => ~disk.stopped
  /\ Selectable(r, channel)
  /\ channel => disk.failed # r
  /\ ForwardAdmitted(r, disk.env)
  /\ pc' = "admit"
  /\ Begin("apply", r, disk.env, scheduled, channel, FALSE)
  /\ UNCHANGED disk

(* failed_release_decision, ResumeInstalled. *)
StartResume(r) ==
  /\ StartReady(FALSE)
  /\ disk.stopped
  /\ Selectable(r, TRUE)
  /\ disk.failed = r
  /\ pc' = "admit"
  /\ Begin("apply", disk.env, disk.env, FALSE, TRUE, TRUE)
  /\ UNCHANGED disk

(* failed_release_decision, KeepRunning. *)
StartKeep(r, scheduled) ==
  /\ StartReady(scheduled)
  /\ ~disk.stopped
  /\ Selectable(r, TRUE)
  /\ disk.failed = r
  /\ End("kept")
  /\ UNCHANGED <<disk, host>>

Update(r) ==
  /\ Go("idle", "admit")
  /\ disk.marker /\ ~Corrupt
  /\ r \notin Developer
  /\ ForwardAdmitted(r, disk.env)
  /\ disk.failed # r
  /\ r # disk.env
  /\ ~disk.stopped
  /\ Begin("apply", r, disk.env, FALSE, TRUE, FALSE)
  /\ UNCHANGED disk

(* The stop intent is recorded before any container is stopped.            *)
BeginStop ==
  /\ Go("idle", "stop")
  /\ disk.marker /\ disk.env # None
  /\ Begin("stop", None, None, FALSE, FALSE, FALSE)
  /\ disk' = [disk EXCEPT !.stopped = TRUE]

(* What answers the scoped reset runs already, or nothing needs to.        *)
Answers ==
  \/ ~host.owned
  \/ host.up # None /\ host.up = host.made /\ ~disk.stopped

(* The scoped reset asks the Supervisor first whenever resources exist,    *)
(* and needs the installation to do so; the hard reset asks nobody.        *)
BeginReset ==
  /\ ScopedReset \/ Answers
  /\ Go("idle", IF host.owned THEN "authorize" ELSE "removeDocker")
  /\ host.owned => disk.marker /\ disk.env # None /\ disk.graph # None
  /\ Begin("reset", None, None, FALSE, FALSE, FALSE)
  /\ UNCHANGED disk

BeginHardReset ==
  /\ Go("idle", "removeDocker")
  /\ Begin("reset", None, None, FALSE, FALSE, FALSE)
  /\ UNCHANGED disk

-----------------------------------------------------------------------------
(* Admission: nothing of the installed Space is replaced yet.              *)

WriteMarker ==
  /\ Go("mark", "admit")
  /\ disk' = [disk EXCEPT !.marker = TRUE]
  /\ UNCHANGED <<host, run, hist>>

Opened == IF Encrypted THEN "open" ELSE host.pool

(* Storage is provisioned or unlocked, the images are pulled, the Admin    *)
(* record is checked against the candidate and the Docker socket probed.   *)
Admit ==
  /\ Go("admit", IF fresh THEN "reconcile" ELSE "backupGraph")
  /\ Encrypted => fresh \/ host.pool # "absent"
  /\ run.scheduled => host.pool = "open"
  /\ host' = [host EXCEPT !.pool = Opened]
  /\ UNCHANGED <<disk, run, hist>>

AdmitLocked ==
  /\ pc = "admit"
  /\ run.scheduled /\ host.pool = "locked"
  /\ End("ended")
  /\ UNCHANGED <<disk, host>>

AdmitDeferred ==
  /\ pc = "admit"
  /\ run.scheduled /\ host.pool = "open" /\ run.cand # run.prev
  /\ run.cand \notin Developer
  /\ End("ended")
  /\ UNCHANGED <<disk, host>>

(* A failed admission leaves an installed Space as it was and compensates  *)
(* a fresh one.                                                            *)
AdmitFails ==
  /\ pc = "admit"
  /\ \/ /\ ~run.scheduled /\ (fresh \/ host.pool # "absent")
        /\ host' = [host EXCEPT !.pool = Opened]
     \/ UNCHANGED host
  /\ \/ fresh /\ pc' = "removeDocker" /\ UNCHANGED <<run, hist>>
     \/ ~fresh /\ End("ended")
  /\ UNCHANGED disk

BackupGraph ==
  /\ Go("backupGraph", "backupEnv")
  /\ disk.graph # None
  /\ disk' = [disk EXCEPT !.graphBackup = disk.graph]
  /\ UNCHANGED <<host, run, hist>>

BackupEnv ==
  /\ Go("backupEnv", "reconcile")
  /\ disk' = [disk EXCEPT !.envBackup = disk.env]
  /\ UNCHANGED <<host, run, hist>>

BackupFails ==
  /\ pc \in {"backupGraph", "backupEnv"}
  /\ End("ended")
  /\ UNCHANGED <<disk, host>>

-----------------------------------------------------------------------------
(* The runtime state: emptied unless it is known to be in the format of    *)
(* the release about to start.  Used for the candidate and, in a rollback, *)
(* for the previous release.                                               *)

Target == IF run.restoring THEN run.target ELSE Epoch[run.cand]

(* Mutant of ResetNeeded: an unknown recorded format is taken as readable. *)
ResetIfKnownToDiffer ==
  /\ ~fresh
  /\ Target = None \/ (disk.epoch # None /\ disk.epoch # Target)

ResetNeeded == ~fresh /\ (Target = None \/ disk.epoch # Target)

Resume == IF run.restoring THEN "startPrevious" ELSE "writeEnv"

(* Mutant of ReconcileForget: the new format is recorded up front.         *)
ReconcileRecordFirst ==
  /\ Go("reconcile", "stopOld")
  /\ ResetNeeded
  /\ disk' = [disk EXCEPT !.epoch = Target]
  /\ UNCHANGED <<host, run, hist>>

ReconcileForget ==
  /\ Go("reconcile", "stopOld")
  /\ ResetNeeded
  /\ disk' = [disk EXCEPT !.epoch = None]
  /\ UNCHANGED <<host, run, hist>>

ReconcileKeep ==
  /\ Go("reconcile", IF fresh THEN "record" ELSE Resume)
  /\ ~ResetNeeded
  /\ UNCHANGED <<disk, host, run, hist>>

(* Stopped, and proved stopped, before the volumes are emptied.            *)
StopOld ==
  /\ Go("stopOld", "clear")
  /\ host' = Stopped
  /\ UNCHANGED <<disk, run, hist>>

ClearVolumes ==
  /\ Go("clear", IF Target = None THEN Resume ELSE "record")
  /\ host' = [host EXCEPT !.data = None]
  /\ UNCHANGED <<disk, run, hist>>

RecordEpoch ==
  /\ Go("record", Resume)
  /\ disk' = [disk EXCEPT !.epoch = Target]
  /\ UNCHANGED <<host, run, hist>>

ReconcileFails ==
  /\ pc \in {"reconcile", "stopOld", "clear", "record"}
  /\ pc' = IF run.restoring THEN "rollbackStatus" ELSE "down"
  /\ \/ UNCHANGED host
     \/ pc = "stopOld" /\ host' = Stopped
     \/ pc = "clear" /\ host' = [host EXCEPT !.data = None]
  /\ run' = [run EXCEPT !.restoring = FALSE]
  /\ UNCHANGED <<disk, hist>>

-----------------------------------------------------------------------------
(* Replace, start, commit.                                                 *)

WriteEnv ==
  /\ Go("writeEnv", "writeGraph")
  /\ disk' = [disk EXCEPT !.env = run.cand]
  /\ UNCHANGED <<host, run, hist>>

WriteGraph ==
  /\ Go("writeGraph", "clearStopped")
  /\ disk' = [disk EXCEPT !.graph = run.cand]
  /\ UNCHANGED <<host, run, hist>>

ClearStopped ==
  /\ Go("clearStopped", "up")
  /\ disk' = [disk EXCEPT !.stopped = FALSE]
  /\ UNCHANGED <<host, run, hist>>

(* Mutant of StartCandidate: committed without being proved.               *)
StartCandidateUnproved ==
  /\ Go("up", "commit")
  /\ host.pool = "open"
  /\ host' = Started(run.cand)
  /\ UNCHANGED <<disk, run, hist>>

(* Compose brings the candidate up, after replaced containers are stopped  *)
(* and removed.                                                            *)
StartCandidate ==
  /\ Go("up", "prove")
  /\ host.pool = "open"
  /\ host' = Started(run.cand)
  /\ UNCHANGED <<disk, run, hist>>

(* Its members, storage, Supervisor record and status projection are all   *)
(* proved.                                                                 *)
Prove ==
  /\ Go("prove", "commit")
  /\ hist' = [hist EXCEPT !.healthy = @ \cup {run.cand}]
  /\ UNCHANGED <<disk, host, run>>

(* Mutant of StartFails: the failed start is reported without a rollback.  *)
StartFailsUnrolled ==
  /\ pc = "up"
  /\ End("ended")
  /\ UNCHANGED <<disk, host>>

StartFails ==
  /\ Go("up", "down")
  /\ host' \in {host, Stopped} \cup Startable(run.cand)
  /\ UNCHANGED <<disk, run, hist>>

(* The last write of the commit.                                           *)
Commit ==
  /\ Go("commit", "dropBackup")
  /\ disk' = [disk EXCEPT !.status = [release |-> run.cand,
                                      outcome |-> "reconciled"]]
  /\ hist' = [hist EXCEPT !.interrupted = FALSE]
  /\ UNCHANGED <<host, run>>

ReplaceFails ==
  /\ pc \in {"writeEnv", "writeGraph", "clearStopped", "prove", "commit"}
  /\ pc' = "down"
  /\ UNCHANGED <<disk, host, run, hist>>

DropBackup ==
  /\ Go("dropBackup", "forgetFailed")
  /\ disk' = IF fresh THEN disk
             ELSE [disk EXCEPT !.graphBackup = None, !.envBackup = None]
  /\ UNCHANGED <<host, run, hist>>

(* Mutant of ForgetFailed: a resumed Space forgets what it must preserve.  *)
ForgetFailedAlways ==
  /\ Go("forgetFailed", "schedule")
  /\ disk' = [disk EXCEPT !.failed = None]
  /\ hist' = IF run.preserve THEN hist ELSE [hist EXCEPT !.abandoned = None]
  /\ UNCHANGED <<host, run>>

ForgetFailed ==
  /\ Go("forgetFailed", "schedule")
  /\ IF run.preserve
     THEN UNCHANGED <<disk, hist>>
     ELSE /\ disk' = [disk EXCEPT !.failed = None]
          /\ hist' = [hist EXCEPT !.abandoned = None]
  /\ UNCHANGED <<host, run>>

(* Installing the schedule again ends a bar that rested on its absence.    *)
Barred == IF hist.abandoned = disk.failed THEN hist.abandoned ELSE None

Schedule ==
  /\ pc = "schedule"
  /\ host' = [host EXCEPT !.scheduler = TRUE]
  /\ pc' = "idle"
  /\ run' = NoRun
  /\ hist' = [hist EXCEPT !.outcome = "ready", !.abandoned = Barred]
  /\ UNCHANGED disk

(* The Space runs the release, but its follow-up work did not finish.  A   *)
(* fresh install is compensated for every failure but the scheduler's.     *)
AfterCommitFails ==
  /\ pc \in {"dropBackup", "forgetFailed", "schedule"}
  /\ IF fresh /\ pc # "schedule"
     THEN pc' = "removeDocker" /\ UNCHANGED <<run, hist>>
     ELSE End("ended")
  /\ UNCHANGED <<disk, host>>

-----------------------------------------------------------------------------
(* Rollback.                                                               *)

(* Compose down, its failure ignored.                                      *)
Down ==
  /\ Go("down", IF fresh THEN "removeDocker" ELSE "remember")
  /\ host' \in {host, Stopped, [Stopped EXCEPT !.made = None]}
  /\ UNCHANGED <<disk, run, hist>>

Remember ==
  /\ Go("remember", "restoreGraph")
  /\ \/ /\ disk' = [disk EXCEPT !.failed = run.cand]
        /\ hist' = [hist EXCEPT !.abandoned = run.cand]
        /\ UNCHANGED run
     \/ /\ run' = [run EXCEPT !.memoryError = TRUE]
        /\ UNCHANGED <<disk, hist>>
  /\ UNCHANGED host

RestoreGraph ==
  /\ Go("restoreGraph", "restoreEnv")
  /\ disk' = [disk EXCEPT !.graph = disk.graphBackup, !.graphBackup = None]
  /\ UNCHANGED <<host, run, hist>>

RestoreEnv ==
  /\ Go("restoreEnv", "restoreStorage")
  /\ disk' = [disk EXCEPT !.env = disk.envBackup, !.envBackup = None]
  /\ UNCHANGED <<host, run, hist>>

(* The previous release's epoch is read from its image, or is unknown.     *)
RestoreStorage ==
  /\ Go("restoreStorage", "reconcile")
  /\ run.scheduled => host.pool = "open"
  /\ \E t \in {Epoch[disk.env], None} :
       run' = [run EXCEPT !.restoring = TRUE, !.target = t]
  /\ host' = [host EXCEPT !.pool = Opened]
  /\ UNCHANGED <<disk, hist>>

RestoreLocked ==
  /\ pc = "restoreStorage"
  /\ run.scheduled /\ host.pool = "locked"
  /\ disk' = [disk EXCEPT !.status = [release |-> run.cand,
                                      outcome |-> "rollback"]]
  /\ IF run.memoryError THEN pc' = "disable" /\ UNCHANGED <<run, hist>>
                        ELSE End("ended")
  /\ UNCHANGED host

RestoreFails ==
  /\ pc \in {"restoreGraph", "restoreEnv", "restoreStorage"}
  /\ EndDirty("ended")
  /\ UNCHANGED <<disk, host>>

(* restoring stays set only when the previous release came up.             *)
StartPrevious ==
  /\ Go("startPrevious", "rollbackStatus")
  /\ \/ host' \in Startable(disk.env) /\ UNCHANGED run
     \/ /\ host' \in {host} \cup Startable(disk.env)
        /\ run' = [run EXCEPT !.restoring = FALSE]
  /\ UNCHANGED <<disk, hist>>

RollbackOutcome == IF run.restoring THEN "restored" ELSE "ended"

RollbackStatus ==
  /\ pc = "rollbackStatus"
  /\ disk' \in {disk, [disk EXCEPT !.status = [release |-> run.cand,
                                               outcome |-> "rollback"]]}
  /\ IF run.memoryError THEN pc' = "disable" /\ UNCHANGED <<run, hist>>
                        ELSE End(RollbackOutcome)
  /\ UNCHANGED host

(* A release that could not be remembered must not be retried unattended.  *)
Disable ==
  /\ pc = "disable"
  /\ pc' = "idle"
  /\ run' = NoRun
  /\ \/ /\ host' = [host EXCEPT !.scheduler = FALSE]
        /\ hist' = [hist EXCEPT !.outcome = RollbackOutcome,
                                !.abandoned = run.cand]
     \/ /\ hist' = [hist EXCEPT !.outcome = RollbackOutcome]
        /\ UNCHANGED host
  /\ UNCHANGED disk

-----------------------------------------------------------------------------
(* Stop, and the removal shared by the resets, the recovery of a corrupt   *)
(* Space and the compensation of a failed fresh install.                   *)

StopContainers ==
  /\ pc = "stop"
  /\ host' = Stopped
  /\ End("ended")
  /\ UNCHANGED disk

StopFails ==
  /\ pc = "stop"
  /\ host' \in {host, Stopped}
  /\ End("ended")
  /\ UNCHANGED disk

(* The Supervisor is asked through a running Admin.  A scoped reset of a   *)
(* stopped Space composes the configured release up first; containers that *)
(* exist but do not run are started as they are.                           *)
Asked ==
  IF run.kind = "reset" /\ disk.stopped THEN Startable(disk.env)
  ELSE IF host.made # None THEN Startable(host.made)
  ELSE {}

(* A recovery goes on without an Admin it cannot start; a reset does not.  *)
Authorize ==
  /\ Go("authorize", "removeDocker")
  /\ \/ host' \in Asked
     \/ run.kind = "recover" /\ UNCHANGED host
  /\ UNCHANGED <<disk, run, hist>>

(* A reset that fails stops again the Space that was stopped, or fails to. *)
AuthorizeFails ==
  /\ pc = "authorize"
  /\ \/ host' \in {host} \cup Asked
     \/ /\ run.kind = "reset" /\ disk.stopped
        /\ host' \in {[h EXCEPT !.up = None] : h \in Asked}
  /\ End("ended")
  /\ UNCHANGED disk

RemoveDocker ==
  /\ Go("removeDocker", "removeStorage")
  /\ host' = [host EXCEPT !.made = None, !.up = None, !.data = None,
                          !.owned = FALSE]
  /\ UNCHANGED <<disk, run, hist>>

RemoveStorage ==
  /\ Go("removeStorage",
        IF run.kind = "reset" THEN "removeSchedule" ELSE "removeFiles")
  /\ host' = [host EXCEPT !.pool = IF Encrypted THEN "absent" ELSE @]
  /\ UNCHANGED <<disk, run, hist>>

(* Mutant of RemoveSchedule: a recovery whose install fails recovers anew. *)
RemoveScheduleEndlessly ==
  /\ Go("removeSchedule",
        IF run.kind = "reset" THEN "removeFiles" ELSE "mark")
  /\ host' = [host EXCEPT !.scheduler = FALSE]
  /\ UNCHANGED <<disk, run, hist>>

(* A recovery removes the scheduler after the files, then installs.        *)
RemoveSchedule ==
  /\ IF run.kind = "reset"
     THEN Go("removeSchedule", "removeFiles") /\ UNCHANGED run
     ELSE /\ Go("removeSchedule", "mark")
          /\ run' = [run EXCEPT !.kind = "apply"]
  /\ host' = [host EXCEPT !.scheduler = FALSE]
  /\ UNCHANGED <<disk, hist>>

(* Mutant of RemovalRank: the marker is removed first.                     *)
MarkerFirst ==
  [ epoch |-> 1, graph |-> 2, env |-> 3, status |-> 4, failed |-> 5,
    stopped |-> 6, graphBackup |-> 7, envBackup |-> 8, marker |-> 0 ]

(* The order in which managed_runtime_files lists the records.             *)
RemovalRank ==
  [ epoch |-> 1, graph |-> 2, env |-> 3, status |-> 4, failed |-> 5,
    stopped |-> 6, graphBackup |-> 7, envBackup |-> 8, marker |-> 9 ]

Present(f) == disk[f] # EmptyDisk[f]

RemoveFile(f) ==
  /\ pc = "removeFiles"
  /\ Present(f)
  /\ \A g \in DOMAIN RemovalRank :
       RemovalRank[g] < RemovalRank[f] => ~Present(g)
  /\ disk' = [disk EXCEPT ![f] = EmptyDisk[f]]
  /\ UNCHANGED <<host, pc, run, hist>>

FilesRemoved ==
  /\ pc = "removeFiles"
  /\ disk = EmptyDisk
  /\ IF run.kind = "recover"
     THEN pc' = "removeSchedule" /\ hist' = NewHist("none") /\ UNCHANGED run
     ELSE pc' = "idle" /\ hist' = NewHist("ended") /\ run' = NoRun
  /\ UNCHANGED <<disk, host>>

RemovalFails ==
  /\ pc \in {"removeDocker", "removeStorage", "removeSchedule",
             "removeFiles"}
  /\ \/ UNCHANGED host
     \/ /\ pc = "removeDocker"
        /\ host' \in {Stopped, [Stopped EXCEPT !.made = None],
                      [Stopped EXCEPT !.made = None, !.data = None]}
  /\ EndDirty("ended")
  /\ UNCHANGED disk

-----------------------------------------------------------------------------
(* What the run does not control.                                          *)

(* The process is killed between two steps; the lock goes with it.         *)
Crash ==
  /\ pc # "idle"
  /\ EndDirty("ended")
  /\ UNCHANGED <<disk, host>>

(* The host restarts: no container restarts on its own, the pool is shut.  *)
Reboot ==
  /\ host' = [host EXCEPT !.up = None,
                          !.pool = IF @ = "open" /\ Encrypted THEN "locked"
                                                              ELSE @]
  /\ EndDirty("ended")
  /\ UNCHANGED disk

(* The pool is closed by hand while no container uses it.                  *)
PoolClosed ==
  /\ Encrypted
  /\ host.up = None /\ host.pool = "open"
  /\ host' = [host EXCEPT !.pool = "locked"]
  /\ UNCHANGED <<disk, pc, run, hist>>

-----------------------------------------------------------------------------
Command ==
  \/ \E r \in Releases, channel \in BOOLEAN :
       \/ InstallFresh(r, channel)
       \/ InstallOver(r, channel)
       \/ InstallRecover(r, channel)
  \/ \E r \in Releases, scheduled, channel \in BOOLEAN :
       StartSelected(r, scheduled, channel)
  \/ StartStopped
  \/ \E r \in Releases : StartResume(r)
  \/ \E r \in Releases, scheduled \in BOOLEAN : StartKeep(r, scheduled)
  \/ \E r \in Releases : Update(r)
  \/ BeginStop
  \/ BeginReset
  \/ BeginHardReset

Apply ==
  \/ WriteMarker \/ Admit \/ AdmitLocked \/ AdmitDeferred \/ AdmitFails
  \/ BackupGraph \/ BackupEnv \/ BackupFails
  \/ ReconcileForget \/ ReconcileKeep \/ StopOld \/ ClearVolumes
  \/ RecordEpoch \/ ReconcileFails
  \/ WriteEnv \/ WriteGraph \/ ClearStopped \/ StartCandidate \/ Prove
  \/ StartFails
  \/ Commit \/ ReplaceFails \/ DropBackup \/ ForgetFailed \/ Schedule
  \/ AfterCommitFails

Rollback ==
  \/ Down \/ Remember \/ RestoreGraph \/ RestoreEnv \/ RestoreStorage
  \/ RestoreLocked \/ RestoreFails \/ StartPrevious \/ RollbackStatus
  \/ Disable

Removal ==
  \/ StopContainers \/ StopFails \/ Authorize \/ AuthorizeFails
  \/ RemoveDocker \/ RemoveStorage \/ RemoveSchedule
  \/ \E f \in DOMAIN RemovalRank : RemoveFile(f)
  \/ FilesRemoved \/ RemovalFails

(* The steps of the run that holds the lock. *)
RunStep == Apply \/ Rollback \/ Removal

Next == Command \/ RunStep \/ Crash \/ Reboot \/ PoolClosed

Spec == Init /\ [][Next]_vars

-----------------------------------------------------------------------------
(* Properties. *)

(* Every variable keeps its shape, and a run exists exactly while the lock *)
(* is held.                                                                *)
TypeOK ==
  /\ disk \in Disk
  /\ host \in Host
  /\ pc \in Steps
  /\ run \in Run
  /\ hist \in Hist
  /\ pc = "idle" <=> run.kind = "none"

(* The record of the stored format never lies about the volumes: whatever  *)
(* was interrupted, recorded data is in the recorded format or absent      *)
(* (state.rs, read_state_epoch; forgotten first, written last).            *)
EpochRecordTruthful ==
  disk.epoch # None => host.data \in {None, disk.epoch}

(* No containers are started on runtime state in a stored format their     *)
(* release does not read (rollback.rs, before start_previous; the          *)
(* candidate through replace_and_start).                                   *)
StateReadable ==
  host.up # None => host.data = Epoch[host.up]

(* Unless a run died between its first write of the live records and its   *)
(* last, the Space at rest is configured, graph and environment alike, for *)
(* one release that once proved healthy, or for none: an apply, failed or  *)
(* not, leaves no half of itself behind (start_or_roll_back).              *)
SettledAtRest ==
  pc = "idle" /\ ~hist.interrupted =>
    /\ disk.graph = disk.env
    /\ disk.env \in hist.healthy \cup {None}

(* The commit evidence that a handoff, a deploy request and the scheduled  *)
(* gate act on is only ever found for a release that proved healthy in     *)
(* this Space (commit_evidence, scheduled_gate, deploy_committed).         *)
EvidenceSound ==
  \A r \in Releases : Evidence(r) => r \in hist.healthy

(* The marker is the last record removed, so a home whose removal was cut  *)
(* short is still recognised as a Space, never as an unowned directory     *)
(* that install refuses (managed_runtime_files, adopt_unmarked_home).      *)
MarkerOutlivesRecords ==
  ~disk.marker => [disk EXCEPT !.stopped = FALSE] = EmptyDisk

(* A release given up on, in memory or by disabling the schedule, is not   *)
(* tried again by a scheduled run that follows the channel (select_start,  *)
(* disable_automatic_updates).                                             *)
NoUnattendedRetry ==
  [][ run'.scheduled /\ run'.channel /\ pc = "idle" /\ pc' = "admit"
        => run'.cand # hist.abandoned ]_vars

(* A run the user did not ask for never lifts the stop intent nor starts   *)
(* anything under it (start, finish_deploy_request, write_stopped).        *)
StopIntentHolds ==
  [][ disk.stopped /\ (~disk'.stopped \/ host'.up \notin {None, host.up})
        => ~run'.scheduled /\ (pc # "idle" => ~run.scheduled) ]_vars

(* A run holds the lifecycle lock.                                          *)
LifecycleRuns == pc # "idle"

(* The Space is, towards everything outside the lifecycle lock, the atomic *)
(* store of one proved release that AtomicApply describes: during an apply *)
(* the release that counts is the one it replaces.                         *)
Replacing == run.kind = "apply" /\ pc \in Window

Abstract ==
  INSTANCE AtomicApply WITH
    release <- IF Replacing THEN run.prev ELSE disk.env,
    proved  <- hist.healthy,
    whole   <- ~hist.interrupted

ImplementsAtomicApply == Abstract!Spec

(* The release a rollback reports as the previous healthy one had proved   *)
(* healthy (rollback, start_or_roll_back).                                 *)
RestoredWasHealthy ==
  pc = "idle" /\ hist.outcome = "restored" => disk.env \in hist.healthy
=============================================================================
