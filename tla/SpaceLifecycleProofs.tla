------------------------ MODULE SpaceLifecycleProofs ------------------------
(***************************************************************************)
(* What holds of SpaceLifecycle for every set of releases, order and       *)
(* stored formats: the types, which runs reach which steps, what each step *)
(* may take for granted, the formats that volumes and records are in, and  *)
(* that a Space is the atomic store AtomicApply promises.                  *)
(***************************************************************************)
EXTENDS SpaceLifecycle, TLAPS

RemovalSteps ==
  {"removeDocker", "removeStorage", "removeSchedule", "removeFiles"}

ApplySteps == Steps \ (RemovalSteps \cup {"idle", "stop", "authorize"})

(* The steps at which the environment of the replaced release is backed up *)
(* and has not been restored.                                              *)
BackedUp ==
  { "reconcile", "stopOld", "clear", "record", "writeEnv", "writeGraph",
    "clearStopped", "up", "prove", "commit", "down", "remember",
    "restoreGraph", "restoreEnv" }

ReconcileSteps == {"reconcile", "stopOld", "clear", "record"}

(* Which release each step may rely on being there. *)
Reliance ==
  /\ pc \in ApplySteps => run.kind = "apply"
  /\ run.kind \in {"apply", "recover"} => run.cand # None
  /\ run.kind = "recover" => run.prev = None
  /\ pc \in {"admit", "backupGraph", "backupEnv"} /\ ~fresh => disk.env # None
  /\ pc \in {"mark", "backupGraph", "backupEnv", "remember", "restoreGraph",
             "restoreEnv", "restoreStorage", "startPrevious"}
       => (pc = "mark" <=> fresh)
  /\ pc \in BackedUp /\ ~fresh /\ ~run.restoring => disk.envBackup # None
  /\ pc \in {"restoreStorage", "startPrevious"} => disk.env # None
  /\ run.restoring =>
       /\ pc \in ReconcileSteps
               \cup {"startPrevious", "rollbackStatus", "disable"}
       /\ ~fresh
       /\ disk.env # None
  /\ pc = "startPrevious" => run.restoring
  /\ pc = "removeSchedule" => run.kind \in {"reset", "recover"}
  /\ pc = "authorize" /\ run.kind = "reset" => disk.env # None

Stores == disk \in Disk /\ host \in Host

Control ==
  /\ pc \in Steps
  /\ run \in Run
  /\ hist \in Hist
  /\ pc = "idle" <=> run.kind = "none"

TInv == Stores /\ Control /\ Reliance

(* The record updates of the actions stay in their types. *)
LEMMA HostUpdates ==
  ASSUME host \in Host
  PROVE  /\ Stopped \in Host
         /\ [Stopped EXCEPT !.made = None] \in Host
         /\ [Stopped EXCEPT !.made = None, !.data = None] \in Host
         /\ [host EXCEPT !.made = None, !.up = None, !.data = None,
                         !.owned = FALSE] \in Host
         /\ [host EXCEPT !.data = None] \in Host
         /\ [host EXCEPT !.pool = Opened] \in Host
         /\ [host EXCEPT !.pool = IF Encrypted THEN "absent" ELSE @] \in Host
         /\ \A b \in BOOLEAN : [host EXCEPT !.scheduler = b] \in Host
  BY DEF Host, Ref, Mark, Stopped, Opened

LEMMA StartedTyped ==
  ASSUME host \in Host, NEW r \in Releases
  PROVE  Started(r) \in Host /\ [Started(r) EXCEPT !.up = None] \in Host
  BY DEF Host, Ref, Started, Mark, Epochs

LEMMA DiskUpdates ==
  ASSUME disk \in Disk
  PROVE  /\ [disk EXCEPT !.graphBackup = None, !.envBackup = None] \in Disk
         /\ [disk EXCEPT !.failed = None] \in Disk
         /\ \A r \in Releases : [disk EXCEPT !.failed = r] \in Disk
         /\ \A r \in Releases, o \in {"reconciled", "rollback"} :
              [disk EXCEPT !.status = [release |-> r, outcome |-> o]] \in Disk
         /\ [disk EXCEPT !.graph = disk.graphBackup, !.graphBackup = None] \in Disk
         /\ [disk EXCEPT !.env = disk.envBackup, !.envBackup = None] \in Disk
         /\ \A b \in BOOLEAN : [disk EXCEPT !.stopped = b] \in Disk
  BY ZenonT(60) DEF Disk, Ref, Status

LEMMA RecordUpdates ==
  ASSUME disk \in Disk
  PROVE  /\ \A r \in Ref : /\ [disk EXCEPT !.env = r] \in Disk
                          /\ [disk EXCEPT !.graph = r] \in Disk
                          /\ [disk EXCEPT !.envBackup = r] \in Disk
                          /\ [disk EXCEPT !.graphBackup = r] \in Disk
         /\ \A m \in Mark : [disk EXCEPT !.epoch = m] \in Disk
         /\ \A b \in BOOLEAN : [disk EXCEPT !.marker = b] \in Disk
  BY DEF Disk

LEMMA RunUpdates ==
  ASSUME run \in Run
  PROVE  /\ NoRun \in Run /\ NoRun.kind = "none"
         /\ [run EXCEPT !.restoring = FALSE] \in Run
         /\ [run EXCEPT !.memoryError = TRUE] \in Run
         /\ [run EXCEPT !.kind = "apply"] \in Run
         /\ \A t \in Mark : [run EXCEPT !.restoring = TRUE, !.target = t] \in Run
  BY DEF Run, NoRun, Kinds, Ref, Mark

LEMMA HistUpdates ==
  ASSUME hist \in Hist
  PROVE  /\ \A o \in Outcomes :
              /\ [hist EXCEPT !.outcome = o] \in Hist
              /\ [hist EXCEPT !.outcome = o, !.interrupted = Interrupted] \in Hist
              /\ [hist EXCEPT !.outcome = o, !.abandoned = Barred] \in Hist
              /\ NewHist(o) \in Hist
         /\ [hist EXCEPT !.interrupted = FALSE] \in Hist
         /\ [hist EXCEPT !.abandoned = None] \in Hist
         /\ \A r \in Releases : [hist EXCEPT !.abandoned = r] \in Hist
         /\ \A r \in Releases : [hist EXCEPT !.healthy = @ \cup {r}] \in Hist
  BY DEF Hist, Ref, Interrupted, Barred, NewHist

LEMMA RunKinds ==
  ASSUME run \in Run
  PROVE  /\ [run EXCEPT !.restoring = FALSE].kind = run.kind
         /\ [run EXCEPT !.memoryError = TRUE].kind = run.kind
         /\ [run EXCEPT !.kind = "apply"].kind = "apply"
         /\ \A t \in Mark :
              [run EXCEPT !.restoring = TRUE, !.target = t].kind = run.kind
  BY DEF Run

(* What the types and the steps say of single fields. *)
LEMMA Fields ==
  ASSUME TInv
  PROVE  /\ disk.env \in Ref /\ disk.graph \in Ref /\ host.made \in Ref
         /\ run.prev \in Ref /\ run.target \in Mark
         /\ pc \in ApplySteps => run.kind = "apply" /\ run.cand \in Releases
         /\ pc \in {"restoreStorage", "startPrevious"} => disk.env \in Releases
         /\ pc \in RemovalSteps \cup {"stop", "authorize"} => run.kind # "none"
         /\ run.kind \in Kinds
         /\ None \in Ref /\ None \in Mark /\ Releases \subseteq Ref
         /\ \A r \in Releases : Epoch[r] \in Mark
  BY ReleasesAssumption
  DEF TInv, Stores, Control, Reliance, Disk, Host, Run, Ref, Mark, Epochs,
      ApplySteps, RemovalSteps, Steps

LEMMA Abandoned ==
  ASSUME hist \in Hist, NEW o \in Outcomes, NEW r \in Releases
  PROVE  [hist EXCEPT !.outcome = o, !.abandoned = r] \in Hist
  BY DEF Hist, Ref

LEMMA FileUpdates ==
  ASSUME disk \in Disk,
         NEW f \in {"epoch", "graph", "env", "status", "failed", "stopped",
                   "graphBackup", "envBackup", "marker"}
  PROVE  [disk EXCEPT ![f] = EmptyDisk[f]] \in Disk
  <1>1. CASE f = "epoch"
    BY <1>1 DEF Disk, EmptyDisk, Mark
  <1>2. CASE f = "graph"
    BY <1>2 DEF Disk, EmptyDisk, Ref
  <1>3. CASE f = "env"
    BY <1>3 DEF Disk, EmptyDisk, Ref
  <1>4. CASE f = "status"
    BY <1>4 DEF Disk, EmptyDisk
  <1>5. CASE f = "failed"
    BY <1>5 DEF Disk, EmptyDisk, Ref
  <1>6. CASE f = "stopped"
    BY <1>6 DEF Disk, EmptyDisk
  <1>7. CASE f = "graphBackup"
    BY <1>7 DEF Disk, EmptyDisk, Ref
  <1>8. CASE f = "envBackup"
    BY <1>8 DEF Disk, EmptyDisk, Ref
  <1>9. CASE f = "marker"
    BY <1>9 DEF Disk, EmptyDisk
  <1>10. QED BY <1>1, <1>2, <1>3, <1>4, <1>5, <1>6, <1>7, <1>8, <1>9

LEMMA AskedTyped ==
  ASSUME TInv, pc = "authorize", NEW h \in Asked
  PROVE  h \in Host /\ [h EXCEPT !.up = None] \in Host
  <1>1. CASE run.kind = "reset" /\ disk.stopped
    <2>1. disk.env \in Releases
      BY <1>1, Fields DEF TInv, Reliance, Ref
    <2>2. h = Started(disk.env)
      BY <1>1 DEF Asked, Startable
    <2>3. QED BY <2>1, <2>2, StartedTyped DEF TInv, Stores
  <1>2. CASE ~(run.kind = "reset" /\ disk.stopped)
    <2>1. host.made \in Releases /\ h = Started(host.made)
      BY <1>2, Fields DEF Asked, Startable, Ref
    <2>2. QED BY <2>1, StartedTyped DEF TInv, Stores
  <1>3. QED BY <1>1, <1>2

(* A run that ends, however it ends, leaves nothing to rely on. *)
LEMMA EndTyped ==
  ASSUME hist \in Hist, run \in Run,
         NEW o \in Outcomes, End(o) \/ EndDirty(o)
  PROVE  Control' /\ Reliance'
  <1>1. pc' = "idle" /\ run' = NoRun /\ hist' \in Hist
    BY HistUpdates DEF End, EndDirty
  <1>2. Control'
    BY <1>1, RunUpdates DEF Control, Steps
  <1>3. Reliance'
    BY <1>1 DEF Reliance, NoRun, ApplySteps, BackedUp
  <1>4. QED BY <1>2, <1>3

LEMMA TInvInit == Init => TInv
  BY ReleasesAssumption
  DEF Init, TInv, Stores, Control, Reliance, EmptyDisk, Disk, Host, Run,
      NoRun, Hist, NewHist, Outcomes, Status, Ref, Mark, Epochs, Steps, Kinds,
      ApplySteps, BackedUp, ReconcileSteps, RemovalSteps, fresh

-----------------------------------------------------------------------------
(* The types along an apply. *)
LEMMA TInvApply ==
  ASSUME TInv, Apply PROVE TInv'
  <1> USE ReleasesAssumption DEF TInv, Stores, Control
  <1>1. ASSUME WriteMarker PROVE TInv'
    <2>1. Stores'
      BY <1>1, Fields, HostUpdates, StartedTyped, DiskUpdates, RecordUpdates
      DEF WriteMarker, Go, ApplySteps, Steps, RemovalSteps
    <2>2. Control'
      BY <1>1, Fields, RunUpdates, HistUpdates, EndTyped, RunKinds
      DEF WriteMarker, Go, Steps, Outcomes, ApplySteps, RemovalSteps
    <2>3. Reliance'
      BY <1>1, EndTyped
      DEF WriteMarker, Go, Reliance, ApplySteps, RemovalSteps, Steps,
          BackedUp, ReconcileSteps, fresh, Disk, Run, NoRun, Kinds, Outcomes
    <2>4. QED BY <2>1, <2>2, <2>3
  <1>2. ASSUME Admit PROVE TInv'
    <2>1. Stores'
      BY <1>2, Fields, HostUpdates, StartedTyped, DiskUpdates, RecordUpdates
      DEF Admit, Go, ApplySteps, Steps, RemovalSteps
    <2>2. Control'
      BY <1>2, Fields, RunUpdates, HistUpdates, EndTyped, RunKinds
      DEF Admit, Go, Steps, Outcomes, ApplySteps, RemovalSteps
    <2>3. Reliance'
      BY <1>2, EndTyped
      DEF Admit, Go, Reliance, ApplySteps, RemovalSteps, Steps, BackedUp,
          ReconcileSteps, fresh, Disk, Run, NoRun, Kinds, Outcomes
    <2>4. QED BY <2>1, <2>2, <2>3
  <1>3. ASSUME AdmitLocked PROVE TInv'
    <2>1. Stores'
      BY <1>3, Fields, HostUpdates, StartedTyped, DiskUpdates, RecordUpdates
      DEF AdmitLocked, ApplySteps, Steps, RemovalSteps
    <2>2. QED
      BY <1>3, <2>1, EndTyped DEF AdmitLocked, Outcomes
  <1>4. ASSUME AdmitDeferred PROVE TInv'
    <2>1. Stores'
      BY <1>4, Fields, HostUpdates, StartedTyped, DiskUpdates, RecordUpdates
      DEF AdmitDeferred, ApplySteps, Steps, RemovalSteps
    <2>2. QED
      BY <1>4, <2>1, EndTyped DEF AdmitDeferred, Outcomes
  <1>5. ASSUME AdmitFails PROVE TInv'
    <2>1. Stores'
      BY <1>5, Fields, HostUpdates, StartedTyped, DiskUpdates, RecordUpdates
      DEF AdmitFails, ApplySteps, Steps, RemovalSteps
    <2>2. Control'
      BY <1>5, Fields, RunUpdates, HistUpdates, EndTyped, RunKinds
      DEF AdmitFails, Steps, Outcomes, ApplySteps, RemovalSteps
    <2>3. Reliance'
      BY <1>5, EndTyped
      DEF AdmitFails, Reliance, ApplySteps, RemovalSteps, Steps, BackedUp,
          ReconcileSteps, fresh, Disk, Run, NoRun, Kinds, Outcomes
    <2>4. QED BY <2>1, <2>2, <2>3
  <1>6. ASSUME BackupGraph PROVE TInv'
    <2>1. Stores'
      BY <1>6, Fields, HostUpdates, StartedTyped, DiskUpdates, RecordUpdates
      DEF BackupGraph, Go, ApplySteps, Steps, RemovalSteps
    <2>2. Control'
      BY <1>6, Fields, RunUpdates, HistUpdates, EndTyped, RunKinds
      DEF BackupGraph, Go, Steps, Outcomes, ApplySteps, RemovalSteps
    <2>3. Reliance'
      BY <1>6, EndTyped
      DEF BackupGraph, Go, Reliance, ApplySteps, RemovalSteps, Steps,
          BackedUp, ReconcileSteps, fresh, Disk, Run, NoRun, Kinds, Outcomes
    <2>4. QED BY <2>1, <2>2, <2>3
  <1>7. ASSUME BackupEnv PROVE TInv'
    <2>1. Stores'
      BY <1>7, Fields, HostUpdates, StartedTyped, DiskUpdates, RecordUpdates
      DEF BackupEnv, Go, ApplySteps, Steps, RemovalSteps
    <2>2. Control'
      BY <1>7, Fields, RunUpdates, HistUpdates, EndTyped, RunKinds
      DEF BackupEnv, Go, Steps, Outcomes, ApplySteps, RemovalSteps
    <2>3. Reliance'
      BY <1>7, EndTyped
      DEF BackupEnv, Go, Reliance, ApplySteps, RemovalSteps, Steps, BackedUp,
          ReconcileSteps, fresh, Disk, Run, NoRun, Kinds, Outcomes
    <2>4. QED BY <2>1, <2>2, <2>3
  <1>8. ASSUME BackupFails PROVE TInv'
    <2>1. Stores'
      BY <1>8, Fields, HostUpdates, StartedTyped, DiskUpdates, RecordUpdates
      DEF BackupFails, ApplySteps, Steps, RemovalSteps
    <2>2. QED
      BY <1>8, <2>1, EndTyped DEF BackupFails, Outcomes
  <1>9. ASSUME ReconcileForget PROVE TInv'
    <2>1. Stores'
      BY <1>9, Fields, HostUpdates, StartedTyped, DiskUpdates, RecordUpdates
      DEF ReconcileForget, Go, ResetNeeded, Target, ApplySteps, Steps,
          RemovalSteps
    <2>2. Control'
      BY <1>9, Fields, RunUpdates, HistUpdates, EndTyped, RunKinds
      DEF ReconcileForget, Go, ResetNeeded, Target, Steps, Outcomes,
          ApplySteps, RemovalSteps
    <2>3. Reliance'
      BY <1>9, EndTyped
      DEF ReconcileForget, Go, ResetNeeded, Target, Reliance, ApplySteps,
          RemovalSteps, Steps, BackedUp, ReconcileSteps, fresh, Disk, Run,
          NoRun, Kinds, Outcomes
    <2>4. QED BY <2>1, <2>2, <2>3
  <1>10. ASSUME ReconcileKeep PROVE TInv'
    <2>1. Stores'
      BY <1>10, Fields, HostUpdates, StartedTyped, DiskUpdates, RecordUpdates
      DEF ReconcileKeep, Go, Resume, ApplySteps, Steps, RemovalSteps
    <2>2. Control'
      BY <1>10, Fields, RunUpdates, HistUpdates, EndTyped, RunKinds
      DEF ReconcileKeep, Go, Resume, Steps, Outcomes, ApplySteps, RemovalSteps
    <2>3. Reliance'
      BY <1>10, EndTyped
      DEF ReconcileKeep, Go, Resume, Reliance, ApplySteps, RemovalSteps,
          Steps, BackedUp, ReconcileSteps, fresh, Disk, Run, NoRun, Kinds,
          Outcomes
    <2>4. QED BY <2>1, <2>2, <2>3
  <1>11. ASSUME StopOld PROVE TInv'
    <2>1. Stores'
      BY <1>11, Fields, HostUpdates, StartedTyped, DiskUpdates, RecordUpdates
      DEF StopOld, Go, ApplySteps, Steps, RemovalSteps
    <2>2. Control'
      BY <1>11, Fields, RunUpdates, HistUpdates, EndTyped, RunKinds
      DEF StopOld, Go, Steps, Outcomes, ApplySteps, RemovalSteps
    <2>3. Reliance'
      BY <1>11, EndTyped
      DEF StopOld, Go, Reliance, ApplySteps, RemovalSteps, Steps, BackedUp,
          ReconcileSteps, fresh, Disk, Run, NoRun, Kinds, Outcomes
    <2>4. QED BY <2>1, <2>2, <2>3
  <1>12. ASSUME ClearVolumes PROVE TInv'
    <2>1. Stores'
      BY <1>12, Fields, HostUpdates, StartedTyped, DiskUpdates, RecordUpdates
      DEF ClearVolumes, Go, Resume, Target, ApplySteps, Steps, RemovalSteps
    <2>2. Control'
      BY <1>12, Fields, RunUpdates, HistUpdates, EndTyped, RunKinds
      DEF ClearVolumes, Go, Resume, Target, Steps, Outcomes, ApplySteps,
          RemovalSteps
    <2>3. Reliance'
      BY <1>12, EndTyped
      DEF ClearVolumes, Go, Resume, Target, Reliance, ApplySteps,
          RemovalSteps, Steps, BackedUp, ReconcileSteps, fresh, Disk, Run,
          NoRun, Kinds, Outcomes
    <2>4. QED BY <2>1, <2>2, <2>3
  <1>13. ASSUME RecordEpoch PROVE TInv'
    <2>1. Stores'
      BY <1>13, Fields, HostUpdates, StartedTyped, DiskUpdates, RecordUpdates
      DEF RecordEpoch, Go, Resume, Target, Epochs, ApplySteps, Steps,
          RemovalSteps
    <2>2. Control'
      BY <1>13, Fields, RunUpdates, HistUpdates, EndTyped, RunKinds
      DEF RecordEpoch, Go, Resume, Target, Epochs, Steps, Outcomes,
          ApplySteps, RemovalSteps
    <2>3. Reliance'
      BY <1>13, EndTyped
      DEF RecordEpoch, Go, Resume, Target, Epochs, Reliance, ApplySteps,
          RemovalSteps, Steps, BackedUp, ReconcileSteps, fresh, Disk, Run,
          NoRun, Kinds, Outcomes
    <2>4. QED BY <2>1, <2>2, <2>3
  <1>14. ASSUME ReconcileFails PROVE TInv'
    <2>1. Stores'
      BY <1>14, Fields, HostUpdates, StartedTyped, DiskUpdates, RecordUpdates
      DEF ReconcileFails, ApplySteps, Steps, RemovalSteps
    <2>2. Control'
      BY <1>14, Fields, RunUpdates, HistUpdates, EndTyped, RunKinds
      DEF ReconcileFails, Steps, Outcomes, ApplySteps, RemovalSteps
    <2>3. Reliance'
      BY <1>14, EndTyped
      DEF ReconcileFails, Reliance, ApplySteps, RemovalSteps, Steps, BackedUp,
          ReconcileSteps, fresh, Disk, Run, NoRun, Kinds, Outcomes
    <2>4. QED BY <2>1, <2>2, <2>3
  <1>15. ASSUME WriteEnv PROVE TInv'
    <2>1. Stores'
      BY <1>15, Fields, HostUpdates, StartedTyped, DiskUpdates, RecordUpdates
      DEF WriteEnv, Go, ApplySteps, Steps, RemovalSteps
    <2>2. Control'
      BY <1>15, Fields, RunUpdates, HistUpdates, EndTyped, RunKinds
      DEF WriteEnv, Go, Steps, Outcomes, ApplySteps, RemovalSteps
    <2>3. Reliance'
      BY <1>15, EndTyped
      DEF WriteEnv, Go, Reliance, ApplySteps, RemovalSteps, Steps, BackedUp,
          ReconcileSteps, fresh, Disk, Run, NoRun, Kinds, Outcomes
    <2>4. QED BY <2>1, <2>2, <2>3
  <1>16. ASSUME WriteGraph PROVE TInv'
    <2>1. Stores'
      BY <1>16, Fields, HostUpdates, StartedTyped, DiskUpdates, RecordUpdates
      DEF WriteGraph, Go, ApplySteps, Steps, RemovalSteps
    <2>2. Control'
      BY <1>16, Fields, RunUpdates, HistUpdates, EndTyped, RunKinds
      DEF WriteGraph, Go, Steps, Outcomes, ApplySteps, RemovalSteps
    <2>3. Reliance'
      BY <1>16, EndTyped
      DEF WriteGraph, Go, Reliance, ApplySteps, RemovalSteps, Steps, BackedUp,
          ReconcileSteps, fresh, Disk, Run, NoRun, Kinds, Outcomes
    <2>4. QED BY <2>1, <2>2, <2>3
  <1>17. ASSUME ClearStopped PROVE TInv'
    <2>1. Stores'
      BY <1>17, Fields, HostUpdates, StartedTyped, DiskUpdates, RecordUpdates
      DEF ClearStopped, Go, ApplySteps, Steps, RemovalSteps
    <2>2. Control'
      BY <1>17, Fields, RunUpdates, HistUpdates, EndTyped, RunKinds
      DEF ClearStopped, Go, Steps, Outcomes, ApplySteps, RemovalSteps
    <2>3. Reliance'
      BY <1>17, EndTyped
      DEF ClearStopped, Go, Reliance, ApplySteps, RemovalSteps, Steps,
          BackedUp, ReconcileSteps, fresh, Disk, Run, NoRun, Kinds, Outcomes
    <2>4. QED BY <2>1, <2>2, <2>3
  <1>18. ASSUME StartCandidate PROVE TInv'
    <2>1. Stores'
      BY <1>18, Fields, HostUpdates, StartedTyped, DiskUpdates, RecordUpdates
      DEF StartCandidate, Go, ApplySteps, Steps, RemovalSteps
    <2>2. Control'
      BY <1>18, Fields, RunUpdates, HistUpdates, EndTyped, RunKinds
      DEF StartCandidate, Go, Steps, Outcomes, ApplySteps, RemovalSteps
    <2>3. Reliance'
      BY <1>18, EndTyped
      DEF StartCandidate, Go, Reliance, ApplySteps, RemovalSteps, Steps,
          BackedUp, ReconcileSteps, fresh, Disk, Run, NoRun, Kinds, Outcomes
    <2>4. QED BY <2>1, <2>2, <2>3
  <1>19. ASSUME Prove PROVE TInv'
    <2>1. Stores'
      BY <1>19, Fields, HostUpdates, StartedTyped, DiskUpdates, RecordUpdates
      DEF Prove, Go, ApplySteps, Steps, RemovalSteps
    <2>2. Control'
      BY <1>19, Fields, RunUpdates, HistUpdates, EndTyped, RunKinds
      DEF Prove, Go, Steps, Outcomes, ApplySteps, RemovalSteps
    <2>3. Reliance'
      BY <1>19, EndTyped
      DEF Prove, Go, Reliance, ApplySteps, RemovalSteps, Steps, BackedUp,
          ReconcileSteps, fresh, Disk, Run, NoRun, Kinds, Outcomes
    <2>4. QED BY <2>1, <2>2, <2>3
  <1>20. ASSUME StartFails PROVE TInv'
    <2>1. Stores'
      BY <1>20, Fields, HostUpdates, StartedTyped, DiskUpdates, RecordUpdates
      DEF StartFails, Go, Startable, ApplySteps, Steps, RemovalSteps
    <2>2. Control'
      BY <1>20, Fields, RunUpdates, HistUpdates, EndTyped, RunKinds
      DEF StartFails, Go, Startable, Steps, Outcomes, ApplySteps, RemovalSteps
    <2>3. Reliance'
      BY <1>20, EndTyped
      DEF StartFails, Go, Startable, Reliance, ApplySteps, RemovalSteps,
          Steps, BackedUp, ReconcileSteps, fresh, Disk, Run, NoRun, Kinds,
          Outcomes
    <2>4. QED BY <2>1, <2>2, <2>3
  <1>21. ASSUME Commit PROVE TInv'
    <2>1. Stores'
      BY <1>21, Fields, HostUpdates, StartedTyped, DiskUpdates, RecordUpdates
      DEF Commit, Go, ApplySteps, Steps, RemovalSteps
    <2>2. Control'
      BY <1>21, Fields, RunUpdates, HistUpdates, EndTyped, RunKinds
      DEF Commit, Go, Steps, Outcomes, ApplySteps, RemovalSteps
    <2>3. Reliance'
      BY <1>21, EndTyped
      DEF Commit, Go, Reliance, ApplySteps, RemovalSteps, Steps, BackedUp,
          ReconcileSteps, fresh, Disk, Run, NoRun, Kinds, Outcomes
    <2>4. QED BY <2>1, <2>2, <2>3
  <1>22. ASSUME ReplaceFails PROVE TInv'
    <2>1. Stores'
      BY <1>22, Fields, HostUpdates, StartedTyped, DiskUpdates, RecordUpdates
      DEF ReplaceFails, ApplySteps, Steps, RemovalSteps
    <2>2. Control'
      BY <1>22, Fields, RunUpdates, HistUpdates, EndTyped, RunKinds
      DEF ReplaceFails, Steps, Outcomes, ApplySteps, RemovalSteps
    <2>3. Reliance'
      BY <1>22, EndTyped
      DEF ReplaceFails, Reliance, ApplySteps, RemovalSteps, Steps, BackedUp,
          ReconcileSteps, fresh, Disk, Run, NoRun, Kinds, Outcomes
    <2>4. QED BY <2>1, <2>2, <2>3
  <1>23. ASSUME DropBackup PROVE TInv'
    <2>1. Stores'
      BY <1>23, Fields, HostUpdates, StartedTyped, DiskUpdates, RecordUpdates
      DEF DropBackup, Go, ApplySteps, Steps, RemovalSteps
    <2>2. Control'
      BY <1>23, Fields, RunUpdates, HistUpdates, EndTyped, RunKinds
      DEF DropBackup, Go, Steps, Outcomes, ApplySteps, RemovalSteps
    <2>3. Reliance'
      BY <1>23, EndTyped
      DEF DropBackup, Go, Reliance, ApplySteps, RemovalSteps, Steps, BackedUp,
          ReconcileSteps, fresh, Disk, Run, NoRun, Kinds, Outcomes
    <2>4. QED BY <2>1, <2>2, <2>3
  <1>24. ASSUME ForgetFailed PROVE TInv'
    <2>1. Stores'
      BY <1>24, Fields, HostUpdates, StartedTyped, DiskUpdates, RecordUpdates
      DEF ForgetFailed, Go, ApplySteps, Steps, RemovalSteps
    <2>2. Control'
      BY <1>24, Fields, RunUpdates, HistUpdates, EndTyped, RunKinds
      DEF ForgetFailed, Go, Steps, Outcomes, ApplySteps, RemovalSteps
    <2>3. Reliance'
      BY <1>24, EndTyped
      DEF ForgetFailed, Go, Reliance, ApplySteps, RemovalSteps, Steps,
          BackedUp, ReconcileSteps, fresh, Disk, Run, NoRun, Kinds, Outcomes
    <2>4. QED BY <2>1, <2>2, <2>3
  <1>25. ASSUME Schedule PROVE TInv'
    <2>1. Stores'
      BY <1>25, Fields, HostUpdates, StartedTyped, DiskUpdates, RecordUpdates
      DEF Schedule, ApplySteps, Steps, RemovalSteps
    <2>2. Control'
      BY <1>25, Fields, RunUpdates, HistUpdates, EndTyped, RunKinds
      DEF Schedule, Steps, Outcomes, ApplySteps, RemovalSteps
    <2>3. Reliance'
      BY <1>25, EndTyped
      DEF Schedule, Reliance, ApplySteps, RemovalSteps, Steps, BackedUp,
          ReconcileSteps, fresh, Disk, Run, NoRun, Kinds, Outcomes
    <2>4. QED BY <2>1, <2>2, <2>3
  <1>26. ASSUME AfterCommitFails PROVE TInv'
    <2>1. Stores'
      BY <1>26, Fields, HostUpdates, StartedTyped, DiskUpdates, RecordUpdates
      DEF AfterCommitFails, ApplySteps, Steps, RemovalSteps
    <2>2. Control'
      BY <1>26, Fields, RunUpdates, HistUpdates, EndTyped, RunKinds
      DEF AfterCommitFails, Steps, Outcomes, ApplySteps, RemovalSteps
    <2>3. Reliance'
      BY <1>26, EndTyped
      DEF AfterCommitFails, Reliance, ApplySteps, RemovalSteps, Steps,
          BackedUp, ReconcileSteps, fresh, Disk, Run, NoRun, Kinds, Outcomes
    <2>4. QED BY <2>1, <2>2, <2>3
  <1>27. QED
    BY <1>1, <1>2, <1>3, <1>4, <1>5, <1>6, <1>7, <1>8, <1>9, <1>10, <1>11,
       <1>12, <1>13, <1>14, <1>15, <1>16, <1>17, <1>18, <1>19, <1>20, <1>21,
       <1>22, <1>23, <1>24, <1>25, <1>26
    DEF Apply

-----------------------------------------------------------------------------
(* The types along a rollback. *)
LEMMA TInvRollback ==
  ASSUME TInv, Rollback PROVE TInv'
  <1> USE ReleasesAssumption DEF TInv, Stores, Control
  <1>1. ASSUME Down PROVE TInv'
    <2>1. Stores'
      BY <1>1, Fields, HostUpdates, StartedTyped, DiskUpdates, RecordUpdates
      DEF Down, Go, ApplySteps, Steps, RemovalSteps
    <2>2. Control'
      BY <1>1, Fields, RunUpdates, HistUpdates, EndTyped, RunKinds
      DEF Down, Go, Steps, Outcomes, ApplySteps, RemovalSteps
    <2>3. Reliance'
      BY <1>1, EndTyped
      DEF Down, Go, Reliance, ApplySteps, RemovalSteps, Steps, BackedUp,
          ReconcileSteps, fresh, Disk, Run, NoRun, Kinds, Outcomes
    <2>4. QED BY <2>1, <2>2, <2>3
  <1>2. ASSUME Remember PROVE TInv'
    <2>1. Stores'
      BY <1>2, Fields, HostUpdates, StartedTyped, DiskUpdates, RecordUpdates
      DEF Remember, Go, ApplySteps, Steps, RemovalSteps
    <2>2. Control'
      BY <1>2, Fields, RunUpdates, HistUpdates, EndTyped, RunKinds
      DEF Remember, Go, Steps, Outcomes, ApplySteps, RemovalSteps
    <2>3. Reliance'
      BY <1>2, EndTyped
      DEF Remember, Go, Reliance, ApplySteps, RemovalSteps, Steps, BackedUp,
          ReconcileSteps, fresh, Disk, Run, NoRun, Kinds, Outcomes
    <2>4. QED BY <2>1, <2>2, <2>3
  <1>3. ASSUME RestoreGraph PROVE TInv'
    <2>1. Stores'
      BY <1>3, Fields, HostUpdates, StartedTyped, DiskUpdates, RecordUpdates
      DEF RestoreGraph, Go, ApplySteps, Steps, RemovalSteps
    <2>2. Control'
      BY <1>3, Fields, RunUpdates, HistUpdates, EndTyped, RunKinds
      DEF RestoreGraph, Go, Steps, Outcomes, ApplySteps, RemovalSteps
    <2>3. Reliance'
      BY <1>3, EndTyped
      DEF RestoreGraph, Go, Reliance, ApplySteps, RemovalSteps, Steps,
          BackedUp, ReconcileSteps, fresh, Disk, Run, NoRun, Kinds, Outcomes
    <2>4. QED BY <2>1, <2>2, <2>3
  <1>4. ASSUME RestoreEnv PROVE TInv'
    <2>1. Stores'
      BY <1>4, Fields, HostUpdates, StartedTyped, DiskUpdates, RecordUpdates
      DEF RestoreEnv, Go, ApplySteps, Steps, RemovalSteps
    <2>2. Control'
      BY <1>4, Fields, RunUpdates, HistUpdates, EndTyped, RunKinds
      DEF RestoreEnv, Go, Steps, Outcomes, ApplySteps, RemovalSteps
    <2>3. Reliance'
      BY <1>4, EndTyped
      DEF RestoreEnv, Go, Reliance, ApplySteps, RemovalSteps, Steps, BackedUp,
          ReconcileSteps, fresh, Disk, Run, NoRun, Kinds, Outcomes
    <2>4. QED BY <2>1, <2>2, <2>3
  <1>5. ASSUME RestoreStorage PROVE TInv'
    <2>1. Stores'
      BY <1>5, Fields, HostUpdates, StartedTyped, DiskUpdates, RecordUpdates
      DEF RestoreStorage, Go, Epochs, ApplySteps, Steps, RemovalSteps
    <2>2. PICK t \in {Epoch[disk.env], None} :
             run' = [run EXCEPT !.restoring = TRUE, !.target = t]
      BY <1>5 DEF RestoreStorage
    <2>3. t \in Mark /\ pc' = "reconcile" /\ hist' = hist
      BY <1>5, Fields DEF RestoreStorage, Go
    <2>4. Control'
      BY <1>5, <2>2, <2>3, Fields, RunUpdates, RunKinds
      DEF RestoreStorage, Go, Steps, ApplySteps, RemovalSteps
    <2>5. Reliance'
      BY <1>5 DEF RestoreStorage, Go, Reliance, ApplySteps, RemovalSteps,
        Steps, BackedUp, ReconcileSteps, fresh, Disk, Run, NoRun, Kinds
    <2>6. QED BY <2>1, <2>4, <2>5
  <1>6. ASSUME RestoreLocked PROVE TInv'
    <2>1. Stores'
      BY <1>6, Fields, HostUpdates, StartedTyped, DiskUpdates, RecordUpdates
      DEF RestoreLocked, ApplySteps, Steps, RemovalSteps
    <2>2. Control'
      BY <1>6, Fields, RunUpdates, HistUpdates, EndTyped, RunKinds
      DEF RestoreLocked, Steps, Outcomes, ApplySteps, RemovalSteps
    <2>3. Reliance'
      BY <1>6, EndTyped
      DEF RestoreLocked, Reliance, ApplySteps, RemovalSteps, Steps, BackedUp,
          ReconcileSteps, fresh, Disk, Run, NoRun, Kinds, Outcomes
    <2>4. QED BY <2>1, <2>2, <2>3
  <1>7. ASSUME RestoreFails PROVE TInv'
    <2>1. Stores'
      BY <1>7, Fields, HostUpdates, StartedTyped, DiskUpdates, RecordUpdates
      DEF RestoreFails, ApplySteps, Steps, RemovalSteps
    <2>2. QED
      BY <1>7, <2>1, EndTyped DEF RestoreFails, Outcomes
  <1>8. ASSUME StartPrevious PROVE TInv'
    <2>1. Stores'
      BY <1>8, Fields, HostUpdates, StartedTyped, DiskUpdates, RecordUpdates
      DEF StartPrevious, Go, Startable, ApplySteps, Steps, RemovalSteps
    <2>2. Control'
      BY <1>8, Fields, RunUpdates, HistUpdates, EndTyped, RunKinds
      DEF StartPrevious, Go, Startable, Steps, Outcomes, ApplySteps,
          RemovalSteps
    <2>3. Reliance'
      BY <1>8, EndTyped
      DEF StartPrevious, Go, Startable, Reliance, ApplySteps, RemovalSteps,
          Steps, BackedUp, ReconcileSteps, fresh, Disk, Run, NoRun, Kinds,
          Outcomes
    <2>4. QED BY <2>1, <2>2, <2>3
  <1>9. ASSUME RollbackStatus PROVE TInv'
    <2>1. Stores'
      BY <1>9, Fields, HostUpdates, StartedTyped, DiskUpdates, RecordUpdates
      DEF RollbackStatus, RollbackOutcome, ApplySteps, Steps, RemovalSteps
    <2>2. Control'
      BY <1>9, Fields, RunUpdates, HistUpdates, EndTyped, RunKinds
      DEF RollbackStatus, RollbackOutcome, Steps, Outcomes, ApplySteps,
          RemovalSteps
    <2>3. Reliance'
      BY <1>9, EndTyped
      DEF RollbackStatus, RollbackOutcome, Reliance, ApplySteps, RemovalSteps,
          Steps, BackedUp, ReconcileSteps, fresh, Disk, Run, NoRun, Kinds,
          Outcomes
    <2>4. QED BY <2>1, <2>2, <2>3
  <1>10. ASSUME Disable PROVE TInv'
    <2>1. Stores'
      BY <1>10, Fields, HostUpdates, StartedTyped, DiskUpdates, RecordUpdates
      DEF Disable, RollbackOutcome, ApplySteps, Steps, RemovalSteps
    <2>0. RollbackOutcome \in Outcomes /\ run.cand \in Releases
      BY <1>10, Fields
      DEF RollbackOutcome, Outcomes, Disable, ApplySteps, Steps, RemovalSteps
    <2>2. pc' = "idle" /\ run' = NoRun /\ hist' \in Hist
      <3>1. hist' \in {[hist EXCEPT !.outcome = RollbackOutcome,
                                  !.abandoned = run.cand],
                       [hist EXCEPT !.outcome = RollbackOutcome]}
        BY <1>10 DEF Disable
      <3>2. [hist EXCEPT !.outcome = RollbackOutcome,
                         !.abandoned = run.cand] \in Hist
        BY <2>0, Abandoned
      <3>3. [hist EXCEPT !.outcome = RollbackOutcome] \in Hist
        BY <2>0, HistUpdates
      <3>4. QED BY <1>10, <3>1, <3>2, <3>3 DEF Disable
    <2>3. Control' /\ Reliance'
      BY <2>2, RunUpdates
      DEF NoRun, Reliance, Steps, ApplySteps, BackedUp
    <2>4. QED BY <2>1, <2>3
  <1>11. QED
    BY <1>1, <1>2, <1>3, <1>4, <1>5, <1>6, <1>7, <1>8, <1>9, <1>10 DEF Rollback

-----------------------------------------------------------------------------
(* The types along a stop or a removal. *)
LEMMA TInvRemoval ==
  ASSUME TInv, Removal PROVE TInv'
  <1> USE ReleasesAssumption DEF TInv, Stores, Control
  <1>1. ASSUME StopContainers PROVE TInv'
    <2>1. Stores'
      BY <1>1, Fields, HostUpdates, StartedTyped, DiskUpdates, RecordUpdates
      DEF StopContainers, ApplySteps, Steps, RemovalSteps
    <2>2. QED
      BY <1>1, <2>1, EndTyped DEF StopContainers, Outcomes
  <1>2. ASSUME StopFails PROVE TInv'
    <2>1. Stores'
      BY <1>2, Fields, HostUpdates, StartedTyped, DiskUpdates, RecordUpdates
      DEF StopFails, ApplySteps, Steps, RemovalSteps
    <2>2. QED
      BY <1>2, <2>1, EndTyped DEF StopFails, Outcomes
  <1>3. ASSUME Authorize PROVE TInv'
    <2>1. Stores'
      BY <1>3, AskedTyped DEF Authorize, Go
    <2>2. Control'
      BY <1>3, Fields, RunUpdates, HistUpdates, EndTyped, RunKinds
      DEF Authorize, Go, Asked, Startable, Steps, Outcomes, ApplySteps,
          RemovalSteps
    <2>3. Reliance'
      BY <1>3, EndTyped
      DEF Authorize, Go, Asked, Startable, Reliance, ApplySteps, RemovalSteps,
          Steps, BackedUp, ReconcileSteps, fresh, Disk, Run, NoRun, Kinds,
          Outcomes
    <2>4. QED BY <2>1, <2>2, <2>3
  <1>4. ASSUME AuthorizeFails PROVE TInv'
    <2>1. Stores'
      BY <1>4, AskedTyped DEF AuthorizeFails
    <2>2. QED
      BY <1>4, <2>1, EndTyped DEF AuthorizeFails, Outcomes
  <1>5. ASSUME RemoveDocker PROVE TInv'
    <2>1. Stores'
      BY <1>5, Fields, HostUpdates, StartedTyped, DiskUpdates, RecordUpdates
      DEF RemoveDocker, Go, ApplySteps, Steps, RemovalSteps
    <2>2. Control'
      BY <1>5, Fields, RunUpdates, HistUpdates, EndTyped, RunKinds
      DEF RemoveDocker, Go, Steps, Outcomes, ApplySteps, RemovalSteps
    <2>3. Reliance'
      BY <1>5, EndTyped
      DEF RemoveDocker, Go, Reliance, ApplySteps, RemovalSteps, Steps,
          BackedUp, ReconcileSteps, fresh, Disk, Run, NoRun, Kinds, Outcomes
    <2>4. QED BY <2>1, <2>2, <2>3
  <1>6. ASSUME RemoveStorage PROVE TInv'
    <2>1. Stores'
      BY <1>6, Fields, HostUpdates, StartedTyped, DiskUpdates, RecordUpdates
      DEF RemoveStorage, Go, ApplySteps, Steps, RemovalSteps
    <2>2. Control'
      BY <1>6, Fields, RunUpdates, HistUpdates, EndTyped, RunKinds
      DEF RemoveStorage, Go, Steps, Outcomes, ApplySteps, RemovalSteps
    <2>3. Reliance'
      BY <1>6, EndTyped
      DEF RemoveStorage, Go, Reliance, ApplySteps, RemovalSteps, Steps,
          BackedUp, ReconcileSteps, fresh, Disk, Run, NoRun, Kinds, Outcomes
    <2>4. QED BY <2>1, <2>2, <2>3
  <1>7. ASSUME RemoveSchedule PROVE TInv'
    <2>1. Stores'
      BY <1>7, Fields, HostUpdates, StartedTyped, DiskUpdates, RecordUpdates
      DEF RemoveSchedule, Go, ApplySteps, Steps, RemovalSteps
    <2>2. Control'
      BY <1>7, Fields, RunUpdates, RunKinds
      DEF RemoveSchedule, Go, Steps, RemovalSteps
    <2>3. CASE run.kind = "reset"
      BY <1>7, <2>1, <2>2, <2>3
      DEF RemoveSchedule, Go, Reliance, ApplySteps, BackedUp, RemovalSteps,
          ReconcileSteps
    <2>4. CASE run.kind # "reset"
      BY <1>7, <2>1, <2>2, <2>4
      DEF RemoveSchedule, Go, Reliance, ApplySteps, BackedUp, RemovalSteps,
          ReconcileSteps, Run, Steps, fresh
    <2>5. QED BY <2>3, <2>4
  <1>8. ASSUME FilesRemoved PROVE TInv'
    <2>1. Stores'
      BY <1>8, Fields, HostUpdates, StartedTyped, DiskUpdates, RecordUpdates
      DEF FilesRemoved, ApplySteps, Steps, RemovalSteps
    <2>2. Control'
      BY <1>8, Fields, RunUpdates, HistUpdates, EndTyped, RunKinds
      DEF FilesRemoved, Steps, Outcomes, ApplySteps, RemovalSteps
    <2>3. Reliance'
      BY <1>8, EndTyped
      DEF FilesRemoved, Reliance, ApplySteps, RemovalSteps, Steps, BackedUp,
          ReconcileSteps, fresh, Disk, Run, NoRun, Kinds, Outcomes
    <2>4. QED BY <2>1, <2>2, <2>3
  <1>9. ASSUME RemovalFails PROVE TInv'
    <2>1. Stores'
      BY <1>9, Fields, HostUpdates, StartedTyped, DiskUpdates, RecordUpdates
      DEF RemovalFails, ApplySteps, Steps, RemovalSteps
    <2>2. EndDirty("ended")
      BY <1>9 DEF RemovalFails
    <2>3. QED BY <2>1, <2>2, EndTyped DEF Outcomes
  <1>10. ASSUME NEW f \in DOMAIN RemovalRank, RemoveFile(f) PROVE TInv'
    <2>1. f \in {"epoch", "graph", "env", "status", "failed", "stopped",
                  "graphBackup", "envBackup", "marker"}
      BY DEF RemovalRank
    <2>2. disk' \in Disk
      BY <1>10, <2>1, FileUpdates DEF RemoveFile
    <2>3. QED
      BY <1>10, <2>2
      DEF RemoveFile, Reliance, ApplySteps, BackedUp, RemovalSteps,
          ReconcileSteps, Steps
  <1>11. QED
    BY <1>1, <1>2, <1>3, <1>4, <1>5, <1>6, <1>7, <1>8, <1>9, <1>10 DEF Removal

-----------------------------------------------------------------------------
(* The types at the beginning of a run, and under what no run controls. *)

LEMMA BeginTyped ==
  ASSUME TInv, NEW kind \in Kinds \ {"none"}, NEW r \in Ref, NEW prev \in Ref,
         NEW scheduled \in BOOLEAN, NEW channel \in BOOLEAN,
         NEW preserve \in BOOLEAN,
         Begin(kind, r, prev, scheduled, channel, preserve)
  PROVE  /\ run' \in Run /\ hist' \in Hist /\ host' = host
         /\ run'.kind = kind /\ run'.cand = r /\ run'.prev = prev
         /\ run'.restoring = FALSE
  <1>1. run' \in Run
    BY DEF Begin, Run, NoRun, Ref, Mark
  <1>2. hist' \in Hist
    BY HistUpdates DEF Begin, TInv, Control, Outcomes
  <1>3. QED
    BY <1>1, <1>2 DEF Begin, NoRun

LEMMA TInvCommand ==
  ASSUME TInv, Command PROVE TInv'
  <1> USE ReleasesAssumption DEF TInv, Stores, Control
  <1>1. ASSUME NEW r \in Releases, NEW channel \in BOOLEAN,
               InstallFresh(r, channel)
      PROVE TInv'
    <2>1. Stores'
      BY <1>1, Fields, DiskUpdates DEF InstallFresh, Begin
    <2>2. /\ run' \in Run /\ hist' \in Hist /\ host' = host
          /\ run'.kind = "apply" /\ run'.cand = r /\ run'.prev = None
          /\ run'.restoring = FALSE
      <3>1. /\ r \in Ref /\ None \in Ref
            /\ "apply" \in Kinds \ {"none"} /\ FALSE \in BOOLEAN
        BY Fields DEF Kinds
      <3>2. Begin("apply", r, None, FALSE, channel, FALSE)
        BY <1>1 DEF InstallFresh
      <3>3. QED BY ZenonT(60), <3>1, <3>2, BeginTyped
    <2>3. Control' /\ Reliance'
      BY <1>1, <2>2, Fields
      DEF InstallFresh, Go, Reliance, ApplySteps, RemovalSteps, Steps,
          BackedUp, ReconcileSteps, fresh, Disk
    <2>4. QED BY <2>1, <2>3
  <1>2. ASSUME NEW r \in Releases, NEW channel \in BOOLEAN,
               InstallOver(r, channel)
      PROVE TInv'
    <2>1. Stores'
      BY <1>2, Fields, DiskUpdates DEF InstallOver, Begin
    <2>2. /\ run' \in Run /\ hist' \in Hist /\ host' = host
          /\ run'.kind = "apply" /\ run'.cand = r /\ run'.prev = disk.env
          /\ run'.restoring = FALSE
      <3>1. /\ r \in Ref /\ disk.env \in Ref
            /\ "apply" \in Kinds \ {"none"} /\ FALSE \in BOOLEAN
        BY Fields DEF Kinds
      <3>2. Begin("apply", r, disk.env, FALSE, channel, FALSE)
        BY <1>2 DEF InstallOver
      <3>3. QED BY ZenonT(60), <3>1, <3>2, BeginTyped
    <2>3. Control' /\ Reliance'
      BY <1>2, <2>2, Fields
      DEF InstallOver, Go, Corrupt, Reliance, ApplySteps, RemovalSteps, Steps,
          BackedUp, ReconcileSteps, fresh
    <2>4. QED BY <2>1, <2>3
  <1>3. ASSUME NEW r \in Releases, NEW channel \in BOOLEAN,
               InstallRecover(r, channel)
      PROVE TInv'
    <2>1. Stores'
      BY <1>3, Fields, DiskUpdates DEF InstallRecover, Begin
    <2>2. /\ run' \in Run /\ hist' \in Hist /\ host' = host
          /\ run'.kind = "recover" /\ run'.cand = r /\ run'.prev = None
          /\ run'.restoring = FALSE
      <3>1. /\ r \in Ref /\ None \in Ref
            /\ "recover" \in Kinds \ {"none"} /\ FALSE \in BOOLEAN
        BY Fields DEF Kinds
      <3>2. Begin("recover", r, None, FALSE, channel, FALSE)
        BY <1>3 DEF InstallRecover
      <3>3. QED BY ZenonT(60), <3>1, <3>2, BeginTyped
    <2>3. Control' /\ Reliance'
      BY <1>3, <2>2, Fields
      DEF InstallRecover, Go, Reliance, ApplySteps, RemovalSteps, Steps,
          BackedUp, ReconcileSteps, fresh
    <2>4. QED BY <2>1, <2>3
  <1>4. ASSUME NEW r \in Releases, NEW scheduled \in BOOLEAN,
              NEW channel \in BOOLEAN,
              StartSelected(r, scheduled, channel)
      PROVE TInv'
    <2>1. Stores'
      BY <1>4, Fields, DiskUpdates DEF StartSelected, Begin
    <2>2. /\ run' \in Run /\ hist' \in Hist /\ host' = host
          /\ run'.kind = "apply" /\ run'.cand = r /\ run'.prev = disk.env
          /\ run'.restoring = FALSE
      <3>1. /\ r \in Ref /\ disk.env \in Ref
            /\ "apply" \in Kinds \ {"none"} /\ FALSE \in BOOLEAN
        BY Fields DEF Kinds
      <3>2. Begin("apply", r, disk.env, scheduled, channel, FALSE)
        BY <1>4 DEF StartSelected
      <3>3. QED BY ZenonT(60), <3>1, <3>2, BeginTyped
    <2>3. Control' /\ Reliance'
      BY <1>4, <2>2, Fields
      DEF StartSelected, Go, StartReady, Reliance, ApplySteps, RemovalSteps,
          Steps, BackedUp, ReconcileSteps, fresh
    <2>4. QED BY <2>1, <2>3
  <1>5. ASSUME NEW r \in Releases, StartResume(r)
      PROVE TInv'
    <2>1. Stores'
      BY <1>5, Fields, DiskUpdates DEF StartResume, Begin
    <2>2. /\ run' \in Run /\ hist' \in Hist /\ host' = host
          /\ run'.kind = "apply" /\ run'.cand = disk.env /\ run'.prev = disk.env
          /\ run'.restoring = FALSE
      BY <1>5, Fields, BeginTyped DEF StartResume, Kinds
    <2>3. Control' /\ Reliance'
      BY <1>5, <2>2, Fields
      DEF StartResume, Go, StartReady, Reliance, ApplySteps, RemovalSteps,
          Steps, BackedUp, ReconcileSteps, fresh
    <2>4. QED BY <2>1, <2>3
  <1>6. ASSUME NEW r \in Releases, Update(r)
      PROVE TInv'
    <2>1. Stores'
      BY <1>6, Fields, DiskUpdates DEF Update, Begin
    <2>2. /\ run' \in Run /\ hist' \in Hist /\ host' = host
          /\ run'.kind = "apply" /\ run'.cand = r /\ run'.prev = disk.env
          /\ run'.restoring = FALSE
      BY <1>6, Fields, BeginTyped DEF Update, Kinds
    <2>3. Control' /\ Reliance'
      BY <1>6, <2>2, Fields
      DEF Update, Go, Corrupt, Reliance, ApplySteps, RemovalSteps, Steps,
          BackedUp, ReconcileSteps, fresh
    <2>4. QED BY <2>1, <2>3
  <1>7. ASSUME BeginStop
      PROVE TInv'
    <2>1. Stores'
      BY <1>7, Fields, DiskUpdates DEF BeginStop, Begin
    <2>2. /\ run' \in Run /\ hist' \in Hist /\ host' = host
          /\ run'.kind = "stop" /\ run'.cand = None /\ run'.prev = None
          /\ run'.restoring = FALSE
      BY <1>7, Fields, BeginTyped DEF BeginStop, Kinds
    <2>3. Control' /\ Reliance'
      BY <1>7, <2>2, Fields
      DEF BeginStop, Go, Reliance, ApplySteps, RemovalSteps, Steps, BackedUp,
          ReconcileSteps, fresh, Disk
    <2>4. QED BY <2>1, <2>3
  <1>8. ASSUME BeginReset
      PROVE TInv'
    <2>1. Stores'
      BY <1>8, Fields, DiskUpdates DEF BeginReset, Begin
    <2>2. /\ run' \in Run /\ hist' \in Hist /\ host' = host
          /\ run'.kind = "reset" /\ run'.cand = None /\ run'.prev = None
          /\ run'.restoring = FALSE
      BY <1>8, Fields, BeginTyped DEF BeginReset, Kinds
    <2>3. Control' /\ Reliance'
      BY <1>8, <2>2, Fields
      DEF BeginReset, Go, Reliance, ApplySteps, RemovalSteps, Steps, BackedUp,
          ReconcileSteps, fresh
    <2>4. QED BY <2>1, <2>3
  <1>9. ASSUME BeginHardReset
      PROVE TInv'
    <2>1. Stores'
      BY <1>9, Fields, DiskUpdates DEF BeginHardReset, Begin
    <2>2. /\ run' \in Run /\ hist' \in Hist /\ host' = host
          /\ run'.kind = "reset" /\ run'.cand = None /\ run'.prev = None
          /\ run'.restoring = FALSE
      BY <1>9, Fields, BeginTyped DEF BeginHardReset, Kinds
    <2>3. Control' /\ Reliance'
      BY <1>9, <2>2, Fields
      DEF BeginHardReset, Go, Reliance, ApplySteps, RemovalSteps, Steps,
          BackedUp, ReconcileSteps, fresh
    <2>4. QED BY <2>1, <2>3
  <1>10. ASSUME StartStopped PROVE TInv'
    <2>1. End("ended") /\ Stores'
      BY <1>10 DEF StartStopped
    <2>2. QED BY <2>1, EndTyped DEF Outcomes
  <1>11. ASSUME NEW r \in Releases, NEW scheduled \in BOOLEAN,
              StartKeep(r, scheduled)
      PROVE TInv'
    <2>1. End("kept") /\ Stores'
      BY <1>11 DEF StartKeep
    <2>2. QED BY <2>1, EndTyped DEF Outcomes
  <1>12. QED
    BY <1>1, <1>2, <1>3, <1>4, <1>5, <1>6, <1>7, <1>8, <1>9, <1>10, <1>11
    DEF Command

LEMMA TInvEnvironment ==
  ASSUME TInv, Crash \/ Reboot \/ PoolClosed PROVE TInv'
  <1> USE DEF TInv, Stores, Control
  <1>1. ASSUME Crash PROVE TInv'
    <2>1. EndDirty("ended") /\ Stores'
      BY <1>1 DEF Crash
    <2>2. QED BY <2>1, EndTyped DEF Outcomes
  <1>2. ASSUME Reboot PROVE TInv'
    <2>1. EndDirty("ended") /\ Stores'
      BY <1>2 DEF Reboot, Host, Ref
    <2>2. QED BY <2>1, EndTyped DEF Outcomes
  <1>3. ASSUME PoolClosed PROVE TInv'
    BY <1>3 DEF PoolClosed, Host, Reliance, fresh
  <1>4. QED BY <1>1, <1>2, <1>3

LEMMA TInvInductive ==
  TInv /\ [Next]_vars => TInv'
  <1> SUFFICES ASSUME TInv, [Next]_vars PROVE TInv'
    OBVIOUS
  <1>1. CASE UNCHANGED vars
    BY <1>1 DEF vars, TInv, Stores, Control, Reliance, fresh
  <1>2. CASE Next
    BY <1>2, TInvCommand, TInvApply, TInvRollback, TInvRemoval,
       TInvEnvironment
    DEF Next, RunStep
  <1>3. QED BY <1>1, <1>2

(* Every reachable state has the shape of its types, for every set of      *)
(* releases, on an encrypted host or not, with every command.              *)
THEOREM TypeCorrect == Spec => []TypeOK
  <1>1. Init => TInv
    BY TInvInit
  <1>2. TInv /\ [Next]_vars => TInv'
    BY TInvInductive
  <1>3. TInv => TypeOK
    BY DEF TInv, Stores, Control, TypeOK
  <1>4. QED BY <1>1, <1>2, <1>3, PTL DEF Spec


-----------------------------------------------------------------------------
(* Stored formats.  The record of the stored format never lies about the    *)
(* volumes, and no container runs on runtime state its release does not     *)
(* read, as long as no scoped reset is run.                                *)

(* What holds of the stores whatever the step: the record is truthful,     *)
(* what runs reads what is stored, and a Space without environment, pool   *)
(* or resources has no containers.                                         *)
EStores ==
  /\ EpochRecordTruthful
  /\ StateReadable
  /\ host.made = None => host.up = None
  /\ ~host.owned => host.made = None /\ host.data = None
  /\ disk.env = None => host.made = None
  /\ Encrypted /\ host.pool = "absent" => host.made = None

(* What each step may rely on.  A reset asks what runs; a fresh apply      *)
(* finds empty volumes; between forgetting the record and writing it the   *)
(* Space is stopped and emptied; and whatever is about to start is         *)
(* recorded, or finds empty volumes.                                       *)
ESteps ==
  /\ pc = "authorize" =>
       IF run.kind = "reset"
         THEN /\ host.up # None /\ host.up = host.made
              /\ host.owned /\ ~disk.stopped
         ELSE host.made = None
  /\ pc \in {"mark", "admit", "reconcile", "record"} /\ fresh
       => host.made = None /\ host.data = None
  /\ pc \in {"stopOld", "clear"} => ~fresh /\ disk.epoch = None
  /\ pc = "clear" => host.up = None
  /\ pc = "record" => host.data = None /\ host.up = None /\ Target # None
  /\ pc \in {"writeEnv", "writeGraph", "clearStopped", "up"}
       => ~run.restoring /\ disk.epoch = Epoch[run.cand]
  /\ pc \in {"writeGraph", "clearStopped", "up", "prove", "commit"}
       => disk.env # None
  /\ run.restoring => run.target \in {Epoch[disk.env], None}
  /\ pc = "startPrevious" =>
       \/ disk.epoch = Epoch[disk.env]
       \/ disk.epoch = None /\ host.data = None /\ host.up = None
  /\ pc \in {"removeStorage", "removeSchedule", "removeFiles"}
       => host.made = None /\ host.data = None

EInv == EStores /\ ESteps

(* Containers stopped, removed or their volumes emptied are no more than   *)
(* there was.                                                              *)
LEMMA Quieter ==
  ASSUME host \in Host, EStores,
         NEW h \in {host, Stopped, [Stopped EXCEPT !.made = None],
                    [Stopped EXCEPT !.made = None, !.data = None]}
  PROVE  /\ h.up \in {host.up, None}
         /\ h.made \in {host.made, None}
         /\ h.data \in {host.data, None}
         /\ h.made = None => h.up = None
         /\ h.data = None => host.data = None \/ h.up = None
         /\ h.owned = host.owned /\ h.pool = host.pool
  BY DEF Stopped, Host, EStores

(* To be answered the authorization then starts nothing that did not run.  *)
LEMMA AskedRuns ==
  ASSUME TInv, EInv, pc = "authorize" PROVE Asked \subseteq {host}
  <1>1. CASE run.kind = "reset"
    <2>1. /\ host.up # None /\ host.up = host.made
          /\ host.owned = TRUE /\ ~disk.stopped
      BY <1>1, Fields DEF EInv, ESteps, Host
    <2>2. host.up \in Releases /\ host.data = Epoch[host.up]
      BY <2>1, Fields DEF EInv, EStores, StateReadable, Ref
    <2>3. host.data # None
      BY <2>2, ReleasesAssumption
    <2>4. Started(host.made) = host
      BY <2>1, <2>2, <2>3 DEF Started, Host, TInv, Stores
    <2>5. QED
      BY <2>1, <2>4 DEF Asked, Startable
  <1>2. CASE run.kind # "reset"
    BY <1>2 DEF EInv, ESteps, Asked
  <1>3. QED BY <1>1, <1>2

LEMMA QuieterStores ==
  ASSUME host \in Host, EStores, UNCHANGED disk,
         host' \in {host, Stopped, [Stopped EXCEPT !.made = None],
                   [Stopped EXCEPT !.made = None, !.data = None]}
  PROVE  EStores'
  <1>1. /\ host'.up \in {host.up, None}
        /\ host'.made \in {host.made, None}
        /\ host'.data \in {host.data, None}
        /\ host'.made = None => host'.up = None
        /\ host'.data = None => host.data = None \/ host'.up = None
        /\ host'.owned = host.owned /\ host'.pool = host.pool
    BY Quieter
  <1>2. /\ host.made = None => host.up = None
        /\ host.up # None => host.data = Epoch[host.up]
    BY DEF EStores, StateReadable
  <1>3. QED
    BY <1>1, <1>2 DEF EStores, EpochRecordTruthful, StateReadable

(* A release started on state it reads, or on none, runs on state it reads. *)
LEMMA StartedStores ==
  ASSUME host \in Host, EStores, UNCHANGED disk, NEW r \in Releases,
         host.pool = "open", disk.env # None, host' = Started(r),
         \/ host.data = Epoch[r]
         \/ host.data = None /\ disk.epoch \in {None, Epoch[r]}
  PROVE  EStores'
  <1>1. /\ host'.made = r /\ host'.up = r /\ host'.owned
        /\ host'.data = Epoch[r] /\ host'.pool = "open"
    BY DEF Started, Host
  <1>2. r # None /\ Epoch[r] # None
    BY ReleasesAssumption
  <1>3. QED
    BY <1>1, <1>2 DEF EStores, EpochRecordTruthful, StateReadable

LEMMA EInvInit == Init => EInv
  BY ReleasesAssumption
  DEF Init, EInv, EStores, ESteps, EpochRecordTruthful, StateReadable,
      EmptyDisk, NoRun, fresh, Target

-----------------------------------------------------------------------------
(* Along an apply: the record is forgotten before the volumes are emptied  *)
(* and written only after.                                                 *)
LEMMA EInvApply ==
  ASSUME TInv, EInv, ~ScopedReset, Apply PROVE EInv'
  <1> USE ReleasesAssumption
      DEF TInv, Stores, Control, EInv, EpochRecordTruthful, StateReadable
  <1>1. ASSUME WriteMarker PROVE EInv'
    <2>1. EStores'
      BY <1>1, Fields
      DEF WriteMarker, Go, EStores, ESteps, Reliance, BackedUp, ApplySteps,
          RemovalSteps, Steps, Disk, Host, Run, Ref, fresh
    <2>2. ESteps'
      BY <1>1, Fields
      DEF WriteMarker, Go, Target, EStores, ESteps, Reliance, BackedUp,
          ReconcileSteps, NoRun, Disk, Host, Run, fresh
    <2>3. QED BY <2>1, <2>2
  <1>2. ASSUME Admit PROVE EInv'
    <2>1. EStores'
      BY <1>2, Fields
      DEF Admit, Go, Opened, EStores, ESteps, Reliance, BackedUp, ApplySteps,
          RemovalSteps, Steps, Disk, Host, Run, Ref, fresh
    <2>2. ESteps'
      BY <1>2, Fields
      DEF Admit, Go, Opened, Target, EStores, ESteps, Reliance, BackedUp,
          ReconcileSteps, NoRun, Disk, Host, Run, fresh
    <2>3. QED BY <2>1, <2>2
  <1>3. ASSUME AdmitLocked PROVE EInv'
    <2>1. EStores'
      BY <1>3, Fields
      DEF AdmitLocked, End, EStores, ESteps, Reliance, BackedUp, ApplySteps,
          RemovalSteps, Steps, Disk, Host, Run, Ref, fresh
    <2>2. ESteps'
      BY <1>3, Fields
      DEF AdmitLocked, End, Target, EStores, ESteps, Reliance, BackedUp,
          ReconcileSteps, NoRun, Disk, Host, Run, fresh
    <2>3. QED BY <2>1, <2>2
  <1>4. ASSUME AdmitDeferred PROVE EInv'
    <2>1. EStores'
      BY <1>4, Fields
      DEF AdmitDeferred, End, EStores, ESteps, Reliance, BackedUp, ApplySteps,
          RemovalSteps, Steps, Disk, Host, Run, Ref, fresh
    <2>2. ESteps'
      BY <1>4, Fields
      DEF AdmitDeferred, End, Target, EStores, ESteps, Reliance, BackedUp,
          ReconcileSteps, NoRun, Disk, Host, Run, fresh
    <2>3. QED BY <2>1, <2>2
  <1>5. ASSUME AdmitFails PROVE EInv'
    <2>1. EStores'
      BY <1>5, Fields
      DEF AdmitFails, Opened, End, EStores, ESteps, Reliance, BackedUp,
          ApplySteps, RemovalSteps, Steps, Disk, Host, Run, Ref, fresh
    <2>2. ESteps'
      BY <1>5, Fields
      DEF AdmitFails, Opened, End, Target, EStores, ESteps, Reliance,
          BackedUp, ReconcileSteps, NoRun, Disk, Host, Run, fresh
    <2>3. QED BY <2>1, <2>2
  <1>6. ASSUME BackupGraph PROVE EInv'
    <2>1. EStores'
      BY <1>6, Fields
      DEF BackupGraph, Go, EStores, ESteps, Reliance, BackedUp, ApplySteps,
          RemovalSteps, Steps, Disk, Host, Run, Ref, fresh
    <2>2. ESteps'
      BY <1>6, Fields
      DEF BackupGraph, Go, Target, EStores, ESteps, Reliance, BackedUp,
          ReconcileSteps, NoRun, Disk, Host, Run, fresh
    <2>3. QED BY <2>1, <2>2
  <1>7. ASSUME BackupEnv PROVE EInv'
    <2>1. EStores'
      BY <1>7, Fields
      DEF BackupEnv, Go, EStores, ESteps, Reliance, BackedUp, ApplySteps,
          RemovalSteps, Steps, Disk, Host, Run, Ref, fresh
    <2>2. ESteps'
      BY <1>7, Fields
      DEF BackupEnv, Go, Target, EStores, ESteps, Reliance, BackedUp,
          ReconcileSteps, NoRun, Disk, Host, Run, fresh
    <2>3. QED BY <2>1, <2>2
  <1>8. ASSUME BackupFails PROVE EInv'
    <2>1. EStores'
      BY <1>8, Fields
      DEF BackupFails, End, EStores, ESteps, Reliance, BackedUp, ApplySteps,
          RemovalSteps, Steps, Disk, Host, Run, Ref, fresh
    <2>2. ESteps'
      BY <1>8, Fields
      DEF BackupFails, End, Target, EStores, ESteps, Reliance, BackedUp,
          ReconcileSteps, NoRun, Disk, Host, Run, fresh
    <2>3. QED BY <2>1, <2>2
  <1>9. ASSUME ReconcileForget PROVE EInv'
    <2>1. EStores'
      BY <1>9, Fields
      DEF ReconcileForget, Go, ResetNeeded, Target, EStores, ESteps, Reliance,
          BackedUp, ApplySteps, RemovalSteps, Steps, Disk, Host, Run, Ref,
          fresh
    <2>2. ESteps'
      BY <1>9, Fields
      DEF ReconcileForget, Go, ResetNeeded, Target, EStores, ESteps, Reliance,
          BackedUp, ReconcileSteps, NoRun, Disk, Host, Run, fresh
    <2>3. QED BY <2>1, <2>2
  <1>10. ASSUME ReconcileKeep PROVE EInv'
    <2>1. EStores'
      BY <1>10, Fields
      DEF ReconcileKeep, Go, Resume, ResetNeeded, Target, EStores, ESteps,
          Reliance, BackedUp, ApplySteps, RemovalSteps, Steps, Disk, Host,
          Run, Ref, fresh
    <2>2. ESteps'
      <3>1. /\ pc = "reconcile" /\ run' = run /\ disk' = disk /\ host' = host
            /\ run.restoring => ~fresh
            /\ run.cand \in Releases /\ Epoch[run.cand] # None
        BY <1>10, Fields
        DEF ReconcileKeep, Go, Reliance, ApplySteps, RemovalSteps, Steps
      <3>2. CASE fresh
        <4>1. pc' = "record" /\ host.made = None /\ host.data = None
          BY <1>10, <3>1, <3>2 DEF ReconcileKeep, Go, ESteps
        <4>2. Target # None /\ host.up = None
          BY <3>1, <3>2, <4>1 DEF Target, EStores
        <4>3. QED BY <3>1, <3>2, <4>1, <4>2 DEF ESteps, fresh, Target
      <3>3. CASE ~fresh /\ run.restoring
        <4>1. /\ pc' = "startPrevious"
              /\ run.target # None /\ disk.epoch = run.target
              /\ run.target \in {Epoch[disk.env], None}
          BY <1>10, <3>1, <3>3
          DEF ReconcileKeep, Go, Resume, ResetNeeded, Target, ESteps
        <4>2. QED BY <3>1, <3>3, <4>1 DEF ESteps, fresh
      <3>4. CASE ~fresh /\ ~run.restoring
        <4>1. pc' = "writeEnv" /\ disk.epoch = Epoch[run.cand]
          BY <1>10, <3>1, <3>4
          DEF ReconcileKeep, Go, Resume, ResetNeeded, Target
        <4>2. QED BY <3>1, <3>4, <4>1 DEF ESteps, fresh
      <3>5. QED BY <3>2, <3>3, <3>4
    <2>3. QED BY <2>1, <2>2
  <1>11. ASSUME StopOld PROVE EInv'
    <2>1. EStores'
      BY <1>11, Fields
      DEF StopOld, Go, Stopped, Target, EStores, ESteps, Reliance, BackedUp,
          ApplySteps, RemovalSteps, Steps, Disk, Host, Run, Ref, fresh
    <2>2. ESteps'
      BY <1>11, Fields
      DEF StopOld, Go, Stopped, Target, EStores, ESteps, Reliance, BackedUp,
          ReconcileSteps, NoRun, Disk, Host, Run, fresh
    <2>3. QED BY <2>1, <2>2
  <1>12. ASSUME ClearVolumes PROVE EInv'
    <2>1. EStores'
      BY <1>12, Fields
      DEF ClearVolumes, Go, Resume, Target, EStores, ESteps, Reliance,
          BackedUp, ApplySteps, RemovalSteps, Steps, Disk, Host, Run, Ref,
          fresh
    <2>2. ESteps'
      BY <1>12, Fields
      DEF ClearVolumes, Go, Resume, Target, EStores, ESteps, Reliance,
          BackedUp, ReconcileSteps, NoRun, Disk, Host, Run, fresh
    <2>3. QED BY <2>1, <2>2
  <1>13. ASSUME RecordEpoch PROVE EInv'
    <2>1. EStores'
      BY <1>13, Fields
      DEF RecordEpoch, Go, Resume, Target, EStores, ESteps, Reliance,
          BackedUp, ApplySteps, RemovalSteps, Steps, Disk, Host, Run, Ref,
          fresh
    <2>2. ESteps'
      BY <1>13, Fields
      DEF RecordEpoch, Go, Resume, Target, EStores, ESteps, Reliance,
          BackedUp, ReconcileSteps, NoRun, Disk, Host, Run, fresh
    <2>3. QED BY <2>1, <2>2
  <1>14. ASSUME ReconcileFails PROVE EInv'
    <2>1. EStores'
      BY <1>14, Fields
      DEF ReconcileFails, Stopped, EStores, ESteps, Reliance, BackedUp,
          ApplySteps, RemovalSteps, Steps, Disk, Host, Run, Ref, fresh
    <2>2. ESteps'
      BY <1>14, Fields
      DEF ReconcileFails, Stopped, Target, EStores, ESteps, Reliance,
          BackedUp, ReconcileSteps, NoRun, Disk, Host, Run, fresh
    <2>3. QED BY <2>1, <2>2
  <1>15. ASSUME WriteEnv PROVE EInv'
    <2>1. EStores'
      BY <1>15, Fields
      DEF WriteEnv, Go, EStores, ESteps, Reliance, BackedUp, ApplySteps,
          RemovalSteps, Steps, Disk, Host, Run, Ref, fresh
    <2>2. ESteps'
      <3>1. /\ disk'.env = run.cand /\ disk'.epoch = disk.epoch
            /\ pc = "writeEnv" /\ pc' = "writeGraph" /\ run' = run
            /\ run.cand # None
        BY <1>15, Fields
        DEF WriteEnv, Go, Disk, ApplySteps, RemovalSteps, Steps
      <3>2. ~run.restoring /\ disk.epoch = Epoch[run.cand]
        BY <3>1 DEF ESteps
      <3>3. QED BY <3>1, <3>2 DEF ESteps, fresh
    <2>3. QED BY <2>1, <2>2
  <1>16. ASSUME WriteGraph PROVE EInv'
    <2>1. EStores'
      BY <1>16, Fields
      DEF WriteGraph, Go, EStores, ESteps, Reliance, BackedUp, ApplySteps,
          RemovalSteps, Steps, Disk, Host, Run, Ref, fresh
    <2>2. ESteps'
      BY <1>16, Fields
      DEF WriteGraph, Go, Target, EStores, ESteps, Reliance, BackedUp,
          ReconcileSteps, NoRun, Disk, Host, Run, fresh
    <2>3. QED BY <2>1, <2>2
  <1>17. ASSUME ClearStopped PROVE EInv'
    <2>1. EStores'
      BY <1>17, Fields
      DEF ClearStopped, Go, EStores, ESteps, Reliance, BackedUp, ApplySteps,
          RemovalSteps, Steps, Disk, Host, Run, Ref, fresh
    <2>2. ESteps'
      BY <1>17, Fields
      DEF ClearStopped, Go, Target, EStores, ESteps, Reliance, BackedUp,
          ReconcileSteps, NoRun, Disk, Host, Run, fresh
    <2>3. QED BY <2>1, <2>2
  <1>18. ASSUME StartCandidate PROVE EInv'
    <2>1. EStores'
      BY <1>18, Fields
      DEF StartCandidate, Go, Started, EStores, ESteps, Reliance, BackedUp,
          ApplySteps, RemovalSteps, Steps, Disk, Host, Run, Ref, fresh
    <2>2. ESteps'
      BY <1>18, Fields
      DEF StartCandidate, Go, Started, Target, EStores, ESteps, Reliance,
          BackedUp, ReconcileSteps, NoRun, Disk, Host, Run, fresh
    <2>3. QED BY <2>1, <2>2
  <1>19. ASSUME Prove PROVE EInv'
    <2>1. EStores'
      BY <1>19, Fields
      DEF Prove, Go, EStores, ESteps, Reliance, BackedUp, ApplySteps,
          RemovalSteps, Steps, Disk, Host, Run, Ref, fresh
    <2>2. ESteps'
      BY <1>19, Fields
      DEF Prove, Go, Target, EStores, ESteps, Reliance, BackedUp,
          ReconcileSteps, NoRun, Disk, Host, Run, fresh
    <2>3. QED BY <2>1, <2>2
  <1>20. ASSUME StartFails PROVE EInv'
    <2>1. EStores'
      <3>1. CASE host' \in {host, Stopped}
        BY <1>20, <3>1, QuieterStores DEF StartFails
      <3>2. CASE host' \in Startable(run.cand)
        <4>1. host' = Started(run.cand) /\ host.pool = "open"
          BY <3>2 DEF Startable
        <4>2. /\ run.cand \in Releases /\ disk.env # None
              /\ disk.epoch = Epoch[run.cand]
              /\ disk.epoch # None => host.data \in {None, disk.epoch}
              /\ Epoch[run.cand] # None
          BY <1>20, Fields DEF StartFails, Go, ESteps, EStores, ApplySteps,
             RemovalSteps, Steps
        <4>3. QED BY <1>20, <4>1, <4>2, StartedStores DEF StartFails
      <3>3. QED BY <1>20, <3>1, <3>2 DEF StartFails
    <2>2. ESteps'
      BY <1>20, Fields
      DEF StartFails, Go, Startable, Started, Stopped, Target, EStores,
          ESteps, Reliance, BackedUp, ReconcileSteps, NoRun, Disk, Host, Run,
          fresh
    <2>3. QED BY <2>1, <2>2
  <1>21. ASSUME Commit PROVE EInv'
    <2>1. EStores'
      BY <1>21, Fields
      DEF Commit, Go, EStores, ESteps, Reliance, BackedUp, ApplySteps,
          RemovalSteps, Steps, Disk, Host, Run, Ref, fresh
    <2>2. ESteps'
      BY <1>21, Fields
      DEF Commit, Go, Target, EStores, ESteps, Reliance, BackedUp,
          ReconcileSteps, NoRun, Disk, Host, Run, fresh
    <2>3. QED BY <2>1, <2>2
  <1>22. ASSUME ReplaceFails PROVE EInv'
    <2>1. EStores'
      BY <1>22, Fields
      DEF ReplaceFails, EStores, ESteps, Reliance, BackedUp, ApplySteps,
          RemovalSteps, Steps, Disk, Host, Run, Ref, fresh
    <2>2. ESteps'
      BY <1>22, Fields
      DEF ReplaceFails, Target, EStores, ESteps, Reliance, BackedUp,
          ReconcileSteps, NoRun, Disk, Host, Run, fresh
    <2>3. QED BY <2>1, <2>2
  <1>23. ASSUME DropBackup PROVE EInv'
    <2>1. EStores'
      BY <1>23, Fields
      DEF DropBackup, Go, EStores, ESteps, Reliance, BackedUp, ApplySteps,
          RemovalSteps, Steps, Disk, Host, Run, Ref, fresh
    <2>2. ESteps'
      BY <1>23, Fields
      DEF DropBackup, Go, Target, EStores, ESteps, Reliance, BackedUp,
          ReconcileSteps, NoRun, Disk, Host, Run, fresh
    <2>3. QED BY <2>1, <2>2
  <1>24. ASSUME ForgetFailed PROVE EInv'
    <2>1. EStores'
      BY <1>24, Fields
      DEF ForgetFailed, Go, EStores, ESteps, Reliance, BackedUp, ApplySteps,
          RemovalSteps, Steps, Disk, Host, Run, Ref, fresh
    <2>2. ESteps'
      BY <1>24, Fields
      DEF ForgetFailed, Go, Target, EStores, ESteps, Reliance, BackedUp,
          ReconcileSteps, NoRun, Disk, Host, Run, fresh
    <2>3. QED BY <2>1, <2>2
  <1>25. ASSUME Schedule PROVE EInv'
    <2>1. EStores'
      BY <1>25, Fields
      DEF Schedule, EStores, ESteps, Reliance, BackedUp, ApplySteps,
          RemovalSteps, Steps, Disk, Host, Run, Ref, fresh
    <2>2. ESteps'
      BY <1>25, Fields
      DEF Schedule, Target, EStores, ESteps, Reliance, BackedUp,
          ReconcileSteps, NoRun, Disk, Host, Run, fresh
    <2>3. QED BY <2>1, <2>2
  <1>26. ASSUME AfterCommitFails PROVE EInv'
    <2>1. EStores'
      BY <1>26, Fields
      DEF AfterCommitFails, End, EStores, ESteps, Reliance, BackedUp,
          ApplySteps, RemovalSteps, Steps, Disk, Host, Run, Ref, fresh
    <2>2. ESteps'
      BY <1>26, Fields
      DEF AfterCommitFails, End, Target, EStores, ESteps, Reliance, BackedUp,
          ReconcileSteps, NoRun, Disk, Host, Run, fresh
    <2>3. QED BY <2>1, <2>2
  <1>27. QED
    BY <1>1, <1>2, <1>3, <1>4, <1>5, <1>6, <1>7, <1>8, <1>9, <1>10, <1>11,
       <1>12, <1>13, <1>14, <1>15, <1>16, <1>17, <1>18, <1>19, <1>20, <1>21,
       <1>22, <1>23, <1>24, <1>25, <1>26
    DEF Apply

(* Along a rollback: the previous release meets what the candidate left. *)
LEMMA EInvRollback ==
  ASSUME TInv, EInv, ~ScopedReset, Rollback PROVE EInv'
  <1> USE ReleasesAssumption
      DEF TInv, Stores, Control, EInv, EpochRecordTruthful, StateReadable
  <1>1. ASSUME Down PROVE EInv'
    <2>1. EStores'
      BY <1>1, QuieterStores DEF Down
    <2>2. ESteps'
      BY <1>1, Fields
      DEF Down, Go, Stopped, Target, EStores, ESteps, Reliance, BackedUp,
          ReconcileSteps, NoRun, Disk, Host, Run, fresh
    <2>3. QED BY <2>1, <2>2
  <1>2. ASSUME Remember PROVE EInv'
    <2>1. EStores'
      BY <1>2, Fields
      DEF Remember, Go, EStores, ESteps, Reliance, BackedUp, ApplySteps,
          RemovalSteps, Steps, Disk, Host, Run, Ref, fresh
    <2>2. ESteps'
      BY <1>2, Fields
      DEF Remember, Go, Target, EStores, ESteps, Reliance, BackedUp,
          ReconcileSteps, NoRun, Disk, Host, Run, fresh
    <2>3. QED BY <2>1, <2>2
  <1>3. ASSUME RestoreGraph PROVE EInv'
    <2>1. EStores'
      BY <1>3, Fields
      DEF RestoreGraph, Go, EStores, ESteps, Reliance, BackedUp, ApplySteps,
          RemovalSteps, Steps, Disk, Host, Run, Ref, fresh
    <2>2. ESteps'
      BY <1>3, Fields
      DEF RestoreGraph, Go, Target, EStores, ESteps, Reliance, BackedUp,
          ReconcileSteps, NoRun, Disk, Host, Run, fresh
    <2>3. QED BY <2>1, <2>2
  <1>4. ASSUME RestoreEnv PROVE EInv'
    <2>1. EStores'
      <3>1. ~fresh /\ ~run.restoring
        BY <1>4 DEF RestoreEnv, Go, Reliance, ReconcileSteps
      <3>2. /\ disk'.env = disk.envBackup /\ disk'.epoch = disk.epoch
            /\ disk.envBackup # None
        BY <1>4, <3>1 DEF RestoreEnv, Go, Reliance, BackedUp, Disk
      <3>3. QED BY <1>4, <3>2 DEF RestoreEnv, EStores
    <2>2. ESteps'
      BY <1>4, Fields
      DEF RestoreEnv, Go, Target, EStores, ESteps, Reliance, BackedUp,
          ReconcileSteps, NoRun, Disk, Host, Run, fresh
    <2>3. QED BY <2>1, <2>2
  <1>5. ASSUME RestoreStorage PROVE EInv'
    <2>1. EStores'
      BY <1>5, Fields
      DEF RestoreStorage, Go, Opened, EStores, ESteps, Reliance, BackedUp,
          ApplySteps, RemovalSteps, Steps, Disk, Host, Run, Ref, fresh
    <2>2. ESteps'
      BY <1>5, Fields
      DEF RestoreStorage, Go, Opened, Target, EStores, ESteps, Reliance,
          BackedUp, ReconcileSteps, NoRun, Disk, Host, Run, fresh
    <2>3. QED BY <2>1, <2>2
  <1>6. ASSUME RestoreLocked PROVE EInv'
    <2>1. EStores'
      BY <1>6, Fields
      DEF RestoreLocked, End, EStores, ESteps, Reliance, BackedUp, ApplySteps,
          RemovalSteps, Steps, Disk, Host, Run, Ref, fresh
    <2>2. ESteps'
      BY <1>6, Fields
      DEF RestoreLocked, End, Target, EStores, ESteps, Reliance, BackedUp,
          ReconcileSteps, NoRun, Disk, Host, Run, fresh
    <2>3. QED BY <2>1, <2>2
  <1>7. ASSUME RestoreFails PROVE EInv'
    <2>1. EStores'
      BY <1>7, Fields
      DEF RestoreFails, EndDirty, EStores, ESteps, Reliance, BackedUp,
          ApplySteps, RemovalSteps, Steps, Disk, Host, Run, Ref, fresh
    <2>2. ESteps'
      BY <1>7, Fields
      DEF RestoreFails, EndDirty, Target, EStores, ESteps, Reliance, BackedUp,
          ReconcileSteps, NoRun, Disk, Host, Run, fresh
    <2>3. QED BY <2>1, <2>2
  <1>8. ASSUME StartPrevious PROVE EInv'
    <2>1. EStores'
      <3>1. CASE host' = host
        BY <1>8, <3>1, QuieterStores DEF StartPrevious
      <3>2. CASE host' \in Startable(disk.env)
        <4>1. host' = Started(disk.env) /\ host.pool = "open"
          BY <3>2 DEF Startable
        <4>2. /\ disk.env \in Releases /\ disk.env # None
              /\ Epoch[disk.env] # None
              /\ \/ disk.epoch = Epoch[disk.env]
                 \/ disk.epoch = None /\ host.data = None
              /\ disk.epoch # None => host.data \in {None, disk.epoch}
          BY <1>8, Fields DEF StartPrevious, Go, ESteps, EStores
        <4>3. QED BY <1>8, <4>1, <4>2, StartedStores DEF StartPrevious
      <3>3. QED BY <1>8, <3>1, <3>2 DEF StartPrevious
    <2>2. ESteps'
      BY <1>8, Fields
      DEF StartPrevious, Go, Startable, Started, Target, EStores, ESteps,
          Reliance, BackedUp, ReconcileSteps, NoRun, Disk, Host, Run, fresh
    <2>3. QED BY <2>1, <2>2
  <1>9. ASSUME RollbackStatus PROVE EInv'
    <2>1. EStores'
      BY <1>9, Fields
      DEF RollbackStatus, End, EStores, ESteps, Reliance, BackedUp,
          ApplySteps, RemovalSteps, Steps, Disk, Host, Run, Ref, fresh
    <2>2. ESteps'
      BY <1>9, Fields
      DEF RollbackStatus, End, Target, EStores, ESteps, Reliance, BackedUp,
          ReconcileSteps, NoRun, Disk, Host, Run, fresh
    <2>3. QED BY <2>1, <2>2
  <1>10. ASSUME Disable PROVE EInv'
    <2>1. EStores'
      BY <1>10, Fields
      DEF Disable, EStores, ESteps, Reliance, BackedUp, ApplySteps,
          RemovalSteps, Steps, Disk, Host, Run, Ref, fresh
    <2>2. ESteps'
      BY <1>10, Fields
      DEF Disable, Target, EStores, ESteps, Reliance, BackedUp,
          ReconcileSteps, NoRun, Disk, Host, Run, fresh
    <2>3. QED BY <2>1, <2>2
  <1>11. QED
    BY <1>1, <1>2, <1>3, <1>4, <1>5, <1>6, <1>7, <1>8, <1>9, <1>10 DEF Rollback

(* Along a stop or a removal. *)
LEMMA EInvRemoval ==
  ASSUME TInv, EInv, ~ScopedReset, Removal PROVE EInv'
  <1> USE ReleasesAssumption
      DEF TInv, Stores, Control, EInv, EpochRecordTruthful, StateReadable
  <1>1. ASSUME StopContainers PROVE EInv'
    <2>1. EStores'
      BY <1>1, Fields
      DEF StopContainers, End, Stopped, EStores, ESteps, Reliance, BackedUp,
          ApplySteps, RemovalSteps, Steps, Disk, Host, Run, Ref, fresh
    <2>2. ESteps'
      BY <1>1, Fields
      DEF StopContainers, End, Stopped, Target, EStores, ESteps, Reliance,
          BackedUp, ReconcileSteps, NoRun, Disk, Host, Run, fresh
    <2>3. QED BY <2>1, <2>2
  <1>2. ASSUME StopFails PROVE EInv'
    <2>1. EStores'
      BY <1>2, Fields
      DEF StopFails, End, Stopped, EStores, ESteps, Reliance, BackedUp,
          ApplySteps, RemovalSteps, Steps, Disk, Host, Run, Ref, fresh
    <2>2. ESteps'
      BY <1>2, Fields
      DEF StopFails, End, Stopped, Target, EStores, ESteps, Reliance,
          BackedUp, ReconcileSteps, NoRun, Disk, Host, Run, fresh
    <2>3. QED BY <2>1, <2>2
  <1>3. ASSUME Authorize PROVE EInv'
    <2>1. EStores'
      <3>1. Asked \subseteq {host}
        BY <1>3, AskedRuns DEF Authorize, Go, EInv
      <3>2. QED BY <1>3, <3>1, QuieterStores DEF Authorize
    <2>2. ESteps'
      BY <1>3, Fields
      DEF Authorize, Go, Asked, Target, EStores, ESteps, Reliance, BackedUp,
          ReconcileSteps, NoRun, Disk, Host, Run, fresh
    <2>3. QED BY <2>1, <2>2
  <1>4. ASSUME AuthorizeFails PROVE EInv'
    <2>1. EStores'
      <3>1. Asked \subseteq {host}
        BY <1>4, AskedRuns DEF AuthorizeFails, EInv
      <3>2. ~(run.kind = "reset" /\ disk.stopped)
        BY <1>4 DEF AuthorizeFails, ESteps
      <3>3. QED BY <1>4, <3>1, <3>2, QuieterStores DEF AuthorizeFails
    <2>2. ESteps'
      BY <1>4, Fields
      DEF AuthorizeFails, End, Asked, Target, EStores, ESteps, Reliance,
          BackedUp, ReconcileSteps, NoRun, Disk, Host, Run, fresh
    <2>3. QED BY <2>1, <2>2
  <1>5. ASSUME RemoveDocker PROVE EInv'
    <2>1. EStores'
      BY <1>5, Fields
      DEF RemoveDocker, Go, EStores, ESteps, Reliance, BackedUp, ApplySteps,
          RemovalSteps, Steps, Disk, Host, Run, Ref, fresh
    <2>2. ESteps'
      BY <1>5, Fields
      DEF RemoveDocker, Go, Target, EStores, ESteps, Reliance, BackedUp,
          ReconcileSteps, NoRun, Disk, Host, Run, fresh
    <2>3. QED BY <2>1, <2>2
  <1>6. ASSUME RemoveStorage PROVE EInv'
    <2>1. EStores'
      BY <1>6, Fields
      DEF RemoveStorage, Go, EStores, ESteps, Reliance, BackedUp, ApplySteps,
          RemovalSteps, Steps, Disk, Host, Run, Ref, fresh
    <2>2. ESteps'
      BY <1>6, Fields
      DEF RemoveStorage, Go, Target, EStores, ESteps, Reliance, BackedUp,
          ReconcileSteps, NoRun, Disk, Host, Run, fresh
    <2>3. QED BY <2>1, <2>2
  <1>7. ASSUME RemoveSchedule PROVE EInv'
    <2>1. EStores'
      BY <1>7, Fields
      DEF RemoveSchedule, Go, EStores, ESteps, Reliance, BackedUp, ApplySteps,
          RemovalSteps, Steps, Disk, Host, Run, Ref, fresh
    <2>2. ESteps'
      BY <1>7, Fields
      DEF RemoveSchedule, Go, Target, EStores, ESteps, Reliance, BackedUp,
          ReconcileSteps, NoRun, Disk, Host, Run, fresh
    <2>3. QED BY <2>1, <2>2
  <1>8. ASSUME FilesRemoved PROVE EInv'
    <2>1. EStores'
      BY <1>8, Fields
      DEF FilesRemoved, EStores, ESteps, Reliance, BackedUp, ApplySteps,
          RemovalSteps, Steps, Disk, Host, Run, Ref, fresh
    <2>2. ESteps'
      BY <1>8, Fields
      DEF FilesRemoved, Target, EStores, ESteps, Reliance, BackedUp,
          ReconcileSteps, NoRun, Disk, Host, Run, fresh
    <2>3. QED BY <2>1, <2>2
  <1>9. ASSUME RemovalFails PROVE EInv'
    <2>1. EStores'
      BY <1>9, QuieterStores DEF RemovalFails
    <2>2. ESteps'
      BY <1>9, Fields
      DEF RemovalFails, Stopped, EndDirty, Target, EStores, ESteps, Reliance,
          BackedUp, ReconcileSteps, NoRun, Disk, Host, Run, fresh
    <2>3. QED BY <2>1, <2>2
  <1>10. ASSUME NEW f \in DOMAIN RemovalRank, RemoveFile(f) PROVE EInv'
    <2>1. /\ disk'.epoch \in {disk.epoch, None}
          /\ disk'.env \in {disk.env, None}
      BY <1>10 DEF RemoveFile, RemovalRank, EmptyDisk, Disk
    <2>2. QED
      BY <1>10, <2>1
      DEF RemoveFile, EStores, ESteps, Reliance, ReconcileSteps, Target,
          fresh
  <1>11. QED
    BY <1>1, <1>2, <1>3, <1>4, <1>5, <1>6, <1>7, <1>8, <1>9, <1>10 DEF Removal

LEMMA EInvCommand ==
  ASSUME TInv, EInv, ~ScopedReset, Command PROVE EInv'
  <1> USE ReleasesAssumption
      DEF TInv, Stores, Control, EInv, EpochRecordTruthful, StateReadable
  <1>1. ASSUME NEW r \in Releases, NEW channel \in BOOLEAN,
               InstallFresh(r, channel)
      PROVE EInv'
    BY <1>1, Fields
    DEF InstallFresh, Go, Begin, NoRun, EStores, ESteps, Reliance, Disk,
        EmptyDisk, fresh, Target, Ref
  <1>2. ASSUME NEW r \in Releases, NEW channel \in BOOLEAN,
               InstallOver(r, channel)
      PROVE EInv'
    BY <1>2, Fields
    DEF InstallOver, Go, Begin, NoRun, Corrupt, EStores, ESteps, Reliance,
        Disk, EmptyDisk, fresh, Target, Ref
  <1>3. ASSUME NEW r \in Releases, NEW channel \in BOOLEAN,
               InstallRecover(r, channel)
      PROVE EInv'
    BY <1>3, Fields
    DEF InstallRecover, Go, Begin, NoRun, Corrupt, EStores, ESteps, Reliance,
        Disk, EmptyDisk, fresh, Target, Ref
  <1>4. ASSUME NEW r \in Releases, NEW scheduled \in BOOLEAN,
              NEW channel \in BOOLEAN,
              StartSelected(r, scheduled, channel)
      PROVE EInv'
    BY <1>4, Fields
    DEF StartSelected, Go, Begin, NoRun, StartReady, EStores, ESteps,
        Reliance, Disk, EmptyDisk, fresh, Target, Ref
  <1>5. ASSUME NEW r \in Releases, StartResume(r)
      PROVE EInv'
    BY <1>5, Fields
    DEF StartResume, Go, Begin, NoRun, StartReady, EStores, ESteps, Reliance,
        Disk, EmptyDisk, fresh, Target, Ref
  <1>6. ASSUME NEW r \in Releases, Update(r)
      PROVE EInv'
    BY <1>6, Fields
    DEF Update, Go, Begin, NoRun, Corrupt, EStores, ESteps, Reliance, Disk,
        EmptyDisk, fresh, Target, Ref
  <1>7. ASSUME BeginStop
      PROVE EInv'
    BY <1>7, Fields
    DEF BeginStop, Go, Begin, NoRun, EStores, ESteps, Reliance, Disk,
        EmptyDisk, fresh, Target, Ref
  <1>8. ASSUME BeginReset
      PROVE EInv'
    BY <1>8, Fields
    DEF BeginReset, Answers, Go, Begin, NoRun, EStores, ESteps, Reliance,
        Disk, EmptyDisk, fresh, Target, Ref
  <1>9. ASSUME BeginHardReset
      PROVE EInv'
    BY <1>9, Fields
    DEF BeginHardReset, Go, Begin, NoRun, EStores, ESteps, Reliance, Disk,
        EmptyDisk, fresh, Target, Ref
  <1>10. ASSUME StartStopped PROVE EInv'
    BY <1>10 DEF StartStopped, End, NoRun, EStores, ESteps
  <1>11. ASSUME NEW r \in Releases, NEW scheduled \in BOOLEAN,
              StartKeep(r, scheduled)
      PROVE EInv'
    BY <1>11 DEF StartKeep, End, NoRun, EStores, ESteps
  <1>12. QED
    BY <1>1, <1>2, <1>3, <1>4, <1>5, <1>6, <1>7, <1>8, <1>9, <1>10, <1>11
    DEF Command

LEMMA EInvInductive ==
  ASSUME ~ScopedReset PROVE TInv /\ EInv /\ [Next]_vars => EInv'
  <1> SUFFICES ASSUME TInv, EInv, [Next]_vars PROVE EInv'
    OBVIOUS
  <1>1. CASE UNCHANGED vars
    BY <1>1
    DEF vars, EInv, EStores, ESteps, EpochRecordTruthful, StateReadable,
        fresh, Target
  <1>2. CASE Crash
    BY <1>2
    DEF Crash, EndDirty, NoRun, EInv, EStores, ESteps, EpochRecordTruthful,
        StateReadable
  <1>3. CASE Reboot
    BY <1>3
    DEF Reboot, EndDirty, NoRun, EInv, EStores, ESteps, EpochRecordTruthful,
        StateReadable, TInv, Stores, Host
  <1>4. CASE PoolClosed
    BY <1>4
    DEF PoolClosed, EInv, EStores, ESteps, EpochRecordTruthful,
        StateReadable, TInv, Stores, Host, fresh, Target
  <1>5. CASE Command \/ RunStep
    BY <1>5, EInvCommand, EInvApply, EInvRollback, EInvRemoval DEF RunStep
  <1>6. QED BY <1>1, <1>2, <1>3, <1>4, <1>5 DEF Next

(* As long as every scoped reset is answered by what runs, the recorded    *)
(* format never lies about the volumes and no container runs on state its  *)
(* release does not read, wherever runs fail, die or are followed by       *)
(* others, in the apply and in its rollback alike                          *)
(* (reconcile_runtime_state).                                              *)
THEOREM RuntimeStateReadable ==
  ASSUME ~ScopedReset PROVE Spec => [](EpochRecordTruthful /\ StateReadable)
  <1>1. Init => TInv /\ EInv
    BY TInvInit, EInvInit
  <1>2. TInv /\ EInv /\ [Next]_vars => (TInv /\ EInv)'
    BY TInvInductive, EInvInductive
  <1>3. EInv => EpochRecordTruthful /\ StateReadable
    BY DEF EInv, EStores
  <1>4. QED BY <1>1, <1>2, <1>3, PTL DEF Spec

(* The same of the record alone, which the next apply reads before it      *)
(* decides whether it may keep the volumes (read_state_epoch).             *)
THEOREM EpochRecordNeverLies ==
  ASSUME ~ScopedReset PROVE Spec => []EpochRecordTruthful
  BY RuntimeStateReadable, PTL

-----------------------------------------------------------------------------
(***************************************************************************)
(* The Space is the atomic store AtomicApply promises, on an encrypted     *)
(* host or not, with every command; what this rests on: which record is    *)
(* what at which step of a run.                                            *)
(***************************************************************************)

(* Before its first write of the live records, an apply found them.        *)
Unwritten ==
  { "mark", "admit", "backupGraph", "backupEnv", "reconcile", "stopOld",
    "clear", "record", "writeEnv" }

(* Only a home that bears the marker is written to. *)
Marked ==
  /\ MarkerOutlivesRecords
  /\ pc \in ApplySteps \ {"mark"} => disk.marker
  /\ pc = "mark" \/ (pc = "removeSchedule" /\ run.kind = "recover")
       => disk = EmptyDisk

(* A release is reported reconciled, or about to be, only once proved.     *)
Proven ==
  /\ disk.status # None /\ disk.status.outcome = "reconciled"
       => disk.status.release \in hist.healthy
  /\ pc = "commit" => run.cand \in hist.healthy

(* The release of the live records and of the environment's backup, step   *)
(* by step.  An apply on its way back has restored the environment.        *)
Configured ==
  /\ pc \in Unwritten /\ ~run.restoring => disk.env = run.prev
  /\ pc \in {"writeGraph", "clearStopped", "up", "prove", "commit"}
       => disk.env = run.cand
  /\ pc \in {"clearStopped", "up", "prove", "commit"}
       => disk.graph = run.cand
  /\ pc \in BackedUp /\ ~fresh /\ ~run.restoring => disk.envBackup = run.prev
  /\ pc \in ApplySteps /\ ~fresh => disk.env # None
  /\ pc \in RemovalSteps \cup {"authorize"} /\ run.kind = "apply" => fresh

Settled == disk.graph = disk.env /\ disk.env \in hist.healthy \cup {None}

(* What a history without an interrupted run says of those releases.       *)
Untorn ==
  ~hist.interrupted =>
    /\ pc \notin Window \/ (run.kind = "reset" /\ pc # "removeFiles")
         => Settled
    /\ pc \in Unwritten \cup BackedUp /\ ~run.restoring
         => run.prev \in hist.healthy \cup {None}
    /\ pc \in ({"backupEnv"} \cup BackedUp) \ {"restoreEnv"}
         /\ ~fresh /\ ~run.restoring
         => disk.graphBackup = run.prev
    /\ pc = "restoreEnv" => disk.graph = run.prev

(* A release given up on is remembered on disk, or no schedule is left to  *)
(* try it, or the Space is too far removed to start.                       *)
GivenUp ==
  /\ hist.abandoned # None =>
       disk.failed = hist.abandoned \/ ~host.scheduler \/ disk.env = None
  /\ run.kind = "apply" /\ fresh => hist.abandoned = None
  /\ pc = "removeSchedule" /\ run.kind = "recover" => hist.abandoned = None
  /\ run.scheduled => ~disk.stopped

SInv == Marked /\ Proven /\ Configured /\ Untorn /\ GivenUp

AInv == TInv /\ SInv

(* An empty home, field by field. *)
LEMMA Emptied ==
  ASSUME NEW x \in Disk
  PROVE  /\ x = EmptyDisk <=>
              /\ ~x.marker /\ ~x.stopped
              /\ x.env = None /\ x.graph = None
              /\ x.envBackup = None /\ x.graphBackup = None
              /\ x.status = None /\ x.failed = None /\ x.epoch = None
         /\ [x EXCEPT !.stopped = FALSE] = EmptyDisk <=>
              /\ ~x.marker
              /\ x.env = None /\ x.graph = None
              /\ x.envBackup = None /\ x.graphBackup = None
              /\ x.status = None /\ x.failed = None /\ x.epoch = None
  <1> DEFINE Cleared == [x EXCEPT !.stopped = FALSE]
  <1>1. EmptyDisk \in Disk /\ Cleared \in Disk
    BY DEF Disk, EmptyDisk, Ref, Mark
  <1>2. ASSUME NEW y \in Disk
        PROVE  y = EmptyDisk <=>
                 /\ ~y.marker /\ ~y.stopped
                 /\ y.env = None /\ y.graph = None
                 /\ y.envBackup = None /\ y.graphBackup = None
                 /\ y.status = None /\ y.failed = None /\ y.epoch = None
    BY <1>1 DEF Disk, EmptyDisk
  <1>3. /\ ~Cleared.stopped /\ Cleared.marker = x.marker
        /\ Cleared.env = x.env /\ Cleared.graph = x.graph
        /\ Cleared.envBackup = x.envBackup
        /\ Cleared.graphBackup = x.graphBackup
        /\ Cleared.status = x.status /\ Cleared.failed = x.failed
        /\ Cleared.epoch = x.epoch
    BY DEF Disk
  <1> QED BY <1>1, <1>2, <1>3

(* Starting and stopping containers leaves the scheduler alone. *)
LEMMA SchedulerKept ==
  ASSUME host \in Host
  PROVE  /\ Stopped.scheduler = host.scheduler
         /\ [Stopped EXCEPT !.made = None].scheduler = host.scheduler
         /\ [Stopped EXCEPT !.made = None, !.data = None].scheduler
              = host.scheduler
         /\ \A r : \A h \in Startable(r) :
              /\ h.scheduler = host.scheduler
              /\ [h EXCEPT !.up = None].scheduler = host.scheduler
  <1>1. \A r : /\ Started(r).scheduler = host.scheduler
               /\ [Started(r) EXCEPT !.up = None].scheduler = host.scheduler
    BY DEF Started, Host
  <1>2. QED BY <1>1 DEF Stopped, Startable, Host

-----------------------------------------------------------------------------
(* The steps of an apply. *)
LEMMA SInvApply ==
  ASSUME AInv, Apply, TInv' PROVE SInv'
  <1> USE ReleasesAssumption
      DEF AInv, TInv, Stores, Control, Reliance, SInv, Marked, MarkerOutlivesRecords,
          Proven, Configured, Settled, Untorn, GivenUp,
          ApplySteps, RemovalSteps, Steps, BackedUp, ReconcileSteps, Unwritten,
          Window, Interrupted, fresh, Disk, Host, Run, Hist, NoRun
  <1>1. ASSUME WriteMarker PROVE SInv'
    BY <1>1, Fields, Emptied
    DEF WriteMarker, Go
  <1>2. ASSUME Admit PROVE SInv'
    BY <1>2, Fields, Emptied
    DEF Admit, Go
  <1>3. ASSUME AdmitLocked PROVE SInv'
    BY <1>3, Fields, Emptied
    DEF AdmitLocked, Go, End
  <1>4. ASSUME AdmitDeferred PROVE SInv'
    BY <1>4, Fields, Emptied
    DEF AdmitDeferred, Go, End
  <1>5. ASSUME AdmitFails PROVE SInv'
    BY <1>5, Fields, Emptied
    DEF AdmitFails, Go, End
  <1>6. ASSUME BackupGraph PROVE SInv'
    BY <1>6, Fields, Emptied
    DEF BackupGraph, Go
  <1>7. ASSUME BackupEnv PROVE SInv'
    BY <1>7, Fields, Emptied
    DEF BackupEnv, Go
  <1>8. ASSUME BackupFails PROVE SInv'
    BY <1>8, Fields, Emptied
    DEF BackupFails, Go, End
  <1>9. ASSUME ReconcileForget PROVE SInv'
    BY <1>9, Fields, Emptied
    DEF ReconcileForget, Go
  <1>10. ASSUME ReconcileKeep PROVE SInv'
    BY <1>10, Fields, Emptied
    DEF ReconcileKeep, Go, Resume
  <1>11. ASSUME StopOld PROVE SInv'
    BY <1>11, Fields, Emptied
    DEF StopOld, Go, Stopped
  <1>12. ASSUME ClearVolumes PROVE SInv'
    BY <1>12, Fields, Emptied
    DEF ClearVolumes, Go, Resume
  <1>13. ASSUME RecordEpoch PROVE SInv'
    BY <1>13, Fields, Emptied
    DEF RecordEpoch, Go, Resume
  <1>14. ASSUME ReconcileFails PROVE SInv'
    BY <1>14, Fields, Emptied
    DEF ReconcileFails, Go, Stopped
  <1>15. ASSUME WriteEnv PROVE SInv'
    BY <1>15, Fields, Emptied
    DEF WriteEnv, Go
  <1>16. ASSUME WriteGraph PROVE SInv'
    BY <1>16, Fields, Emptied
    DEF WriteGraph, Go
  <1>17. ASSUME ClearStopped PROVE SInv'
    BY <1>17, Fields, Emptied
    DEF ClearStopped, Go
  <1>18. ASSUME StartCandidate PROVE SInv'
    BY <1>18, Fields, Emptied
    DEF StartCandidate, Go, Started
  <1>19. ASSUME Prove PROVE SInv'
    BY <1>19, Fields, Emptied
    DEF Prove, Go
  <1>20. ASSUME StartFails PROVE SInv'
    <2>1. host'.scheduler = host.scheduler
      BY <1>20, SchedulerKept DEF StartFails
    <2>2. QED
      BY <1>20, <2>1, Fields, Emptied DEF StartFails, Go
  <1>21. ASSUME Commit PROVE SInv'
    BY <1>21, Fields, Emptied
    DEF Commit, Go
  <1>22. ASSUME ReplaceFails PROVE SInv'
    BY <1>22, Fields, Emptied
    DEF ReplaceFails, Go
  <1>23. ASSUME DropBackup PROVE SInv'
    BY <1>23, Fields, Emptied
    DEF DropBackup, Go
  <1>24. ASSUME ForgetFailed PROVE SInv'
    BY <1>24, Fields, Emptied
    DEF ForgetFailed, Go
  <1>25. ASSUME Schedule PROVE SInv'
    BY <1>25, Fields, Emptied
    DEF Schedule, Go, Barred
  <1>26. ASSUME AfterCommitFails PROVE SInv'
    BY <1>26, Fields, Emptied
    DEF AfterCommitFails, Go, End
  <1>27. QED
    BY <1>1, <1>2, <1>3, <1>4, <1>5, <1>6, <1>7, <1>8, <1>9, <1>10, <1>11, <1>12, <1>13,
       <1>14, <1>15, <1>16, <1>17, <1>18, <1>19, <1>20, <1>21, <1>22, <1>23, <1>24, <1>25,
       <1>26
       DEF Apply

-----------------------------------------------------------------------------
(* The steps of a rollback. *)

(* Disabling the schedule, or failing to, leaves what was proved.          *)
LEMMA Disabled ==
  ASSUME hist \in Hist, host \in Host, Disable
  PROVE  /\ hist'.healthy = hist.healthy
         /\ hist'.interrupted = hist.interrupted
         /\ \/ ~host'.scheduler
            \/ /\ host'.scheduler = host.scheduler
               /\ hist'.abandoned = hist.abandoned
  BY DEF Disable, Hist, Host

LEMMA SInvRollback ==
  ASSUME AInv, Rollback, TInv' PROVE SInv'
  <1> USE ReleasesAssumption
      DEF AInv, TInv, Stores, Control, Reliance, SInv, Marked, MarkerOutlivesRecords,
          Proven, Configured, Settled, Untorn, GivenUp,
          ApplySteps, RemovalSteps, Steps, BackedUp, ReconcileSteps, Unwritten,
          Window, Interrupted, fresh, Disk, Host, Run, Hist, NoRun
  <1>1. ASSUME Down PROVE SInv'
    <2>1. host'.scheduler = host.scheduler
      BY <1>1, SchedulerKept DEF Down
    <2>2. QED
      BY <1>1, <2>1, Fields, Emptied DEF Down, Go
  <1>2. ASSUME Remember PROVE SInv'
    BY <1>2, Fields, Emptied
    DEF Remember, Go
  <1>3. ASSUME RestoreGraph PROVE SInv'
    BY <1>3, Fields, Emptied
    DEF RestoreGraph, Go
  <1>4. ASSUME RestoreEnv PROVE SInv'
    BY <1>4, Fields, Emptied
    DEF RestoreEnv, Go
  <1>5. ASSUME RestoreStorage PROVE SInv'
    BY <1>5, Fields, Emptied
    DEF RestoreStorage, Go
  <1>6. ASSUME RestoreLocked PROVE SInv'
    BY <1>6, Fields, Emptied
    DEF RestoreLocked, Go, End
  <1>7. ASSUME RestoreFails PROVE SInv'
    BY <1>7, Fields, Emptied
    DEF RestoreFails, Go, EndDirty
  <1>8. ASSUME StartPrevious PROVE SInv'
    <2>1. host'.scheduler = host.scheduler
      BY <1>8, SchedulerKept DEF StartPrevious
    <2>2. QED
      BY <1>8, <2>1, Fields, Emptied DEF StartPrevious, Go
  <1>9. ASSUME RollbackStatus PROVE SInv'
    BY <1>9, Fields, Emptied
    DEF RollbackStatus, Go, End
  <1>10. ASSUME Disable PROVE SInv'
    <2>1. QED BY <1>10, Disabled, Fields DEF Disable
  <1>11. QED
    BY <1>1, <1>2, <1>3, <1>4, <1>5, <1>6, <1>7, <1>8, <1>9, <1>10 DEF Rollback

-----------------------------------------------------------------------------
(* The steps of a stop or a removal. *)

(* By the time the memory of a failed release goes, the environment is     *)
(* gone; by the time the marker goes, all is.                              *)
LEMMA FileRemoved ==
  ASSUME disk \in Disk, MarkerOutlivesRecords,
         NEW f \in DOMAIN RemovalRank, RemoveFile(f)
  PROVE  /\ MarkerOutlivesRecords'
         /\ disk'.status \in {disk.status, None}
         /\ disk'.env \in {disk.env, None}
         /\ disk'.failed = disk.failed \/ disk.env = None
         /\ ~disk.stopped => ~disk'.stopped
  <1>1. ASSUME NEW g \in DOMAIN RemovalRank, RemovalRank[g] < RemovalRank[f]
        PROVE  disk[g] = EmptyDisk[g]
    BY <1>1 DEF RemoveFile, Present
  <1>2. f \in {"epoch", "graph", "env", "status", "failed", "stopped",
              "graphBackup", "envBackup", "marker"}
    BY DEF RemovalRank
  <1>3. disk' = [disk EXCEPT ![f] = EmptyDisk[f]] /\ disk' \in Disk
    BY <1>2, FileUpdates DEF RemoveFile
  <1>4. CASE f = "marker"
    <2>1. \A g \in {"epoch", "graph", "env", "status", "failed", "stopped",
                  "graphBackup", "envBackup"} : disk[g] = EmptyDisk[g]
      BY <1>1, <1>4 DEF RemovalRank
    <2>2. disk' = [disk EXCEPT !.marker = FALSE]
      BY <1>3, <1>4 DEF EmptyDisk
    <2>3. disk' = EmptyDisk
      BY <2>1, <2>2 DEF EmptyDisk, Disk
    <2>4. MarkerOutlivesRecords'
      BY <1>3, <2>3, Emptied DEF MarkerOutlivesRecords
    <2>5. QED BY <2>1, <2>2, <2>3, <2>4 DEF EmptyDisk
  <1>5. CASE f # "marker"
    <2>1. /\ disk'.marker = disk.marker
          /\ \A g \in {"epoch", "graph", "env", "status", "failed",
                      "graphBackup", "envBackup"} :
               disk'[g] \in {disk[g], None}
          /\ ~disk.stopped => ~disk'.stopped
      BY <1>2, <1>3, <1>5 DEF EmptyDisk, Disk
    <2>2. MarkerOutlivesRecords'
      BY <1>3, <2>1, Emptied DEF MarkerOutlivesRecords
    <2>3. disk'.failed = disk.failed \/ disk.env = None
      <3>1. CASE f = "failed"
        <4>1. disk["env"] = EmptyDisk["env"]
          BY <1>1, <3>1 DEF RemovalRank
        <4>2. QED BY <4>1 DEF EmptyDisk
      <3>2. CASE f # "failed"
        BY <1>2, <1>3, <3>2 DEF Disk
      <3>3. QED BY <3>1, <3>2
    <2>4. QED BY <2>1, <2>2, <2>3
  <1>6. QED BY <1>4, <1>5

LEMMA SInvRemoval ==
  ASSUME AInv, Removal, TInv' PROVE SInv'
  <1> USE ReleasesAssumption
      DEF AInv, TInv, Stores, Control, Reliance, SInv, Marked, MarkerOutlivesRecords,
          Proven, Configured, Settled, Untorn, GivenUp,
          ApplySteps, RemovalSteps, Steps, BackedUp, ReconcileSteps, Unwritten,
          Window, Interrupted, fresh, Disk, Host, Run, Hist, NoRun
  <1>1. ASSUME StopContainers PROVE SInv'
    BY <1>1, Fields, Emptied
    DEF StopContainers, Go, End, Stopped
  <1>2. ASSUME StopFails PROVE SInv'
    BY <1>2, Fields, Emptied
    DEF StopFails, Go, End, Stopped
  <1>3. ASSUME Authorize PROVE SInv'
    <2>1. host'.scheduler = host.scheduler
      BY <1>3, SchedulerKept DEF Authorize, Asked
    <2>2. QED
      BY <1>3, <2>1, Fields, Emptied DEF Authorize, Go
  <1>4. ASSUME AuthorizeFails PROVE SInv'
    <2>0. /\ \A h \in Asked : /\ h.scheduler = host.scheduler
                              /\ [h EXCEPT !.up = None].scheduler
                                   = host.scheduler
      BY SchedulerKept DEF Asked
    <2>1. host'.scheduler = host.scheduler
      BY <1>4, <2>0 DEF AuthorizeFails
    <2>2. QED
      BY <1>4, <2>1, Fields, Emptied DEF AuthorizeFails, Go, End
  <1>5. ASSUME RemoveDocker PROVE SInv'
    BY <1>5, Fields, Emptied
    DEF RemoveDocker, Go
  <1>6. ASSUME RemoveStorage PROVE SInv'
    BY <1>6, Fields, Emptied
    DEF RemoveStorage, Go
  <1>7. ASSUME RemoveSchedule PROVE SInv'
    BY <1>7, Fields, Emptied
    DEF RemoveSchedule, Go
  <1>8. ASSUME NEW f \in DOMAIN RemovalRank, RemoveFile(f) PROVE SInv'
    <2>1. /\ pc = "removeFiles" /\ UNCHANGED <<host, pc, run, hist>>
      BY <1>8 DEF RemoveFile
    <2>2. /\ MarkerOutlivesRecords'
          /\ disk'.status \in {disk.status, None}
          /\ disk'.env \in {disk.env, None}
          /\ disk'.failed = disk.failed \/ disk.env = None
          /\ ~disk.stopped => ~disk'.stopped
      BY <1>8, FileRemoved
    <2>3. QED BY <2>1, <2>2
  <1>9. ASSUME FilesRemoved PROVE SInv'
    BY <1>9, Fields, Emptied
    DEF FilesRemoved, Go, NewHist
  <1>10. ASSUME RemovalFails PROVE SInv'
    <2>1. host'.scheduler = host.scheduler
      BY ZenonT(60), <1>10, SchedulerKept DEF RemovalFails
    <2>2. QED
      BY <1>10, <2>1, Fields, Emptied DEF RemovalFails, Go, EndDirty
  <1>11. QED
    BY <1>1, <1>2, <1>3, <1>4, <1>5, <1>6, <1>7, <1>8, <1>9, <1>10 DEF Removal

-----------------------------------------------------------------------------
(* The beginning of a run, and what no run controls. *)
LEMMA SInvCommand ==
  ASSUME AInv, Command, TInv' PROVE SInv'
  <1> USE ReleasesAssumption
      DEF AInv, TInv, Stores, Control, Reliance, SInv, Marked, MarkerOutlivesRecords,
          Proven, Configured, Settled, Untorn, GivenUp,
          ApplySteps, RemovalSteps, Steps, BackedUp, ReconcileSteps, Unwritten,
          Window, Interrupted, fresh, Disk, Host, Run, Hist, NoRun
  <1>1. ASSUME NEW r \in Releases, NEW channel \in BOOLEAN,
               InstallFresh(r, channel)
         PROVE SInv'
    <2>1. disk' = EmptyDisk /\ disk.env = None /\ ~disk.marker
      BY <1>1, Emptied DEF InstallFresh
    <2>2. /\ run'.kind = "apply" /\ run'.prev = None /\ ~run'.restoring
          /\ ~run'.scheduled /\ pc' = "mark" /\ hist' = NewHist("none")
      BY <1>1 DEF InstallFresh, Go, Begin
    <2>3. QED BY <2>1, <2>2, Emptied DEF EmptyDisk, NewHist
  <1>2. ASSUME NEW r \in Releases, NEW channel \in BOOLEAN,
               InstallOver(r, channel)
         PROVE SInv'
    BY <1>2, Fields, Emptied
    DEF InstallOver, Go, Begin, NewHist, Corrupt
  <1>3. ASSUME NEW r \in Releases, NEW channel \in BOOLEAN,
               InstallRecover(r, channel)
         PROVE SInv'
    BY <1>3, Fields, Emptied
    DEF InstallRecover, Go, Begin, NewHist
  <1>4. ASSUME NEW r \in Releases, NEW scheduled \in BOOLEAN, NEW channel \in BOOLEAN,
               StartSelected(r, scheduled, channel)
         PROVE SInv'
    BY <1>4, Fields, Emptied
    DEF StartSelected, Go, Begin, NewHist, StartReady
  <1>5. ASSUME StartStopped PROVE SInv'
    BY <1>5, Fields, Emptied
    DEF StartStopped, Go, End, StartReady
  <1>6. ASSUME NEW r \in Releases,
               StartResume(r)
         PROVE SInv'
    BY <1>6, Fields, Emptied
    DEF StartResume, Go, Begin, NewHist, StartReady
  <1>7. ASSUME NEW r \in Releases, NEW scheduled \in BOOLEAN,
               StartKeep(r, scheduled)
         PROVE SInv'
    BY <1>7, Fields, Emptied
    DEF StartKeep, Go, Begin, NewHist, StartReady, End
  <1>8. ASSUME NEW r \in Releases,
               Update(r)
         PROVE SInv'
    BY <1>8, Fields, Emptied
    DEF Update, Go, Begin, NewHist, Corrupt
  <1>9. ASSUME BeginStop PROVE SInv'
    BY <1>9, Fields, Emptied
    DEF BeginStop, Go, Begin, NewHist
  <1>10. ASSUME BeginReset PROVE SInv'
    BY <1>10, Fields, Emptied
    DEF BeginReset, Go, Begin, NewHist
  <1>11. ASSUME BeginHardReset PROVE SInv'
    BY <1>11, Fields, Emptied
    DEF BeginHardReset, Go, Begin, NewHist
  <1> HIDE DEF AInv, TInv, Stores, Control, Reliance, SInv, Marked, MarkerOutlivesRecords,
          Proven, Configured, Settled, Untorn, GivenUp,
          ApplySteps, RemovalSteps, Steps, BackedUp, ReconcileSteps, Unwritten,
          Window, Interrupted, fresh, Disk, Host, Run, Hist, NoRun
  <1>12. QED
    BY <1>1, <1>2, <1>3, <1>4, <1>5, <1>6, <1>7, <1>8, <1>9, <1>10, <1>11 DEF Command

LEMMA SInvEnvironment ==
  ASSUME AInv, Crash \/ Reboot \/ PoolClosed, TInv' PROVE SInv'
  <1> USE ReleasesAssumption
      DEF AInv, TInv, Stores, Control, Reliance, SInv, Marked, MarkerOutlivesRecords,
          Proven, Configured, Settled, Untorn, GivenUp,
          ApplySteps, RemovalSteps, Steps, BackedUp, ReconcileSteps, Unwritten,
          Window, Interrupted, fresh, Disk, Host, Run, Hist, NoRun
  <1>1. ASSUME Crash PROVE SInv'
    BY <1>1, Fields, Emptied
    DEF Crash, Go, EndDirty
  <1>2. ASSUME Reboot PROVE SInv'
    BY <1>2, Fields, Emptied
    DEF Reboot, Go, EndDirty
  <1>3. ASSUME PoolClosed PROVE SInv'
    BY <1>3, Fields, Emptied
    DEF PoolClosed, Go
  <1>4. QED BY <1>1, <1>2, <1>3

LEMMA SInvInit == Init => AInv
  <1> SUFFICES ASSUME Init PROVE AInv
    OBVIOUS
  <1>1. TInv
    BY TInvInit
  <1>2. SInv
    BY <1>1, Emptied
    DEF TInv, Stores, Control, Init, SInv, Marked, MarkerOutlivesRecords, Proven,
        Configured, Settled, Untorn, GivenUp, NoRun, NewHist,
        ApplySteps, RemovalSteps, Steps, BackedUp, Unwritten, Window, fresh
  <1>3. QED BY <1>1, <1>2 DEF AInv

LEMMA SInvInductive ==
  AInv /\ [Next]_vars => AInv'
  <1> SUFFICES ASSUME AInv, [Next]_vars PROVE AInv'
    OBVIOUS
  <1>1. TInv'
    BY TInvInductive DEF AInv
  <1>2. CASE UNCHANGED vars
    BY <1>1, <1>2
    DEF vars, AInv, SInv, Marked, MarkerOutlivesRecords, Proven, Configured, Settled,
        Untorn, GivenUp, Interrupted, fresh
  <1>3. CASE Next
    BY <1>1, <1>3, SInvCommand, SInvApply, SInvRollback, SInvRemoval,
       SInvEnvironment
    DEF Next, RunStep, AInv
  <1>4. QED BY <1>2, <1>3

-----------------------------------------------------------------------------
(* The step of AtomicApply, or the stutter, that each step maps to.        *)

Counted == IF Replacing THEN run.prev ELSE disk.env

Step ==
  \/ /\ Counted' = Counted
     /\ hist'.healthy = hist.healthy
     /\ hist'.interrupted = hist.interrupted
  \/ /\ Counted' = Counted
     /\ \E r \in Releases : hist'.healthy = hist.healthy \cup {r}
     /\ hist'.interrupted = hist.interrupted
  \/ /\ Counted' \in hist.healthy
     /\ hist'.healthy = hist.healthy
     /\ ~hist'.interrupted
  \/ /\ Counted' \in Releases \cup {None}
     /\ hist'.healthy = hist.healthy
     /\ hist'.interrupted
  \/ /\ Counted' = None
     /\ hist'.healthy = hist.healthy
     /\ hist'.interrupted = hist.interrupted
  \/ /\ Counted' = None
     /\ hist'.healthy = {}
     /\ ~hist'.interrupted

(* A run that dies tears the release if it dies in the window, and leaves  *)
(* it alone elsewhere.                                                     *)
LEMMA Torn ==
  ASSUME AInv, EndDirty("ended"), disk' = disk
  PROVE  Step
  <1>1. /\ pc' = "idle"
        /\ hist'.healthy = hist.healthy
        /\ hist'.interrupted <=> Interrupted
    BY DEF EndDirty, AInv, TInv, Control, Hist, Interrupted
  <1>2. Counted' = disk.env /\ disk.env \in Releases \cup {None}
    BY <1>1, Fields DEF Counted, Replacing, Window, AInv, Ref
  <1>3. CASE Interrupted
    BY <1>1, <1>2, <1>3 DEF Step
  <1>4. CASE ~Interrupted
    <2>1. Counted = disk.env
      BY <1>4 DEF Counted, Replacing, Interrupted
    <2>2. hist'.interrupted = hist.interrupted
      <3>1. hist'.interrupted \in BOOLEAN /\ hist.interrupted \in BOOLEAN
        BY HistUpdates DEF EndDirty, AInv, TInv, Control, Hist, Outcomes
      <3>2. QED BY <1>1, <1>4, <3>1 DEF Interrupted
    <2>3. QED BY <1>1, <1>2, <2>1, <2>2 DEF Step
  <1>5. QED BY <1>3, <1>4

(* An apply proves its candidate, then replaces the release at its commit. *)
LEMMA StepApply ==
  ASSUME AInv, Apply, TInv' PROVE Step
  <1> USE ReleasesAssumption
      DEF AInv, TInv, Stores, Control, Reliance, SInv, Marked,
          MarkerOutlivesRecords, Proven, Configured, GivenUp,
          ApplySteps, RemovalSteps, Steps, BackedUp, ReconcileSteps,
          Unwritten, Window, Interrupted, fresh, Disk, Run, Hist, NoRun,
          Step, Counted, Replacing
  <1>1. ASSUME WriteMarker PROVE Step
    BY <1>1, Fields, Emptied DEF WriteMarker, Go
  <1>2. ASSUME Admit PROVE Step
    BY <1>2, Fields, Emptied DEF Admit, Go
  <1>3. ASSUME AdmitLocked PROVE Step
    BY <1>3, Fields, Emptied DEF AdmitLocked, Go, End
  <1>4. ASSUME AdmitDeferred PROVE Step
    BY <1>4, Fields, Emptied DEF AdmitDeferred, Go, End
  <1>5. ASSUME AdmitFails PROVE Step
    BY <1>5, Fields, Emptied DEF AdmitFails, Go, End
  <1>6. ASSUME BackupGraph PROVE Step
    BY <1>6, Fields, Emptied DEF BackupGraph, Go
  <1>7. ASSUME BackupEnv PROVE Step
    BY <1>7, Fields, Emptied DEF BackupEnv, Go
  <1>8. ASSUME BackupFails PROVE Step
    BY <1>8, Fields, Emptied DEF BackupFails, Go, End
  <1>9. ASSUME ReconcileForget PROVE Step
    BY <1>9, Fields, Emptied DEF ReconcileForget, Go
  <1>10. ASSUME ReconcileKeep PROVE Step
    BY <1>10, Fields, Emptied DEF ReconcileKeep, Go, Resume
  <1>11. ASSUME StopOld PROVE Step
    BY <1>11, Fields, Emptied DEF StopOld, Go
  <1>12. ASSUME ClearVolumes PROVE Step
    BY <1>12, Fields, Emptied DEF ClearVolumes, Go, Resume
  <1>13. ASSUME RecordEpoch PROVE Step
    BY <1>13, Fields, Emptied DEF RecordEpoch, Go, Resume
  <1>14. ASSUME ReconcileFails PROVE Step
    BY <1>14, Fields, Emptied DEF ReconcileFails, Go
  <1>15. ASSUME WriteEnv PROVE Step
    BY <1>15, Fields, Emptied DEF WriteEnv, Go
  <1>16. ASSUME WriteGraph PROVE Step
    BY <1>16, Fields, Emptied DEF WriteGraph, Go
  <1>17. ASSUME ClearStopped PROVE Step
    BY <1>17, Fields, Emptied DEF ClearStopped, Go
  <1>18. ASSUME StartCandidate PROVE Step
    BY <1>18, Fields, Emptied DEF StartCandidate, Go
  <1>19. ASSUME Prove PROVE Step
    BY <1>19, Fields, Emptied DEF Prove, Go
  <1>20. ASSUME StartFails PROVE Step
    BY <1>20, Fields, Emptied DEF StartFails, Go
  <1>21. ASSUME Commit PROVE Step
    BY <1>21, Fields, Emptied DEF Commit, Go
  <1>22. ASSUME ReplaceFails PROVE Step
    BY <1>22, Fields, Emptied DEF ReplaceFails, Go
  <1>23. ASSUME DropBackup PROVE Step
    BY <1>23, Fields, Emptied DEF DropBackup, Go
  <1>24. ASSUME ForgetFailed PROVE Step
    BY <1>24, Fields, Emptied DEF ForgetFailed, Go
  <1>25. ASSUME Schedule PROVE Step
    BY <1>25, Fields, Emptied DEF Schedule, Go
  <1>26. ASSUME AfterCommitFails PROVE Step
    BY <1>26, Fields, Emptied DEF AfterCommitFails, Go, End
  <1>27. QED
    BY <1>1, <1>2, <1>3, <1>4, <1>5, <1>6, <1>7, <1>8, <1>9, <1>10, <1>11, <1>12, <1>13,
       <1>14, <1>15, <1>16, <1>17, <1>18, <1>19, <1>20, <1>21, <1>22, <1>23, <1>24, <1>25,
       <1>26
       DEF Apply

(* A rollback keeps the release, or is torn. *)
LEMMA StepRollback ==
  ASSUME AInv, Rollback, TInv' PROVE Step
  <1> USE ReleasesAssumption
      DEF AInv, TInv, Stores, Control, Reliance, SInv, Marked,
          MarkerOutlivesRecords, Proven, Configured, GivenUp,
          ApplySteps, RemovalSteps, Steps, BackedUp, ReconcileSteps,
          Unwritten, Window, Interrupted, fresh, Disk, Run, Hist, NoRun,
          Step, Counted, Replacing
  <1>1. ASSUME Down PROVE Step
    BY <1>1, Fields, Emptied DEF Down, Go
  <1>2. ASSUME Remember PROVE Step
    BY <1>2, Fields, Emptied DEF Remember, Go
  <1>3. ASSUME RestoreGraph PROVE Step
    BY <1>3, Fields, Emptied DEF RestoreGraph, Go
  <1>4. ASSUME RestoreEnv PROVE Step
    BY <1>4, Fields, Emptied DEF RestoreEnv, Go
  <1>5. ASSUME RestoreStorage PROVE Step
    BY <1>5, Fields, Emptied DEF RestoreStorage, Go
  <1>6. ASSUME RestoreLocked PROVE Step
    BY <1>6, Fields, Emptied DEF RestoreLocked, Go, End
  <1>7. ASSUME RestoreFails PROVE Step
    BY <1>7, Torn DEF RestoreFails
  <1>8. ASSUME StartPrevious PROVE Step
    BY <1>8, Fields, Emptied DEF StartPrevious, Go
  <1>9. ASSUME RollbackStatus PROVE Step
    BY <1>9, Fields, Emptied DEF RollbackStatus, Go, End
  <1>10. ASSUME Disable PROVE Step
    BY <1>10, Disabled DEF Disable
  <1>11. QED
    BY <1>1, <1>2, <1>3, <1>4, <1>5, <1>6, <1>7, <1>8, <1>9, <1>10 DEF Rollback

(* A removal withdraws the release, then forgets the Space, or is torn. *)
LEMMA StepRemoval ==
  ASSUME AInv, Removal, TInv' PROVE Step
  <1> USE ReleasesAssumption
      DEF AInv, TInv, Stores, Control, Reliance, SInv, Marked,
          MarkerOutlivesRecords, Proven, Configured, GivenUp,
          ApplySteps, RemovalSteps, Steps, BackedUp, ReconcileSteps,
          Unwritten, Window, Interrupted, fresh, Disk, Run, Hist, NoRun,
          Step, Counted, Replacing
  <1>1. ASSUME StopContainers PROVE Step
    BY <1>1, Fields, Emptied DEF StopContainers, Go, End
  <1>2. ASSUME StopFails PROVE Step
    BY <1>2, Fields, Emptied DEF StopFails, Go, End
  <1>3. ASSUME Authorize PROVE Step
    BY <1>3, Fields, Emptied DEF Authorize, Go
  <1>4. ASSUME AuthorizeFails PROVE Step
    BY <1>4, Fields, Emptied DEF AuthorizeFails, Go, End
  <1>5. ASSUME RemoveDocker PROVE Step
    BY <1>5, Fields, Emptied DEF RemoveDocker, Go
  <1>6. ASSUME RemoveStorage PROVE Step
    BY <1>6, Fields, Emptied DEF RemoveStorage, Go
  <1>7. ASSUME RemoveSchedule PROVE Step
    BY <1>7, Fields, Emptied DEF RemoveSchedule, Go
  <1>8. ASSUME NEW f \in DOMAIN RemovalRank, RemoveFile(f) PROVE Step
    <2>1. /\ pc = "removeFiles" /\ UNCHANGED <<host, pc, run, hist>>
      BY <1>8 DEF RemoveFile
    <2>2. disk'.env \in {disk.env, None}
      BY <1>8, FileRemoved
    <2>3. QED BY <2>1, <2>2
  <1>9. ASSUME FilesRemoved PROVE Step
    BY <1>9, Fields, Emptied DEF FilesRemoved, Go, NewHist, EmptyDisk
  <1>10. ASSUME RemovalFails PROVE Step
    BY <1>10, Torn DEF RemovalFails
  <1>11. QED
    BY <1>1, <1>2, <1>3, <1>4, <1>5, <1>6, <1>7, <1>8, <1>9, <1>10 DEF Removal

(* A run begins with the release as it is, in an unmarked home with none. *)
LEMMA StepCommand ==
  ASSUME AInv, Command, TInv' PROVE Step
  <1> USE ReleasesAssumption
      DEF AInv, TInv, Stores, Control, Reliance, SInv, Marked,
          MarkerOutlivesRecords, Proven, Configured, GivenUp,
          ApplySteps, RemovalSteps, Steps, BackedUp, ReconcileSteps,
          Unwritten, Window, Interrupted, fresh, Disk, Run, Hist, NoRun,
          Step, Counted, Replacing
  <1>1. ASSUME NEW r \in Releases, NEW channel \in BOOLEAN,
               InstallFresh(r, channel)
         PROVE Step
    BY <1>1, Fields, Emptied
    DEF InstallFresh, Go, Begin, NewHist
  <1>2. ASSUME NEW r \in Releases, NEW channel \in BOOLEAN,
               InstallOver(r, channel)
         PROVE Step
    BY <1>2, Fields, Emptied
    DEF InstallOver, Go, Begin, NewHist
  <1>3. ASSUME NEW r \in Releases, NEW channel \in BOOLEAN,
               InstallRecover(r, channel)
         PROVE Step
    BY ZenonT(60), <1>3, Fields, Emptied
    DEF InstallRecover, Go, Begin, NewHist
  <1>4. ASSUME NEW r \in Releases, NEW scheduled \in BOOLEAN, NEW channel \in BOOLEAN,
               StartSelected(r, scheduled, channel)
         PROVE Step
    BY <1>4, Fields, Emptied
    DEF StartSelected, Go, Begin, NewHist, StartReady
  <1>5. ASSUME StartStopped PROVE Step
    BY <1>5, Fields, Emptied DEF StartStopped, Go, End, StartReady
  <1>6. ASSUME NEW r \in Releases,
               StartResume(r)
         PROVE Step
    BY <1>6, Fields, Emptied
    DEF StartResume, Go, Begin, NewHist, StartReady
  <1>7. ASSUME NEW r \in Releases, NEW scheduled \in BOOLEAN,
               StartKeep(r, scheduled)
         PROVE Step
    BY <1>7, Fields, Emptied
    DEF StartKeep, Go, Begin, NewHist, StartReady, End
  <1>8. ASSUME NEW r \in Releases,
               Update(r)
         PROVE Step
    BY <1>8, Fields, Emptied
    DEF Update, Go, Begin, NewHist
  <1>9. ASSUME BeginStop PROVE Step
    BY <1>9, Fields, Emptied DEF BeginStop, Go, Begin, NewHist
  <1>10. ASSUME BeginReset PROVE Step
    BY ZenonT(60), <1>10, Fields, Emptied DEF BeginReset, Go, Begin, NewHist
  <1>11. ASSUME BeginHardReset PROVE Step
    BY ZenonT(60), <1>11, Fields, Emptied DEF BeginHardReset, Go, Begin, NewHist
  <1> HIDE DEF AInv, TInv, Stores, Control, Reliance, SInv, Marked,
          MarkerOutlivesRecords, Proven, Configured, GivenUp,
          ApplySteps, RemovalSteps, Steps, BackedUp, ReconcileSteps,
          Unwritten, Window, Interrupted, fresh, Disk, Run, Hist, NoRun,
          Step, Counted, Replacing
  <1>12. QED
    BY <1>1, <1>2, <1>3, <1>4, <1>5, <1>6, <1>7, <1>8, <1>9, <1>10, <1>11 DEF Command

(* What dies in the window is torn, what dies outside changes nothing. *)
LEMMA StepEnvironment ==
  ASSUME AInv, Crash \/ Reboot \/ PoolClosed, TInv' PROVE Step
  <1> USE ReleasesAssumption
      DEF AInv, TInv, Stores, Control, Reliance, SInv, Marked,
          MarkerOutlivesRecords, Proven, Configured, GivenUp,
          ApplySteps, RemovalSteps, Steps, BackedUp, ReconcileSteps,
          Unwritten, Window, Interrupted, fresh, Disk, Run, Hist, NoRun,
          Step, Counted, Replacing
  <1>1. ASSUME Crash PROVE Step
    BY <1>1, Torn DEF Crash
  <1>2. ASSUME Reboot PROVE Step
    BY <1>2, Torn DEF Reboot
  <1>3. ASSUME PoolClosed PROVE Step
    BY <1>3, Fields, Emptied DEF PoolClosed, Go
  <1>4. QED
    BY <1>1, <1>2, <1>3

-----------------------------------------------------------------------------
(* The theorems. *)

LEMMA AInvAlways == Spec => []AInv
  BY SInvInit, SInvInductive, PTL DEF Spec

(* A home whose removal was cut short, after any number of records, still  *)
(* bears the marker of a Space.                                            *)
THEOREM RemovalResumable == Spec => []MarkerOutlivesRecords
  <1>1. AInv => MarkerOutlivesRecords
    BY DEF AInv, SInv, Marked
  <1>2. QED BY <1>1, AInvAlways, PTL

(* Whatever was interrupted, commit evidence names a release that proved   *)
(* healthy in this Space.                                                  *)
THEOREM EvidenceIsProof == Spec => []EvidenceSound
  <1>1. AInv => EvidenceSound
    BY DEF AInv, SInv, Proven, EvidenceSound, Evidence
  <1>2. QED BY <1>1, AInvAlways, PTL

(* Unless a run died in its window, a Space at rest is configured, graph   *)
(* and environment alike, for one proved release or for none.              *)
THEOREM Settles == Spec => []SettledAtRest
  <1>1. AInv => SettledAtRest
    BY DEF AInv, SInv, Untorn, Settled, SettledAtRest, Window
  <1>2. QED BY <1>1, AInvAlways, PTL

(* What a step of a run leaves of its memory. *)
LEMMA RunKept ==
  ASSUME run \in Run, RunStep
  PROVE  /\ pc # "idle"
         /\ run'.scheduled => run.scheduled
  <1> USE DEF Run, NoRun, Go, End, EndDirty
  <1>1. CASE Apply
    BY <1>1
    DEF Apply, WriteMarker, Admit, AdmitLocked, AdmitDeferred, AdmitFails,
        BackupGraph, BackupEnv, BackupFails, ReconcileForget, ReconcileKeep,
        StopOld, ClearVolumes, RecordEpoch, ReconcileFails, WriteEnv,
        WriteGraph, ClearStopped, StartCandidate, Prove, StartFails, Commit,
        ReplaceFails, DropBackup, ForgetFailed, Schedule, AfterCommitFails
  <1>2. CASE Rollback
    <2>1. CASE StartPrevious
      BY <2>1 DEF StartPrevious
    <2>2. CASE RestoreStorage
      BY <2>2 DEF RestoreStorage
    <2>3. CASE RollbackStatus
      BY <2>3 DEF RollbackStatus
    <2>4. CASE Down \/ Remember \/ RestoreGraph \/ RestoreEnv
                \/ RestoreLocked \/ RestoreFails \/ Disable
      BY <2>4
      DEF Down, Remember, RestoreGraph, RestoreEnv, RestoreLocked,
          RestoreFails, Disable
    <2>5. QED BY <1>2, <2>1, <2>2, <2>3, <2>4 DEF Rollback
  <1>3. CASE Removal
    BY <1>3
    DEF Removal, StopContainers, StopFails, Authorize, AuthorizeFails,
        RemoveDocker, RemoveStorage, RemoveSchedule, RemoveFile,
        FilesRemoved, RemovalFails
  <1>4. QED BY <1>1, <1>2, <1>3 DEF RunStep

(* A release given up on is not tried again by a scheduled run that        *)
(* follows the channel.                                                    *)
THEOREM NotRetriedUnattended == Spec => NoUnattendedRetry
  <1> DEFINE Retry == run'.scheduled /\ run'.channel /\ pc = "idle"
                        /\ pc' = "admit"
  <1>1. ASSUME AInv, [Next]_vars, Retry PROVE run'.cand # hist.abandoned
    <2>1. Command
      <3>1. ~RunStep
        BY <1>1, RunKept DEF AInv, TInv, Control
      <3>2. QED
        BY <1>1, <3>1 DEF Next, vars, Crash, Reboot, PoolClosed, EndDirty
    <2>2. PICK r \in Releases, scheduled, channel \in BOOLEAN :
            StartSelected(r, scheduled, channel)
      BY <1>1, <2>1
      DEF Command, InstallFresh, InstallOver, InstallRecover, StartStopped,
          StartResume, StartKeep, Update, BeginStop, BeginReset,
          BeginHardReset, Begin, NoRun, End, Go
    <2>3. /\ run'.cand = r /\ scheduled /\ channel
          /\ host.scheduler /\ disk.env # None /\ disk.failed # r
      BY <1>1, <2>2 DEF StartSelected, StartReady, Begin, NoRun
    <2>4. QED
      BY <1>1, <2>2, <2>3, ReleasesAssumption DEF AInv, SInv, GivenUp
  <1>2. QED
    BY <1>1, AInvAlways, PTL DEF Spec, NoUnattendedRetry

(* A run the user did not ask for never lifts the stop intent, nor starts  *)
(* anything under it.                                                      *)
THEOREM StopIntentKept == Spec => StopIntentHolds
  <1>1. ASSUME AInv, [Next]_vars, disk.stopped
        PROVE  ~run'.scheduled /\ ~run.scheduled
    <2>1. ~run.scheduled
      BY <1>1 DEF AInv, SInv, GivenUp
    <2>2. CASE RunStep
      BY <2>1, <2>2, <1>1, RunKept DEF AInv, TInv, Control
    <2>3. CASE Command
      <3>1. ASSUME NEW r \in Releases, NEW scheduled \in BOOLEAN,
                   NEW channel \in BOOLEAN,
                   StartSelected(r, scheduled, channel)
            PROVE  ~run'.scheduled
        <4>1. ~scheduled /\ run'.scheduled = scheduled
          BY <1>1, <3>1 DEF StartSelected, Begin, NoRun
        <4>2. QED BY <4>1
      <3>2. ASSUME NEW r \in Releases, NEW channel \in BOOLEAN,
                   \/ InstallFresh(r, channel) \/ InstallOver(r, channel)
                   \/ InstallRecover(r, channel)
            PROVE  ~run'.scheduled
        BY <3>2
        DEF InstallFresh, InstallOver, InstallRecover, Begin, NoRun
      <3>3. ASSUME NEW r \in Releases, StartResume(r) \/ Update(r)
            PROVE  ~run'.scheduled
        BY <3>3 DEF StartResume, Update, Begin, NoRun
      <3>4. ASSUME NEW r \in Releases, NEW scheduled \in BOOLEAN,
                   StartKeep(r, scheduled)
            PROVE  ~run'.scheduled
        BY <3>4 DEF StartKeep, End, NoRun
      <3>5. ASSUME BeginStop \/ BeginReset \/ BeginHardReset
            PROVE  ~run'.scheduled
        BY <3>5 DEF BeginStop, BeginReset, BeginHardReset, Begin, NoRun
      <3>6. ASSUME StartStopped PROVE ~run'.scheduled
        BY <3>6 DEF StartStopped, End, NoRun
      <3>7. ~run'.scheduled
        BY <2>3, <3>1, <3>2, <3>3, <3>4, <3>5, <3>6, Zenon DEF Command
      <3>8. QED BY <2>1, <3>7
    <2>4. CASE Crash \/ Reboot \/ PoolClosed \/ UNCHANGED vars
      BY <2>1, <2>4
      DEF Crash, Reboot, PoolClosed, EndDirty, NoRun, vars
    <2>5. QED BY <1>1, <2>1, <2>2, <2>3, <2>4 DEF Next
  <1>2. QED
    BY <1>1, AInvAlways, PTL DEF Spec, StopIntentHolds

(* Towards everything outside the lifecycle lock the Space is the store of *)
(* one proved release that AtomicApply describes.                          *)
THEOREM SpaceIsAtomic == Spec => ImplementsAtomicApply
  <1>1. Init => Abstract!Init
    BY DEF Init, NewHist, NoRun, EmptyDisk, Replacing, Abstract!Init
  <1>2. AInv /\ AInv' /\ [Next]_vars => [Abstract!Next]_(Abstract!vars)
    <2> SUFFICES ASSUME AInv, AInv', [Next]_vars
                 PROVE  [Abstract!Next]_(Abstract!vars)
      OBVIOUS
    <2>1. CASE UNCHANGED vars
      BY <2>1 DEF vars, Abstract!vars, Replacing
    <2>2. ASSUME Step PROVE [Abstract!Next]_(Abstract!vars)
      BY <2>2
      DEF Step, Counted, AInv, TInv, Control, Hist,
          Abstract!vars, Abstract!Next, Abstract!Prove, Abstract!Replace,
          Abstract!Tear, Abstract!Withdraw, Abstract!Forget
    <2>3. CASE Next
      BY <2>2, <2>3, StepCommand, StepApply, StepRollback, StepRemoval,
         StepEnvironment
      DEF Next, RunStep, AInv
    <2>4. QED BY <2>1, <2>3
  <1>3. QED
    BY <1>1, <1>2, AInvAlways, PTL DEF Spec, ImplementsAtomicApply, Abstract!Spec

=============================================================================
