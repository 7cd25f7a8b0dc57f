------------------------------ MODULE CliHandoff ------------------------------
(***************************************************************************)
(* Which executable runs a Local Space.  Every release has its own CLI,    *)
(* and only that CLI applies it: a run whose own executable is bound to    *)
(* another release swaps the managed executable for the one of the release *)
(* it selected, lets that child apply it, and then judges from the durable *)
(* state, not from the child's exit, which executable to keep.  The child  *)
(* takes no lock, for its parent holds it; so a child that outlives its    *)
(* parent works beside the next run.                                       *)
(*                                                                         *)
(* A deploy request is answered from the same evidence.  The apply itself  *)
(* is that of SpaceLifecycle, reduced to what the evidence can see.        *)
(***************************************************************************)
EXTENDS Naturals

CONSTANTS
  Releases,     \* releases, each of which names the CLI bound to it too
  Developer,    \* those built on this host; the rest are published
  Ordinal,      \* [Releases -> Nat], the order of published releases
  Other,        \* a CLI bound to no release, such as one built by Cargo
  None,
  Workers,      \* bound: processes that apply at the same time
  Standalone,   \* bound: CLIs run from outside ~/.shimpz/bin
  MaxRequests,  \* bound: deploy requests submitted
  MaxDeaths     \* bound: runs and children killed

Cli == Releases \cup {Other}

ASSUME HandoffAssumption ==
  /\ Developer \subseteq Releases
  /\ Ordinal \in [Releases -> Nat]
  /\ Other \notin Releases
  /\ None \notin Cli \cup [id : Nat, applied : BOOLEAN]
  /\ Standalone \subseteq Cli
  /\ MaxRequests \in Nat /\ MaxDeaths \in Nat

VARIABLES
  bin,     \* the executables under ~/.shimpz/bin
  space,   \* the records of the Space the evidence is read from
  deploy,  \* the deploy request and its result
  run,     \* the run that holds the lifecycle lock
  work,    \* the applies in progress: the run's own, its child's, orphans'
  hist     \* observer; a guard reads no more of it than the bound on deaths

vars == <<bin, space, deploy, run, work, hist>>

Ref == Releases \cup {None}

(* Every run stages its candidate afresh, so one left behind is not kept.  *)
Bin == [managed : Cli \cup {None}, previous : Cli \cup {None}]

(* status is the release whose successful reconciliation is recorded. *)
Space == [ marker : BOOLEAN, env : Ref, status : Ref, failed : Ref,
           stopped : BOOLEAN ]

NoSpace == [ marker |-> FALSE, env |-> None, status |-> None,
             failed |-> None, stopped |-> FALSE ]

Ids     == 1 .. MaxRequests
Request == [id : Ids, release : Developer]
Result  == [id : Ids, applied : BOOLEAN]
Deploy  == [ request : Request \cup {None}, result : Result \cup {None},
             issued : 0 .. MaxRequests ]

(* applied: what the run found of the commit of a requested release; alone *)
(* observes that it began to look with no orphan at work.                  *)
(*                                                                         *)
(* How a run or a child ends: done (ready, or handed over), nothing done    *)
(* although it succeeded (pool locked, update deferred), or failed.        *)
Ends == {"none", "done", "idle", "failed"}

Run == [ pc : { "idle", "reconcile", "renameOut", "renameIn", "spawn",
                "wait", "judge", "restore", "stage", "drop", "verify",
                "look", "confirm", "record", "consume", "sweep" },
         exe : Cli \cup {None}, inside : BOOLEAN, rel : Ref,
         exact : BOOLEAN, scheduled : BOOLEAN, preserve : BOOLEAN,
         claim : Request \cup {None}, ended : Ends,
         applied : BOOLEAN, alone : BOOLEAN ]

NoRun == [ pc |-> "idle", exe |-> None, inside |-> FALSE, rel |-> None,
           exact |-> FALSE, scheduled |-> FALSE, preserve |-> FALSE,
           claim |-> None, ended |-> "none",
           applied |-> FALSE, alone |-> FALSE ]

Work == [ pc : {"none", "begin", "admit", "prove", "committed"},
          owner : {"none", "self", "child", "orphan"},
          rel : Ref, install : BOOLEAN, fresh : BOOLEAN, backup : Ref ]

NoWork == [ pc |-> "none", owner |-> "none", rel |-> None,
            install |-> FALSE, fresh |-> FALSE, backup |-> None ]

(* proved: developer releases that ever committed; settled: since the last *)
(* complete handoff or activation nothing died, failed to move a file or   *)
(* was run from outside the managed directory.                             *)
Hist == [proved : SUBSET Developer, settled : BOOLEAN, deaths : 0 .. MaxDeaths]

Init ==
  /\ bin = [managed |-> None, previous |-> None]
  /\ space = NoSpace
  /\ deploy = [request |-> None, result |-> None, issued |-> 0]
  /\ run = NoRun
  /\ work = [w \in Workers |-> NoWork]
  /\ hist = [proved |-> {}, settled |-> TRUE, deaths |-> 0]

-----------------------------------------------------------------------------
(* Helpers. *)

Evidence(r) == space.env = r /\ space.status = r

ForwardAdmitted(r) ==
  r \notin Developer /\ space.env \in Releases \ Developer =>
    r = space.env \/ Ordinal[r] > Ordinal[space.env]

Go(from, to) == run.pc = from /\ run' = [run EXCEPT !.pc = to]

(* The run ends with `e`; one that answers a deploy request records that,  *)
(* and where it did its work it first looks at what became of the release. *)
Finish(e) ==
  run' = IF run.claim # None
         THEN [run EXCEPT !.pc = IF e = "done" THEN "look" ELSE "record",
                          !.ended = e]
         ELSE NoRun

Wiped == [deploy EXCEPT !.request = None, !.result = None]

(* A fresh install that fails takes back what it made, or fails at that.   *)
Compensated(w) ==
  /\ space' \in IF work[w].fresh THEN {space, NoSpace} ELSE {space}
  /\ deploy' = IF work[w].fresh /\ space' = NoSpace THEN Wiped ELSE deploy
  /\ hist' = [hist EXCEPT !.settled = @ /\ (work[w].fresh => space'.env = None)]

Orphans == {w \in Workers : work[w].owner = "orphan"}

(* A step of a run that ends there; `ok` says that it left the executables *)
(* as its end promises.                                                    *)
Ended(e, ok) ==
  /\ Finish(e)
  /\ hist' = [hist EXCEPT !.settled = @ /\ ok]

(* A run begins under `exe`, the managed executable or one from elsewhere. *)
Runs(exe, inside) == IF inside THEN exe = bin.managed /\ exe # None
                               ELSE exe \in Standalone

Begin(exe, inside, pc, r, exact, scheduled, preserve, claim) ==
  /\ run.pc = "idle"
  /\ Runs(exe, inside)
  /\ run' = [ pc |-> pc, exe |-> exe, inside |-> inside, rel |-> r,
              exact |-> exact, scheduled |-> scheduled,
              preserve |-> preserve, claim |-> claim, ended |-> "none",
              applied |-> FALSE, alone |-> FALSE ]
  /\ hist' = [hist EXCEPT !.settled = @ /\ inside]

-----------------------------------------------------------------------------
(* The commands.  One that changes nothing, such as the start that keeps a *)
(* running Space, is left out.                                             *)

(* Over a marker without a readable environment install first recovers,    *)
(* which SpaceLifecycle shows step by step.                                *)
BeginInstall(exe, inside, r, exact) ==
  LET corrupt == space.marker /\ space.env = None
  IN  /\ exact \/ r \notin Developer
      /\ ForwardAdmitted(r)
      /\ Begin(exe, inside,
               IF exact /\ r \notin Developer THEN "stage" ELSE "reconcile",
               r, exact, FALSE, FALSE, None)
      /\ space' = IF corrupt THEN NoSpace
                  ELSE [space EXCEPT !.stopped = @ /\ space.marker]
      /\ deploy' = IF corrupt THEN Wiped ELSE deploy
      /\ UNCHANGED <<bin, work>>

Follows(r) == IF space.env \in Developer THEN r = space.env
                                         ELSE r \notin Developer

BeginStart(exe, inside, r, scheduled) ==
  /\ space.env # None
  /\ scheduled => inside /\ ~space.stopped /\ deploy.request = None
  /\ Follows(r) /\ r # space.failed
  /\ ForwardAdmitted(r)
  /\ Begin(exe, inside, "reconcile", r, FALSE, scheduled, FALSE, None)
  /\ UNCHANGED <<bin, space, deploy, work>>

(* The selected release is the one that failed and the Space is stopped:   *)
(* the installed release is resumed, without a handoff.                    *)
BeginResume(exe, inside) ==
  /\ space.env # None /\ space.stopped
  /\ space.failed # None /\ Follows(space.failed)
  /\ Begin(exe, inside, "verify", space.env, FALSE, FALSE, TRUE, None)
  /\ UNCHANGED <<bin, space, deploy, work>>

BeginUpdate(exe, inside, r) ==
  /\ space.env # None /\ ~space.stopped
  /\ r \notin Developer /\ r \notin {space.env, space.failed}
  /\ ForwardAdmitted(r)
  /\ Begin(exe, inside, "reconcile", r, FALSE, FALSE, FALSE, None)
  /\ UNCHANGED <<bin, space, deploy, work>>

(* A scheduled run claims the pending request before anything else.        *)
BeginDeploy ==
  /\ deploy.request # None
  /\ Begin(bin.managed, TRUE,
           IF space.stopped \/ space.env = None THEN "record"
                                                ELSE "reconcile",
           deploy.request.release, FALSE, TRUE, FALSE,
           deploy.request)
  /\ UNCHANGED <<bin, space, deploy, work>>

Stop ==
  /\ run.pc = "idle" /\ space.env # None
  /\ space' = [space EXCEPT !.stopped = TRUE]
  /\ UNCHANGED <<bin, deploy, run, work, hist>>

BeginReset ==
  /\ run.pc = "idle" /\ space.marker
  /\ run' = [NoRun EXCEPT !.pc = "sweep"]
  /\ space' = NoSpace
  /\ deploy' = Wiped
  /\ UNCHANGED <<bin, work, hist>>

(* A reset keeps the managed executable and no other. *)
Sweep ==
  /\ run.pc = "sweep"
  /\ bin' = [bin EXCEPT !.previous = None]
  /\ run' = NoRun
  /\ UNCHANGED <<space, deploy, work, hist>>

-----------------------------------------------------------------------------
(* The handoff. *)

(* What follows once no interrupted handoff remains. *)
Bound == run.exe = run.rel

AfterReconcile ==
  run' = [run EXCEPT !.pc = IF ~Bound THEN "renameOut"
                            ELSE IF run.exact THEN "stage" ELSE "verify",
                     !.exact = FALSE]

Reconcile ==
  /\ run.pc = "reconcile"
  /\ AfterReconcile
  /\ \/ bin.previous = None /\ UNCHANGED bin
     \/ /\ bin.previous # None /\ bin.managed = None
        /\ bin' = [bin EXCEPT !.managed = bin.previous, !.previous = None]
     \/ /\ bin.previous # None /\ bin.managed = run.exe
        /\ bin' = [bin EXCEPT !.previous = None]
  /\ UNCHANGED <<space, deploy, work, hist>>

(* Refused under a CLI other than the managed one; the inventory and the   *)
(* resolution of the release may fail before it.                           *)
ReconcileFails ==
  /\ run.pc = "reconcile"
  /\ Ended("failed", TRUE)
  /\ UNCHANGED <<bin, space, deploy, work>>

ExtractFails ==
  /\ run.pc = "renameOut"
  /\ Ended("failed", TRUE)
  /\ UNCHANGED <<bin, space, deploy, work>>

(* Mutant of RenameOut: the candidate is to replace the managed CLI.       *)
RenameOutUnkept ==
  /\ Go("renameOut", "renameIn")
  /\ bin' = [bin EXCEPT !.managed = None]
  /\ UNCHANGED <<space, deploy, work, hist>>

RenameOut ==
  /\ Go("renameOut", "renameIn")
  /\ bin' = IF bin.managed = None THEN bin
            ELSE [bin EXCEPT !.previous = bin.managed, !.managed = None]
  /\ UNCHANGED <<space, deploy, work, hist>>

RenameIn ==
  /\ Go("renameIn", "spawn")
  /\ bin' = [bin EXCEPT !.managed = run.rel]
  /\ UNCHANGED <<space, deploy, work, hist>>

RenameInFails ==
  /\ run.pc = "renameIn"
  /\ bin' \in {bin, [bin EXCEPT !.managed = bin.previous, !.previous = None]}
  /\ Ended("failed", bin' # bin)
  /\ UNCHANGED <<space, deploy, work>>

(* Mutant of Spawn: the parent judges while its child is at work.          *)
SpawnUnawaited(w) ==
  /\ Go("spawn", "judge")
  /\ work[w] = NoWork
  /\ work' = [work EXCEPT ![w] =
                [NoWork EXCEPT !.pc = "begin", !.owner = "child",
                               !.rel = run.rel, !.install = ~space.marker]]
  /\ UNCHANGED <<bin, space, deploy, hist>>

(* The child installs when there is no marker yet, and starts otherwise.   *)
Spawn(w) ==
  /\ Go("spawn", "wait")
  /\ work[w] = NoWork
  /\ work' = [work EXCEPT ![w] =
                [NoWork EXCEPT !.pc = "begin", !.owner = "child",
                               !.rel = run.rel, !.install = ~space.marker]]
  /\ UNCHANGED <<bin, space, deploy, hist>>

SpawnFails ==
  /\ run.pc = "spawn"
  /\ run' = [run EXCEPT !.pc = "judge", !.ended = "failed"]
  /\ UNCHANGED <<bin, space, deploy, work, hist>>

(* The previous CLI goes; the public link is the last thing that can fail. *)
JudgeCommitted ==
  /\ run.pc = "judge" /\ Evidence(run.rel)
  /\ bin' = [bin EXCEPT !.previous = None]
  /\ Finish(IF run.ended = "failed" THEN "failed" ELSE "done")
  /\ hist' = [hist EXCEPT !.settled = @ \/ Orphans = {}]
  /\ UNCHANGED <<space, deploy, work>>

JudgeCommittedFails ==
  /\ run.pc = "judge" /\ Evidence(run.rel)
  /\ bin' \in {bin, [bin EXCEPT !.previous = None]}
  /\ Ended("failed", bin' # bin)
  /\ UNCHANGED <<space, deploy, work>>

(* A record that cannot be read proves nothing, and both CLIs stay.        *)
JudgeUnknown ==
  /\ run.pc = "judge"
  /\ Ended("failed", FALSE)
  /\ UNCHANGED <<bin, space, deploy, work>>

(* Mutant of JudgeNotCommitted: the child's exit is believed.              *)
JudgeExit ==
  /\ Go("judge", "restore")
  /\ run.ended = "failed"
  /\ bin' = [bin EXCEPT !.managed = None]
  /\ UNCHANGED <<space, deploy, work, hist>>

JudgeNotCommitted ==
  /\ Go("judge", "restore")
  /\ ~Evidence(run.rel)
  /\ bin' = [bin EXCEPT !.managed = None]
  /\ UNCHANGED <<space, deploy, work, hist>>

(* Only a scheduled child may succeed without a commit. *)
Restore ==
  /\ run.pc = "restore"
  /\ bin' = [bin EXCEPT !.managed = bin.previous, !.previous = None]
  /\ Ended(IF run.scheduled /\ run.ended # "failed" THEN "done"
                                                    ELSE "failed", TRUE)
  /\ UNCHANGED <<space, deploy, work>>

RestoreFails ==
  /\ run.pc = "restore"
  /\ Ended("failed", FALSE)
  /\ UNCHANGED <<bin, space, deploy, work>>

-----------------------------------------------------------------------------
(* An exact install makes its own CLI, which must be the one of the        *)
(* release, the managed one.                                               *)

Stage ==
  /\ Go("stage", "drop") /\ Bound
  /\ bin' = [bin EXCEPT !.managed = run.exe]
  /\ UNCHANGED <<space, deploy, work, hist>>

StageFails ==
  /\ run.pc = "stage"
  /\ Ended("failed", TRUE)
  /\ UNCHANGED <<bin, space, deploy, work>>

Drop ==
  /\ Go("drop", "verify")
  /\ bin' = [bin EXCEPT !.previous = None]
  /\ UNCHANGED <<space, deploy, work, hist>>

DropFails ==
  /\ run.pc = "drop"
  /\ Ended("failed", FALSE)
  /\ UNCHANGED <<bin, space, deploy, work>>

(* Only the CLI of a release applies it. *)
Verify(w) ==
  /\ Go("verify", "wait") /\ Bound
  /\ work[w] = NoWork
  /\ work' = [work EXCEPT ![w] =
                [NoWork EXCEPT !.pc = "begin", !.owner = "self",
                               !.rel = run.rel, !.install = ~space.marker]]
  /\ UNCHANGED <<bin, space, deploy, hist>>

VerifyRefuses ==
  /\ run.pc = "verify" /\ ~Bound
  /\ Ended("failed", TRUE)
  /\ UNCHANGED <<bin, space, deploy, work>>

-----------------------------------------------------------------------------
(* An apply, by the run itself, by its child, or by an orphan.             *)

Own(w) == work[w].owner \in {"self", "child"}

(* Worker w is done with `e`: its parent, if it still has one, goes on.    *)
Done(w, e) ==
  /\ work' = [work EXCEPT ![w] = NoWork]
  /\ CASE work[w].owner = "self"  -> Finish(e)
       [] work[w].owner = "child" ->
            run' = [run EXCEPT !.pc = "judge", !.ended = e]
       [] OTHER -> UNCHANGED run

WorkBegins(w) ==
  /\ work[w].pc = "begin"
  /\ IF space.marker THEN space.env # None ELSE work[w].install
  /\ work' = [work EXCEPT ![w].pc = "admit", ![w].fresh = ~space.marker,
                          ![w].install = FALSE]
  /\ space' = [space EXCEPT !.marker = TRUE]
  /\ UNCHANGED <<bin, deploy, run, hist>>

(* Before anything is replaced: an error, and for a scheduled run a locked *)
(* pool or busy work too.                                                  *)
WorkRefuses(w) ==
  /\ work[w].pc \in {"begin", "admit"}
  /\ \/ Done(w, "failed")
     \/ Own(w) /\ run.scheduled /\ work[w].pc = "admit" /\ Done(w, "idle")
  /\ Compensated(w)
  /\ UNCHANGED bin

WorkReplaces(w) ==
  /\ work[w].pc = "admit"
  /\ work' = [work EXCEPT ![w].pc = "prove", ![w].backup = space.env]
  /\ space' = [space EXCEPT !.env = work[w].rel, !.stopped = FALSE]
  /\ UNCHANGED <<bin, deploy, run, hist>>

WorkCommits(w) ==
  /\ work[w].pc = "prove"
  /\ work' = [work EXCEPT ![w].pc = "committed", ![w].backup = None]
  /\ space' = [space EXCEPT !.status = work[w].rel]
  /\ hist' = [hist EXCEPT !.proved = @ \cup (Developer \cap {work[w].rel})]
  /\ UNCHANGED <<bin, deploy, run>>

(* The status may fail to be written; that the memory of the failure may,  *)
(* which stops updates, is left to SpaceLifecycle.                         *)
WorkRollsBack(w) ==
  /\ work[w].pc = "prove" /\ ~work[w].fresh
  /\ Done(w, "failed")
  /\ \E status \in {space.status, None} :
       space' = [space EXCEPT !.env = work[w].backup, !.status = status,
                              !.failed = work[w].rel]
  /\ UNCHANGED <<bin, deploy, hist>>

(* The backups cannot be renamed back. *)
RollBackFails(w) ==
  /\ work[w].pc = "prove" /\ ~work[w].fresh
  /\ Done(w, "failed")
  /\ space' = [space EXCEPT !.failed = work[w].rel]
  /\ hist' = [hist EXCEPT !.settled = FALSE]
  /\ UNCHANGED <<bin, deploy>>

FreshRollsBack(w) ==
  /\ work[w].pc = "prove" /\ work[w].fresh
  /\ Done(w, "failed")
  /\ Compensated(w)
  /\ UNCHANGED bin

Forgotten == IF run.preserve THEN space ELSE [space EXCEPT !.failed = None]

WorkEnds(w) ==
  /\ work[w].pc = "committed"
  /\ Done(w, "done")
  /\ space' = IF Own(w) THEN Forgotten ELSE [space EXCEPT !.failed = None]
  /\ hist' = [hist EXCEPT !.settled =
       @ \/ ( /\ work[w].owner = "self" /\ Orphans = {}
              /\ Evidence(run.rel)
              /\ bin.managed = run.exe /\ bin.previous = None )]
  /\ UNCHANGED <<bin, deploy>>

(* What follows the commit fails: the schedule, or before it the backups   *)
(* or the memory of the failed release, which takes a fresh install back.  *)
ScheduleFails(w) ==
  /\ work[w].pc = "committed"
  /\ Done(w, "failed")
  /\ space' = IF Own(w) THEN Forgotten ELSE [space EXCEPT !.failed = None]
  /\ UNCHANGED <<bin, deploy, hist>>

AfterCommitFails(w) ==
  /\ work[w].pc = "committed"
  /\ Done(w, "failed")
  /\ Compensated(w)
  /\ UNCHANGED bin

-----------------------------------------------------------------------------
(* The answer to a deploy request: the run looks at the environment, then  *)
(* at the status, writes its result and only then removes the request.  An *)
(* orphan may work between any two of these steps.                         *)

Look ==
  /\ run.pc = "look"
  /\ run' = [run EXCEPT
       !.pc = IF space.env = run.rel THEN "confirm" ELSE "record",
       !.alone = Orphans = {}]
  /\ UNCHANGED <<bin, space, deploy, work, hist>>

(* Mutant of Confirm: the environment alone is believed. *)
ConfirmUnread ==
  /\ run.pc = "confirm"
  /\ run' = [run EXCEPT !.pc = "record", !.applied = TRUE]
  /\ UNCHANGED <<bin, space, deploy, work, hist>>

Confirm ==
  /\ run.pc = "confirm"
  /\ run' = [run EXCEPT !.pc = "record",
                        !.applied = space.status = run.rel]
  /\ UNCHANGED <<bin, space, deploy, work, hist>>

(* A record that cannot be read proves nothing. *)
LookFails ==
  /\ run.pc \in {"look", "confirm"}
  /\ run' = [run EXCEPT !.pc = "record"]
  /\ UNCHANGED <<bin, space, deploy, work, hist>>

Record ==
  /\ Go("record", "consume")
  /\ deploy' = [deploy EXCEPT !.result = [ id |-> run.claim.id,
                                           applied |-> run.applied ]]
  /\ UNCHANGED <<bin, space, work, hist>>

(* Mutant of Consume: the request goes before its result is written.       *)
ConsumeUnanswered ==
  /\ run.pc = "record"
  /\ run' = NoRun
  /\ deploy' = [deploy EXCEPT !.request = None]
  /\ UNCHANGED <<bin, space, work, hist>>

(* Only the very request that was claimed is consumed. *)
Consume ==
  /\ run.pc = "consume"
  /\ run' = NoRun
  /\ deploy' = [deploy EXCEPT !.request = IF @ = run.claim THEN None ELSE @]
  /\ UNCHANGED <<bin, space, work, hist>>

(* The result or the removal cannot be written; or the update waits for    *)
(* active work, and its request is kept.                                   *)
AnswerFails ==
  /\ run.pc \in {"record", "consume"}
  /\ run' = NoRun
  /\ UNCHANGED <<bin, space, deploy, work, hist>>

-----------------------------------------------------------------------------
(* What no run controls. *)

Dies ==
  /\ hist.deaths < MaxDeaths
  /\ hist' = [hist EXCEPT !.settled = FALSE, !.deaths = @ + 1]

Submit(r) ==
  /\ deploy.request = None /\ deploy.issued < MaxRequests
  /\ deploy' = [deploy EXCEPT !.request = [ id |-> deploy.issued + 1,
                                            release |-> r ],
                              !.issued = @ + 1]
  /\ UNCHANGED <<bin, space, run, work, hist>>

(* The run is killed, alone or with its child.                             *)
Crash ==
  /\ run.pc # "idle"
  /\ run' = NoRun
  /\ \E survives \in BOOLEAN :
       work' = [w \in Workers |->
                  CASE work[w].owner = "child" /\ survives ->
                         [work[w] EXCEPT !.owner = "orphan"]
                    [] work[w].owner = "orphan" -> work[w]
                    [] OTHER -> NoWork]
  /\ Dies
  /\ UNCHANGED <<bin, space, deploy>>

ChildDies(w) ==
  /\ work[w].owner \in {"child", "orphan"}
  /\ Done(w, "failed")
  /\ Dies
  /\ UNCHANGED <<bin, space, deploy>>

-----------------------------------------------------------------------------
Command ==
  \/ \E exe \in Cli, inside \in BOOLEAN :
       \/ \E r \in Releases, flag \in BOOLEAN :
            \/ BeginInstall(exe, inside, r, flag)
            \/ BeginStart(exe, inside, r, flag)
       \/ BeginResume(exe, inside)
       \/ \E r \in Releases : BeginUpdate(exe, inside, r)
  \/ BeginDeploy \/ Stop \/ BeginReset \/ Sweep

Handoff ==
  \/ Reconcile \/ ReconcileFails \/ ExtractFails
  \/ RenameOut \/ RenameIn \/ RenameInFails
  \/ (\E w \in Workers : Spawn(w)) \/ SpawnFails
  \/ JudgeCommitted \/ JudgeCommittedFails \/ JudgeUnknown
  \/ JudgeNotCommitted \/ Restore \/ RestoreFails

Activation ==
  \/ Stage \/ StageFails \/ Drop \/ DropFails
  \/ (\E w \in Workers : Verify(w)) \/ VerifyRefuses

Working ==
  \E w \in Workers :
    \/ WorkBegins(w) \/ WorkRefuses(w) \/ WorkReplaces(w) \/ WorkCommits(w)
    \/ WorkRollsBack(w) \/ RollBackFails(w) \/ FreshRollsBack(w)
    \/ WorkEnds(w) \/ ScheduleFails(w) \/ AfterCommitFails(w)

Answer == Look \/ Confirm \/ LookFails \/ Record \/ Consume \/ AnswerFails

Outside ==
  \/ (\E r \in Developer : Submit(r))
  \/ Crash
  \/ \E w \in Workers : ChildDies(w)

Next == Command \/ Handoff \/ Activation \/ Working \/ Answer \/ Outside

Spec == Init /\ [][Next]_vars

-----------------------------------------------------------------------------
(* Properties. *)

(* Every variable keeps its shape, and the run waits exactly for a worker  *)
(* of its own.                                                             *)
TypeOK ==
  /\ bin \in Bin
  /\ space \in Space
  /\ deploy \in Deploy
  /\ run \in Run
  /\ work \in [Workers -> Work]
  /\ hist \in Hist
  /\ run.pc = "wait" <=> \E w \in Workers : Own(w)

(* The Space never loses its last executable: whatever step a run takes or *)
(* dies at, the managed or the previous CLI is still there.  Only a run    *)
(* that came from elsewhere takes back the one it brought, and a reset     *)
(* (handoff_admitted_release, restore_previous_cli).                       *)
HasCli == bin.managed # None \/ bin.previous # None

KeepsACli == [][ HasCli /\ run.inside => HasCli' ]_vars

(* The managed CLI at rest is the one bound to the installed release and   *)
(* no other is kept: evidence, not the exit of the child, decides which    *)
(* one stays (handoff_result).  Not so when, since the last complete       *)
(* handoff or activation beside no orphan, a process died, a file could    *)
(* not be moved or read, or a CLI from outside the managed directory ran,  *)
(* such as the exact install of a release that then fails.                 *)
CliMatchesSpace ==
  run.pc = "idle" /\ hist.settled /\ space.env # None =>
    bin.managed = space.env /\ bin.previous = None

(* A request answered as applied names a release whose commit was recorded *)
(* (finish_deploy_request).  What the run saw before it wrote its answer   *)
(* still holds then: the release is installed and its status says so.      *)
(* Except beside an orphan, which holds no lock and may replace either     *)
(* record between the look and the answer.                                 *)
AppliedIsTrue ==
  [][ deploy'.result # deploy.result /\ deploy'.result # None
        => (deploy'.result.applied =>
              /\ run.rel \in hist.proved
              /\ run.alone => Evidence(run.rel)) ]_vars

(* A request is consumed only once its result is recorded, however the run *)
(* and its writes fail (deploy.rs, finish); removing the Space removes     *)
(* both.                                                                   *)
ConsumedIsAnswered ==
  [][ deploy.request # None /\ deploy'.request = None /\ space'.marker
        => deploy.result # None /\ deploy.result.id = deploy.request.id ]_vars

(* A remembered failure never keeps the installed release from resuming    *)
(* (select_start): the managed CLI that resumes it is the one bound to it. *)
ResumeIsNeverRefused ==
  run.pc = "verify" /\ run.preserve /\ run.inside => Bound
=============================================================================
