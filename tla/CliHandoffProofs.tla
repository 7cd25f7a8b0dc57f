--------------------------- MODULE CliHandoffProofs ---------------------------
(***************************************************************************)
(* Which executable runs a Local Space and how a deploy request is         *)
(* answered, for any releases and order of them, any number of processes   *)
(* and orphans at work, and any number of requests and deaths.             *)
(***************************************************************************)
EXTENDS CliHandoff, TLAPS

(* The run that waits has one worker, for the release it selected.         *)
Alone ==
  /\ run.pc = "wait" <=> \E w \in Workers : Own(w)
  /\ \A v, w \in Workers : Own(v) /\ Own(w) => v = w
  /\ \A w \in Workers : work[w].owner # "none" <=> work[w].pc # "none"
  /\ \A w \in Workers : Own(w) => work[w].rel = run.rel

(* What a run knows of itself, and of the request it claimed.              *)
Known ==
  /\ run.pc \in {"idle", "sweep"} =>
       run.claim = None /\ ~run.inside
  /\ run.pc \notin {"idle", "sweep"} => run.rel # None /\ run.exe # None
  /\ run.pc \in {"look", "confirm", "record", "consume"} => run.claim # None
  /\ run.claim # None =>
       /\ run.inside
       /\ run.rel \in Developer
       /\ run.claim.id <= deploy.issued

(* Where a run has put the executables, whoever works beside it.           *)
Placed ==
  /\ run.inside /\ run.pc \in {"reconcile", "renameOut", "stage", "verify"}
       => bin.managed = run.exe
  /\ run.pc = "renameIn" => bin.managed = None
  /\ run.pc = "drop" => bin.managed = run.exe /\ Bound
  /\ run.pc \in {"spawn", "judge"} => bin.managed = run.rel
  /\ run.pc = "restore" => bin.managed = None
  /\ \A w \in Workers :
       /\ work[w].owner = "child" => bin.managed = run.rel
       /\ work[w].owner = "self" => run.exe = run.rel
  /\ run.inside =>
       /\ run.pc \in {"renameIn", "spawn", "judge", "restore"}
            => bin.previous # None
       /\ \A w \in Workers :
            /\ work[w].owner = "child" => bin.previous # None
            /\ work[w].owner = "self" => bin.managed = run.exe

Matches(x) == space.env \in {None, x}

(* Undisturbed, nobody works but the run; and the managed CLI, or the one  *)
(* kept while a child is tried, is bound to the installed release.         *)
Settled ==
  hist.settled =>
    /\ Orphans = {}
    /\ run.pc \notin {"idle", "sweep"} => run.inside
    /\ run.pc \in { "idle", "reconcile", "renameOut", "stage", "drop",
                    "verify", "look", "confirm", "record", "consume" }
         => Matches(bin.managed) /\ (space.env # None => bin.previous = None)
    /\ run.pc = "verify" => bin.previous = None
    /\ run.pc = "sweep" => space.env = None
    /\ run.pc \in {"renameIn", "spawn", "restore"} => Matches(bin.previous)
    /\ run.pc = "judge" => Matches(bin.previous) \/ Evidence(run.rel)
    /\ \A w \in Workers :
         /\ work[w].owner = "self" =>
              /\ bin.previous = None
              /\ Matches(run.rel)
              /\ work[w].pc = "prove" =>
                   /\ space.env = run.rel
                   /\ work[w].backup \in {None, run.rel}
         /\ work[w].owner = "child" =>
              /\ work[w].pc \in {"begin", "admit"} => Matches(bin.previous)
              /\ work[w].pc = "prove" =>
                   /\ space.env = run.rel
                   /\ work[w].backup \in {None, bin.previous}
              /\ work[w].pc = "committed" => Evidence(run.rel)

(* What the answer to a request may rely on. *)
Answered ==
  /\ space.status \in Developer => space.status \in hist.proved
  /\ deploy.request # None => deploy.request.id <= deploy.issued
  /\ run.pc = "consume" /\ deploy.request = run.claim =>
       deploy.result # None /\ deploy.result.id = run.claim.id

(* The variables, one by one. *)
Shape ==
  /\ bin \in Bin
  /\ space \in Space
  /\ deploy \in Deploy
  /\ run \in Run
  /\ work \in [Workers -> Work]
  /\ hist \in Hist

HInv == Shape /\ Alone /\ Known /\ Placed /\ Settled /\ Answered

-----------------------------------------------------------------------------
(* The effects the actions share.                                          *)

LEMMA Finishing ==
  ASSUME run \in Run, NEW e \in Ends, Finish(e)
  PROVE  /\ run' \in Run
         /\ run.claim = None => run' = NoRun
         /\ run.claim # None =>
              /\ run'.pc \in {"look", "record"} /\ run'.claim = run.claim
              /\ run'.rel = run.rel /\ run'.exe = run.exe
              /\ run'.inside = run.inside
  BY ZenonT(60), HandoffAssumption DEF Finish, Run, NoRun, Ref, Ends

LEMMA SettledType ==
  ASSUME hist \in Hist, NEW ok, NEW h,
         h = [hist EXCEPT !.settled = @ /\ ok]
  PROVE  /\ h \in Hist /\ h.proved = hist.proved
         /\ h.settled => hist.settled /\ ok
  <1>1. (hist.settled /\ ok) \in BOOLEAN
    OBVIOUS
  <1> DEFINE b == hist.settled /\ ok
  <1>2. h = [hist EXCEPT !.settled = b] /\ (b => hist.settled /\ ok)
    OBVIOUS
  <1> HIDE DEF b
  <1>3. b \in BOOLEAN
    BY <1>1 DEF b
  <1>4. QED BY <1>2, <1>3 DEF Hist

LEMMA Ending ==
  ASSUME Shape, NEW e \in Ends, NEW ok, Ended(e, ok)
  PROVE  /\ run' \in Run /\ hist' \in Hist
         /\ run.claim = None => run' = NoRun
         /\ run.claim # None =>
              /\ run'.pc \in {"look", "record"} /\ run'.claim = run.claim
              /\ run'.rel = run.rel /\ run'.exe = run.exe
              /\ run'.inside = run.inside
         /\ hist'.proved = hist.proved
         /\ hist'.settled => hist.settled /\ ok
  <1>1. hist' = [hist EXCEPT !.settled = @ /\ ok]
    BY DEF Ended
  <1>2. hist' \in Hist /\ hist'.proved = hist.proved
        /\ (hist'.settled => hist.settled /\ ok)
    BY <1>1, SettledType DEF Shape
  <1>3. Finish(e)
    BY DEF Ended
  <1>4. QED BY <1>2, <1>3, Finishing DEF Shape

(* What a failed worker takes back: nothing, or all of a fresh install.    *)
LEMMA Compensation ==
  ASSUME Shape, NEW w \in Workers, Compensated(w)
  PROVE  /\ space' \in Space /\ deploy' \in Deploy /\ hist' \in Hist
         /\ space' = space \/ (space' = NoSpace /\ work[w].fresh)
         /\ deploy'.issued = deploy.issued
         /\ \/ deploy' = deploy
            \/ /\ space' = NoSpace /\ deploy'.request = None
               /\ deploy'.result = None
         /\ hist'.settled =>
              hist.settled /\ (work[w].fresh => space'.env = None)
         /\ hist'.proved = hist.proved
  <1> DEFINE ok == work[w].fresh => space'.env = None
  <1>1. /\ NoSpace \in Space
        /\ Wiped \in Deploy /\ Wiped.issued = deploy.issued
        /\ Wiped.request = None /\ Wiped.result = None
    BY DEF NoSpace, Space, Ref, Wiped, Deploy, Shape
  <1>2. /\ space' = space \/ (space' = NoSpace /\ work[w].fresh)
        /\ deploy' = deploy \/ (space' = NoSpace /\ deploy' = Wiped)
    BY DEF Compensated
  <1>3. hist' = [hist EXCEPT !.settled = @ /\ ok]
    BY DEF Compensated
  <1>4. /\ hist' \in Hist /\ hist'.proved = hist.proved
        /\ hist'.settled => hist.settled /\ ok
    BY <1>3, SettledType DEF Shape
  <1>5. QED
    BY <1>1, <1>2, <1>4 DEF Shape

(* A worker that is done leaves its run, if it has one, without a worker.  *)
LEMMA Finished ==
  ASSUME Shape, NEW w \in Workers, NEW e \in Ends \ {"none"}, Done(w, e)
  PROVE  /\ work' \in [Workers -> Work] /\ run' \in Run
         /\ \A v \in Workers : work'[v] = IF v = w THEN NoWork ELSE work[v]
         /\ ~Own(w) => run' = run
         /\ work[w].owner = "child" =>
              /\ run'.pc = "judge" /\ run'.claim = run.claim
              /\ run'.rel = run.rel /\ run'.exe = run.exe
              /\ run'.inside = run.inside
         /\ work[w].owner = "self" =>
              /\ run.claim = None => run' = NoRun
              /\ run.claim # None =>
                   /\ run'.pc \in {"look", "record"} /\ run'.claim = run.claim
                   /\ run'.rel = run.rel /\ run'.exe = run.exe
                   /\ run'.inside = run.inside
  <1>1. NoWork \in Work
    BY DEF NoWork, Work, Ref
  <1>2. /\ work' \in [Workers -> Work]
        /\ \A v \in Workers : work'[v] = IF v = w THEN NoWork ELSE work[v]
    BY <1>1 DEF Done, Shape
  <1>3. CASE work[w].owner = "self"
    <2>1. Finish(e)
      BY <1>3 DEF Done
    <2>2. QED BY <1>2, <1>3, <2>1, Finishing DEF Own, Shape
  <1>4. CASE work[w].owner = "child"
    <2>1. run' = [run EXCEPT !.pc = "judge", !.ended = e]
      BY <1>4 DEF Done
    <2>2. QED BY <1>2, <1>4, <2>1 DEF Own, Shape, Run
  <1>5. CASE ~Own(w)
    BY <1>2, <1>5 DEF Done, Own, Shape
  <1>6. QED BY <1>3, <1>4, <1>5 DEF Own

(* ... and that run is still known, and in its place. *)
LEMMA FinishedKept ==
  ASSUME HInv, NEW w \in Workers, NEW e \in Ends \ {"none"}, Done(w, e),
         work[w].pc # "none", UNCHANGED bin, deploy'.issued = deploy.issued
  PROVE  Alone' /\ Known' /\ Placed'
  <1>1. /\ work' \in [Workers -> Work] /\ run' \in Run
        /\ \A v \in Workers : work'[v] = IF v = w THEN NoWork ELSE work[v]
        /\ ~Own(w) => run' = run
        /\ work[w].owner = "child" =>
             /\ run'.pc = "judge" /\ run'.claim = run.claim
             /\ run'.rel = run.rel /\ run'.exe = run.exe
             /\ run'.inside = run.inside
        /\ work[w].owner = "self" =>
             /\ run.claim = None => run' = NoRun
             /\ run.claim # None =>
                  /\ run'.pc \in {"look", "record"} /\ run'.claim = run.claim
                  /\ run'.rel = run.rel /\ run'.exe = run.exe
                  /\ run'.inside = run.inside
    BY Finished DEF HInv
  <1>2. Own(w) => run.pc = "wait" /\ \A v \in Workers : v # w => ~Own(v)
    BY DEF HInv, Alone
  <1>3. Alone'
    <2>1. \A v \in Workers : v # w => (Own(v)' <=> Own(v))
      BY <1>1 DEF Own
    <2>2. ~Own(w)'
      BY <1>1 DEF Own, NoWork
    <2>3. QED
      BY <1>1, <1>2, <2>1, <2>2 DEF HInv, Alone, NoRun, NoWork, Own
  <1>4. Known'
    BY <1>1, <1>2 DEF HInv, Known, NoRun, Own
  <1>5. Placed'
    BY <1>1, <1>2 DEF HInv, Known, Placed, NoRun, NoWork, Own, Bound
  <1>6. QED BY <1>3, <1>4, <1>5

(* ... and leaves the executables as the Space it leaves needs them.       *)
LEMMA FinishedSettled ==
  ASSUME HInv, NEW w \in Workers, NEW e \in Ends \ {"none"}, Done(w, e),
         work[w].pc # "none", UNCHANGED bin,
         hist'.settled =>
           /\ Orphans = {}
           /\ work[w].owner = "self" =>
                /\ bin.previous = None /\ bin.managed = run.rel
                /\ space'.env \in {None, run.rel}
           /\ work[w].owner = "child" =>
                /\ run.inside
                /\ \/ space'.env \in {None, bin.previous}
                   \/ space'.env = run.rel /\ space'.status = run.rel
  PROVE  Settled'
  <1> SUFFICES ASSUME hist'.settled PROVE Settled'
    BY DEF Settled
  <1>1. /\ \A v \in Workers : work'[v] = IF v = w THEN NoWork ELSE work[v]
        /\ work[w].owner = "child" =>
             /\ run'.pc = "judge" /\ run'.rel = run.rel
             /\ run'.inside = run.inside
        /\ work[w].owner = "self" =>
             \/ run' = NoRun
             \/ /\ run'.pc \in {"look", "record"} /\ run.claim # None
                /\ run'.inside = run.inside
    BY Finished DEF HInv
  <1>2. \A v \in Workers : work'[v].owner = "none"
    <2>1. \A v \in Workers : v # w => work[v].owner = "none"
      BY DEF HInv, Alone, Own, Orphans, Shape, Work
    <2>2. QED BY <1>1, <2>1 DEF NoWork
  <1>3. Own(w)
    BY DEF HInv, Alone, Own, Orphans, Shape, Work
  <1>4. CASE work[w].owner = "self"
    <2>1. run'.pc \in {"idle", "look", "record"} /\ (run'.pc # "idle" => run'.inside)
      BY <1>1, <1>4 DEF HInv, Known, NoRun
    <2>2. QED BY <1>2, <1>4, <2>1 DEF Settled, Orphans, Matches
  <1>5. CASE work[w].owner = "child"
    BY <1>1, <1>2, <1>5 DEF Settled, Orphans, Matches, Evidence
  <1>6. QED BY <1>3, <1>4, <1>5 DEF Own

(* What an install makes of the records.                                   *)
LEMMA InstallRecords ==
  ASSUME Shape, NEW exe, NEW inside, NEW r, NEW exact,
         BeginInstall(exe, inside, r, exact)
  PROVE  space' \in Space /\ deploy' \in Deploy
  <1> DEFINE corrupt == space.marker /\ space.env = None
             s == [space EXCEPT !.stopped = @ /\ space.marker]
  <1>1. NoSpace \in Space /\ Wiped \in Deploy
    BY DEF NoSpace, Space, Ref, Shape, Wiped, Deploy
  <1>2. s \in Space
    <2>1. (space.stopped /\ space.marker) \in BOOLEAN
      OBVIOUS
    <2>2. QED BY <2>1 DEF Shape, Space
  <1>3. /\ space' = IF corrupt THEN NoSpace ELSE s
        /\ deploy' = IF corrupt THEN Wiped ELSE deploy
    BY DEF BeginInstall
  <1> HIDE DEF corrupt, s
  <1>4. QED BY <1>1, <1>2, <1>3 DEF Shape

-----------------------------------------------------------------------------
(* The commands keep the invariant ...                                      *)
LEMMA HInvCommand ==
  ASSUME HInv, Command PROVE HInv'
  <1> USE HandoffAssumption
      DEF HInv, Alone, Known, Placed, Settled, Answered, Matches, Evidence,
          Bound, Own, Orphans
  <1>1. ASSUME NEW exe \in Cli, NEW inside \in BOOLEAN,
              NEW r \in Releases, NEW flag \in BOOLEAN,
              BeginInstall(exe, inside, r, flag)
        PROVE  HInv'
    <2>1. Shape'
      <3>1. run' \in Run /\ hist' \in Hist
        BY <1>1
        DEF BeginInstall, Begin, Runs, Shape, Run, Hist, Ref, Cli, Ends
      <3>2. space' \in Space /\ deploy' \in Deploy
        BY <1>1, InstallRecords
      <3>3. QED
        BY <1>1, <3>1, <3>2 DEF BeginInstall, Shape
    <2>2. Alone' /\ Known' /\ Placed' /\ Settled' /\ Answered'
      BY <1>1, <2>1
      DEF BeginInstall, Begin, Runs, Wiped, NoSpace, Shape, Deploy, Request,
          Ref, Cli, Run, Hist, Space
    <2>3. QED BY <2>1, <2>2
  <1>2. ASSUME NEW exe \in Cli, NEW inside \in BOOLEAN,
              NEW r \in Releases, NEW flag \in BOOLEAN,
              BeginStart(exe, inside, r, flag)
        PROVE  HInv'
    <2>1. Shape'
      BY <1>2 DEF BeginStart, Begin, Runs, Shape, Run, Hist, Ref, Cli, Ends
    <2>2. Alone' /\ Known' /\ Placed' /\ Settled' /\ Answered'
      BY <1>2, <2>1
      DEF BeginStart, Begin, Runs, Shape, Deploy, Request, Ref, Cli, Run,
          Hist, Space
    <2>3. QED BY <2>1, <2>2
  <1>3. ASSUME NEW exe \in Cli, NEW inside \in BOOLEAN,
              BeginResume(exe, inside)
        PROVE HInv'
    <2>1. Shape'
      BY <1>3
      DEF BeginResume, Begin, Runs, Shape, Run, Hist, Ref, Cli, Space, Ends
    <2>2. Alone' /\ Known' /\ Placed' /\ Settled' /\ Answered'
      BY <1>3, <2>1
      DEF BeginResume, Begin, Runs, Shape, Deploy, Request, Ref, Cli, Run,
          Hist, Space
    <2>3. QED BY <2>1, <2>2
  <1>4. ASSUME NEW exe \in Cli, NEW inside \in BOOLEAN,
              NEW r \in Releases, BeginUpdate(exe, inside, r)
        PROVE  HInv'
    <2>1. Shape'
      BY <1>4 DEF BeginUpdate, Begin, Runs, Shape, Run, Hist, Ref, Cli, Ends
    <2>2. Alone' /\ Known' /\ Placed' /\ Settled' /\ Answered'
      BY <1>4, <2>1
      DEF BeginUpdate, Begin, Runs, Shape, Deploy, Request, Ref, Cli, Run,
          Hist, Space
    <2>3. QED BY <2>1, <2>2
  <1>5. ASSUME BeginDeploy PROVE HInv'
    <2>1. Shape'
      BY <1>5
      DEF BeginDeploy, Begin, Runs, Shape, Run, Hist, Ref, Cli, Bin, Deploy,
          Request, Ends
    <2>2. Alone' /\ Known' /\ Placed' /\ Settled' /\ Answered'
      BY <1>5, <2>1
      DEF BeginDeploy, Begin, Runs, Shape, Deploy, Request, Ref, Cli, Run,
          Hist, Space, Bin
    <2>3. QED BY <2>1, <2>2
  <1>6. ASSUME Stop PROVE HInv'
    <2>1. Shape'
      <3>1. [space EXCEPT !.stopped = TRUE] \in Space
        BY DEF Shape, Space
      <3>2. QED BY <1>6, <3>1 DEF Stop, Shape
    <2>2. Alone' /\ Known' /\ Placed' /\ Settled' /\ Answered'
      BY <1>6, <2>1 DEF Stop, Shape, Run, Space
    <2>3. QED BY <2>1, <2>2
  <1>7. ASSUME BeginReset PROVE HInv'
    <2>1. Shape'
      BY <1>7
      DEF BeginReset, Shape, Run, Ref, Cli, Ends, NoRun, NoSpace, Wiped,
          Deploy, Space, Hist
    <2>2. Alone' /\ Known' /\ Placed'
      BY <1>7, <2>1
      DEF BeginReset, Shape, Run, NoRun, NoSpace, Wiped, Deploy, Space, Hist
    <2>3. Settled'
      BY <1>7, <2>1
      DEF BeginReset, Shape, Run, NoRun, NoSpace, Wiped, Deploy, Space, Hist
    <2>4. Answered'
      BY <1>7, <2>1 DEF BeginReset, NoSpace, NoRun, Wiped, Shape, Deploy, Cli
    <2>5. QED BY <2>1, <2>2, <2>3, <2>4
  <1>8. ASSUME Sweep PROVE HInv'
    <2>1. Shape'
      BY <1>8 DEF Sweep, Shape, Bin, Run, Ref, Cli, Ends, NoRun
    <2>2. Alone' /\ Known' /\ Placed' /\ Settled' /\ Answered'
      BY <1>8, <2>1 DEF Sweep, Shape, Bin, Run, NoRun
    <2>3. QED BY <2>1, <2>2
  <1>9. QED
    BY ZenonT(60), <1>1, <1>2, <1>3, <1>4, <1>5, <1>6, <1>7, <1>8 DEF Command

(* ... and so do the handoff to the CLI of the selected release, ...        *)
LEMMA HInvHandoff ==
  ASSUME HInv, Handoff PROVE HInv'
  <1> USE HandoffAssumption
      DEF HInv, Alone, Known, Placed, Settled, Answered, Matches, Evidence,
          Bound, Own, Orphans
  <1>1. ASSUME Reconcile PROVE HInv'
    <2>1. Shape'
      <3>1. run' \in Run
        BY <1>1 DEF Reconcile, AfterReconcile, Shape, Run
      <3>2. bin' \in Bin
        BY <1>1 DEF Reconcile, Shape, Bin
      <3>3. QED BY <1>1, <3>1, <3>2 DEF Reconcile, Shape
    <2>2. Alone' /\ Known' /\ Placed' /\ Settled' /\ Answered'
      BY <1>1, <2>1 DEF Reconcile, Shape, Bin, Run, AfterReconcile
    <2>3. QED BY <2>1, <2>2
  <1>2. ASSUME ReconcileFails PROVE HInv'
    <2>1. Shape'
      BY <1>2, Ending DEF ReconcileFails, Ends, Shape
    <2>2. Alone' /\ Known' /\ Placed' /\ Settled' /\ Answered'
      BY <1>2, <2>1
      DEF ReconcileFails, Ended, Finish, NoRun, Shape, Run, Hist
    <2>3. QED BY <2>1, <2>2
  <1>3. ASSUME ExtractFails PROVE HInv'
    <2>1. Shape'
      BY <1>3, Ending DEF ExtractFails, Ends, Shape
    <2>2. Alone' /\ Known' /\ Placed' /\ Settled' /\ Answered'
      BY <1>3, <2>1 DEF ExtractFails, Ended, Finish, NoRun, Shape, Run, Hist
    <2>3. QED BY <2>1, <2>2
  <1>4. ASSUME RenameOut PROVE HInv'
    <2>1. Shape'
      BY <1>4 DEF RenameOut, Go, Shape, Bin, Run, Ref, Cli, Ends
    <2>2. Alone' /\ Known' /\ Placed' /\ Settled' /\ Answered'
      BY <1>4, <2>1 DEF RenameOut, Go, Shape, Bin, Run
    <2>3. QED BY <2>1, <2>2
  <1>5. ASSUME RenameIn PROVE HInv'
    <2>1. Shape'
      BY <1>5 DEF RenameIn, Go, Shape, Bin, Run, Ref, Cli, Ends
    <2>2. Alone' /\ Known' /\ Placed' /\ Settled' /\ Answered'
      BY <1>5, <2>1 DEF RenameIn, Go, Shape, Bin, Run
    <2>3. QED BY <2>1, <2>2
  <1>6. ASSUME RenameInFails PROVE HInv'
    <2>1. Shape'
      BY <1>6, Ending DEF RenameInFails, Ends, Shape, Bin
    <2>2. Alone' /\ Known' /\ Placed'
      BY <1>6, <2>1
      DEF RenameInFails, Ended, Finish, NoRun, Shape, Bin, Run, Hist
    <2>3. Settled'
      <3>1. CASE bin' = bin
        BY <1>6, <3>1, Ending DEF RenameInFails, Ends
      <3>2. CASE bin' =
                   [bin EXCEPT !.managed = bin.previous, !.previous = None]
        <4>1. bin'.managed = bin.previous /\ bin'.previous = None
          BY <3>2 DEF Shape, Bin
        <4>2. QED
          BY <1>6, <4>1
          DEF RenameInFails, Ended, Finish, NoRun, Shape, Run, Hist
      <3>3. QED BY <1>6, <3>1, <3>2 DEF RenameInFails
    <2>4. Answered'
      BY <1>6, <2>1
      DEF RenameInFails, Ended, Finish, NoRun, Shape, Bin, Run, Hist
    <2>5. QED BY <2>1, <2>2, <2>3, <2>4
  <1>7. ASSUME NEW w \in Workers, Spawn(w) PROVE HInv'
    <2>1. Shape'
      <3>1. run' \in Run /\ run.rel \in Ref
        BY <1>7 DEF Spawn, Go, Shape, Run
      <3>2. [NoWork EXCEPT !.pc = "begin", !.owner = "child", !.rel = run.rel,
                           !.install = ~space.marker] \in Work
        BY <3>1 DEF NoWork, Work, Ref
      <3>3. QED BY <1>7, <3>1, <3>2 DEF Spawn, Shape
    <2>2. Alone' /\ Known' /\ Placed' /\ Settled' /\ Answered'
      BY <1>7, <2>1 DEF Spawn, Go, Shape, Run, Work, NoWork
    <2>3. QED BY <2>1, <2>2
  <1>8. ASSUME SpawnFails PROVE HInv'
    <2>1. Shape'
      BY <1>8 DEF SpawnFails, Shape, Run, Ref, Cli, Ends
    <2>2. Alone' /\ Known' /\ Placed' /\ Settled' /\ Answered'
      BY <1>8, <2>1 DEF SpawnFails, Shape, Run
    <2>3. QED BY <2>1, <2>2
  <1>9. ASSUME JudgeCommitted PROVE HInv'
    <2>1. Shape'
      BY <1>9, Finishing DEF JudgeCommitted, Ends, Shape, Bin, Hist
    <2>2. Alone' /\ Known' /\ Placed' /\ Settled' /\ Answered'
      BY <1>9, <2>1 DEF JudgeCommitted, Finish, NoRun, Shape, Bin, Run, Hist
    <2>3. QED BY <2>1, <2>2
  <1>10. ASSUME JudgeCommittedFails PROVE HInv'
    <2>1. Shape'
      BY <1>10, Ending DEF JudgeCommittedFails, Ends, Shape, Bin
    <2>2. Alone' /\ Known' /\ Placed' /\ Settled' /\ Answered'
      BY <1>10, <2>1
      DEF JudgeCommittedFails, Ended, Finish, NoRun, Shape, Bin, Run, Hist
    <2>3. QED BY <2>1, <2>2
  <1>11. ASSUME JudgeUnknown PROVE HInv'
    <2>1. Shape'
      BY <1>11, Ending DEF JudgeUnknown, Ends, Shape
    <2>2. Alone' /\ Known' /\ Placed' /\ Settled' /\ Answered'
      BY <1>11, <2>1 DEF JudgeUnknown, Ended, Finish, NoRun, Shape, Run, Hist
    <2>3. QED BY <2>1, <2>2
  <1>12. ASSUME JudgeNotCommitted PROVE HInv'
    <2>1. Shape'
      BY <1>12 DEF JudgeNotCommitted, Go, Shape, Bin, Run, Ref, Cli, Ends
    <2>2. Alone' /\ Known' /\ Placed' /\ Settled' /\ Answered'
      BY <1>12, <2>1 DEF JudgeNotCommitted, Go, Shape, Bin, Run
    <2>3. QED BY <2>1, <2>2
  <1>13. ASSUME Restore PROVE HInv'
    <2>1. Shape'
      BY <1>13, Ending DEF Restore, Ends, Shape, Bin
    <2>2. Alone' /\ Known' /\ Placed' /\ Settled' /\ Answered'
      BY <1>13, <2>1 DEF Restore, Ended, Finish, NoRun, Shape, Bin, Run, Hist
    <2>3. QED BY <2>1, <2>2
  <1>14. ASSUME RestoreFails PROVE HInv'
    <2>1. Shape'
      BY <1>14, Ending DEF RestoreFails, Ends, Shape
    <2>2. Alone' /\ Known' /\ Placed' /\ Settled' /\ Answered'
      BY <1>14, <2>1 DEF RestoreFails, Ended, Finish, NoRun, Shape, Run, Hist
    <2>3. QED BY <2>1, <2>2
  <1>15. QED
    BY <1>1, <1>2, <1>3, <1>4, <1>5, <1>6, <1>7, <1>8, <1>9, <1>10, <1>11,
       <1>12, <1>13, <1>14
    DEF Handoff

(* ... the activation of the own one, ...                                   *)
LEMMA HInvActivation ==
  ASSUME HInv, Activation PROVE HInv'
  <1> USE HandoffAssumption
      DEF HInv, Alone, Known, Placed, Settled, Answered, Matches, Evidence,
          Bound, Own, Orphans
  <1>1. ASSUME Stage PROVE HInv'
    <2>1. Shape'
      BY <1>1 DEF Stage, Go, Shape, Bin, Run, Ref, Cli, Ends
    <2>2. Alone' /\ Known' /\ Placed' /\ Settled' /\ Answered'
      BY <1>1, <2>1 DEF Stage, Go, Shape, Bin, Run
    <2>3. QED BY <2>1, <2>2
  <1>2. ASSUME StageFails PROVE HInv'
    <2>1. Shape'
      BY <1>2, Ending DEF StageFails, Ends, Shape
    <2>2. Alone' /\ Known' /\ Placed' /\ Settled' /\ Answered'
      BY <1>2, <2>1 DEF StageFails, Ended, Finish, NoRun, Shape, Run, Hist
    <2>3. QED BY <2>1, <2>2
  <1>3. ASSUME Drop PROVE HInv'
    <2>1. Shape'
      BY <1>3 DEF Drop, Go, Shape, Bin, Run, Ref, Cli, Ends
    <2>2. Alone' /\ Known' /\ Placed' /\ Settled' /\ Answered'
      BY <1>3, <2>1 DEF Drop, Go, Shape, Bin, Run
    <2>3. QED BY <2>1, <2>2
  <1>4. ASSUME DropFails PROVE HInv'
    <2>1. Shape'
      BY <1>4, Ending DEF DropFails, Ends, Shape
    <2>2. Alone' /\ Known' /\ Placed' /\ Settled' /\ Answered'
      BY <1>4, <2>1 DEF DropFails, Ended, Finish, NoRun, Shape, Run, Hist
    <2>3. QED BY <2>1, <2>2
  <1>5. ASSUME NEW w \in Workers, Verify(w) PROVE HInv'
    <2>1. Shape'
      <3>1. run' \in Run /\ run.rel \in Ref
        BY <1>5 DEF Verify, Go, Shape, Run
      <3>2. [NoWork EXCEPT !.pc = "begin", !.owner = "self", !.rel = run.rel,
                           !.install = ~space.marker] \in Work
        BY <3>1 DEF NoWork, Work, Ref
      <3>3. QED BY <1>5, <3>1, <3>2 DEF Verify, Shape
    <2>2. Alone' /\ Known' /\ Placed' /\ Settled' /\ Answered'
      BY <1>5, <2>1 DEF Verify, Go, Shape, Run, Work, NoWork
    <2>3. QED BY <2>1, <2>2
  <1>6. ASSUME VerifyRefuses PROVE HInv'
    <2>1. Shape'
      BY <1>6, Ending DEF VerifyRefuses, Ends, Shape
    <2>2. Alone' /\ Known' /\ Placed' /\ Settled' /\ Answered'
      BY <1>6, <2>1 DEF VerifyRefuses, Ended, Finish, NoRun, Shape, Run, Hist
    <2>3. QED BY <2>1, <2>2
  <1>7. QED
    BY <1>1, <1>2, <1>3, <1>4, <1>5, <1>6 DEF Activation

(* What a run finds of the requested release, it keeps.                     *)
LEMMA LookRecords ==
  ASSUME run \in Run, Look \/ Confirm \/ LookFails
  PROVE  \E pc \in {"confirm", "record"}, p \in BOOLEAN, q \in BOOLEAN :
           run' = [run EXCEPT !.pc = pc, !.applied = p, !.alone = q]
  <1>1. CASE Look
    <2> DEFINE q == Orphans = {}
               pc == IF space.env = run.rel THEN "confirm" ELSE "record"
    <2>1. q \in BOOLEAN /\ pc \in {"confirm", "record"}
      OBVIOUS
    <2>2. run' = [run EXCEPT !.pc = pc, !.alone = q]
      BY <1>1 DEF Look
    <2> HIDE DEF q, pc
    <2>3. run' = [run EXCEPT !.pc = pc, !.applied = run.applied, !.alone = q]
      BY <2>2 DEF Run
    <2>4. run.applied \in BOOLEAN
      BY DEF Run
    <2>5. QED BY <2>1, <2>3, <2>4
  <1>2. CASE Confirm
    <2> DEFINE p == space.status = run.rel
    <2>1. p \in BOOLEAN
      OBVIOUS
    <2>2. run' = [run EXCEPT !.pc = "record", !.applied = p]
      BY <1>2 DEF Confirm
    <2> HIDE DEF p
    <2>3. run' = [run EXCEPT !.pc = "record", !.applied = p,
                             !.alone = run.alone]
      BY <2>2 DEF Run
    <2>4. run.alone \in BOOLEAN
      BY DEF Run
    <2>5. QED BY <2>1, <2>3, <2>4
  <1>3. CASE LookFails
    <2>1. run' = [run EXCEPT !.pc = "record", !.applied = run.applied,
                             !.alone = run.alone]
      BY <1>3 DEF LookFails, Run
    <2>2. run.applied \in BOOLEAN /\ run.alone \in BOOLEAN
      BY DEF Run
    <2>3. QED BY <2>1, <2>2
  <1>4. QED BY <1>1, <1>2, <1>3

(* ... the answer to a request, ...                                         *)
LEMMA HInvAnswer ==
  ASSUME HInv, Answer PROVE HInv'
  <1> USE HandoffAssumption
      DEF HInv, Alone, Known, Placed, Settled, Answered, Matches, Evidence,
          Bound, Own, Orphans
  <1>1. ASSUME Record PROVE HInv'
    <2>1. Shape'
      BY <1>1
      DEF Record, Go, Shape, Run, Ref, Cli, Ends, Deploy, Request, Result
    <2>2. Alone' /\ Known' /\ Placed'
      BY <1>1, <2>1
      DEF Record, Go, Shape, Run, Deploy, Request, Result
    <2>3. Settled'
      BY <1>1, <2>1
      DEF Record, Go, Shape, Run, Deploy, Request, Result
    <2>4. Answered'
      <3>1. /\ deploy'.request = deploy.request
            /\ deploy'.issued = deploy.issued
            /\ deploy'.result = [id |-> run.claim.id,
                               applied |-> run.applied]
        BY <1>1 DEF Record, Shape, Deploy
      <3>2. deploy'.result # None
        <4>1. run.claim.id \in Nat /\ run.applied \in BOOLEAN
          BY <1>1 DEF Record, Go, Shape, Run, Request, Ids
        <4>2. deploy'.result \in [id : Nat, applied : BOOLEAN]
          BY <3>1, <4>1
        <4>3. QED BY <4>2
      <3>3. QED
        BY <1>1, <3>1, <3>2 DEF Record, Go, Shape, Run
    <2>5. QED BY <2>1, <2>2, <2>3, <2>4
  <1>2. ASSUME Consume PROVE HInv'
    <2>1. NoRun \in Run
      BY DEF NoRun, Run, Ref, Ends
    <2>2. /\ run' = NoRun /\ UNCHANGED <<bin, space, work, hist>>
          /\ deploy' \in Deploy /\ deploy'.issued = deploy.issued
          /\ deploy'.request \in {None, deploy.request}
      BY <1>2 DEF Consume, Shape, Deploy
    <2>3. Shape'
      BY <2>1, <2>2 DEF Shape
    <2>4. Alone' /\ Known' /\ Placed'
      BY <1>2, <2>2 DEF Consume, NoRun
    <2>5. Settled' /\ Answered'
      BY <1>2, <2>2 DEF Consume, NoRun
    <2>6. QED BY <2>3, <2>4, <2>5
  <1>3. ASSUME AnswerFails PROVE HInv'
    <2>1. Shape'
      BY <1>3 DEF AnswerFails, Shape, Run, Ref, Cli, Ends, NoRun
    <2>2. Alone' /\ Known' /\ Placed' /\ Settled' /\ Answered'
      BY <1>3, <2>1 DEF AnswerFails, Shape, Run, NoRun
    <2>3. QED BY <2>1, <2>2
  <1>4. ASSUME Look \/ Confirm \/ LookFails PROVE HInv'
    <2>1. PICK pc \in {"confirm", "record"}, p \in BOOLEAN, q \in BOOLEAN :
            run' = [run EXCEPT !.pc = pc, !.applied = p, !.alone = q]
      BY <1>4, LookRecords DEF Shape
    <2>2. run.pc \in {"look", "confirm"}
          /\ UNCHANGED <<bin, space, deploy, work, hist>>
      BY <1>4 DEF Look, Confirm, LookFails
    <2>3. Shape'
      BY <2>1, <2>2 DEF Shape, Run
    <2>4. Alone' /\ Known' /\ Placed' /\ Settled' /\ Answered'
      BY <2>1, <2>2 DEF Shape, Run
    <2>5. QED BY <2>3, <2>4
  <1>5. QED
    BY <1>1, <1>2, <1>3, <1>4 DEF Answer

(* ... the applies, of the run itself, its child or an orphan ...           *)
LEMMA HInvWorking ==
  ASSUME HInv, Working PROVE HInv'
  <1> USE HandoffAssumption
      DEF HInv, Alone, Known, Placed, Settled, Answered, Matches, Evidence,
          Bound, Own, Orphans
  <1>1. ASSUME NEW w \in Workers, WorkBegins(w) PROVE HInv'
    <2>1. Shape'
      <3>1. [space EXCEPT !.marker = TRUE] \in Space
        BY DEF Shape, Space
      <3>2. work' \in [Workers -> Work]
        <4>1. [work[w] EXCEPT !.pc = "admit", !.fresh = ~space.marker,
                              !.install = FALSE] \in Work
          <5>1. work[w] \in Work /\ (~space.marker) \in BOOLEAN
            BY DEF Shape
          <5>2. QED BY <5>1 DEF Work
        <4>2. work' = [work EXCEPT ![w] =
                         [work[w] EXCEPT !.pc = "admit",
                                         !.fresh = ~space.marker,
                                         !.install = FALSE]]
          BY <1>1 DEF WorkBegins, Shape, Work
        <4>3. QED BY <4>1, <4>2 DEF Shape
      <3>3. QED BY <1>1, <3>1, <3>2 DEF WorkBegins, Shape
    <2>2. Alone'
      BY <1>1, <2>1 DEF WorkBegins, Shape, Run, Work, Space, Hist
    <2>3. Known'
      BY <1>1, <2>1 DEF WorkBegins, Shape, Run, Work, Space, Hist
    <2>4. Placed'
      BY <1>1, <2>1 DEF WorkBegins, Shape, Run, Work, Space, Hist
    <2>5. Settled'
      <3>1. /\ UNCHANGED <<bin, run, hist>>
            /\ space'.env = space.env /\ space'.status = space.status
        BY <1>1 DEF WorkBegins, Shape, Space
      <3>2. /\ \A v \in Workers : v # w => work'[v] = work[v]
            /\ work'[w].owner = work[w].owner /\ work'[w].pc = "admit"
            /\ work[w].pc = "begin"
        BY <1>1 DEF WorkBegins, Shape, Work
      <3>3. Orphans' = Orphans
        BY <3>2 DEF Orphans
      <3>4. QED BY <3>1, <3>2, <3>3
    <2>6. Answered'
      BY <1>1, <2>1 DEF WorkBegins, Shape, Run, Work, Space, Hist
    <2>7. QED BY <2>1, <2>2, <2>3, <2>4, <2>5, <2>6
  <1>2. ASSUME NEW w \in Workers, WorkReplaces(w) PROVE HInv'
    <2>1. Shape'
      <3>1. space.env \in Ref /\ work[w].rel \in Ref
        BY DEF Shape, Space, Work
      <3>2. [space EXCEPT !.env = work[w].rel, !.stopped = FALSE] \in Space
        BY <3>1 DEF Shape, Space
      <3>3. work' \in [Workers -> Work]
        <4>1. [work[w] EXCEPT !.pc = "prove", !.backup = space.env] \in Work
          <5>1. work[w] \in Work
            BY DEF Shape
          <5>2. QED BY <3>1, <5>1 DEF Work
        <4>2. work' = [work EXCEPT ![w] =
                         [work[w] EXCEPT !.pc = "prove",
                                         !.backup = space.env]]
          BY <1>2 DEF WorkReplaces, Shape, Work
        <4>3. QED BY <4>1, <4>2 DEF Shape
      <3>4. QED BY <1>2, <3>2, <3>3 DEF WorkReplaces, Shape
    <2>2. Alone'
      BY <1>2, <2>1 DEF WorkReplaces, Shape, Run, Work, Space, Hist
    <2>3. Known'
      BY <1>2, <2>1 DEF WorkReplaces, Shape, Run, Work, Space, Hist
    <2>4. Placed'
      BY <1>2, <2>1 DEF WorkReplaces, Shape, Run, Work, Space, Hist
    <2>5. Settled'
      BY <1>2, <2>1 DEF WorkReplaces, Shape, Run, Work, Space, Hist
    <2>6. Answered'
      BY <1>2, <2>1 DEF WorkReplaces, Shape, Run, Work, Space, Hist
    <2>7. QED BY <2>1, <2>2, <2>3, <2>4, <2>5, <2>6
  <1>3. ASSUME NEW w \in Workers, WorkCommits(w) PROVE HInv'
    <2>1. Shape'
      <3>1. work[w].rel \in Ref
        BY DEF Shape, Work
      <3>2. [space EXCEPT !.status = work[w].rel] \in Space
        BY <3>1 DEF Shape, Space
      <3>3. work' \in [Workers -> Work]
        <4>1. [work[w] EXCEPT !.pc = "committed", !.backup = None] \in Work
          <5>1. work[w] \in Work /\ None \in Ref
            BY DEF Shape, Ref
          <5>2. QED BY <5>1 DEF Work
        <4>2. work' = [work EXCEPT ![w] =
                         [work[w] EXCEPT !.pc = "committed",
                                         !.backup = None]]
          BY <1>3 DEF WorkCommits, Shape, Work
        <4>3. QED BY <4>1, <4>2 DEF Shape
      <3>4. hist' \in Hist
        <4>1. hist.proved \cup (Developer \cap {work[w].rel})
                \in SUBSET Developer
          BY DEF Shape, Hist
        <4>2. QED BY <1>3, <4>1 DEF WorkCommits, Shape, Hist
      <3>5. QED BY <1>3, <3>2, <3>3, <3>4 DEF WorkCommits, Shape
    <2>2. Alone' /\ Known' /\ Placed'
      BY SMTT(40), <1>3, <2>1 DEF WorkCommits, Shape, Run, Work, Space, Hist
    <2>3. Settled'
      <3>1. /\ space'.env = space.env /\ space'.status = work[w].rel
            /\ hist'.settled = hist.settled
            /\ work'[w].owner = work[w].owner
            /\ work'[w].pc = "committed"
            /\ \A v \in Workers : v # w => work'[v] = work[v]
            /\ UNCHANGED <<bin, run>>
        BY <1>3 DEF WorkCommits, Shape, Space, Hist, Work
      <3>2. SUFFICES ASSUME hist.settled PROVE Settled'
        BY <3>1
      <3>3. Own(w) /\ run.pc = "wait" /\ Evidence(run.rel)'
        <4>1. Own(w) /\ run.pc = "wait" /\ space.env = run.rel
          BY <1>3, <3>2 DEF WorkCommits, Shape, Work
        <4>2. QED BY <3>1, <4>1
      <3>4. \A v \in Workers :
              /\ work'[v].owner = work[v].owner
              /\ work'[v].owner \in {"self", "child"} => v = w
        BY <3>1, <3>3
      <3>5. Orphans' = {}
        BY <3>2, <3>4
      <3>6. QED
        BY <3>1, <3>2, <3>3, <3>4, <3>5
    <2>4. Answered'
      BY <1>3, <2>1 DEF WorkCommits, Shape, Run, Work, Space, Hist
    <2>5. QED BY <2>1, <2>2, <2>3, <2>4
  <1>4. ASSUME NEW w \in Workers, WorkRefuses(w) PROVE HInv'
    <2>1. PICK e \in Ends \ {"none"} : Done(w, e)
      BY <1>4 DEF WorkRefuses, Ends
    <2>2. /\ work' \in [Workers -> Work] /\ run' \in Run
          /\ \A v \in Workers : work'[v] = IF v = w THEN NoWork ELSE work[v]
          /\ ~Own(w) => run' = run
          /\ work[w].owner = "child" =>
               run'.pc = "judge" /\ run'.claim = run.claim
                 /\ run'.rel = run.rel /\ run'.inside = run.inside
          /\ work[w].owner = "self" => run' = NoRun \/
               ( run'.pc \in {"look", "record"} /\ run'.claim = run.claim
                 /\ run'.rel = run.rel /\ run'.inside = run.inside )
      BY <2>1, Finished
    <2>3. /\ space' \in Space /\ deploy' \in Deploy /\ hist' \in Hist
          /\ space' = space \/ (space' = NoSpace /\ work[w].fresh)
          /\ deploy'.issued = deploy.issued
          /\ deploy' = deploy \/ deploy'.request = None
          /\ hist'.settled =>
               hist.settled /\ (work[w].fresh => space'.env = None)
          /\ hist'.proved = hist.proved
      BY <1>4, Compensation DEF WorkRefuses
    <2>4. UNCHANGED bin /\ work[w].pc # "none"
      BY <1>4 DEF WorkRefuses
    <2>5. Shape'
      BY <2>2, <2>3, <2>4 DEF Shape
    <2>6. Alone' /\ Known' /\ Placed'
      BY <2>1, <2>3, <2>4, FinishedKept
    <2>7. Settled'
      <3>1. hist'.settled =>
              /\ Orphans = {}
              /\ work[w].owner = "self" =>
                   /\ bin.previous = None /\ bin.managed = run.rel
                   /\ space'.env \in {None, run.rel}
              /\ work[w].owner = "child" =>
                   /\ run.inside
                   /\ \/ space'.env \in {None, bin.previous}
                      \/ space'.env = run.rel /\ space'.status = run.rel
        BY <1>4, <2>3 DEF WorkRefuses, NoSpace
      <3>2. QED BY <2>1, <2>4, <3>1, FinishedSettled
    <2>8. Answered'
      BY <2>2, <2>3 DEF NoSpace, NoRun, Cli
    <2>9. QED BY <2>5, <2>6, <2>7, <2>8
  <1>5. ASSUME NEW w \in Workers, WorkRollsBack(w) PROVE HInv'
    <2>1. PICK e \in Ends \ {"none"} : Done(w, e)
      BY <1>5 DEF WorkRollsBack, Ends
    <2>2. /\ work' \in [Workers -> Work] /\ run' \in Run
          /\ \A v \in Workers : work'[v] = IF v = w THEN NoWork ELSE work[v]
          /\ ~Own(w) => run' = run
          /\ work[w].owner = "child" =>
               run'.pc = "judge" /\ run'.claim = run.claim
                 /\ run'.rel = run.rel /\ run'.inside = run.inside
          /\ work[w].owner = "self" => run' = NoRun \/
               ( run'.pc \in {"look", "record"} /\ run'.claim = run.claim
                 /\ run'.rel = run.rel /\ run'.inside = run.inside )
      BY <2>1, Finished
    <2>3. /\ space' \in Space /\ space'.env = work[w].backup
          /\ space'.status \in {space.status, None}
          /\ UNCHANGED <<deploy, hist>>
      BY ZenonT(60), <1>5 DEF WorkRollsBack, Shape, Space, Work, Ref
    <2>4. UNCHANGED bin /\ work[w].pc # "none"
      BY <1>5 DEF WorkRollsBack
    <2>5. Shape'
      BY <2>2, <2>3, <2>4 DEF Shape
    <2>6. Alone' /\ Known' /\ Placed'
      BY <2>1, <2>3, <2>4, FinishedKept
    <2>7. Settled'
      <3>1. hist'.settled =>
              /\ Orphans = {}
              /\ work[w].owner = "self" =>
                   /\ bin.previous = None /\ bin.managed = run.rel
                   /\ space'.env \in {None, run.rel}
              /\ work[w].owner = "child" =>
                   /\ run.inside
                   /\ \/ space'.env \in {None, bin.previous}
                      \/ space'.env = run.rel /\ space'.status = run.rel
        BY <1>5, <2>3 DEF WorkRollsBack
      <3>2. QED BY <2>1, <2>4, <3>1, FinishedSettled
    <2>8. Answered'
      BY <2>2, <2>3 DEF NoSpace, NoRun, Cli
    <2>9. QED BY <2>5, <2>6, <2>7, <2>8
  <1>6. ASSUME NEW w \in Workers, RollBackFails(w) PROVE HInv'
    <2>1. PICK e \in Ends \ {"none"} : Done(w, e)
      BY <1>6 DEF RollBackFails, Ends
    <2>2. /\ work' \in [Workers -> Work] /\ run' \in Run
          /\ \A v \in Workers : work'[v] = IF v = w THEN NoWork ELSE work[v]
          /\ ~Own(w) => run' = run
          /\ work[w].owner = "child" =>
               run'.pc = "judge" /\ run'.claim = run.claim
                 /\ run'.rel = run.rel /\ run'.inside = run.inside
          /\ work[w].owner = "self" => run' = NoRun \/
               ( run'.pc \in {"look", "record"} /\ run'.claim = run.claim
                 /\ run'.rel = run.rel /\ run'.inside = run.inside )
      BY <2>1, Finished
    <2>3. /\ space' \in Space /\ UNCHANGED deploy
          /\ space'.env = space.env /\ space'.status = space.status
          /\ hist' \in Hist /\ ~hist'.settled /\ hist'.proved = hist.proved
      BY <1>6 DEF RollBackFails, Shape, Space, Work, Hist
    <2>4. UNCHANGED bin /\ work[w].pc # "none"
      BY <1>6 DEF RollBackFails
    <2>5. Shape'
      BY <2>2, <2>3, <2>4 DEF Shape
    <2>6. Alone' /\ Known' /\ Placed'
      BY <2>1, <2>3, <2>4, FinishedKept
    <2>7. Settled'
      <3>1. hist'.settled =>
              /\ Orphans = {}
              /\ work[w].owner = "self" =>
                   /\ bin.previous = None /\ bin.managed = run.rel
                   /\ space'.env \in {None, run.rel}
              /\ work[w].owner = "child" =>
                   /\ run.inside
                   /\ \/ space'.env \in {None, bin.previous}
                      \/ space'.env = run.rel /\ space'.status = run.rel
        BY <1>6, <2>3 DEF RollBackFails
      <3>2. QED BY <2>1, <2>4, <3>1, FinishedSettled
    <2>8. Answered'
      BY <2>2, <2>3 DEF NoSpace, NoRun, Cli
    <2>9. QED BY <2>5, <2>6, <2>7, <2>8
  <1>7. ASSUME NEW w \in Workers, FreshRollsBack(w) PROVE HInv'
    <2>1. PICK e \in Ends \ {"none"} : Done(w, e)
      BY <1>7 DEF FreshRollsBack, Ends
    <2>2. /\ work' \in [Workers -> Work] /\ run' \in Run
          /\ \A v \in Workers : work'[v] = IF v = w THEN NoWork ELSE work[v]
          /\ ~Own(w) => run' = run
          /\ work[w].owner = "child" =>
               run'.pc = "judge" /\ run'.claim = run.claim
                 /\ run'.rel = run.rel /\ run'.inside = run.inside
          /\ work[w].owner = "self" => run' = NoRun \/
               ( run'.pc \in {"look", "record"} /\ run'.claim = run.claim
                 /\ run'.rel = run.rel /\ run'.inside = run.inside )
      BY <2>1, Finished
    <2>3. /\ space' \in Space /\ deploy' \in Deploy /\ hist' \in Hist
          /\ space' = space \/ (space' = NoSpace /\ work[w].fresh)
          /\ deploy'.issued = deploy.issued
          /\ deploy' = deploy \/ deploy'.request = None
          /\ hist'.settled =>
               hist.settled /\ (work[w].fresh => space'.env = None)
          /\ hist'.proved = hist.proved
      BY <1>7, Compensation DEF FreshRollsBack
    <2>4. UNCHANGED bin /\ work[w].pc # "none"
      BY <1>7 DEF FreshRollsBack
    <2>5. Shape'
      BY <2>2, <2>3, <2>4 DEF Shape
    <2>6. Alone' /\ Known' /\ Placed'
      BY <2>1, <2>3, <2>4, FinishedKept
    <2>7. Settled'
      <3>1. hist'.settled =>
              /\ Orphans = {}
              /\ work[w].owner = "self" =>
                   /\ bin.previous = None /\ bin.managed = run.rel
                   /\ space'.env \in {None, run.rel}
              /\ work[w].owner = "child" =>
                   /\ run.inside
                   /\ \/ space'.env \in {None, bin.previous}
                      \/ space'.env = run.rel /\ space'.status = run.rel
        BY <1>7, <2>3 DEF FreshRollsBack, NoSpace
      <3>2. QED BY <2>1, <2>4, <3>1, FinishedSettled
    <2>8. Answered'
      BY <2>2, <2>3 DEF NoSpace, NoRun, Cli
    <2>9. QED BY <2>5, <2>6, <2>7, <2>8
  <1>8. ASSUME NEW w \in Workers, WorkEnds(w) PROVE HInv'
    <2>1. PICK e \in Ends \ {"none"} : Done(w, e)
      BY <1>8 DEF WorkEnds, Ends
    <2>2. /\ work' \in [Workers -> Work] /\ run' \in Run
          /\ \A v \in Workers : work'[v] = IF v = w THEN NoWork ELSE work[v]
          /\ ~Own(w) => run' = run
          /\ work[w].owner = "child" =>
               run'.pc = "judge" /\ run'.claim = run.claim
                 /\ run'.rel = run.rel /\ run'.inside = run.inside
          /\ work[w].owner = "self" => run' = NoRun \/
               ( run'.pc \in {"look", "record"} /\ run'.claim = run.claim
                 /\ run'.rel = run.rel /\ run'.inside = run.inside )
      BY <2>1, Finished
    <2>3. /\ space' \in Space /\ UNCHANGED deploy
          /\ space'.env = space.env /\ space'.status = space.status
          /\ hist' \in Hist /\ hist'.proved = hist.proved
          /\ hist'.settled => hist.settled \/
               ( work[w].owner = "self" /\ Orphans = {} /\ Evidence(run.rel)
                 /\ bin.managed = run.exe /\ bin.previous = None )
      BY <1>8 DEF WorkEnds, Forgotten, Shape, Space, Ref, Hist
    <2>4. UNCHANGED bin /\ work[w].pc # "none"
      BY <1>8 DEF WorkEnds
    <2>5. Shape'
      BY <2>2, <2>3, <2>4 DEF Shape
    <2>6. Alone' /\ Known' /\ Placed'
      BY <2>1, <2>3, <2>4, FinishedKept
    <2>7. Settled'
      <3>1. hist'.settled =>
              /\ Orphans = {}
              /\ work[w].owner = "self" =>
                   /\ bin.previous = None /\ bin.managed = run.rel
                   /\ space'.env \in {None, run.rel}
              /\ work[w].owner = "child" =>
                   /\ run.inside
                   /\ \/ space'.env \in {None, bin.previous}
                      \/ space'.env = run.rel /\ space'.status = run.rel
        BY <1>8, <2>3 DEF WorkEnds
      <3>2. QED BY <2>1, <2>4, <3>1, FinishedSettled
    <2>8. Answered'
      BY <2>2, <2>3 DEF NoSpace, NoRun, Cli
    <2>9. QED BY <2>5, <2>6, <2>7, <2>8
  <1>9. ASSUME NEW w \in Workers, ScheduleFails(w) PROVE HInv'
    <2>1. PICK e \in Ends \ {"none"} : Done(w, e)
      BY <1>9 DEF ScheduleFails, Ends
    <2>2. /\ work' \in [Workers -> Work] /\ run' \in Run
          /\ \A v \in Workers : work'[v] = IF v = w THEN NoWork ELSE work[v]
          /\ ~Own(w) => run' = run
          /\ work[w].owner = "child" =>
               run'.pc = "judge" /\ run'.claim = run.claim
                 /\ run'.rel = run.rel /\ run'.inside = run.inside
          /\ work[w].owner = "self" => run' = NoRun \/
               ( run'.pc \in {"look", "record"} /\ run'.claim = run.claim
                 /\ run'.rel = run.rel /\ run'.inside = run.inside )
      BY <2>1, Finished
    <2>3. /\ space' \in Space /\ UNCHANGED <<deploy, hist>>
          /\ space'.env = space.env /\ space'.status = space.status
      BY <1>9 DEF ScheduleFails, Forgotten, Shape, Space, Ref
    <2>4. UNCHANGED bin /\ work[w].pc # "none"
      BY <1>9 DEF ScheduleFails
    <2>5. Shape'
      BY <2>2, <2>3, <2>4 DEF Shape
    <2>6. Alone' /\ Known' /\ Placed'
      BY <2>1, <2>3, <2>4, FinishedKept
    <2>7. Settled'
      <3>1. hist'.settled =>
              /\ Orphans = {}
              /\ work[w].owner = "self" =>
                   /\ bin.previous = None /\ bin.managed = run.rel
                   /\ space'.env \in {None, run.rel}
              /\ work[w].owner = "child" =>
                   /\ run.inside
                   /\ \/ space'.env \in {None, bin.previous}
                      \/ space'.env = run.rel /\ space'.status = run.rel
        BY <1>9, <2>3 DEF ScheduleFails
      <3>2. QED BY <2>1, <2>4, <3>1, FinishedSettled
    <2>8. Answered'
      BY <2>2, <2>3 DEF NoSpace, NoRun, Cli
    <2>9. QED BY <2>5, <2>6, <2>7, <2>8
  <1>10. ASSUME NEW w \in Workers, AfterCommitFails(w) PROVE HInv'
    <2>1. PICK e \in Ends \ {"none"} : Done(w, e)
      BY <1>10 DEF AfterCommitFails, Ends
    <2>2. /\ work' \in [Workers -> Work] /\ run' \in Run
          /\ \A v \in Workers : work'[v] = IF v = w THEN NoWork ELSE work[v]
          /\ ~Own(w) => run' = run
          /\ work[w].owner = "child" =>
               run'.pc = "judge" /\ run'.claim = run.claim
                 /\ run'.rel = run.rel /\ run'.inside = run.inside
          /\ work[w].owner = "self" => run' = NoRun \/
               ( run'.pc \in {"look", "record"} /\ run'.claim = run.claim
                 /\ run'.rel = run.rel /\ run'.inside = run.inside )
      BY <2>1, Finished
    <2>3. /\ space' \in Space /\ deploy' \in Deploy /\ hist' \in Hist
          /\ space' = space \/ (space' = NoSpace /\ work[w].fresh)
          /\ deploy'.issued = deploy.issued
          /\ deploy' = deploy \/ deploy'.request = None
          /\ hist'.settled =>
               hist.settled /\ (work[w].fresh => space'.env = None)
          /\ hist'.proved = hist.proved
      BY <1>10, Compensation DEF AfterCommitFails
    <2>4. UNCHANGED bin /\ work[w].pc # "none"
      BY <1>10 DEF AfterCommitFails
    <2>5. Shape'
      BY <2>2, <2>3, <2>4 DEF Shape
    <2>6. Alone' /\ Known' /\ Placed'
      BY <2>1, <2>3, <2>4, FinishedKept
    <2>7. Settled'
      <3>1. hist'.settled =>
              /\ Orphans = {}
              /\ work[w].owner = "self" =>
                   /\ bin.previous = None /\ bin.managed = run.rel
                   /\ space'.env \in {None, run.rel}
              /\ work[w].owner = "child" =>
                   /\ run.inside
                   /\ \/ space'.env \in {None, bin.previous}
                      \/ space'.env = run.rel /\ space'.status = run.rel
        BY <1>10, <2>3 DEF AfterCommitFails, NoSpace
      <3>2. QED BY <2>1, <2>4, <3>1, FinishedSettled
    <2>8. Answered'
      BY <2>2, <2>3 DEF NoSpace, NoRun, Cli
    <2>9. QED BY <2>5, <2>6, <2>7, <2>8
  <1>11. QED
    BY <1>1, <1>2, <1>3, <1>4, <1>5, <1>6, <1>7, <1>8, <1>9, <1>10
    DEF Working

LEMMA Dead ==
  ASSUME HInv, Dies
  PROVE  hist' \in Hist /\ ~hist'.settled /\ hist'.proved = hist.proved
  <1>1. hist.deaths + 1 \in 0 .. MaxDeaths
    BY HandoffAssumption DEF HInv, Shape, Hist, Dies
  <1>2. QED BY <1>1 DEF HInv, Shape, Hist, Dies

(* ... and what no run controls.                                           *)
LEMMA HInvOutside ==
  ASSUME HInv, Outside PROVE HInv'
  <1> USE HandoffAssumption
      DEF HInv, Alone, Known, Placed, Settled, Answered, Matches, Evidence,
          Bound, Own, Orphans
  <1>1. ASSUME NEW r \in Developer, Submit(r) PROVE HInv'
    <2>1. /\ deploy' \in Deploy /\ deploy'.result = deploy.result
          /\ deploy'.request.id = deploy.issued + 1
          /\ deploy'.issued = deploy.issued + 1 /\ deploy.issued \in Nat
          /\ UNCHANGED <<bin, space, run, work, hist>>
      <3>1. deploy.issued + 1 \in Ids
        BY <1>1 DEF Submit, Shape, Deploy, Ids
      <3>2. [id |-> deploy.issued + 1, release |-> r] \in Request
        BY <3>1 DEF Request
      <3>3. deploy.issued \in Nat /\ deploy.issued + 1 \in 0 .. MaxRequests
        BY <3>1 DEF Shape, Deploy, Ids
      <3>4. QED BY <1>1, <3>2, <3>3 DEF Submit, Shape, Deploy
    <2>2. run.claim # None => run.claim.id \in Nat
      BY DEF Shape, Run, Request, Ids
    <2>3. Shape' /\ Alone' /\ Placed' /\ Settled'
      BY <2>1 DEF Shape
    <2>4. Known' /\ Answered'
      BY <2>1, <2>2
    <2>5. QED BY <2>3, <2>4
  <1>2. ASSUME Crash PROVE HInv'
    <2>1. hist' \in Hist /\ ~hist'.settled /\ hist'.proved = hist.proved
      BY <1>2, Dead DEF Crash
    <2>2. work' \in [Workers -> Work]
      BY <1>2 DEF Crash, Shape, Work, NoWork, Ref
    <2>3. run' \in Run /\ run' = NoRun
      BY <1>2 DEF Crash, NoRun, Run, Ref, Ends
    <2>4. \A v \in Workers :
            /\ work'[v].owner \notin {"self", "child"}
            /\ work'[v].owner # "none" <=> work'[v].pc # "none"
      BY <1>2 DEF Crash, Shape, Work, NoWork
    <2>5. Shape'
      BY <1>2, <2>1, <2>2, <2>3 DEF Crash, Shape
    <2>6. Alone' /\ Known' /\ Placed'
      BY <2>3, <2>4 DEF NoRun
    <2>7. Settled' /\ Answered'
      BY <1>2, <2>1, <2>3 DEF Crash, NoRun
    <2>8. QED BY <2>5, <2>6, <2>7
  <1>3. ASSUME NEW w \in Workers, ChildDies(w) PROVE HInv'
    <2>1. Done(w, "failed") /\ "failed" \in Ends \ {"none"}
      BY <1>3 DEF ChildDies, Ends
    <2>2. hist' \in Hist /\ ~hist'.settled /\ hist'.proved = hist.proved
      BY <1>3, Dead DEF ChildDies
    <2>3. UNCHANGED <<bin, space, deploy>> /\ work[w].pc # "none"
      BY <1>3 DEF ChildDies
    <2>4. Shape'
      BY <2>1, <2>2, <2>3, Finished DEF Shape
    <2>5. Alone' /\ Known' /\ Placed'
      BY <2>1, <2>3, FinishedKept
    <2>6. run'.pc = "consume" => run' = run
      BY <1>3, <2>1, Finished DEF ChildDies
    <2>7. Settled' /\ Answered'
      BY <2>2, <2>3, <2>6
    <2>8. QED BY <2>4, <2>5, <2>7
  <1>4. QED BY <1>1, <1>2, <1>3 DEF Outside

-----------------------------------------------------------------------------
(* What it says. *)

LEMMA HInvInit == Init => HInv
  BY HandoffAssumption
  DEF Init, HInv, Shape, Alone, Known, Placed, Settled, Answered, Matches,
      Own, Orphans, Bin, Space, NoSpace, Deploy, Run, NoRun, Work, NoWork,
      Hist, Ref, Cli, Ends

LEMMA HInvInductive == HInv /\ [Next]_vars => HInv'
  <1> SUFFICES ASSUME HInv, [Next]_vars PROVE HInv'
    OBVIOUS
  <1>1. CASE UNCHANGED vars
    BY <1>1
    DEF vars, HInv, Shape, Alone, Known, Placed, Settled, Answered, Matches,
        Evidence, Bound, Own, Orphans
  <1>2. CASE Next
    BY <1>2, HInvCommand, HInvHandoff, HInvActivation, HInvWorking,
       HInvAnswer, HInvOutside
    DEF Next
  <1>3. QED BY <1>1, <1>2

LEMMA HInvAlways == Spec => []HInv
  BY HInvInit, HInvInductive, PTL DEF Spec

(* Every variable keeps its shape, and a run waits exactly for a worker of *)
(* its own, however many orphans of earlier runs work beside it.           *)
THEOREM HandoffTypes == Spec => []TypeOK
  <1>1. HInv => TypeOK
    BY DEF HInv, Shape, Alone, TypeOK
  <1>2. QED BY <1>1, HInvAlways, PTL

(* The managed CLI at rest is the one of the installed release, whatever   *)
(* its child's exit said, if since the last complete handoff or activation *)
(* beside no orphan nothing died, every file was moved and read, and no    *)
(* CLI from outside the managed directory ran: an exact install that fails *)
(* after its activation is such a run (handoff_result).                    *)
THEOREM ManagedCliMatches == Spec => []CliMatchesSpace
  <1>1. HInv => CliMatchesSpace
    BY DEF HInv, Settled, Matches, CliMatchesSpace
  <1>2. QED BY <1>1, HInvAlways, PTL

(* No step of a run of the managed CLI, and no death at one, leaves the    *)
(* Space without an executable (handoff_admitted_release).                 *)
THEOREM ACliIsKept == Spec => KeepsACli
  <1>1. ASSUME HInv, [Next]_vars, HasCli, run.inside PROVE HasCli'
    <2> USE HandoffAssumption DEF HInv, HasCli
    <2>1. ~(run.pc \in {"idle", "sweep"})
      BY <1>1 DEF Known
    <2>2. CASE UNCHANGED bin
      BY <1>1, <2>2
    <2>3. CASE Command
      <3>1. CASE Sweep
        BY <2>1, <3>1 DEF Sweep
      <3>2. CASE ~Sweep
        BY <2>2, <2>3, <3>2
        DEF Command, BeginInstall, BeginStart, BeginResume, BeginUpdate,
            BeginDeploy, Stop, BeginReset
      <3>3. QED BY <3>1, <3>2
    <2>4. CASE Handoff
      BY <1>1, <2>4
      DEF Handoff, Reconcile, ReconcileFails, ExtractFails, RenameOut,
          RenameIn, RenameInFails, Spawn, SpawnFails, JudgeCommitted,
          JudgeCommittedFails, JudgeUnknown, JudgeNotCommitted, Restore,
          RestoreFails, Go, Known, Placed, Shape, Bin
    <2>5. CASE Activation
      BY <1>1, <2>5
      DEF Activation, Stage, StageFails, Drop, DropFails, Verify,
          VerifyRefuses, Go, Known, Placed, Shape, Bin
    <2>6. CASE Working \/ Answer \/ Outside
      BY <2>2, <2>6
      DEF Working, WorkBegins, WorkRefuses, WorkReplaces, WorkCommits,
          WorkRollsBack, RollBackFails, FreshRollsBack, WorkEnds,
          ScheduleFails, AfterCommitFails, Answer, Look, Confirm, LookFails,
          Record, Consume, AnswerFails, Outside, Submit, Crash, ChildDies
    <2>7. QED
      BY <1>1, <2>2, <2>3, <2>4, <2>5, <2>6 DEF Next, vars
  <1>2. QED
    BY <1>1, HInvAlways, PTL DEF Spec, KeepsACli

(* The steps that touch the result and the request of a deploy.            *)
LEMMA Answers ==
  ASSUME HInv, [Next]_vars,
         deploy'.result # deploy.result \/ deploy'.request # deploy.request
  PROVE  \/ Record
         \/ Consume
         \/ deploy.request = None /\ deploy'.result = deploy.result
         \/ ~space'.marker /\ deploy'.result = None
  <1>1. Wiped.result = None /\ ~NoSpace.marker
    BY DEF Wiped, NoSpace, HInv, Shape, Deploy
  <1>2. ASSUME NEW w \in Workers, Compensated(w), deploy' # deploy
        PROVE  ~space'.marker /\ deploy'.result = None
    BY <1>1, <1>2 DEF Compensated
  <1>3. CASE Command
    BY ZenonT(60), <1>1, <1>3
    DEF Command, BeginInstall, BeginStart, BeginResume, BeginUpdate,
        BeginDeploy, Stop, BeginReset, Sweep
  <1>4. CASE Handoff \/ Activation
    BY <1>4
    DEF Handoff, Reconcile, ReconcileFails, ExtractFails, RenameOut,
        RenameIn, RenameInFails, Spawn, SpawnFails, JudgeCommitted,
        JudgeCommittedFails, JudgeUnknown, JudgeNotCommitted, Restore,
        RestoreFails, Activation, Stage, StageFails, Drop, DropFails, Verify,
        VerifyRefuses
  <1>5. CASE Working
    BY <1>2, <1>5
    DEF Working, WorkBegins, WorkRefuses, WorkReplaces, WorkCommits,
        WorkRollsBack, RollBackFails, FreshRollsBack, WorkEnds,
        ScheduleFails, AfterCommitFails
  <1>6. ASSUME NEW r \in Developer, Submit(r)
        PROVE  deploy.request = None /\ deploy'.result = deploy.result
    BY <1>6 DEF Submit, HInv, Shape, Deploy
  <1>7. CASE Answer \/ Outside
    BY <1>6, <1>7
    DEF Answer, Look, Confirm, LookFails, AnswerFails, Outside, Crash,
        ChildDies
  <1>8. QED
    BY <1>3, <1>4, <1>5, <1>7 DEF Next, vars

(* What the run saw of a requested release, once it has looked: whatever   *)
(* says that it was applied follows a commit of it, and lasts unless there *)
(* was an orphan to take it back.                                          *)
Seen ==
  /\ run.alone =>
       run.pc \in {"confirm", "record", "consume"} /\ Orphans = {}
  /\ run.applied =>
       run.pc \in {"record", "consume"} /\ run.rel \in hist.proved
  /\ run.alone /\ run.pc = "confirm" => space.env = run.rel
  /\ run.alone /\ run.applied => Evidence(run.rel)

(* Nobody works beside a run that looked, or only an orphan does.          *)
LEMMA SeenKept ==
  ASSUME HInv, Seen, [Next]_vars PROVE Seen'
  <1> USE DEF Seen, Orphans, Evidence
  <1>1. CASE UNCHANGED vars
    BY <1>1 DEF vars
  <1>2. ASSUME run' = NoRun PROVE Seen'
    BY <1>2 DEF NoRun
  <1>3. ASSUME ~run'.alone, ~run'.applied PROVE Seen'
    BY <1>3
  <1>4. ASSUME NEW e, Finish(e),
               run.pc \notin {"look", "confirm", "record", "consume"}
        PROVE  ~run'.alone /\ ~run'.applied
    BY <1>4 DEF Finish, NoRun, HInv, Shape, Run
  <1>5. CASE Command
    <2>1. CASE \/ \E exe, inside, pc, r, exact, scheduled, preserve, claim :
                   Begin(exe, inside, pc, r, exact, scheduled, preserve, claim)
               \/ BeginReset
      <3>1. ~run'.alone /\ ~run'.applied
        BY <2>1 DEF Begin, BeginReset, NoRun
      <3>2. QED BY <1>3, <3>1
    <2>2. CASE Stop
      BY <2>2 DEF Stop, HInv, Shape, Space
    <2>3. CASE Sweep
      BY <1>2, <2>3 DEF Sweep
    <2>4. QED
      BY <1>5, <2>1, <2>2, <2>3
      DEF Command, BeginInstall, BeginStart, BeginResume, BeginUpdate,
          BeginDeploy
  <1>6. CASE Handoff \/ Activation
    <2>1. CASE \E e : Finish(e)
      BY <1>3, <1>4, <1>6, <2>1
      DEF Handoff, Reconcile, ReconcileFails, ExtractFails, RenameOut,
          RenameIn, RenameInFails, Spawn, SpawnFails, JudgeCommitted,
          JudgeCommittedFails, JudgeUnknown, JudgeNotCommitted, Restore,
          RestoreFails, Activation, Stage, StageFails, Drop, DropFails,
          Verify, VerifyRefuses, Go
    <2>2. CASE ~\E e : Finish(e)
      BY <1>3, <1>6, <2>2
      DEF Handoff, Reconcile, ReconcileFails, ExtractFails, RenameOut,
          RenameIn, RenameInFails, Spawn, SpawnFails, JudgeCommitted,
          JudgeCommittedFails, JudgeUnknown, JudgeNotCommitted, Restore,
          RestoreFails, Activation, Stage, StageFails, Drop, DropFails,
          Verify, VerifyRefuses, Go, Ended, AfterReconcile, HInv, Shape, Run
    <2>3. QED BY <2>1, <2>2
  <1>7. CASE Working
    <2> PICK w \in Workers :
          \/ WorkBegins(w) \/ WorkRefuses(w) \/ WorkReplaces(w)
          \/ WorkCommits(w) \/ WorkRollsBack(w) \/ RollBackFails(w)
          \/ FreshRollsBack(w) \/ WorkEnds(w) \/ ScheduleFails(w)
          \/ AfterCommitFails(w)
      BY <1>7 DEF Working
    <2>1. work[w].pc # "none"
      BY DEF WorkBegins, WorkRefuses, WorkReplaces, WorkCommits,
             WorkRollsBack, RollBackFails, FreshRollsBack, WorkEnds,
             ScheduleFails, AfterCommitFails
    <2>2. Own(w) \/ w \in Orphans
      BY <2>1 DEF HInv, Alone, Own, Shape, Work
    <2>3. hist.proved \subseteq hist'.proved
      <3>1. Compensated(w) => hist'.proved = hist.proved
        BY Compensation DEF HInv
      <3>2. QED
        BY <3>1
        DEF WorkBegins, WorkRefuses, WorkReplaces, WorkCommits,
            WorkRollsBack, RollBackFails, FreshRollsBack, WorkEnds,
            ScheduleFails, AfterCommitFails, HInv, Shape, Hist
    <2>4. \/ UNCHANGED run
          \/ \E e : Done(w, e)
      BY DEF WorkBegins, WorkRefuses, WorkReplaces, WorkCommits,
             WorkRollsBack, RollBackFails, FreshRollsBack, WorkEnds,
             ScheduleFails, AfterCommitFails
    <2>5. CASE Own(w)
      <3>1. run.pc = "wait"
        BY <2>5 DEF HInv, Alone
      <3>2. ~run'.alone /\ ~run'.applied
        BY <1>4, <2>4, <3>1 DEF Done, HInv, Shape, Run
      <3>3. QED BY <1>3, <3>2
    <2>6. CASE ~Own(w)
      <3>1. UNCHANGED run /\ ~run.alone
        BY <2>2, <2>4, <2>6 DEF Done, Own
      <3>2. QED BY <2>3, <3>1
    <2>7. QED BY <2>5, <2>6
  <1>8. CASE Answer
    <2>1. CASE Look
      BY <2>1 DEF Look, HInv, Shape, Run
    <2>2. CASE Confirm
      <3>1. run.rel \in Developer /\ run.rel # None
        BY <2>2 DEF Confirm, HInv, Known
      <3>2. space.status = run.rel => run.rel \in hist.proved
        BY <3>1 DEF HInv, Answered
      <3>3. QED BY <2>2, <3>2 DEF Confirm, HInv, Shape, Run
    <2>3. CASE LookFails \/ Record
      BY <2>3 DEF LookFails, Record, Go, HInv, Shape, Run
    <2>4. CASE Consume \/ AnswerFails
      BY <1>2, <2>4 DEF Consume, AnswerFails
    <2>5. QED BY <1>8, <2>1, <2>2, <2>3, <2>4 DEF Answer
  <1>9. CASE Outside
    <2>1. CASE \E r \in Developer : Submit(r)
      BY <2>1 DEF Submit
    <2>2. CASE Crash
      BY <1>2, <2>2 DEF Crash
    <2>3. ASSUME NEW w \in Workers, ChildDies(w) PROVE Seen'
      <3>1. hist'.proved = hist.proved /\ UNCHANGED space
        BY <2>3, Dead DEF ChildDies
      <3>2. CASE work[w].owner = "child"
        <4>1. run.pc = "wait"
          BY <3>2 DEF HInv, Alone, Own
        <4>2. ~run'.alone /\ ~run'.applied
          BY <2>3, <3>2, <4>1 DEF ChildDies, Done, HInv, Shape, Run
        <4>3. QED BY <1>3, <4>2
      <3>3. CASE work[w].owner = "orphan"
        BY <2>3, <3>1, <3>3 DEF ChildDies, Done
      <3>4. QED BY <2>3, <3>2, <3>3 DEF ChildDies
    <2>4. QED BY <1>9, <2>1, <2>2, <2>3 DEF Outside
  <1>10. QED
    BY <1>1, <1>5, <1>6, <1>7, <1>8, <1>9 DEF Next

LEMMA SeenAlways == Spec => [](HInv /\ Seen)
  <1>1. Init => Seen
    BY DEF Init, Seen, NoRun
  <1>2. HInv /\ Seen /\ [Next]_vars => Seen'
    BY SeenKept
  <1>3. QED BY <1>1, <1>2, HInvAlways, PTL DEF Spec

(* A request answered as applied names a release whose commit was          *)
(* recorded; and unless an orphan of an earlier run was at work when the   *)
(* run looked, it is installed with its status at the very step that       *)
(* writes the answer (finish_deploy_request).                              *)
THEOREM AppliedWasTrue == Spec => AppliedIsTrue
  <1>1. ASSUME HInv, Seen, [Next]_vars,
               deploy'.result # deploy.result, deploy'.result # None,
               deploy'.result.applied
        PROVE  run.rel \in hist.proved /\ (run.alone => Evidence(run.rel))
    <2>1. Record
      BY <1>1, Answers DEF Consume, HInv, Shape, Deploy
    <2>2. run.applied
      BY <1>1, <2>1 DEF Record, HInv, Shape, Deploy
    <2>3. QED
      BY <1>1, <2>2 DEF Seen
  <1>2. QED
    BY <1>1, SeenAlways, PTL DEF Spec, AppliedIsTrue

(* A request goes only once its own result is recorded, or with the whole  *)
(* Space (deploy.rs, finish).                                              *)
THEOREM ConsumedWasAnswered == Spec => ConsumedIsAnswered
  <1>1. ASSUME HInv, [Next]_vars,
               deploy.request # None, deploy'.request = None, space'.marker
        PROVE  deploy.result # None /\ deploy.result.id = deploy.request.id
    <2>1. Consume
      BY <1>1, Answers DEF Record, HInv, Shape, Deploy
    <2>2. deploy.request = run.claim
      BY <1>1, <2>1 DEF Consume, HInv, Shape, Deploy
    <2>3. QED
      BY <1>1, <2>1, <2>2 DEF Consume, HInv, Answered
  <1>2. QED
    BY <1>1, HInvAlways, PTL DEF Spec, ConsumedIsAnswered

===============================================================================
