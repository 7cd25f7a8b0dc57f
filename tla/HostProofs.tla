------------------------------ MODULE HostProofs ------------------------------
(***************************************************************************)
(* Proofs about the components of the host: the start of a member          *)
(* (MemberStart), the removal of what an installation owns                 *)
(* (OwnedResources), the scheduler entries (SchedulerEntries), and the     *)
(* Developers session (Account).  Each keeps its own state and has an      *)
(* inductive invariant of its own; none refers to another's.               *)
(***************************************************************************)
EXTENDS MemberStart, OwnedResources, SchedulerEntries, Account,
        FiniteSetTheorems, TLAPS

SchedulerSpec == SchedulerInit /\ [][SchedulerNext]_schedulerVars
AccountSpec == AccountInit /\ [][AccountNext]_accountVars

-----------------------------------------------------------------------------
(* MemberStart. *)

Starts ==
  [ kind : StartKinds \cup {"none"},
    pc : {"idle", "pull", "admit", "replace", "init", "up", "judge", "recreate", "prove",
          "session", "team", "admin", "attest", "ask", "answer", "clear"},
    release : Releases,
    end : {"none", "started", "refused", "failed", "authorized", "unavailable"},
    auth : {"none", "running", "skipped", "usable", "unusable", "complete", "password",
            "error"},
    pulls : 0 .. 3, socket : {"none", "running", "reached", "unreached"},
    init : {"none", "records", "reads", "current", "again"},
    removal : {"none", "stop", "remove", "done"},
    up : 0 .. 4, recreate : SUBSET Service, tries : 0 .. 2 ]

Grounds ==
  [ taken : BOOLEAN, live : Releases, changed : Changes,
    initChanged : BOOLEAN, reads : BOOLEAN, reaches : BOOLEAN,
    exited : Releases \cup {"none"}, capability : Releases \cup {"none", "broken"},
    projected : BOOLEAN ]

StartTyped ==
  /\ members \in [Service -> Member] /\ ground \in Grounds /\ start \in Starts
  /\ start.pc = "ask" => start.tries <= 1
  /\ start.pc \notin {"ask", "clear"} => start.tries = 0

(* A command that runs has not ended, and is one that is admitted there.   *)
OnItsWay ==
  /\ start.pc # "idle" => start.end = "none"
  /\ start.pc \in {"pull", "admit", "replace", "init", "session"} => start.kind = "apply"
  /\ start.pc \in {"pull", "admit", "replace"} => ground.live = "old"

(* Nothing of a release that was not probed is installed.                  *)
Probed(release) ==
  release = "new" => ground.reaches /\ ("admin" \in ground.changed => ground.reads)

Admission ==
  /\ start.auth = "usable" => ground.reads
  /\ start.pc = "admit" /\ start.auth = "skipped" /\ start.release = "new" =>
       "admin" \notin ground.changed
  /\ start.socket = "reached" => ground.reaches
  /\ start.pc = "replace" => Probed(start.release)
  /\ Probed(ground.live)
  /\ \A m \in Service :
       members[m].image = "new" => m \in ground.changed /\ Probed("new")

(* A capability that is whole is of the configuration the initializer last  *)
(* exited under, and is that of the installed release where it must be.    *)
Capable ==
  /\ ground.exited # "none" /\ ground.capability # "broken" =>
       ground.capability = ground.exited
  /\ start.pc = "init" /\ start.init = "reads" => ground.exited = InitHash(ground.live)
  /\ \/ start.pc = "init" /\ start.init = "current"
     \/ start.kind = "apply" /\ start.pc = "up" /\ start.up # 0
     \/ start.kind = "apply" /\ start.pc \in {"judge", "recreate", "prove", "session"}
     \/ start.end = "started"
     => ground.capability = InitHash(ground.live)

(* Whom the last judgement found attached stays attached or stops.         *)
Attachment ==
  start.pc \in {"session", "ask", "clear"} \/ start.end \in {"started", "authorized"} =>
    \A m \in Service : members[m].at = "running" => members[m].attached

StInv == StartTyped /\ OnItsWay /\ Admission /\ Capable /\ Attachment

LEMMA StartEnds ==
  /\ NoStart \in Starts
  /\ \A how \in {"started", "refused", "failed", "authorized", "unavailable"} :
       /\ Ended(how) \in Starts /\ Ended(how).pc = "idle" /\ Ended(how).tries = 0
       /\ Ended(how).end = how /\ Ended(how).auth = "none" /\ Ended(how).socket = "none"
       /\ Ended(how).kind = "none" /\ Ended(how).init = "none" /\ Ended(how).up = 0
<1>1. 0 \in 0 .. 2 /\ 0 \in 0 .. 3 /\ 0 \in 0 .. 4
  OBVIOUS
<1>2. NoStart \in Starts
  BY <1>1 DEF NoStart, Starts, Releases
<1>3. ASSUME NEW how \in {"started", "refused", "failed", "authorized", "unavailable"}
      PROVE  Ended(how) \in Starts
  BY <1>2 DEF Ended, Starts
<1> QED
  BY <1>2, <1>3 DEF Ended, NoStart

LEMMA MembersMade ==
  ASSUME StartTyped, NEW m \in Service
  PROVE  /\ Created(m) \in Member /\ DockerStarted(m) \in Member /\ Upped(m) \in Member
         /\ DockerStarted(m).image = members[m].image
         /\ Created(m).image = ImageOf(m, ground.live)
         /\ Upped(m).image \in {members[m].image, ImageOf(m, ground.live)}
<1>1. members[m] \in Member /\ ImageOf(m, ground.live) \in Releases
  BY DEF StartTyped, ImageOf, Releases
<1>2. Blocked(m) \in BOOLEAN
  BY DEF Blocked, StartTyped
<1>3. Created(m) \in Member /\ Created(m).image = ImageOf(m, ground.live)
  BY <1>1, <1>2 DEF Created, Member
<1>4. DockerStarted(m) \in Member /\ DockerStarted(m).image = members[m].image
  BY <1>1 DEF DockerStarted, Member
<1> QED
  BY <1>3, <1>4 DEF Upped

LEMMA MembersKept ==
  ASSUME StartTyped, [StartNext]_startVars
  PROVE  members' \in [Service -> Member]
<1> USE DEF StartTo, KeepHost
<1>0. members \in [Service -> Member]
  BY DEF StartTyped
<1>1. CASE \/ UNCHANGED startVars
           \/ PortChanges
           \/ CapabilityBreaks
           \/ BeginApply
           \/ \E kind \in {"reset", "recover"} : BeginAdmin(kind)
           \/ PullAdmin
           \/ Pull
           \/ ProbeAdmin
           \/ ProbeSocket
           \/ Admit
           \/ ReplaceFiles
           \/ InitRecords
           \/ InitReads
           \/ InitUnseen
           \/ InitJudged
           \/ RunInitializer
           \/ InitializerFails
           \/ Up
           \/ Judged
           \/ Prove
           \/ Session
           \/ Attest
           \/ AskAdmin
           \/ ClearCapability
           \/ StartFails
  BY <1>0, <1>1
     DEF startVars, PortChanges, CapabilityBreaks, BeginApply, BeginAdmin, PullAdmin,
         Pull, ProbeAdmin, ProbeSocket, Admit, ReplaceFiles, InitRecords, InitReads,
         InitUnseen, InitJudged, RunInitializer, InitializerFails, Up, Judged, Prove,
         Session, Attest, AskAdmin, ClearCapability, StartFails
<1>2. CASE \E m \in Service : MemberStops(m)
  <2>1. PICK m \in Service : members' = [members EXCEPT ![m] = [members[m] EXCEPT !.at = "stopped"]]
    BY <1>2 DEF MemberStops
  <2>2. [members[m] EXCEPT !.at = "stopped"] \in Member
    BY <1>0 DEF Member
  <2> QED
    BY <1>0, <2>1, <2>2
<1>3. CASE RemoveReplaced
  <2>1. PICK at \in {"stopped", "absent"} :
          members' = [m \in Service |-> IF m \notin Replaced THEN members[m]
                                        ELSE [members[m] EXCEPT !.at = at]]
    BY <1>3 DEF RemoveReplaced
  <2>2. \A m \in Service : [members[m] EXCEPT !.at = at] \in Member
    BY <1>0 DEF Member
  <2> QED
    BY <1>0, <2>1, <2>2
<1>4. CASE UpMember
  BY <1>0, <1>4, MembersMade DEF UpMember
<1>5. CASE Recreate
  BY <1>0, <1>5, MembersMade DEF Recreate
<1>6. CASE StartTeam
  BY <1>0, <1>6, MembersMade DEF StartTeam
<1>7. CASE StartAdmin
  BY <1>0, <1>7, MembersMade DEF StartAdmin
<1> QED
  BY <1>1, <1>2, <1>3, <1>4, <1>5, <1>6, <1>7
     DEF StartNext, HostStep, ApplyStep, ResetStep

LEMMA GroundKept ==
  ASSUME StartTyped, [StartNext]_startVars
  PROVE  ground' \in Grounds
<1> USE DEF StartTo, KeepHost
<1>0. ground \in Grounds
  BY DEF StartTyped
<1>1. CASE \/ UNCHANGED startVars
           \/ \E m \in Service : MemberStops(m)
           \/ BeginApply
           \/ \E kind \in {"reset", "recover"} : BeginAdmin(kind)
           \/ PullAdmin
           \/ Pull
           \/ ProbeAdmin
           \/ ProbeSocket
           \/ Admit
           \/ RemoveReplaced
           \/ InitRecords
           \/ InitReads
           \/ InitUnseen
           \/ InitJudged
           \/ UpMember
           \/ Judged
           \/ Recreate
           \/ Prove
           \/ Session
           \/ StartTeam
           \/ StartAdmin
           \/ Attest
  BY <1>0, <1>1
     DEF startVars, MemberStops, BeginApply, BeginAdmin, PullAdmin, Pull, ProbeAdmin,
         ProbeSocket, Admit, RemoveReplaced, InitRecords, InitReads, InitUnseen,
         InitJudged, UpMember, Judged, Recreate, Prove, Session, StartTeam, StartAdmin,
         Attest
<1>2. CASE PortChanges
  BY <1>0, <1>2 DEF PortChanges, Grounds, Releases
<1>3. CASE CapabilityBreaks
  BY <1>0, <1>3 DEF CapabilityBreaks, Grounds, Releases
<1>4. CASE ReplaceFiles
  <2>1. ground' = [ground EXCEPT !.live = start.release] /\ start.release \in Releases
    BY <1>4 DEF ReplaceFiles, StartTyped, Starts
  <2> QED
    BY <1>0, <2>1 DEF Grounds
<1>5. CASE RunInitializer
  <2>1. /\ ground' = [ground EXCEPT !.exited = InitHash(ground.live),
                                   !.capability = InitHash(ground.live)]
        /\ InitHash(ground.live) \in Releases
    BY <1>5 DEF RunInitializer, InitHash, Releases
  <2> QED
    BY <1>0, <2>1 DEF Grounds
<1>6. CASE InitializerFails
  BY <1>0, <1>6 DEF InitializerFails, Grounds, Releases
<1>7. CASE Up
  BY <1>0, <1>7 DEF Up, Grounds, Releases
<1>8. CASE AskAdmin
  BY <1>0, <1>8 DEF AskAdmin, Grounds, Releases
<1>9. CASE ClearCapability
  BY <1>0, <1>9 DEF ClearCapability, Grounds, Releases
<1>10. CASE StartFails
  BY <1>0, <1>10 DEF StartFails, Grounds, Releases
<1> QED
  BY <1>1, <1>2, <1>3, <1>4, <1>5, <1>6, <1>7, <1>8, <1>9, <1>10
     DEF StartNext, HostStep, ApplyStep, ResetStep

LEMMA ConvergedStart ==
  ASSUME start \in Starts
  PROVE  \E pc \in {"session", "attest"} :
           /\ AfterConverge = [start EXCEPT !.recreate = {}, !.pc = pc]
           /\ AfterConverge \in Starts /\ AfterConverge.pc = pc
           /\ AfterConverge.kind = start.kind /\ AfterConverge.end = start.end
           /\ AfterConverge.tries = start.tries /\ AfterConverge.auth = start.auth
           /\ AfterConverge.socket = start.socket /\ AfterConverge.init = start.init
           /\ pc = "session" <=> start.kind = "apply"
<1>1. PICK pc \in {"session", "attest"} :
           /\ AfterConverge = [start EXCEPT !.recreate = {}, !.pc = pc]
           /\ pc = "session" <=> start.kind = "apply"
  BY DEF AfterConverge
<1> QED
  BY <1>1 DEF Starts

LEMMA StartKept ==
  ASSUME StartTyped, [StartNext]_startVars
  PROVE  start' \in Starts
<1> USE DEF StartTo, KeepHost
<1>0. start \in Starts
  BY DEF StartTyped
<1>1. CASE \/ UNCHANGED startVars
           \/ PortChanges
           \/ \E m \in Service : MemberStops(m)
  BY <1>0, <1>1 DEF startVars, PortChanges, MemberStops
<1>2. CASE CapabilityBreaks
  BY <1>2, StartEnds DEF CapabilityBreaks
<1>3. CASE BeginApply
  <2>1. PICK r \in Releases :
          start' = [NoStart EXCEPT !.kind = "apply", !.pc = "pull", !.release = r]
    BY <1>3 DEF BeginApply
  <2>2. NoStart \in Starts
    BY StartEnds
  <2> QED
    BY ZenonT(60), <2>1, <2>2 DEF Starts, StartKinds
<1>4. CASE \E kind \in {"reset", "recover"} : BeginAdmin(kind)
  <2>1. PICK kind \in {"reset", "recover"}, pc \in {"up", "team"} :
          start' = [NoStart EXCEPT !.kind = kind, !.pc = pc]
    BY <1>4 DEF BeginAdmin
  <2>2. NoStart \in Starts
    BY StartEnds
  <2> QED
    BY ZenonT(60), <2>1, <2>2 DEF Starts, StartKinds
<1>5. CASE PullAdmin
  <2>1. PICK auth \in {"running", "skipped"}, pulls \in 0 .. 3 :
          start' = [start EXCEPT !.pc = "admit", !.pulls = pulls, !.auth = auth]
    <3>1. 1 \in 0 .. 3
      OBVIOUS
    <3> QED
      BY <1>5, <3>1 DEF PullAdmin
  <2>2. [start EXCEPT !.pc = "admit"] \in Starts
    BY <1>0 DEF Starts
  <2>3. ASSUME NEW s \in Starts PROVE [s EXCEPT !.pulls = pulls, !.auth = auth] \in Starts
    BY ZenonT(60) DEF Starts
  <2> QED
    BY <2>1, <2>2, <2>3
<1>6. CASE Pull
  <2>1. PICK socket \in {"running", start.socket} :
          start' = [start EXCEPT !.pulls = start.pulls + 1, !.socket = socket]
    BY <1>6 DEF Pull
  <2>2. start.pulls + 1 \in 0 .. 3 /\ socket \in {"none", "running", "reached", "unreached"}
    BY <1>0, <1>6, <2>1 DEF Pull, Starts
  <2> QED
    BY ZenonT(60), <1>0, <2>1, <2>2 DEF Starts
<1>7. CASE ProbeAdmin
  BY <1>0, <1>7, StartEnds DEF ProbeAdmin, Starts, Releases, StartKinds
<1>8. CASE ProbeSocket
  BY <1>0, <1>8, StartEnds DEF ProbeSocket, Starts, Releases, StartKinds
<1>9. CASE Admit
  BY <1>0, <1>9, StartEnds DEF Admit, Starts, Releases, StartKinds
<1>10. CASE ReplaceFiles
  <2>1. PICK removal \in {"stop", "done"} :
          start' = [start EXCEPT !.pc = "init", !.init = "records", !.removal = removal]
    BY <1>10 DEF ReplaceFiles
  <2>2. [start EXCEPT !.pc = "init"] \in Starts
    BY <1>0 DEF Starts
  <2>3. ASSUME NEW s \in Starts PROVE [s EXCEPT !.init = "records"] \in Starts
    BY DEF Starts
  <2>4. ASSUME NEW s \in Starts PROVE [s EXCEPT !.removal = removal] \in Starts
    BY DEF Starts
  <2> QED
    BY <2>1, <2>2, <2>3, <2>4
<1>11. CASE RemoveReplaced
  BY <1>0, <1>11, StartEnds DEF RemoveReplaced, Starts, Releases, StartKinds
<1>12. CASE InitRecords
  BY <1>0, <1>12, StartEnds DEF InitRecords, Starts, Releases, StartKinds
<1>13. CASE InitReads
  BY <1>0, <1>13, StartEnds DEF InitReads, Starts, Releases, StartKinds
<1>14. CASE InitUnseen
  BY <1>0, <1>14, StartEnds DEF InitUnseen, Starts, Releases, StartKinds
<1>15. CASE InitJudged
  <2>1. PICK up \in 0 .. 4 : start' = [start EXCEPT !.pc = "up", !.up = up]
    <3>1. 0 \in 0 .. 4 /\ 1 \in 0 .. 4
      OBVIOUS
    <3> QED
      BY <1>15, <3>1 DEF InitJudged
  <2> QED
    BY <1>0, <2>1 DEF Starts
<1>16. CASE RunInitializer
  BY <1>0, <1>16, StartEnds DEF RunInitializer, Starts, Releases, StartKinds
<1>17. CASE InitializerFails
  BY <1>0, <1>17, StartEnds DEF InitializerFails, Starts, Releases, StartKinds
<1>18. CASE UpMember
  BY <1>0, <1>18, StartEnds DEF UpMember, Starts, Releases, StartKinds
<1>19. CASE Up
  <2>1. CASE members["admin"].at = "running"
    <3>1. PICK pc \in {"judge", "team"} : start' = [start EXCEPT !.up = 0, !.pc = pc]
      BY <1>19, <2>1 DEF Up
    <3>2. 0 \in 0 .. 4
      OBVIOUS
    <3> QED
      BY <1>0, <3>1, <3>2 DEF Starts
  <2>2. CASE members["admin"].at # "running"
    BY <1>19, <2>2, StartEnds DEF Up
  <2> QED
    BY <2>1, <2>2
<1>20. CASE Judged
  <2>1. judged_detached \in SUBSET Service
    BY DEF judged_detached
  <2>2. CASE judged_detached = {}
    BY <1>0, <1>20, <2>2, ConvergedStart DEF Judged
  <2>3. CASE judged_detached # {}
    <3>1. start' = [start EXCEPT !.pc = "recreate", !.recreate = judged_detached]
      BY <1>20, <2>3 DEF Judged
    <3> QED
      BY <1>0, <2>1, <3>1 DEF Starts
  <2> QED
    BY <2>2, <2>3
<1>21. CASE Recreate
  BY <1>0, <1>21, StartEnds DEF Recreate, Starts, Releases, StartKinds
<1>22. CASE Prove
  BY <1>0, <1>22, ConvergedStart DEF Prove
<1>23. CASE Session
  BY <1>0, <1>23, StartEnds DEF Session, Starts, Releases, StartKinds
<1>24. CASE StartTeam
  BY <1>0, <1>24, StartEnds DEF StartTeam, Starts, Releases, StartKinds
<1>25. CASE StartAdmin
  <2>1. CASE start' = Ended("unavailable") \/ start' = Ended("failed")
    BY <2>1, StartEnds
  <2>2. ASSUME NEW pc \in {"judge", "attest"}, start' = [start EXCEPT !.pc = pc]
        PROVE  start' \in Starts
    BY <1>0, <2>2 DEF Starts
  <2> QED
    BY <1>25, <2>1, <2>2 DEF StartAdmin, ResetOr
<1>26. CASE Attest
  <2>1. CASE start' = Ended("unavailable") \/ start' = Ended("failed")
    BY <2>1, StartEnds
  <2>2. CASE start' = [start EXCEPT !.pc = "ask"]
    BY <1>0, <2>2 DEF Starts
  <2> QED
    BY <1>26, <2>1, <2>2 DEF Attest, ResetOr
<1>27. CASE AskAdmin
  <2>1. PICK answer \in {"complete", "password", "error"} :
          start' = [start EXCEPT !.pc = "clear", !.tries = start.tries + 1, !.auth = answer]
    BY <1>27 DEF AskAdmin
  <2>2. start.tries + 1 \in 0 .. 2
    BY <1>0, <1>27 DEF AskAdmin, StartTyped, Starts
  <2> QED
    BY ZenonT(60), <1>0, <2>1, <2>2 DEF Starts
<1>28. CASE ClearCapability
  BY <1>0, <1>28, StartEnds DEF ClearCapability, Starts, Releases, StartKinds
<1>29. CASE StartFails
  BY <1>0, <1>29, StartEnds DEF StartFails, Starts, Releases, StartKinds
<1> QED
  BY <1>1, <1>2, <1>3, <1>4, <1>5, <1>6, <1>7, <1>8, <1>9, <1>10, <1>11, <1>12, <1>13,
     <1>14, <1>15, <1>16, <1>17, <1>18, <1>19, <1>20, <1>21, <1>22, <1>23, <1>24, <1>25,
     <1>26, <1>27, <1>28, <1>29
     DEF StartNext, HostStep, ApplyStep, ResetStep


LEMMA UpMoves ==
  ASSUME start \in Starts, Up
  PROVE  /\ members' = members /\ start.pc = "up"
         /\ \/ /\ ground' = ground /\ start'.pc = (IF start.kind = "apply" THEN "judge" ELSE "team")
               /\ start'.kind = start.kind /\ start'.up = 0 /\ start'.tries = start.tries
               /\ start'.end = start.end /\ start'.auth = start.auth /\ start'.init = start.init
               /\ start'.socket = start.socket /\ start'.release = start.release
               /\ start.up # 0
            \/ /\ start' = Ended("failed")
               /\ ground' = [ground EXCEPT !.live = IF start.kind = "apply" THEN "old" ELSE ground.live]
<1>1. CASE members["admin"].at = "running"
  <2> DEFINE to == IF start.kind = "apply" THEN "judge" ELSE "team"
  <2>1. /\ start' = [start EXCEPT !.up = 0, !.pc = to] /\ ground' = ground
        /\ members' = members /\ start.pc = "up" /\ start.up = 4
    BY <1>1 DEF Up, KeepHost, StartTo
  <2> HIDE DEF to
  <2>2. /\ start'.pc = to
        /\ start'.kind = start.kind /\ start'.up = 0 /\ start'.tries = start.tries
        /\ start'.end = start.end /\ start'.auth = start.auth /\ start'.init = start.init
        /\ start'.socket = start.socket /\ start'.release = start.release
    BY <2>1 DEF Starts
  <2> QED
    BY <2>1, <2>2 DEF to
<1>2. CASE members["admin"].at # "running"
  BY <1>2 DEF Up, StartTo
<1> QED
  BY <1>1, <1>2

LEMMA TriesKept ==
  ASSUME StInv, [StartNext]_startVars
  PROVE  /\ start'.pc = "ask" => start'.tries <= 1
         /\ start'.pc \notin {"ask", "clear"} => start'.tries = 0
<1> USE DEF StartTo, KeepHost, Ended, NoStart
<1>0. /\ start \in Starts
      /\ start.pc = "ask" => start.tries <= 1
      /\ start.pc \notin {"ask", "clear"} => start.tries = 0
  BY DEF StInv, StartTyped, Grounds, AfterConverge, ResetOr
<1>1. CASE PortChanges
  BY <1>0, <1>1 DEF PortChanges, Starts, AfterConverge, ResetOr
<1>2. CASE \E m \in Service : MemberStops(m)
  BY <1>0, <1>2 DEF MemberStops, Starts, AfterConverge, ResetOr
<1>3. CASE CapabilityBreaks
  BY <1>0, <1>3 DEF CapabilityBreaks, Starts, AfterConverge, ResetOr
<1>4. CASE BeginApply
  BY <1>0, <1>4 DEF BeginApply, Starts, AfterConverge, ResetOr
<1>5. CASE \E kind \in {"reset", "recover"} : BeginAdmin(kind)
  BY <1>0, <1>5 DEF BeginAdmin, Starts, AfterConverge, ResetOr
<1>6. CASE PullAdmin
  BY <1>0, <1>6 DEF PullAdmin, Starts, AfterConverge, ResetOr
<1>7. CASE Pull
  BY <1>0, <1>7 DEF Pull, Starts, AfterConverge, ResetOr
<1>8. CASE ProbeAdmin
  BY <1>0, <1>8 DEF ProbeAdmin, Starts, AfterConverge, ResetOr
<1>9. CASE ProbeSocket
  BY <1>0, <1>9 DEF ProbeSocket, Starts, AfterConverge, ResetOr
<1>10. CASE Admit
  BY <1>0, <1>10 DEF Admit, Starts, AfterConverge, ResetOr
<1>11. CASE ReplaceFiles
  BY <1>0, <1>11 DEF ReplaceFiles, Starts, AfterConverge, ResetOr
<1>12. CASE RemoveReplaced
  BY <1>0, <1>12 DEF RemoveReplaced, Starts, AfterConverge, ResetOr
<1>13. CASE InitRecords
  BY <1>0, <1>13 DEF InitRecords, Starts, AfterConverge, ResetOr
<1>14. CASE InitReads
  BY <1>0, <1>14 DEF InitReads, Starts, AfterConverge, ResetOr
<1>15. CASE InitUnseen
  BY <1>0, <1>15 DEF InitUnseen, Starts, AfterConverge, ResetOr
<1>16. CASE InitJudged
  BY <1>0, <1>16 DEF InitJudged, Starts, AfterConverge, ResetOr
<1>17. CASE RunInitializer
  BY <1>0, <1>17 DEF RunInitializer, Starts, AfterConverge, ResetOr
<1>18. CASE InitializerFails
  BY <1>0, <1>18 DEF InitializerFails, Starts, AfterConverge, ResetOr
<1>19. CASE UpMember
  BY <1>0, <1>19 DEF UpMember, Starts, AfterConverge, ResetOr
<1>20. CASE Up
  BY <1>0, <1>20, UpMoves DEF AfterConverge, ResetOr
<1>21. CASE Judged
  BY <1>0, <1>21 DEF Judged, Starts, AfterConverge, ResetOr
<1>22. CASE Recreate
  BY <1>0, <1>22 DEF Recreate, Starts, AfterConverge, ResetOr
<1>23. CASE Prove
  BY <1>0, <1>23 DEF Prove, Starts, AfterConverge, ResetOr
<1>24. CASE Session
  BY <1>0, <1>24 DEF Session, Starts, AfterConverge, ResetOr
<1>25. CASE StartTeam
  BY <1>0, <1>25 DEF StartTeam, Starts, AfterConverge, ResetOr
<1>26. CASE StartAdmin
  BY <1>0, <1>26 DEF StartAdmin, Starts, AfterConverge, ResetOr
<1>27. CASE Attest
  BY <1>0, <1>27 DEF Attest, Starts, AfterConverge, ResetOr
<1>28. CASE AskAdmin
  BY <1>0, <1>28 DEF AskAdmin, Starts, AfterConverge, ResetOr
<1>29. CASE ClearCapability
  BY <1>0, <1>29 DEF ClearCapability, Starts, AfterConverge, ResetOr
<1>30. CASE StartFails
  BY <1>0, <1>30 DEF StartFails, Starts, AfterConverge, ResetOr
<1>31. CASE UNCHANGED startVars
  BY <1>0, <1>31 DEF startVars, AfterConverge, ResetOr
<1> QED
  BY <1>1, <1>2, <1>3, <1>4, <1>5, <1>6, <1>7, <1>8, <1>9, <1>10, <1>11, <1>12, <1>13,
     <1>14, <1>15, <1>16, <1>17, <1>18, <1>19, <1>20, <1>21, <1>22, <1>23, <1>24, <1>25,
     <1>26, <1>27, <1>28, <1>29, <1>30, <1>31
     DEF StartNext, HostStep, ApplyStep, ResetStep

LEMMA OnItsWayKept ==
  ASSUME StInv, [StartNext]_startVars
  PROVE  OnItsWay'
<1> USE DEF StartTo, KeepHost, Ended, NoStart
<1>0. start \in Starts /\ ground \in Grounds /\ OnItsWay
  BY DEF StInv, StartTyped, Grounds, OnItsWay, AfterConverge, ResetOr, Grounds
<1>1. CASE PortChanges
  BY <1>0, <1>1 DEF PortChanges, Starts, OnItsWay, AfterConverge, ResetOr, Grounds
<1>2. CASE \E m \in Service : MemberStops(m)
  BY <1>0, <1>2 DEF MemberStops, Starts, OnItsWay, AfterConverge, ResetOr, Grounds
<1>3. CASE CapabilityBreaks
  BY <1>0, <1>3 DEF CapabilityBreaks, Starts, OnItsWay, AfterConverge, ResetOr, Grounds
<1>4. CASE BeginApply
  BY <1>0, <1>4 DEF BeginApply, Starts, OnItsWay, AfterConverge, ResetOr, Grounds
<1>5. CASE \E kind \in {"reset", "recover"} : BeginAdmin(kind)
  BY <1>0, <1>5 DEF BeginAdmin, Starts, OnItsWay, AfterConverge, ResetOr, Grounds
<1>6. CASE PullAdmin
  BY <1>0, <1>6 DEF PullAdmin, Starts, OnItsWay, AfterConverge, ResetOr, Grounds
<1>7. CASE Pull
  BY <1>0, <1>7 DEF Pull, Starts, OnItsWay, AfterConverge, ResetOr, Grounds
<1>8. CASE ProbeAdmin
  BY <1>0, <1>8 DEF ProbeAdmin, Starts, OnItsWay, AfterConverge, ResetOr, Grounds
<1>9. CASE ProbeSocket
  BY <1>0, <1>9 DEF ProbeSocket, Starts, OnItsWay, AfterConverge, ResetOr, Grounds
<1>10. CASE Admit
  BY <1>0, <1>10 DEF Admit, Starts, OnItsWay, AfterConverge, ResetOr, Grounds
<1>11. CASE ReplaceFiles
  BY <1>0, <1>11 DEF ReplaceFiles, Starts, OnItsWay, AfterConverge, ResetOr, Grounds
<1>12. CASE RemoveReplaced
  BY <1>0, <1>12 DEF RemoveReplaced, Starts, OnItsWay, AfterConverge, ResetOr, Grounds
<1>13. CASE InitRecords
  BY <1>0, <1>13 DEF InitRecords, Starts, OnItsWay, AfterConverge, ResetOr, Grounds
<1>14. CASE InitReads
  BY <1>0, <1>14 DEF InitReads, Starts, OnItsWay, AfterConverge, ResetOr, Grounds
<1>15. CASE InitUnseen
  BY <1>0, <1>15 DEF InitUnseen, Starts, OnItsWay, AfterConverge, ResetOr, Grounds
<1>16. CASE InitJudged
  BY <1>0, <1>16 DEF InitJudged, Starts, OnItsWay, AfterConverge, ResetOr, Grounds
<1>17. CASE RunInitializer
  BY <1>0, <1>17 DEF RunInitializer, Starts, OnItsWay, AfterConverge, ResetOr, Grounds
<1>18. CASE InitializerFails
  BY <1>0, <1>18 DEF InitializerFails, Starts, OnItsWay, AfterConverge, ResetOr, Grounds
<1>19. CASE UpMember
  BY <1>0, <1>19 DEF UpMember, Starts, OnItsWay, AfterConverge, ResetOr, Grounds
<1>20. CASE Up
  BY <1>0, <1>20, UpMoves DEF OnItsWay, AfterConverge, ResetOr, Grounds
<1>21. CASE Judged
  BY <1>0, <1>21 DEF Judged, Starts, OnItsWay, AfterConverge, ResetOr, Grounds
<1>22. CASE Recreate
  BY <1>0, <1>22 DEF Recreate, Starts, OnItsWay, AfterConverge, ResetOr, Grounds
<1>23. CASE Prove
  BY <1>0, <1>23 DEF Prove, Starts, OnItsWay, AfterConverge, ResetOr, Grounds
<1>24. CASE Session
  BY <1>0, <1>24 DEF Session, Starts, OnItsWay, AfterConverge, ResetOr, Grounds
<1>25. CASE StartTeam
  BY <1>0, <1>25 DEF StartTeam, Starts, OnItsWay, AfterConverge, ResetOr, Grounds
<1>26. CASE StartAdmin
  BY <1>0, <1>26 DEF StartAdmin, Starts, OnItsWay, AfterConverge, ResetOr, Grounds
<1>27. CASE Attest
  BY <1>0, <1>27 DEF Attest, Starts, OnItsWay, AfterConverge, ResetOr, Grounds
<1>28. CASE AskAdmin
  BY <1>0, <1>28 DEF AskAdmin, Starts, OnItsWay, AfterConverge, ResetOr, Grounds
<1>29. CASE ClearCapability
  BY <1>0, <1>29 DEF ClearCapability, Starts, OnItsWay, AfterConverge, ResetOr, Grounds
<1>30. CASE StartFails
  BY <1>0, <1>30 DEF StartFails, Starts, OnItsWay, AfterConverge, ResetOr, Grounds
<1>31. CASE UNCHANGED startVars
  BY <1>0, <1>31 DEF startVars, OnItsWay, AfterConverge, ResetOr, Grounds
<1> QED
  BY <1>1, <1>2, <1>3, <1>4, <1>5, <1>6, <1>7, <1>8, <1>9, <1>10, <1>11, <1>12, <1>13,
     <1>14, <1>15, <1>16, <1>17, <1>18, <1>19, <1>20, <1>21, <1>22, <1>23, <1>24, <1>25,
     <1>26, <1>27, <1>28, <1>29, <1>30, <1>31
     DEF StartNext, HostStep, ApplyStep, ResetStep

LEMMA AttachmentKept ==
  ASSUME StInv, [StartNext]_startVars
  PROVE  Attachment'
<1> USE DEF StartTo, KeepHost, Ended, NoStart
<1>0. start \in Starts /\ members \in [Service -> Member] /\ OnItsWay /\ Attachment
  BY
     DEF StInv, StartTyped, Grounds, Attachment, OnItsWay, AfterConverge, ResetOr, Member,
         judged_detached, recreation_proved
<1>1. CASE PortChanges
  BY <1>0, <1>1
     DEF PortChanges, Starts, Attachment, OnItsWay, AfterConverge, ResetOr, Member,
         judged_detached, recreation_proved
<1>2. CASE \E m \in Service : MemberStops(m)
  BY <1>0, <1>2
     DEF MemberStops, Starts, Attachment, OnItsWay, AfterConverge, ResetOr, Member,
         judged_detached, recreation_proved
<1>3. CASE CapabilityBreaks
  BY <1>0, <1>3
     DEF CapabilityBreaks, Starts, Attachment, OnItsWay, AfterConverge, ResetOr, Member,
         judged_detached, recreation_proved
<1>4. CASE BeginApply
  BY <1>0, <1>4
     DEF BeginApply, Starts, Attachment, OnItsWay, AfterConverge, ResetOr, Member,
         judged_detached, recreation_proved
<1>5. CASE \E kind \in {"reset", "recover"} : BeginAdmin(kind)
  BY <1>0, <1>5
     DEF BeginAdmin, Starts, Attachment, OnItsWay, AfterConverge, ResetOr, Member,
         judged_detached, recreation_proved
<1>6. CASE PullAdmin
  BY <1>0, <1>6
     DEF PullAdmin, Starts, Attachment, OnItsWay, AfterConverge, ResetOr, Member,
         judged_detached, recreation_proved
<1>7. CASE Pull
  BY <1>0, <1>7
     DEF Pull, Starts, Attachment, OnItsWay, AfterConverge, ResetOr, Member,
         judged_detached, recreation_proved
<1>8. CASE ProbeAdmin
  BY <1>0, <1>8
     DEF ProbeAdmin, Starts, Attachment, OnItsWay, AfterConverge, ResetOr, Member,
         judged_detached, recreation_proved
<1>9. CASE ProbeSocket
  BY <1>0, <1>9
     DEF ProbeSocket, Starts, Attachment, OnItsWay, AfterConverge, ResetOr, Member,
         judged_detached, recreation_proved
<1>10. CASE Admit
  BY <1>0, <1>10
     DEF Admit, Starts, Attachment, OnItsWay, AfterConverge, ResetOr, Member,
         judged_detached, recreation_proved
<1>11. CASE ReplaceFiles
  BY <1>0, <1>11
     DEF ReplaceFiles, Starts, Attachment, OnItsWay, AfterConverge, ResetOr, Member,
         judged_detached, recreation_proved
<1>12. CASE RemoveReplaced
  BY <1>0, <1>12
     DEF RemoveReplaced, Starts, Attachment, OnItsWay, AfterConverge, ResetOr, Member,
         judged_detached, recreation_proved
<1>13. CASE InitRecords
  BY <1>0, <1>13
     DEF InitRecords, Starts, Attachment, OnItsWay, AfterConverge, ResetOr, Member,
         judged_detached, recreation_proved
<1>14. CASE InitReads
  BY <1>0, <1>14
     DEF InitReads, Starts, Attachment, OnItsWay, AfterConverge, ResetOr, Member,
         judged_detached, recreation_proved
<1>15. CASE InitUnseen
  BY <1>0, <1>15
     DEF InitUnseen, Starts, Attachment, OnItsWay, AfterConverge, ResetOr, Member,
         judged_detached, recreation_proved
<1>16. CASE InitJudged
  BY <1>0, <1>16
     DEF InitJudged, Starts, Attachment, OnItsWay, AfterConverge, ResetOr, Member,
         judged_detached, recreation_proved
<1>17. CASE RunInitializer
  BY <1>0, <1>17
     DEF RunInitializer, Starts, Attachment, OnItsWay, AfterConverge, ResetOr, Member,
         judged_detached, recreation_proved
<1>18. CASE InitializerFails
  BY <1>0, <1>18
     DEF InitializerFails, Starts, Attachment, OnItsWay, AfterConverge, ResetOr, Member,
         judged_detached, recreation_proved
<1>19. CASE UpMember
  BY <1>0, <1>19
     DEF UpMember, Starts, Attachment, OnItsWay, AfterConverge, ResetOr, Member,
         judged_detached, recreation_proved
<1>20. CASE Up
  BY <1>0, <1>20, UpMoves
     DEF Attachment, OnItsWay, AfterConverge, ResetOr, Member, judged_detached,
         recreation_proved
<1>21. CASE Judged
  BY <1>0, <1>21
     DEF Judged, Starts, Attachment, OnItsWay, AfterConverge, ResetOr, Member,
         judged_detached, recreation_proved
<1>22. CASE Recreate
  BY <1>0, <1>22
     DEF Recreate, Starts, Attachment, OnItsWay, AfterConverge, ResetOr, Member,
         judged_detached, recreation_proved
<1>23. CASE Prove
  BY <1>0, <1>23
     DEF Prove, Starts, Attachment, OnItsWay, AfterConverge, ResetOr, Member,
         judged_detached, recreation_proved
<1>24. CASE Session
  BY <1>0, <1>24
     DEF Session, Starts, Attachment, OnItsWay, AfterConverge, ResetOr, Member,
         judged_detached, recreation_proved
<1>25. CASE StartTeam
  BY <1>0, <1>25
     DEF StartTeam, Starts, Attachment, OnItsWay, AfterConverge, ResetOr, Member,
         judged_detached, recreation_proved
<1>26. CASE StartAdmin
  BY <1>0, <1>26
     DEF StartAdmin, Starts, Attachment, OnItsWay, AfterConverge, ResetOr, Member,
         judged_detached, recreation_proved
<1>27. CASE Attest
  BY <1>0, <1>27
     DEF Attest, Starts, Attachment, OnItsWay, AfterConverge, ResetOr, Member,
         judged_detached, recreation_proved
<1>28. CASE AskAdmin
  BY <1>0, <1>28
     DEF AskAdmin, Starts, Attachment, OnItsWay, AfterConverge, ResetOr, Member,
         judged_detached, recreation_proved
<1>29. CASE ClearCapability
  BY <1>0, <1>29
     DEF ClearCapability, Starts, Attachment, OnItsWay, AfterConverge, ResetOr, Member,
         judged_detached, recreation_proved
<1>30. CASE StartFails
  BY <1>0, <1>30
     DEF StartFails, Starts, Attachment, OnItsWay, AfterConverge, ResetOr, Member,
         judged_detached, recreation_proved
<1>31. CASE UNCHANGED startVars
  BY <1>0, <1>31
     DEF startVars, Attachment, OnItsWay, AfterConverge, ResetOr, Member, judged_detached,
         recreation_proved
<1> QED
  BY <1>1, <1>2, <1>3, <1>4, <1>5, <1>6, <1>7, <1>8, <1>9, <1>10, <1>11, <1>12, <1>13,
     <1>14, <1>15, <1>16, <1>17, <1>18, <1>19, <1>20, <1>21, <1>22, <1>23, <1>24, <1>25,
     <1>26, <1>27, <1>28, <1>29, <1>30, <1>31
     DEF StartNext, HostStep, ApplyStep, ResetStep

LEMMA CapableKept ==
  ASSUME StInv, [StartNext]_startVars
  PROVE  Capable'
<1> USE DEF StartTo, KeepHost, Ended, NoStart
<1>0. start \in Starts /\ ground \in Grounds /\ OnItsWay /\ Capable
  BY
     DEF StInv, StartTyped, Grounds, Capable, OnItsWay, AfterConverge, ResetOr, Grounds,
         InitHash, capability_reads, completed_init_matches
<1>1. CASE PortChanges
  BY <1>0, <1>1
     DEF PortChanges, Starts, Capable, OnItsWay, AfterConverge, ResetOr, Grounds,
         InitHash, capability_reads, completed_init_matches
<1>2. CASE \E m \in Service : MemberStops(m)
  BY <1>0, <1>2
     DEF MemberStops, Starts, Capable, OnItsWay, AfterConverge, ResetOr, Grounds,
         InitHash, capability_reads, completed_init_matches
<1>3. CASE CapabilityBreaks
  BY <1>0, <1>3
     DEF CapabilityBreaks, Starts, Capable, OnItsWay, AfterConverge, ResetOr, Grounds,
         InitHash, capability_reads, completed_init_matches
<1>4. CASE BeginApply
  BY <1>0, <1>4
     DEF BeginApply, Starts, Capable, OnItsWay, AfterConverge, ResetOr, Grounds, InitHash,
         capability_reads, completed_init_matches
<1>5. CASE \E kind \in {"reset", "recover"} : BeginAdmin(kind)
  BY <1>0, <1>5
     DEF BeginAdmin, Starts, Capable, OnItsWay, AfterConverge, ResetOr, Grounds, InitHash,
         capability_reads, completed_init_matches
<1>6. CASE PullAdmin
  BY <1>0, <1>6
     DEF PullAdmin, Starts, Capable, OnItsWay, AfterConverge, ResetOr, Grounds, InitHash,
         capability_reads, completed_init_matches
<1>7. CASE Pull
  BY <1>0, <1>7
     DEF Pull, Starts, Capable, OnItsWay, AfterConverge, ResetOr, Grounds, InitHash,
         capability_reads, completed_init_matches
<1>8. CASE ProbeAdmin
  BY <1>0, <1>8
     DEF ProbeAdmin, Starts, Capable, OnItsWay, AfterConverge, ResetOr, Grounds, InitHash,
         capability_reads, completed_init_matches
<1>9. CASE ProbeSocket
  BY <1>0, <1>9
     DEF ProbeSocket, Starts, Capable, OnItsWay, AfterConverge, ResetOr, Grounds,
         InitHash, capability_reads, completed_init_matches
<1>10. CASE Admit
  BY <1>0, <1>10
     DEF Admit, Starts, Capable, OnItsWay, AfterConverge, ResetOr, Grounds, InitHash,
         capability_reads, completed_init_matches
<1>11. CASE ReplaceFiles
  BY <1>0, <1>11
     DEF ReplaceFiles, Starts, Capable, OnItsWay, AfterConverge, ResetOr, Grounds,
         InitHash, capability_reads, completed_init_matches
<1>12. CASE RemoveReplaced
  BY <1>0, <1>12
     DEF RemoveReplaced, Starts, Capable, OnItsWay, AfterConverge, ResetOr, Grounds,
         InitHash, capability_reads, completed_init_matches
<1>13. CASE InitRecords
  BY <1>0, <1>13
     DEF InitRecords, Starts, Capable, OnItsWay, AfterConverge, ResetOr, Grounds,
         InitHash, capability_reads, completed_init_matches
<1>14. CASE InitReads
  BY <1>0, <1>14
     DEF InitReads, Starts, Capable, OnItsWay, AfterConverge, ResetOr, Grounds, InitHash,
         capability_reads, completed_init_matches
<1>15. CASE InitUnseen
  BY <1>0, <1>15
     DEF InitUnseen, Starts, Capable, OnItsWay, AfterConverge, ResetOr, Grounds, InitHash,
         capability_reads, completed_init_matches
<1>16. CASE InitJudged
  BY <1>0, <1>16
     DEF InitJudged, Starts, Capable, OnItsWay, AfterConverge, ResetOr, Grounds, InitHash,
         capability_reads, completed_init_matches
<1>17. CASE RunInitializer
  BY <1>0, <1>17
     DEF RunInitializer, Starts, Capable, OnItsWay, AfterConverge, ResetOr, Grounds,
         InitHash, capability_reads, completed_init_matches
<1>18. CASE InitializerFails
  BY <1>0, <1>18
     DEF InitializerFails, Starts, Capable, OnItsWay, AfterConverge, ResetOr, Grounds,
         InitHash, capability_reads, completed_init_matches
<1>19. CASE UpMember
  BY <1>0, <1>19
     DEF UpMember, Starts, Capable, OnItsWay, AfterConverge, ResetOr, Grounds, InitHash,
         capability_reads, completed_init_matches
<1>20. CASE Up
  BY <1>0, <1>20, UpMoves
     DEF Capable, OnItsWay, AfterConverge, ResetOr, Grounds, InitHash, capability_reads,
         completed_init_matches
<1>21. CASE Judged
  BY <1>0, <1>21
     DEF Judged, Starts, Capable, OnItsWay, AfterConverge, ResetOr, Grounds, InitHash,
         capability_reads, completed_init_matches
<1>22. CASE Recreate
  BY <1>0, <1>22
     DEF Recreate, Starts, Capable, OnItsWay, AfterConverge, ResetOr, Grounds, InitHash,
         capability_reads, completed_init_matches
<1>23. CASE Prove
  BY <1>0, <1>23
     DEF Prove, Starts, Capable, OnItsWay, AfterConverge, ResetOr, Grounds, InitHash,
         capability_reads, completed_init_matches
<1>24. CASE Session
  BY <1>0, <1>24
     DEF Session, Starts, Capable, OnItsWay, AfterConverge, ResetOr, Grounds, InitHash,
         capability_reads, completed_init_matches
<1>25. CASE StartTeam
  BY <1>0, <1>25
     DEF StartTeam, Starts, Capable, OnItsWay, AfterConverge, ResetOr, Grounds, InitHash,
         capability_reads, completed_init_matches
<1>26. CASE StartAdmin
  BY <1>0, <1>26
     DEF StartAdmin, Starts, Capable, OnItsWay, AfterConverge, ResetOr, Grounds, InitHash,
         capability_reads, completed_init_matches
<1>27. CASE Attest
  BY <1>0, <1>27
     DEF Attest, Starts, Capable, OnItsWay, AfterConverge, ResetOr, Grounds, InitHash,
         capability_reads, completed_init_matches
<1>28. CASE AskAdmin
  BY <1>0, <1>28
     DEF AskAdmin, Starts, Capable, OnItsWay, AfterConverge, ResetOr, Grounds, InitHash,
         capability_reads, completed_init_matches
<1>29. CASE ClearCapability
  BY <1>0, <1>29
     DEF ClearCapability, Starts, Capable, OnItsWay, AfterConverge, ResetOr, Grounds,
         InitHash, capability_reads, completed_init_matches
<1>30. CASE StartFails
  BY <1>0, <1>30
     DEF StartFails, Starts, Capable, OnItsWay, AfterConverge, ResetOr, Grounds, InitHash,
         capability_reads, completed_init_matches
<1>31. CASE UNCHANGED startVars
  BY <1>0, <1>31
     DEF startVars, Capable, OnItsWay, AfterConverge, ResetOr, Grounds, InitHash,
         capability_reads, completed_init_matches
<1> QED
  BY <1>1, <1>2, <1>3, <1>4, <1>5, <1>6, <1>7, <1>8, <1>9, <1>10, <1>11, <1>12, <1>13,
     <1>14, <1>15, <1>16, <1>17, <1>18, <1>19, <1>20, <1>21, <1>22, <1>23, <1>24, <1>25,
     <1>26, <1>27, <1>28, <1>29, <1>30, <1>31
     DEF StartNext, HostStep, ApplyStep, ResetStep

(* A container that is made is of the installed release; one that is        *)
(* started keeps its image.                                                *)
LEMMA ImagesMove ==
  ASSUME StartTyped, UpMember \/ Recreate \/ StartTeam \/ StartAdmin
  PROVE  /\ ground' = ground
         /\ \A m \in Service :
              members'[m].image \in {members[m].image, ImageOf(m, ground.live)}
<1>0. members \in [Service -> Member]
  BY DEF StartTyped
<1>1. CASE UpMember
  <2>1. start.up \in 1 .. 3 => Services[start.up] \in Service
    BY DEF Services, Service
  <2> QED
    BY <1>0, <1>1, <2>1, MembersMade DEF UpMember
<1>2. CASE Recreate
  BY <1>0, <1>2, MembersMade DEF Recreate
<1>3. CASE StartTeam \/ StartAdmin
  <2>1. PICK m \in {"team", "admin"} :
          ground' = ground /\ (members' = members \/ members' = [members EXCEPT ![m] = DockerStarted(m)])
    BY <1>3 DEF StartTeam, StartAdmin
  <2>2. m \in Service
    BY DEF Service
  <2> QED
    BY <1>0, <2>1, <2>2, MembersMade
<1> QED
  BY <1>1, <1>2, <1>3

LEMMA AdmissionKept ==
  ASSUME StInv, [StartNext]_startVars
  PROVE  Admission'
<1> USE DEF StartTo, KeepHost, Ended, NoStart
<1>0. start \in Starts /\ ground \in Grounds /\ members \in [Service -> Member] /\ OnItsWay /\ Admission
  BY
     DEF StInv, StartTyped, Grounds, Admission, Probed, OnItsWay, AfterConverge, ResetOr,
         Grounds, Member, ImageOf, ChangedAdmin, Usable
<1>1. CASE PortChanges
  BY <1>0, <1>1
     DEF PortChanges, Starts, Admission, Probed, OnItsWay, AfterConverge, ResetOr,
         Grounds, Member, ImageOf, ChangedAdmin, Usable
<1>2. CASE \E m \in Service : MemberStops(m)
  BY <1>0, <1>2
     DEF MemberStops, Starts, Admission, Probed, OnItsWay, AfterConverge, ResetOr,
         Grounds, Member, ImageOf, ChangedAdmin, Usable
<1>3. CASE CapabilityBreaks
  BY <1>0, <1>3
     DEF CapabilityBreaks, Starts, Admission, Probed, OnItsWay, AfterConverge, ResetOr,
         Grounds, Member, ImageOf, ChangedAdmin, Usable
<1>4. CASE BeginApply
  BY <1>0, <1>4
     DEF BeginApply, Starts, Admission, Probed, OnItsWay, AfterConverge, ResetOr, Grounds,
         Member, ImageOf, ChangedAdmin, Usable
<1>5. CASE \E kind \in {"reset", "recover"} : BeginAdmin(kind)
  BY <1>0, <1>5
     DEF BeginAdmin, Starts, Admission, Probed, OnItsWay, AfterConverge, ResetOr, Grounds,
         Member, ImageOf, ChangedAdmin, Usable
<1>6. CASE PullAdmin
  BY <1>0, <1>6
     DEF PullAdmin, Starts, Admission, Probed, OnItsWay, AfterConverge, ResetOr, Grounds,
         Member, ImageOf, ChangedAdmin, Usable
<1>7. CASE Pull
  BY <1>0, <1>7
     DEF Pull, Starts, Admission, Probed, OnItsWay, AfterConverge, ResetOr, Grounds,
         Member, ImageOf, ChangedAdmin, Usable
<1>8. CASE ProbeAdmin
  BY <1>0, <1>8
     DEF ProbeAdmin, Starts, Admission, Probed, OnItsWay, AfterConverge, ResetOr, Grounds,
         Member, ImageOf, ChangedAdmin, Usable
<1>9. CASE ProbeSocket
  BY <1>0, <1>9
     DEF ProbeSocket, Starts, Admission, Probed, OnItsWay, AfterConverge, ResetOr,
         Grounds, Member, ImageOf, ChangedAdmin, Usable
<1>10. CASE Admit
  BY <1>0, <1>10
     DEF Admit, Starts, Admission, Probed, OnItsWay, AfterConverge, ResetOr, Grounds,
         Member, ImageOf, ChangedAdmin, Usable
<1>11. CASE ReplaceFiles
  BY <1>0, <1>11
     DEF ReplaceFiles, Starts, Admission, Probed, OnItsWay, AfterConverge, ResetOr,
         Grounds, Member, ImageOf, ChangedAdmin, Usable
<1>12. CASE RemoveReplaced
  BY <1>0, <1>12
     DEF RemoveReplaced, Starts, Admission, Probed, OnItsWay, AfterConverge, ResetOr,
         Grounds, Member, ImageOf, ChangedAdmin, Usable
<1>13. CASE InitRecords
  BY <1>0, <1>13
     DEF InitRecords, Starts, Admission, Probed, OnItsWay, AfterConverge, ResetOr,
         Grounds, Member, ImageOf, ChangedAdmin, Usable
<1>14. CASE InitReads
  BY <1>0, <1>14
     DEF InitReads, Starts, Admission, Probed, OnItsWay, AfterConverge, ResetOr, Grounds,
         Member, ImageOf, ChangedAdmin, Usable
<1>15. CASE InitUnseen
  BY <1>0, <1>15
     DEF InitUnseen, Starts, Admission, Probed, OnItsWay, AfterConverge, ResetOr, Grounds,
         Member, ImageOf, ChangedAdmin, Usable
<1>16. CASE InitJudged
  BY <1>0, <1>16
     DEF InitJudged, Starts, Admission, Probed, OnItsWay, AfterConverge, ResetOr, Grounds,
         Member, ImageOf, ChangedAdmin, Usable
<1>17. CASE RunInitializer
  BY <1>0, <1>17
     DEF RunInitializer, Starts, Admission, Probed, OnItsWay, AfterConverge, ResetOr,
         Grounds, Member, ImageOf, ChangedAdmin, Usable
<1>18. CASE InitializerFails
  BY <1>0, <1>18
     DEF InitializerFails, Starts, Admission, Probed, OnItsWay, AfterConverge, ResetOr,
         Grounds, Member, ImageOf, ChangedAdmin, Usable
<1>19. CASE UpMember
  <2>1. ground' = ground /\ \A m \in Service :
          members'[m].image \in {members[m].image, ImageOf(m, ground.live)}
    BY <1>19, ImagesMove DEF StInv
  <2>2. /\ start'.auth = "usable" => start.auth = "usable"
        /\ start'.socket = "reached" => start.socket = "reached"
        /\ start'.pc \notin {"admit", "replace"}
    BY <1>0, <1>19 DEF UpMember, ResetOr, Starts
  <2> QED
    BY <1>0, <2>1, <2>2 DEF Admission, Probed, ImageOf, Grounds
<1>20. CASE Up
  BY <1>0, <1>20, UpMoves
     DEF Admission, Probed, OnItsWay, AfterConverge, ResetOr, Grounds, Member, ImageOf,
         ChangedAdmin, Usable
<1>21. CASE Judged
  BY <1>0, <1>21
     DEF Judged, Starts, Admission, Probed, OnItsWay, AfterConverge, ResetOr, Grounds,
         Member, ImageOf, ChangedAdmin, Usable
<1>22. CASE Recreate
  <2>1. ground' = ground /\ \A m \in Service :
          members'[m].image \in {members[m].image, ImageOf(m, ground.live)}
    BY <1>22, ImagesMove DEF StInv
  <2>2. /\ start'.auth = "usable" => start.auth = "usable"
        /\ start'.socket = "reached" => start.socket = "reached"
        /\ start'.pc \notin {"admit", "replace"}
    BY <1>0, <1>22 DEF Recreate, ResetOr, Starts
  <2> QED
    BY <1>0, <2>1, <2>2 DEF Admission, Probed, ImageOf, Grounds
<1>23. CASE Prove
  BY <1>0, <1>23
     DEF Prove, Starts, Admission, Probed, OnItsWay, AfterConverge, ResetOr, Grounds,
         Member, ImageOf, ChangedAdmin, Usable
<1>24. CASE Session
  BY <1>0, <1>24
     DEF Session, Starts, Admission, Probed, OnItsWay, AfterConverge, ResetOr, Grounds,
         Member, ImageOf, ChangedAdmin, Usable
<1>25. CASE StartTeam
  <2>1. ground' = ground /\ \A m \in Service :
          members'[m].image \in {members[m].image, ImageOf(m, ground.live)}
    BY <1>25, ImagesMove DEF StInv
  <2>2. /\ start'.auth = "usable" => start.auth = "usable"
        /\ start'.socket = "reached" => start.socket = "reached"
        /\ start'.pc \notin {"admit", "replace"}
    BY <1>0, <1>25 DEF StartTeam, ResetOr, Starts
  <2> QED
    BY <1>0, <2>1, <2>2 DEF Admission, Probed, ImageOf, Grounds
<1>26. CASE StartAdmin
  <2>1. ground' = ground /\ \A m \in Service :
          members'[m].image \in {members[m].image, ImageOf(m, ground.live)}
    BY <1>26, ImagesMove DEF StInv
  <2>2. /\ start'.auth = "usable" => start.auth = "usable"
        /\ start'.socket = "reached" => start.socket = "reached"
        /\ start'.pc \notin {"admit", "replace"}
    BY <1>0, <1>26 DEF StartAdmin, ResetOr, Starts
  <2> QED
    BY <1>0, <2>1, <2>2 DEF Admission, Probed, ImageOf, Grounds
<1>27. CASE Attest
  BY <1>0, <1>27
     DEF Attest, Starts, Admission, Probed, OnItsWay, AfterConverge, ResetOr, Grounds,
         Member, ImageOf, ChangedAdmin, Usable
<1>28. CASE AskAdmin
  BY <1>0, <1>28
     DEF AskAdmin, Starts, Admission, Probed, OnItsWay, AfterConverge, ResetOr, Grounds,
         Member, ImageOf, ChangedAdmin, Usable
<1>29. CASE ClearCapability
  BY <1>0, <1>29
     DEF ClearCapability, Starts, Admission, Probed, OnItsWay, AfterConverge, ResetOr,
         Grounds, Member, ImageOf, ChangedAdmin, Usable
<1>30. CASE StartFails
  BY <1>0, <1>30
     DEF StartFails, Starts, Admission, Probed, OnItsWay, AfterConverge, ResetOr, Grounds,
         Member, ImageOf, ChangedAdmin, Usable
<1>31. CASE UNCHANGED startVars
  BY <1>0, <1>31
     DEF startVars, Admission, Probed, OnItsWay, AfterConverge, ResetOr, Grounds, Member,
         ImageOf, ChangedAdmin, Usable
<1> QED
  BY <1>1, <1>2, <1>3, <1>4, <1>5, <1>6, <1>7, <1>8, <1>9, <1>10, <1>11, <1>12, <1>13,
     <1>14, <1>15, <1>16, <1>17, <1>18, <1>19, <1>20, <1>21, <1>22, <1>23, <1>24, <1>25,
     <1>26, <1>27, <1>28, <1>29, <1>30, <1>31
     DEF StartNext, HostStep, ApplyStep, ResetStep

LEMMA StartInitially == ASSUME StartInit PROVE StInv
<1> USE DEF StartInit
<1>1. NoStart \in Starts
  BY StartEnds
<1>2. members \in [Service -> Member] /\ \A m \in Service : members[m].image = "old"
  BY DEF Member, Releases
<1>3. ground \in Grounds /\ ground.live = "old" /\ ground.capability = "old"
      /\ ground.exited = "old"
  BY DEF Grounds, Releases
<1> QED
  BY <1>1, <1>2, <1>3
     DEF StInv, StartTyped, OnItsWay, Admission, Probed, Capable, Attachment, NoStart

LEMMA StartInvariant == StartSpec => []StInv
<1>1. ASSUME StInv, [StartNext]_startVars PROVE StInv'
  BY <1>1, MembersKept, GroundKept, StartKept, TriesKept, OnItsWayKept, AdmissionKept,
     CapableKept, AttachmentKept DEF StInv, StartTyped
<1> QED
  BY <1>1, StartInitially, PTL DEF StartSpec

(* However ports are taken and given back, members stop and capabilities    *)
(* break, and whichever images a release changes: when a start is reported, *)
(* and when a reset is asked of Admin, no member runs without its networks  *)
(* or its port; and a start reported as started left a capability of its    *)
(* own configuration (converge, Attest, completed_init_is_current).        *)
THEOREM StartsAsDeclared == StartSpec => []StartedAsDeclared
<1>1. StInv => StartedAsDeclared
  BY DEF StInv, Attachment, Capable, StartedAsDeclared
<1> QED
  BY <1>1, StartInvariant, PTL

(* Whatever the order of downloads and probes: no Admin of a new image that *)
(* cannot read the authentication record, and no Team of a new image that   *)
(* cannot reach Docker, is ever created (download_and_admit_candidate).    *)
THEOREM AdmittedFirst == StartSpec => []AdmittedBeforeTouched
<1>1. StInv => AdmittedBeforeTouched
  BY DEF StInv, Admission, Probed, AdmittedBeforeTouched, Service
<1> QED
  BY <1>1, StartInvariant, PTL

-----------------------------------------------------------------------------
(* OwnedResources. *)

Inventories == [space_id : Spaces, of : SUBSET Objects]

(* What the calls of one inspection have answered.                         *)
Looks == UNION {[D -> SUBSET Objects] : D \in SUBSET Observations}

Owners ==
  [ kind : Kinds \cup {"none"},
    pc : {"idle", "inspect", "ask", "stopTeam", "stopRest", "snapshot", "clear", "remove"},
    round : 0 .. 3, seen : Looks, inventory : Inventories, stopped : Inventories,
    todo : SUBSET Objects, end : {"none", "done", "failed"} ]

ResTyped ==
  /\ docker \in [present : SUBSET Objects, running : SUBSET Objects, env : Spaces]
  /\ docker.running \subseteq docker.present
  /\ owner \in Owners

(* The rounds of inspection each command makes.                            *)
Rounds ==
  /\ owner.end # "none" => owner.pc = "idle"
  /\ owner.pc # "idle" => owner.kind \in Kinds
  /\ owner.pc = "inspect" =>
       /\ owner.round # 0 /\ (owner.kind = "stop" => owner.round <= 2)
  /\ owner.pc = "ask" => owner.round = 1
  /\ owner.pc \in {"stopTeam", "stopRest"} =>
       owner.round = 1 \/ (owner.round = 2 /\ owner.kind = "recreate")
  /\ owner.pc = "remove" => owner.round = 2 /\ owner.kind = "hardReset"
  /\ owner.pc \in {"snapshot", "clear"} => owner.kind # "hardReset"

(* From when on Team may make nothing more.                                *)
Late ==
  \/ owner.pc \in {"stopRest", "snapshot", "clear", "remove"}
  \/ owner.pc \in {"inspect", "stopTeam"} /\ owner.round >= 2
  \/ owner.end = "done"

(* A Team that is there is in every inventory, so that it is stopped; and   *)
(* then what is listed is what there is.                                   *)
Listed ==
  /\ owner.pc = "inspect" /\ "projectContainers" \in DOMAIN owner.seen =>
       docker.present \cap {"team"} \subseteq owner.seen["projectContainers"]
  /\ owner.pc \in {"ask", "stopTeam"} =>
       docker.present \cap {"team"} \subseteq owner.stopped.of
  /\ Late => ~TeamRuns
  /\ owner.pc = "inspect" /\ owner.round >= 2 =>
       \A l \in DOMAIN owner.seen \ {"reserved", "controller"} :
         owner.seen[l] = Answered(l)
  /\ owner.pc = "snapshot" => docker.present \cap OfThisSpace \subseteq owner.stopped.of

(* What is removed was confirmed, and is not labelled for another Space.   *)
Confirmed ==
  owner.pc = "remove" =>
    /\ owner.todo \subseteq owner.inventory.of
    /\ docker.env = "none" \/ \A o \in owner.todo \cap Local : SpaceOf(o) = docker.env

RInv == ResTyped /\ Rounds /\ Listed /\ Confirmed /\ DoneIsTrue

LEMMA NothingSeen == <<>> \in Looks /\ DOMAIN <<>> = {}
<1>1. <<>> \in [{} -> SUBSET Objects]
  OBVIOUS
<1> QED
  BY <1>1 DEF Looks

LEMMA RestingOwners ==
  /\ NoOwner \in Owners
  /\ NoOwner.pc = "idle" /\ NoOwner.end = "none" /\ NoOwner.round = 0
  /\ \A how \in {"done", "failed"} :
       ResTyped => /\ OwnerEnds(how) \in Owners /\ OwnerEnds(how).pc = "idle"
                   /\ OwnerEnds(how).end = how /\ OwnerEnds(how).kind = owner.kind
<1>1. NoInventory \in Inventories /\ 0 \in 0 .. 3
  BY DEF NoInventory, Inventories, Spaces
<1>2. NoOwner \in Owners
  BY <1>1, NothingSeen DEF NoOwner, Owners
<1>3. ASSUME NEW how \in {"done", "failed"}, ResTyped
      PROVE  /\ OwnerEnds(how) \in Owners /\ OwnerEnds(how).pc = "idle"
             /\ OwnerEnds(how).end = how /\ OwnerEnds(how).kind = owner.kind
  <2>1. owner.kind \in Kinds \cup {"none"}
    BY <1>3 DEF ResTyped, Owners
  <2>2. NoOwner.pc = "idle"
    BY DEF NoOwner
  <2>3. OwnerEnds(how) = [NoOwner EXCEPT !.kind = owner.kind, !.end = how]
    BY DEF OwnerEnds
  <2> QED
    BY <1>2, <2>1, <2>2, <2>3 DEF Owners
<1> QED
  BY <1>2, <1>3 DEF NoOwner

LEMMA InspectingOwners ==
  ASSUME NEW c \in Owners, c.round < 3
  PROVE  /\ Inspecting(c) \in Owners
         /\ Inspecting(c).pc = "inspect" /\ Inspecting(c).round = c.round + 1
         /\ Inspecting(c).kind = c.kind /\ Inspecting(c).end = c.end
         /\ Inspecting(c).seen = <<>>
<1>1. c.round + 1 \in 0 .. 3
  BY DEF Owners
<1> DEFINE n == c.round + 1
<1>2. Inspecting(c) = [c EXCEPT !.pc = "inspect", !.round = n, !.seen = <<>>]
  BY DEF Inspecting
<1> HIDE DEF n
<1>3. n \in 0 .. 3
  BY <1>1 DEF n
<1>4. [c EXCEPT !.pc = "inspect", !.round = n] \in Owners
  BY <1>3 DEF Owners
<1>5. ASSUME NEW o \in Owners PROVE [o EXCEPT !.seen = <<>>] \in Owners
  BY NothingSeen DEF Owners
<1>6. Inspecting(c) \in Owners
  BY <1>2, <1>4, <1>5
<1> QED
  BY <1>2, <1>6 DEF Owners, n

(* A recount of what was listed, once every call has answered.             *)
LEMMA InventoryTyped ==
  ASSUME ResTyped, DOMAIN owner.seen = Observations
  PROVE  [space_id |-> SpaceId, of |-> ListedObjects] \in Inventories
<1>1. owner.seen \in Looks /\ docker.env \in Spaces
  BY DEF ResTyped, Owners
<1>2. ListedObjects \subseteq Objects
  BY <1>1 DEF Looks, ListedObjects
<1>3. SpaceId \in Spaces
  BY <1>1 DEF SpaceId, Spaces
<1> QED
  BY <1>2, <1>3 DEF Inventories

(* What is done with an inventory, in each round of each command.          *)
LEMMA JudgeMoves ==
  ASSUME ResTyped, Rounds, Judge
  PROVE  LET inv == [space_id |-> SpaceId, of |-> ListedObjects] IN
         /\ docker' = docker /\ owner' \in Owners
         /\ owner.pc = "inspect" /\ DOMAIN owner.seen = Observations
         /\ \/ owner' = OwnerEnds("failed")
            \/ /\ Admitted /\ owner.round = 1
               /\ owner'.pc \in {"ask", "stopTeam"}
               /\ owner'.inventory = inv /\ owner'.stopped = inv
               /\ owner'.round = 1 /\ owner'.kind = owner.kind /\ owner'.end = "none"
            \/ /\ Admitted /\ owner.round >= 2 /\ owner'.stopped = inv
               /\ owner.kind # "hardReset"
               /\ \/ owner'.pc = "snapshot"
                  \/ owner'.pc = "stopTeam" /\ owner.round = 2 /\ owner.kind = "recreate"
               /\ owner'.round = owner.round /\ owner'.kind = owner.kind
               /\ owner'.end = "none"
            \/ /\ Admitted /\ owner.round = 2 /\ owner.kind = "hardReset"
               /\ inv = owner.inventory
               /\ owner'.pc = "remove" /\ owner'.todo = inv.of
               /\ owner'.inventory = owner.inventory
               /\ owner'.round = 2 /\ owner'.kind = "hardReset" /\ owner'.end = "none"
            \/ /\ owner.kind = "hardReset" /\ owner.round >= 2 /\ inv.of = {}
               /\ owner' = OwnerEnds("done")
<1> DEFINE inv == [space_id |-> SpaceId, of |-> ListedObjects]
           first  == [owner EXCEPT !.inventory = inv, !.stopped = inv, !.seen = <<>>]
           second == [owner EXCEPT !.stopped = inv, !.seen = <<>>]
<1>1. /\ owner \in Owners /\ owner.pc = "inspect" /\ DOMAIN owner.seen = Observations
      /\ docker' = docker /\ owner.end = "none" /\ owner.kind \in Kinds
      /\ owner.round \in 1 .. 3 /\ (owner.kind = "stop" => owner.round <= 2)
      /\ owner' = IF Admitted THEN AfterInventory(inv) ELSE OwnerEnds("failed")
  BY DEF Judge, OwnerTo, Rounds, ResTyped, Owners
<1>2. inv \in Inventories /\ inv.of = ListedObjects
  BY <1>1, InventoryTyped
<1>3. AfterInventory(inv) =
        CASE owner.round = 1 ->
               [first EXCEPT !.pc = IF owner.kind = "hardReset" THEN "ask" ELSE "stopTeam"]
          [] owner.round > 1 /\ owner.kind = "stop" -> [second EXCEPT !.pc = "snapshot"]
          [] owner.round > 1 /\ owner.kind = "recreate" ->
               [second EXCEPT !.pc = IF owner.round = 2 THEN "stopTeam" ELSE "snapshot"]
          [] owner.round = 2 /\ owner.kind = "hardReset" ->
               IF inv = owner.inventory
                 THEN [second EXCEPT !.pc = "remove", !.todo = inv.of]
                 ELSE OwnerEnds("failed")
          [] OTHER -> OwnerEnds(IF inv.of = {} THEN "done" ELSE "failed")
  BY DEF AfterInventory, same_targets
<1> HIDE DEF inv
<1>4. /\ first \in Owners /\ first.inventory = inv /\ first.stopped = inv
      /\ first.round = owner.round /\ first.kind = owner.kind /\ first.end = owner.end
      /\ second \in Owners /\ second.inventory = owner.inventory /\ second.stopped = inv
      /\ second.round = owner.round /\ second.kind = owner.kind /\ second.end = owner.end
  <2>1. ASSUME NEW o \in Owners PROVE [o EXCEPT !.seen = <<>>] \in Owners
    BY NothingSeen DEF Owners
  <2>2. [owner EXCEPT !.stopped = inv] \in Owners
        /\ [owner EXCEPT !.inventory = inv, !.stopped = inv] \in Owners
    BY <1>1, <1>2 DEF Owners
  <2>3. first \in Owners /\ second \in Owners
    BY <2>1, <2>2
  <2> QED
    BY <1>1, <2>3 DEF Owners
<1> HIDE DEF first, second
<1>5. CASE ~Admitted
  BY <1>1, <1>5, RestingOwners DEF inv
<1>6. CASE Admitted /\ owner.round = 1
  <2>1. PICK to \in {"ask", "stopTeam"} : owner' = [first EXCEPT !.pc = to]
    BY <1>1, <1>3, <1>6
  <2> QED
    BY <1>1, <1>4, <1>6, <2>1 DEF Owners, inv
<1>7. CASE Admitted /\ owner.round >= 2 /\ owner.kind = "stop"
  <2>1. owner' = [second EXCEPT !.pc = "snapshot"]
    BY <1>1, <1>3, <1>7
  <2> QED
    BY <1>1, <1>4, <1>7, <2>1 DEF Owners, inv
<1>8. CASE Admitted /\ owner.round >= 2 /\ owner.kind = "recreate"
  <2>1. PICK to \in {"stopTeam", "snapshot"} :
          /\ owner' = [second EXCEPT !.pc = to]
          /\ to = "stopTeam" => owner.round = 2
    BY <1>1, <1>3, <1>8
  <2> QED
    BY <1>1, <1>4, <1>8, <2>1 DEF Owners, inv
<1>9. CASE Admitted /\ owner.round = 2 /\ owner.kind = "hardReset"
  <2>1. CASE inv = owner.inventory
    <3>1. owner' = [second EXCEPT !.pc = "remove", !.todo = inv.of]
      BY <1>1, <1>3, <1>9, <2>1
    <3>2. inv.of \in SUBSET Objects
      BY <1>2 DEF Inventories
    <3>3. owner' \in Owners /\ owner'.pc = "remove" /\ owner'.todo = inv.of
          /\ owner'.inventory = owner.inventory /\ owner'.round = owner.round
          /\ owner'.kind = owner.kind /\ owner'.end = owner.end
      BY <1>4, <3>1, <3>2 DEF Owners
    <3> QED
      BY <1>1, <1>9, <2>1, <3>3 DEF inv
  <2>2. CASE inv # owner.inventory
    BY <1>1, <1>3, <1>9, <2>2, RestingOwners DEF inv
  <2> QED
    BY <2>1, <2>2
<1>10. CASE Admitted /\ owner.round = 3 /\ owner.kind = "hardReset"
  <2>1. owner' = OwnerEnds(IF inv.of = {} THEN "done" ELSE "failed")
    BY <1>1, <1>3, <1>10
  <2> QED
    BY <1>1, <1>10, <2>1, RestingOwners DEF inv
<1> QED
  BY <1>1, <1>5, <1>6, <1>7, <1>8, <1>9, <1>10 DEF Kinds

(* The calls of one inspection answer together or one by one. *)
LEMMA ObservedMoves ==
  ASSUME ResTyped, ObserveFixed \/ \E l \in Observations : Observe(l)
  PROVE  /\ docker' = docker /\ owner.pc = "inspect" /\ owner'.seen \in Looks
         /\ owner' = [owner EXCEPT !.seen = owner'.seen]
         /\ \A l \in DOMAIN owner'.seen :
              \/ l \in DOMAIN owner.seen /\ owner'.seen[l] = owner.seen[l]
              \/ l \in {"reserved", "controller"}
              \/ owner'.seen[l] = Answered(l)
<1>1. PICK ls \in SUBSET Observations, failing \in SUBSET {"reserved", "controller"} :
        Observed(ls, failing)
  BY DEF ObserveFixed, Observe
<1> DEFINE seen == [l \in DOMAIN owner.seen \cup ls |->
                      IF l \in DOMAIN owner.seen THEN owner.seen[l]
                      ELSE IF l \in failing THEN {} ELSE Answered(l)]
<1>2. /\ docker' = docker /\ owner.pc = "inspect"
      /\ owner' = [owner EXCEPT !.seen = seen]
  BY <1>1 DEF Observed, OwnerTo
<1>3. owner \in Owners /\ owner.seen \in Looks /\ docker.present \in SUBSET Objects
  BY DEF ResTyped, Owners
<1>4. seen \in Looks
  <2>1. DOMAIN owner.seen \cup ls \in SUBSET Observations
    BY <1>3 DEF Looks
  <2>2. \A l \in DOMAIN owner.seen : owner.seen[l] \in SUBSET Objects
    BY <1>3 DEF Looks
  <2>3. \A l \in Observations : Answered(l) \in SUBSET Objects
    BY <1>3 DEF Answered
  <2>4. seen \in [DOMAIN owner.seen \cup ls -> SUBSET Objects]
    BY <2>1, <2>2, <2>3
  <2> HIDE DEF seen
  <2> QED
    BY <2>1, <2>4 DEF Looks
<1>5. \A l \in DOMAIN seen :
        \/ l \in DOMAIN owner.seen /\ seen[l] = owner.seen[l]
        \/ l \in {"reserved", "controller"}
        \/ seen[l] = Answered(l)
  OBVIOUS
<1> HIDE DEF seen
<1>6. owner'.seen = seen
  BY <1>2, <1>3 DEF Owners
<1> QED
  BY <1>2, <1>4, <1>5, <1>6

LEMMA DockerTyped ==
  ASSUME ResTyped, ResourceNext \/ UNCHANGED resourceVars
  PROVE  /\ docker' \in [present : SUBSET Objects, running : SUBSET Objects, env : Spaces]
         /\ docker'.running \subseteq docker'.present /\ docker'.env = docker.env
<1> DEFINE Typed == [present : SUBSET Objects, running : SUBSET Objects, env : Spaces]
<1>0. docker \in Typed /\ docker.running \subseteq docker.present
  BY DEF ResTyped
<1>2. CASE StopTeam \/ StopRest \/ StopBreaks
  <2>1. PICK r \in SUBSET docker.running : docker' = [docker EXCEPT !.running = r]
    <3>1. \A some : docker.running \ some \in SUBSET docker.running
      OBVIOUS
    <3> QED
      BY <1>2, <3>1 DEF StopTeam, StopRest, StopBreaks
  <2> QED
    BY <1>0, <2>1
<1>3. CASE \E o \in OfThisSpace \cup {"visitor"} : RemoveOwned(o)
  BY ZenonT(60), <1>0, <1>3 DEF RemoveOwned
<1>4. CASE StartSpace
  <2>1. docker' = [docker EXCEPT !.running = docker.running \cup (Members \cap docker.present)]
    BY <1>4 DEF StartSpace
  <2> QED
    BY <1>0, <2>1
<1>5. CASE TeamStep
  <2>1. CASE TeamConnects
    <3>1. docker' = [docker EXCEPT !.present = docker.present \cup {"teamnet"}]
          /\ "teamnet" \in Objects
      BY <2>1 DEF TeamConnects, Objects, Networks
    <3> QED
      BY <1>0, <3>1
  <2>2. ASSUME NEW a \in Assistants, TeamStarts(a)
        PROVE  docker' \in Typed /\ docker'.running \subseteq docker'.present
               /\ docker'.env = docker.env
    <3>1. docker' = [docker EXCEPT !.present = docker.present \cup {a},
                                   !.running = docker.running \cup {a}]
          /\ a \in Objects
      BY <2>2 DEF TeamStarts, Objects, Containers
    <3> QED
      BY <1>0, <3>1
  <2>3. ASSUME NEW a \in Assistants, TeamRemoves(a)
        PROVE  docker' \in Typed /\ docker'.running \subseteq docker'.present
               /\ docker'.env = docker.env
    BY <1>0, <2>3 DEF TeamRemoves
  <2> QED
    BY <1>5, <2>1, <2>2, <2>3 DEF TeamStep
<1>6. CASE docker' = docker
  BY <1>0, <1>6
<1> QED
  BY <1>2, <1>3, <1>4, <1>5, <1>6
     DEF ResourceNext, OwnerStep, resourceVars, BeginOwned, ObserveFixed, Observe, Observed,
         Judge, Confirm, Decline, Snapshot, ClearRuntime, Removed, OwnerFails, OwnerTo

(* What each step makes of the owner. *)
LEMMA OwnerTyped ==
  ASSUME ResTyped, Rounds, ResourceNext \/ UNCHANGED resourceVars
  PROVE  owner' \in Owners
<1>0. owner \in Owners
  BY DEF ResTyped
<1>1. CASE UNCHANGED owner
  BY <1>0, <1>1
<1>2. CASE StartSpace \/ Decline \/ OwnerFails \/ StopBreaks
  BY <1>2, RestingOwners DEF StartSpace, Decline, OwnerFails, StopBreaks, OwnerTo
<1>3. ASSUME NEW kind \in Kinds, BeginOwned(kind) PROVE owner' \in Owners
  <2> DEFINE new == [NoOwner EXCEPT !.kind = kind]
  <2>1. new \in Owners /\ new.round = 0 /\ owner' = Inspecting(new)
    BY <1>3, RestingOwners DEF Owners, BeginOwned, OwnerTo
  <2> HIDE DEF new
  <2>2. new.round < 3
    BY <2>1
  <2> QED
    BY <2>1, <2>2, InspectingOwners
<1>4. CASE ObserveFixed \/ \E l \in Observations : Observe(l)
  BY <1>0, <1>4, ObservedMoves DEF Owners
<1>5. CASE Judge
  BY <1>5, JudgeMoves
<1>6. CASE Confirm
  <2>1. owner' = OwnerEnds("failed") \/ owner' = [owner EXCEPT !.pc = "stopTeam"]
    BY <1>6 DEF Confirm, OwnerTo
  <2> QED
    BY <1>0, <2>1, RestingOwners DEF Owners
<1>7. CASE StopTeam
  BY <1>0, <1>7 DEF StopTeam, Owners
<1>8. CASE StopRest \/ Removed
  <2>1. owner' = Inspecting(owner) /\ owner.round < 3
    BY <1>8 DEF StopRest, Removed, Rounds, OwnerTo
  <2> QED
    BY <1>0, <2>1, InspectingOwners
<1>9. CASE Snapshot \/ ClearRuntime
  <2>1. \/ owner' = OwnerEnds("failed") \/ owner' = OwnerEnds("done")
        \/ owner' = [owner EXCEPT !.pc = "clear"]
    BY <1>9 DEF Snapshot, ClearRuntime, OwnerTo
  <2> QED
    BY <1>0, <2>1, RestingOwners DEF Owners
<1>10. CASE \E o \in OfThisSpace \cup {"visitor"} : RemoveOwned(o)
  <2>1. PICK todo \in SUBSET owner.todo : owner' = [owner EXCEPT !.todo = todo]
    BY <1>10 DEF RemoveOwned
  <2>2. todo \in SUBSET Objects
    BY <1>0 DEF Owners
  <2> QED
    BY <1>0, <2>1, <2>2 DEF Owners
<1> QED
  BY <1>1, <1>2, <1>3, <1>4, <1>5, <1>6, <1>7, <1>8, <1>9, <1>10
     DEF ResourceNext, OwnerStep, TeamStep, resourceVars

(* What Team, when it is not running, leaves alone. *)
LEMMA TeamMoves ==
  ASSUME ResTyped, TeamStep
  PROVE  /\ TeamRuns /\ owner' = owner
         /\ docker'.present \cap {"team"} \subseteq docker.present
<1>1. "team" \in docker.running => "team" \in docker.present
  BY DEF ResTyped
<1> QED
  BY <1>1 DEF TeamStep, TeamConnects, TeamStarts, TeamRemoves, TeamRuns

(* Everything of this Space is selected by some call that cannot pass for   *)
(* an answer that nothing is there.                                        *)
LEMMA AllIsSelected ==
  OfThisSpace \subseteq
    UNION {Selected[l] : l \in Observations \ {"reserved", "controller"}}
<1>1. {"projectContainers", "projectVolumes", "projectNetworks", "localContainers",
       "localNetworks"} \subseteq Observations \ {"reserved", "controller"}
  BY DEF Observations, Selected
<1>2. /\ Selected["projectContainers"] = Members \cup {"stranger"}
      /\ Selected["projectVolumes"] = {"data"}
      /\ Selected["projectNetworks"] = {"control"}
      /\ Selected["localContainers"] = {"proxy", "visitor"} \cup Assistants
      /\ Selected["localNetworks"] = {"teamnet"}
  BY DEF Selected
<1>3. OfThisSpace \subseteq Members \cup Assistants \cup Networks \cup {"data"}
  BY DEF OfThisSpace, Objects, Containers
<1> QED
  BY <1>1, <1>2, <1>3 DEF Networks

LEMMA ListedIsAll ==
  ASSUME \A l \in Observations \ {"reserved", "controller"} : owner.seen[l] = Answered(l)
  PROVE  docker.present \cap OfThisSpace \subseteq ListedObjects
<1>1. SUFFICES ASSUME NEW o \in docker.present \cap OfThisSpace PROVE o \in ListedObjects
  OBVIOUS
<1>2. PICK l \in Observations \ {"reserved", "controller"} : o \in Selected[l]
  BY <1>1, AllIsSelected
<1>3. o \in owner.seen[l]
  BY <1>1, <1>2 DEF Answered
<1> QED
  BY <1>2, <1>3 DEF ListedObjects

LEMMA ResourceStep ==
  ASSUME RInv, ResourceNext
  PROVE  (Rounds /\ Listed /\ Confirmed /\ DoneIsTrue)'
<1>0. ResTyped /\ Rounds /\ Listed /\ Confirmed /\ DoneIsTrue /\ owner \in Owners
      /\ owner.round \in 0 .. 3
  BY DEF RInv, ResTyped, Owners
<1> USE DEF Rounds, Listed, Confirmed, DoneIsTrue, Late, TeamRuns, Answered
<1>e. ASSUME owner' = OwnerEnds("failed") \/ owner' = NoOwner
      PROVE  (Rounds /\ Listed /\ Confirmed /\ DoneIsTrue)'
  BY <1>0, <1>e, RestingOwners
<1>1. CASE TeamStep
  BY <1>0, <1>1, TeamMoves, DockerTyped DEF ResourceNext
<1>2. CASE StartSpace \/ Decline \/ OwnerFails \/ StopBreaks
  BY <1>2, <1>e DEF StartSpace, Decline, OwnerFails, StopBreaks, OwnerTo
<1>3. ASSUME NEW kind \in Kinds, BeginOwned(kind)
      PROVE  (Rounds /\ Listed /\ Confirmed /\ DoneIsTrue)'
  <2> DEFINE new == [NoOwner EXCEPT !.kind = kind]
  <2>1. new \in Owners /\ new.round = 0 /\ new.kind = kind /\ new.end = "none"
        /\ owner' = Inspecting(new) /\ docker' = docker
    BY <1>3, RestingOwners DEF Owners, BeginOwned, OwnerTo
  <2> HIDE DEF new
  <2>2. new.round < 3
    BY <2>1
  <2>3. /\ owner'.pc = "inspect" /\ owner'.round = 1 /\ owner'.kind = kind
        /\ owner'.end = "none" /\ owner'.seen = <<>>
    BY <2>1, <2>2, InspectingOwners
  <2> QED
    BY <2>1, <2>3, NothingSeen
<1>4. CASE ObserveFixed \/ \E l \in Observations : Observe(l)
  <2>1. /\ owner'.pc = "inspect" /\ owner'.round = owner.round /\ owner'.kind = owner.kind
        /\ owner'.end = owner.end /\ docker' = docker /\ owner.pc = "inspect"
    BY <1>0, <1>4, ObservedMoves DEF Owners
  <2>2. \A l \in DOMAIN owner'.seen :
              \/ l \in DOMAIN owner.seen /\ owner'.seen[l] = owner.seen[l]
              \/ l \in {"reserved", "controller"}
              \/ owner'.seen[l] = Answered(l)
    BY <1>0, <1>4, ObservedMoves
  <2>3. "team" \in Selected["projectContainers"]
    BY DEF Selected, Members
  <2> QED
    BY <1>0, <2>1, <2>2, <2>3
<1>5. CASE Judge
  <2> DEFINE inv == [space_id |-> SpaceId, of |-> ListedObjects]
  <2>1. /\ docker' = docker /\ owner.pc = "inspect" /\ DOMAIN owner.seen = Observations
        /\ "projectContainers" \in Observations
    BY <1>0, <1>5, JudgeMoves DEF Observations, Selected
  <2>2. docker.present \cap {"team"} \subseteq ListedObjects
    BY <1>0, <2>1 DEF ListedObjects
  <2>3. owner.round >= 2 => docker.present \cap OfThisSpace \subseteq ListedObjects
    BY <1>0, <2>1, ListedIsAll
  <2>4. inv.of = ListedObjects
    OBVIOUS
  <2>5. ASSUME Admitted PROVE
          docker.env = "none" \/ \A o \in ListedObjects \cap Local : SpaceOf(o) = docker.env
    BY <2>5 DEF Admitted, SpaceId
  <2> HIDE DEF inv
  <2>6. CASE owner' = OwnerEnds("failed")
    BY <2>6, <1>e
  <2>7. CASE owner' = OwnerEnds("done")
    <3>1. owner.kind = "hardReset" /\ owner.round >= 2 /\ inv.of = {}
      BY <1>0, <1>5, <2>7, JudgeMoves, RestingOwners DEF inv
    <3> QED
      BY <1>0, <2>1, <2>3, <2>4, <2>7, <3>1, RestingOwners
  <2>8. CASE owner' # OwnerEnds("failed") /\ owner' # OwnerEnds("done")
    <3>1. \/ /\ owner.round = 1 /\ owner'.pc \in {"ask", "stopTeam"}
             /\ owner'.stopped = inv
             /\ owner'.round = 1 /\ owner'.kind = owner.kind /\ owner'.end = "none"
          \/ /\ owner.round >= 2 /\ owner'.stopped = inv /\ owner.kind # "hardReset"
             /\ \/ owner'.pc = "snapshot"
                \/ owner'.pc = "stopTeam" /\ owner.round = 2 /\ owner.kind = "recreate"
             /\ owner'.round = owner.round /\ owner'.kind = owner.kind
             /\ owner'.end = "none"
          \/ /\ Admitted /\ owner.round = 2 /\ owner.kind = "hardReset"
             /\ inv = owner.inventory
             /\ owner'.pc = "remove" /\ owner'.todo = inv.of
             /\ owner'.inventory = owner.inventory
             /\ owner'.round = 2 /\ owner'.kind = "hardReset" /\ owner'.end = "none"
      BY <1>0, <1>5, <2>8, JudgeMoves DEF inv
    <3> QED
      BY <1>0, <2>1, <2>2, <2>3, <2>4, <2>5, <3>1
  <2> QED
    BY <2>6, <2>7, <2>8
<1>6. CASE Confirm
  <2>1. CASE owner' = OwnerEnds("failed")
    BY <2>1, <1>e
  <2>2. CASE owner' = [owner EXCEPT !.pc = "stopTeam"]
    BY <1>0, <1>6, <2>2 DEF Confirm, OwnerTo, Owners
  <2> QED
    BY <1>6, <2>1, <2>2 DEF Confirm, OwnerTo
<1>7. CASE StopTeam
  <2>1. /\ owner.pc = "stopTeam" /\ owner'.pc = "stopRest" /\ owner'.round = owner.round
        /\ owner'.kind = owner.kind /\ owner'.end = owner.end
    BY <1>0, <1>7 DEF StopTeam, Owners
  <2>2. docker'.running = docker.running \ (owner.stopped.of \cap {"team"})
    BY <1>0, <1>7 DEF StopTeam, ResTyped
  <2>3. "team" \notin docker'.running
    BY <1>0, <2>1, <2>2 DEF ResTyped
  <2> QED
    BY <1>0, <2>1, <2>3
<1>8. CASE StopRest \/ Removed
  <2>1. /\ owner' = Inspecting(owner) /\ owner.round < 3 /\ "team" \notin docker.running
        /\ docker'.running \subseteq docker.running /\ owner.pc # "idle"
        /\ owner.round >= 1 /\ (owner.kind = "stop" => owner.round = 1)
    BY <1>0, <1>8 DEF StopRest, Removed, OwnerTo, ResTyped
  <2>2. /\ owner'.pc = "inspect" /\ owner'.round = owner.round + 1 /\ owner'.kind = owner.kind
        /\ owner'.end = owner.end /\ owner'.seen = <<>>
    BY <1>0, <2>1, InspectingOwners
  <2> QED
    BY <1>0, <2>1, <2>2, NothingSeen
<1>9. CASE Snapshot \/ ClearRuntime
  <2>1. CASE owner' = OwnerEnds("failed")
    BY <2>1, <1>e
  <2>2. CASE owner' # OwnerEnds("failed")
    <3>1. /\ docker' = docker /\ "team" \notin docker.running
          /\ docker.running \cap OfThisSpace = {}
          /\ owner.kind # "hardReset" /\ owner.pc \in {"snapshot", "clear"}
      BY <1>0, <1>9, <2>2 DEF Snapshot, ClearRuntime, OwnerTo, fully_stopped, ResTyped
    <3> QED
      BY <1>0, <1>9, <2>2, <3>1, RestingOwners DEF Snapshot, ClearRuntime, OwnerTo, Owners
  <2> QED
    BY <2>1, <2>2
<1>10. CASE \E o \in OfThisSpace \cup {"visitor"} : RemoveOwned(o)
  <2>1. /\ owner.pc = "remove" /\ owner'.pc = "remove" /\ owner'.todo \subseteq owner.todo
        /\ owner'.inventory = owner.inventory /\ owner'.round = owner.round
        /\ owner'.kind = owner.kind /\ owner'.end = owner.end
        /\ docker'.env = docker.env /\ docker'.running \subseteq docker.running
    BY <1>0, <1>10 DEF RemoveOwned, ResTyped, Owners
  <2> QED
    BY <1>0, <2>1
<1> QED
  BY <1>1, <1>2, <1>3, <1>4, <1>5, <1>6, <1>7, <1>8, <1>9, <1>10
     DEF ResourceNext, OwnerStep

LEMMA ResourceInitially == ASSUME ResourceInit PROVE RInv
<1>1. owner = NoOwner /\ docker.running \subseteq docker.present
      /\ docker \in [present : SUBSET Objects, running : SUBSET Objects, env : Spaces]
  <2>1. PICK strays \in {{}} \cup {{o} : o \in Strays}, env \in Spaces,
             gone \in SUBSET {"admin", "proxy"} :
          /\ docker = [ present |-> (Members \ gone) \cup {"control", "data"} \cup strays,
                        running |-> (Members \ gone) \cup strays, env |-> env ]
          /\ owner = NoOwner
    BY DEF ResourceInit
  <2>2. strays \subseteq Strays /\ {"control", "data"} \subseteq Objects
        /\ Members \subseteq Objects /\ Strays \subseteq Objects
    BY DEF Objects, Networks, Containers
  <2> QED
    BY <2>1, <2>2
<1> QED
  BY <1>1, RestingOwners
     DEF RInv, ResTyped, Rounds, Listed, Confirmed, DoneIsTrue, Late

LEMMA ResourceInvariant == ResourceSpec => []RInv
<1>1. ASSUME RInv, [ResourceNext]_resourceVars PROVE RInv'
  <2>1. ResTyped'
    BY <1>1, DockerTyped, OwnerTyped DEF RInv, ResTyped
  <2>2. CASE ResourceNext
    BY <1>1, <2>1, <2>2, ResourceStep DEF RInv
  <2>3. CASE UNCHANGED resourceVars
    BY <1>1, <2>3 DEF resourceVars, RInv, ResTyped, Rounds, Listed, Confirmed, DoneIsTrue,
                      Late, TeamRuns, Answered
  <2> QED
    BY <1>1, <2>2, <2>3
<1> QED
  BY <1>1, ResourceInitially, PTL DEF ResourceSpec

(* Every call lists what it selects, only containers run, and only a       *)
(* removal has things to do, all of them in its inventory.                 *)
Selecting(o) ==
  /\ \A l \in DOMAIN o.seen : o.seen[l] \subseteq Selected[l]
  /\ o.pc = "remove" => o.todo \subseteq o.stopped.of
  /\ o.pc # "remove" => o.todo = {}

Selects == docker.running \subseteq Containers /\ Selecting(owner)

LEMMA RunningKept ==
  ASSUME ResTyped, Selects, ResourceNext
  PROVE  docker'.running \subseteq Containers
<1>0. /\ docker \in [present : SUBSET Objects, running : SUBSET Objects, env : Spaces]
      /\ docker.running \subseteq Containers /\ Members \cup Assistants \subseteq Containers
  BY DEF ResTyped, Selects, Containers
<1>1. CASE StopTeam \/ StopRest \/ StopBreaks
  BY <1>0, <1>1 DEF StopTeam, StopRest, StopBreaks
<1>2. CASE \E o \in OfThisSpace \cup {"visitor"} : RemoveOwned(o)
  BY <1>0, <1>2 DEF RemoveOwned
<1>3. CASE StartSpace
  BY <1>0, <1>3 DEF StartSpace
<1>4. CASE TeamStep
  BY <1>0, <1>4 DEF TeamStep, TeamConnects, TeamStarts, TeamRemoves
<1>5. CASE docker' = docker
  BY <1>0, <1>5
<1> QED
  BY <1>1, <1>2, <1>3, <1>4, <1>5
     DEF ResourceNext, OwnerStep, BeginOwned, ObserveFixed, Observe, Observed,
         Judge, Confirm, Decline, Snapshot, ClearRuntime, Removed, OwnerFails, OwnerTo

LEMMA SelectsKept ==
  ASSUME RInv, Selects, [ResourceNext]_resourceVars
  PROVE  Selects'
<1>0. ResTyped /\ Rounds /\ owner \in Owners
  BY DEF RInv, ResTyped
<1>1. Selecting(owner)
  BY DEF Selects
<1>2. ASSUME NEW c, c.seen = <<>>, c.todo = {} PROVE Selecting(c)
  BY <1>2, NothingSeen DEF Selecting
<1>t. owner.pc # "remove" => owner.todo = {}
  BY <1>1 DEF Selecting
<1>3. ASSUME NEW c \in Owners, c.todo = {}, c.round < 3
      PROVE  Selecting(Inspecting(c))
  <2>1. Inspecting(c).todo = {}
    BY <1>3 DEF Inspecting, Owners
  <2> QED
    BY <1>2, <1>3, <2>1, InspectingOwners
<1>4. NoOwner \in Owners /\ NoOwner.todo = {} /\ Selecting(NoOwner)
  BY <1>2, RestingOwners DEF NoOwner
<1>5. ASSUME NEW how \in {"done", "failed"} PROVE Selecting(OwnerEnds(how))
  <2>1. OwnerEnds(how).seen = <<>> /\ OwnerEnds(how).todo = {}
    BY DEF OwnerEnds, NoOwner
  <2> QED
    BY <1>0, <1>2, <2>1, RestingOwners
<1>6. ASSUME ResourceNext PROVE Selecting(owner')
  <2>1. CASE owner' = owner \/ owner' = NoOwner \/ \E how \in {"done", "failed"} : owner' = OwnerEnds(how)
    BY <1>1, <1>4, <1>5, <2>1
  <2>2. ASSUME NEW kind \in Kinds, BeginOwned(kind) PROVE Selecting(owner')
    <3> DEFINE new == [NoOwner EXCEPT !.kind = kind]
    <3>1. new \in Owners /\ new.round = 0 /\ new.todo = {} /\ owner' = Inspecting(new)
      BY <1>4, <2>2, RestingOwners DEF Owners, BeginOwned, OwnerTo
    <3> HIDE DEF new
    <3>2. new.round < 3
      BY <3>1
    <3> QED
      BY <1>3, <3>1, <3>2
  <2>3. CASE ObserveFixed \/ \E l \in Observations : Observe(l)
    <3>1. /\ owner' = [owner EXCEPT !.seen = owner'.seen] /\ owner.pc = "inspect"
          /\ owner'.seen \in Looks
      BY <1>0, <2>3, ObservedMoves
    <3>2. owner'.pc = owner.pc /\ owner'.todo = owner.todo
      BY <1>0, <3>1 DEF Owners
    <3>3. \A l \in DOMAIN owner'.seen :
            owner'.seen[l] \subseteq Selected[l]
      <4>1. PICK ls \in SUBSET Observations, failing \in SUBSET {"reserved", "controller"} :
              Observed(ls, failing)
        BY <2>3 DEF ObserveFixed, Observe
      <4> DEFINE seen == [l \in DOMAIN owner.seen \cup ls |->
                            IF l \in DOMAIN owner.seen THEN owner.seen[l]
                            ELSE IF l \in failing THEN {} ELSE Answered(l)]
      <4>2. owner'.seen = seen
        <5>1. owner' = [owner EXCEPT !.seen = seen]
          BY <4>1 DEF Observed, OwnerTo
        <5> HIDE DEF seen
        <5> QED
          BY <1>0, <5>1 DEF Owners
      <4>3. \A l \in DOMAIN seen : seen[l] \subseteq Selected[l]
        BY <1>1 DEF Answered, Selecting
      <4> HIDE DEF seen
      <4> QED
        BY <4>2, <4>3
    <3> QED
      BY <1>t, <3>1, <3>2, <3>3 DEF Selecting
  <2>4. CASE Judge
    <3> DEFINE inv == [space_id |-> SpaceId, of |-> ListedObjects]
    <3>1. /\ owner' = IF Admitted THEN AfterInventory(inv) ELSE OwnerEnds("failed")
          /\ owner.todo = {}
      BY <1>t, <2>4 DEF Judge, OwnerTo
    <3>2. inv \in Inventories
      BY <1>0, <2>4, InventoryTyped DEF Judge
    <3> HIDE DEF inv
    <3> DEFINE first  == [owner EXCEPT !.inventory = inv, !.stopped = inv, !.seen = <<>>]
               second == [owner EXCEPT !.stopped = inv, !.seen = <<>>]
    <3>3. /\ first.seen = <<>> /\ first.todo = {}
          /\ second.seen = <<>> /\ second.todo = {} /\ second.stopped = inv
          /\ \A c \in {first, second} : DOMAIN c = DOMAIN owner
      BY <1>0, <3>1 DEF Owners
    <3>4. DOMAIN owner = {"kind", "pc", "round", "seen", "inventory", "stopped", "todo", "end"}
      BY <1>0 DEF Owners
    <3>5. \/ \E how \in {"done", "failed"} : owner' = OwnerEnds(how)
          \/ \E c \in {first, second}, to \in {"ask", "stopTeam", "snapshot"} :
               owner' = [c EXCEPT !.pc = to]
          \/ owner' = [second EXCEPT !.pc = "remove", !.todo = inv.of]
      <4>1. AfterInventory(inv) =
              CASE owner.round = 1 ->
                     [first EXCEPT !.pc = IF owner.kind = "hardReset" THEN "ask" ELSE "stopTeam"]
                [] owner.round > 1 /\ owner.kind = "stop" -> [second EXCEPT !.pc = "snapshot"]
                [] owner.round > 1 /\ owner.kind = "recreate" ->
                     [second EXCEPT !.pc = IF owner.round = 2 THEN "stopTeam" ELSE "snapshot"]
                [] owner.round = 2 /\ owner.kind = "hardReset" ->
                     IF inv = owner.inventory
                       THEN [second EXCEPT !.pc = "remove", !.todo = inv.of]
                       ELSE OwnerEnds("failed")
                [] OTHER -> OwnerEnds(IF inv.of = {} THEN "done" ELSE "failed")
        BY DEF AfterInventory, same_targets
      <4> HIDE DEF first, second
      <4> QED
        BY <3>1, <4>1
    <3> HIDE DEF first, second
    <3>6. ASSUME NEW c \in {first, second}, NEW to \in {"ask", "stopTeam", "snapshot"},
                 owner' = [c EXCEPT !.pc = to]
          PROVE  Selecting(owner')
      <4>1. owner'.seen = <<>> /\ owner'.todo = {}
        BY <3>3, <3>4, <3>6
      <4> QED
        BY <1>2, <4>1
    <3>7. CASE owner' = [second EXCEPT !.pc = "remove", !.todo = inv.of]
      <4>1. owner'.seen = <<>> /\ owner'.todo = inv.of /\ owner'.stopped = inv
            /\ owner'.pc = "remove"
        BY <3>3, <3>4, <3>7
      <4> QED
        BY <4>1, NothingSeen DEF Selecting
    <3> QED
      BY <1>5, <3>5, <3>6, <3>7
  <2>5. CASE owner.pc # "remove" /\ \E to \in {"stopTeam", "stopRest", "clear"} :
               owner' = [owner EXCEPT !.pc = to]
    <3>1. PICK to \in {"stopTeam", "stopRest", "clear"} : owner' = [owner EXCEPT !.pc = to]
      BY <2>5
    <3>2. owner'.seen = owner.seen /\ owner'.todo = owner.todo /\ owner'.pc = to
      BY <1>0, <3>1 DEF Owners
    <3> QED
      BY <1>1, <1>t, <2>5, <3>2 DEF Selecting
  <2>6. CASE StopRest \/ Removed
    <3>1. owner' = Inspecting(owner) /\ owner.round < 3 /\ owner.todo = {}
      BY <1>0, <1>1, <1>t, <2>6 DEF StopRest, Removed, Rounds, OwnerTo
    <3> QED
      BY <1>0, <1>3, <3>1
  <2>7. CASE \E o \in OfThisSpace \cup {"visitor"} : RemoveOwned(o)
    <3>1. PICK o : RemoveOwned(o)
      BY <2>7
    <3>2. /\ owner' = [owner EXCEPT !.todo = owner.todo \ {o}] /\ owner.pc = "remove"
      BY <3>1 DEF RemoveOwned
    <3>3. /\ owner'.todo = owner.todo \ {o} /\ owner'.pc = "remove"
          /\ owner'.seen = owner.seen /\ owner'.stopped = owner.stopped
      BY <1>0, <3>2 DEF Owners
    <3> QED
      BY <1>1, <3>2, <3>3 DEF Selecting
  <2>8. CASE Confirm \/ StopTeam \/ Snapshot \/ ClearRuntime \/ Decline \/ OwnerFails
             \/ StopBreaks \/ StartSpace \/ TeamStep
    <3> QED
      BY <2>1, <2>5, <2>8 DEF Confirm, StopTeam, Snapshot, ClearRuntime, Decline, OwnerFails,
         StopBreaks, StartSpace, TeamStep, OwnerTo
  <2> QED
    BY <1>6, <2>2, <2>3, <2>4, <2>6, <2>7, <2>8 DEF ResourceNext, OwnerStep
<1>7. CASE UNCHANGED resourceVars
  BY <1>7 DEF resourceVars, Selects, Selecting
<1> QED
  BY <1>0, <1>6, <1>7, RunningKept DEF Selects

LEMMA SelectsInitially == ASSUME ResourceInit PROVE Selects
<1>1. owner = NoOwner /\ docker.running \subseteq Members \cup Strays
  BY DEF ResourceInit
<1>2. NoOwner.pc = "idle" /\ NoOwner.todo = {} /\ NoOwner.seen = <<>>
  BY DEF NoOwner
<1> QED
  BY <1>1, <1>2, NothingSeen DEF Selects, Selecting, Containers

(* While Team creates and removes Assistants until it is stopped, for every *)
(* set of Assistants and whatever strangers the engine holds: what a stop,  *)
(* a recreation or a hard reset relies on or reports is true.              *)
THEOREM DoneMeansDone == ResourceSpec => []DoneIsTrue
<1>1. RInv => DoneIsTrue
  BY DEF RInv
<1> QED
  BY <1>1, ResourceInvariant, PTL

(* ... and nothing is removed but what was confirmed and is of this Space. *)
THEOREM RemovesTheConfirmed == ResourceSpec => OnlyConfirmedRemoved
<1>1. ASSUME RInv, [ResourceNext]_resourceVars, owner.pc = "remove",
             NEW o \in docker.present \ docker'.present
      PROVE  /\ o \in owner.inventory.of \ {"squatter", "stranger"}
             /\ docker.env = "none" \/ o \notin Local \/ SpaceOf(o) = docker.env
  <2>1. ResTyped /\ Confirmed /\ ~TeamRuns
    BY <1>1 DEF RInv, Listed, Late
  <2>2. PICK r \in OfThisSpace \cup {"visitor"} : RemoveOwned(r)
    <3>1. ~TeamStep /\ ~StartSpace
      BY <1>1, <2>1, TeamMoves DEF StartSpace
    <3>2. docker'.present # docker.present
      BY <1>1
    <3> QED
      BY <1>1, <2>1, <3>1, <3>2
         DEF ResourceNext, OwnerStep, resourceVars, BeginOwned, ObserveFixed, Observe,
             Observed, Judge, Confirm, Decline, StopTeam, StopRest, StopBreaks, Snapshot,
             ClearRuntime, Removed, OwnerFails, OwnerTo, ResTyped
  <2>3. o = r /\ r \in owner.todo
    BY <1>1, <2>1, <2>2 DEF RemoveOwned, Removable, ResTyped
  <2>4. o \notin {"squatter", "stranger"}
    BY <2>3, <2>2 DEF OfThisSpace, Strays
  <2> QED
    BY <1>1, <2>1, <2>3, <2>4 DEF Confirmed
<1>2. ASSUME RInv, [ResourceNext]_resourceVars
      PROVE  owner.pc = "remove" =>
        \A o \in docker.present \ docker'.present :
          /\ o \in owner.inventory.of \ {"squatter", "stranger"}
          /\ docker.env = "none" \/ o \notin Local \/ SpaceOf(o) = docker.env
  BY <1>1, <1>2
<1> QED
  BY <1>2, ResourceInvariant, PTL DEF ResourceSpec, OnlyConfirmedRemoved

-----------------------------------------------------------------------------
(* SchedulerEntries. *)

(* The observer's record. *)
Answers == { Unanswered, "enabled", "preserved", "removed", "unverified", "error" }

Telling == [ answer : Answers, alone : BOOLEAN,
             faults : 0 .. SchedFaults, meddles : 0 .. SchedMeddles ]

(* What a job saw is still so, unless the user came between.               *)
SawTruly ==
  /\ told.meddles = 0 => told.alone
  /\ told.alone /\ job.pc \in {"foreign", "probe", "unload"} => job.saw = entries.at
  /\ job.kind = "remove" /\ job.pc \in {"inspect", "unload"} /\ told.alone => HasHandle
  /\ job.pc = "unload" => job.kind = "remove"
  /\ job.pc \in {"foreign", "replace", "reinspect"} => job.kind = "install"
  /\ job.kind # "idle" => told.answer = Unanswered

(* An installation writes one entry after the other, and enables them all.  *)
Written ==
  /\ job.pc \in {"write", "reload", "enable"} => job.left \subseteq Units
  /\ job.pc = "write" => job.left # {}
  /\ job.pc = "inspect" => job.kind \in {"install", "remove"}
  /\ told.alone /\ job.pc = "write" =>
       \A u \in Units \ job.left : entries.at[u] = "current"
  /\ told.alone /\ job.pc \in {"reload", "enable"} =>
       \A u \in Units : entries.at[u] = "current"
  /\ told.alone /\ job.pc = "enable" /\ entries.profile = "systemd" =>
       \A u \in Units : manager.loaded[u] = "current"

(* A removal takes files of a job that rests.                              *)
Resting ==
  /\ told.alone /\ job.pc = "delete" => ~manager.active
  /\ told.alone /\ job.pc \in {"sweep", "refresh"} /\ SawIn(ForeignStates) = {} =>
       ~manager.active

(* What runs was installed by this CLI, before the user touches anything.   *)
OwnRuns ==
  told.meddles = 0 =>
    /\ manager.active => \A u \in Units : entries.at[u] \in OwnedStates
    /\ job.pc = "replace" => ~manager.active

ScInv == SchedulerTypeOK /\ told \in Telling /\ SawTruly /\ Written /\ Resting
         /\ OwnRuns /\ AnswersMatchManager

LEMMA EntriesTyped ==
  ASSUME SchedulerTypeOK, SchedulerNext
  PROVE  entries' \in SchedulerFiles /\ entries'.profile = entries.profile
         /\ entries'.booted = entries.booted
<1> USE DEF SchedulerTypeOK
<1>1. CASE \E s \in BOOLEAN : Install(s)
  BY <1>1 DEF Install
<1>2. CASE Inspect
  BY <1>2 DEF Inspect
<1>3. CASE NothingForeign
  BY <1>3 DEF NothingForeign
<1>4. CASE Declined
  BY <1>4 DEF Declined
<1>5. CASE Consented
  BY <1>5 DEF Consented
<1>6. CASE \E u \in AllUnits : Replace(u)
  BY <1>6 DEF Replace, SchedulerFiles, EntryState
<1>7. CASE Reinspect
  BY <1>7 DEF Reinspect
<1>8. CASE Probe
  BY <1>8 DEF Probe
<1>9. CASE WriteEntry
  <2>1. NextEntry \in AllUnits
    BY DEF NextEntry, Main, AllUnits
  <2> HIDE DEF NextEntry
  <2>2. [entries EXCEPT !.at[NextEntry] = "current"] \in SchedulerFiles
    BY <2>1 DEF SchedulerFiles, EntryState
  <2> QED BY <1>9, <2>1, <2>2 DEF WriteEntry, SchedulerFiles
<1>10. CASE WriteRefused
  BY <1>10 DEF WriteRefused
<1>11. CASE Reload
  BY <1>11 DEF Reload
<1>12. CASE Enable
  BY <1>12 DEF Enable
<1>13. CASE RemoveEntries
  BY <1>13 DEF RemoveEntries
<1>14. CASE NothingOwned
  BY <1>14 DEF NothingOwned
<1>15. CASE Unload
  BY <1>15 DEF Unload
<1>16. CASE \E u \in AllUnits : Delete(u)
  BY <1>16 DEF Delete, SchedulerFiles, EntryState
<1>17. CASE Sweep
  BY <1>17 DEF Sweep, SchedulerFiles
<1>18. CASE Refresh
  BY <1>18 DEF Refresh
<1>19. CASE CallFails
  BY <1>19 DEF CallFails
<1>20. CASE JobKilled
  <2>1. NextEntry \in AllUnits
    BY DEF NextEntry, Main, AllUnits
  <2> HIDE DEF NextEntry
  <2> QED BY <1>20, <2>1 DEF JobKilled, SchedulerFiles
<1>21. CASE UserMeddles
  <2>1. Units \subseteq AllUnits
    BY DEF Units, AllUnits
  <2> HIDE DEF Units
  <2>2. \/ entries' = entries
        \/ \E u \in Units, f \in EntryState : entries' = [entries EXCEPT !.at[u] = f]
        \/ \E u \in Units : entries' = [entries EXCEPT !.tmp[u] = "unsafe"]
    BY <1>21 DEF UserMeddles
  <2> QED BY <2>1, <2>2 DEF SchedulerFiles
<1> QED
  BY <1>1, <1>2, <1>3, <1>4, <1>5, <1>6, <1>7, <1>8, <1>9, <1>10, <1>11, <1>12, <1>13,
     <1>14, <1>15, <1>16, <1>17, <1>18, <1>19, <1>20, <1>21
     DEF SchedulerNext

LEMMA ManagerTyped ==
  ASSUME SchedulerTypeOK, SchedulerNext
  PROVE  manager' \in Manager
<1> USE DEF SchedulerTypeOK
<1>0. Reloaded \in Manager /\ Unloaded \in Manager
      /\ [manager EXCEPT !.active = FALSE] \in Manager
      /\ [Reloaded EXCEPT !.active = TRUE] \in Manager
  BY DEF Reloaded, Unloaded, Manager, SchedulerFiles
<1>1. CASE \E s \in BOOLEAN : Install(s)
  BY <1>0, <1>1 DEF Install
<1>2. CASE Inspect
  BY <1>0, <1>2 DEF Inspect
<1>3. CASE NothingForeign
  BY <1>0, <1>3 DEF NothingForeign
<1>4. CASE Declined
  BY <1>0, <1>4 DEF Declined
<1>5. CASE Consented
  BY <1>0, <1>5 DEF Consented
<1>6. CASE \E u \in AllUnits : Replace(u)
  BY <1>0, <1>6 DEF Replace
<1>7. CASE Reinspect
  BY <1>0, <1>7 DEF Reinspect
<1>8. CASE Probe
  BY <1>0, <1>8 DEF Probe
<1>9. CASE WriteEntry
  BY <1>0, <1>9 DEF WriteEntry
<1>10. CASE WriteRefused
  BY <1>0, <1>10 DEF WriteRefused
<1>11. CASE Reload
  BY <1>0, <1>11 DEF Reload
<1>12. CASE Enable
  <2>1. Main \in AllUnits /\ entries.at \in [AllUnits -> EntryState]
    BY DEF Main, AllUnits, SchedulerFiles
  <2> HIDE DEF Main
  <2>2. [manager EXCEPT !.loaded[Main] = entries.at[Main]] \in Manager
    BY <2>1 DEF Manager
  <2>3. [manager EXCEPT !.active = TRUE, !.enabled = TRUE] \in Manager
    BY DEF Manager
  <2> QED BY <1>12, <2>1, <2>2, <2>3 DEF Enable, Manager
<1>13. CASE RemoveEntries
  BY <1>0, <1>13 DEF RemoveEntries
<1>14. CASE NothingOwned
  BY <1>0, <1>14 DEF NothingOwned
<1>15. CASE Unload
  BY <1>0, <1>15 DEF Unload
<1>16. CASE \E u \in AllUnits : Delete(u)
  BY <1>0, <1>16 DEF Delete
<1>17. CASE Sweep
  BY <1>0, <1>17 DEF Sweep
<1>18. CASE Refresh
  BY <1>0, <1>18 DEF Refresh
<1>19. CASE CallFails
  BY <1>0, <1>19 DEF CallFails
<1>20. CASE JobKilled
  BY <1>0, <1>20 DEF JobKilled
<1>21. CASE UserMeddles
  BY <1>0, <1>21 DEF UserMeddles
<1> QED
  BY <1>1, <1>2, <1>3, <1>4, <1>5, <1>6, <1>7, <1>8, <1>9, <1>10, <1>11, <1>12, <1>13,
     <1>14, <1>15, <1>16, <1>17, <1>18, <1>19, <1>20, <1>21
     DEF SchedulerNext

LEMMA JobMoves ==
  ASSUME SchedulerTypeOK
  PROVE  /\ Idle \in Job /\ Idle.kind = "idle" /\ Idle.pc = "idle"
         /\ \A scheduled \in BOOLEAN :
              [Idle EXCEPT !.kind = "install", !.scheduled = scheduled,
                           !.pc = "inspect"] \in Job
         /\ [Idle EXCEPT !.kind = "remove", !.pc = "inspect"] \in Job
         /\ Look => job' \in Job /\ job'.kind = job.kind
                    /\ job'.saw = entries.at /\ job'.left = job.left
                    /\ job'.pc = IF job.kind = "remove" THEN "unload"
                                 ELSE IF job.pc = "inspect" THEN "foreign"
                                 ELSE "probe"
         /\ \A pc, left : Goto(pc, left) =>
              /\ job'.pc = pc /\ job'.left = left
              /\ job'.kind = job.kind /\ job'.saw = job.saw
         /\ \A pc \in {"replace", "reinspect", "write", "reload", "enable",
                        "delete", "sweep", "refresh"},
              left \in SUBSET AllUnits : Goto(pc, left) => job' \in Job
<1> USE DEF SchedulerTypeOK
<1>1. [u \in AllUnits |-> "absent"] \in [AllUnits -> EntryState] /\ {} \in SUBSET AllUnits
  BY DEF EntryState
<1>2. Idle \in Job /\ Idle.kind = "idle" /\ Idle.pc = "idle"
  BY <1>1 DEF Idle, Job
<1>3. ASSUME NEW scheduled \in BOOLEAN
      PROVE  [Idle EXCEPT !.kind = "install", !.scheduled = scheduled,
                          !.pc = "inspect"] \in Job
  <2>1. [Idle EXCEPT !.kind = "install", !.scheduled = scheduled] \in Job
    BY <1>2 DEF Job
  <2> QED BY <1>2, <2>1 DEF Job
<1>4. [Idle EXCEPT !.kind = "remove", !.pc = "inspect"] \in Job
  BY <1>2 DEF Job
<1>5. ASSUME Look
      PROVE  job' \in Job /\ job'.kind = job.kind
             /\ job'.saw = entries.at /\ job'.left = job.left
             /\ job'.pc = IF job.kind = "remove" THEN "unload"
                          ELSE IF job.pc = "inspect" THEN "foreign" ELSE "probe"
  <2>1. PICK pc \in {"unload", "foreign", "probe"} :
           /\ pc = IF job.kind = "remove" THEN "unload"
                   ELSE IF job.pc = "inspect" THEN "foreign" ELSE "probe"
           /\ job' = [job EXCEPT !.saw = entries.at, !.pc = pc]
    BY <1>5 DEF Look
  <2>2. entries.at \in [AllUnits -> EntryState]
    BY DEF SchedulerFiles
  <2>3. [job EXCEPT !.saw = entries.at] \in Job
    BY <2>2 DEF Job
  <2>4. job' \in Job
    BY ZenonT(60), <2>1, <2>2, <2>3 DEF Job
  <2>5. job'.kind = job.kind /\ job'.saw = entries.at /\ job'.left = job.left
        /\ job'.pc = pc
    BY <2>1 DEF Job
  <2> QED BY <2>1, <2>4, <2>5
<1>6. ASSUME NEW pc, NEW left, Goto(pc, left)
      PROVE  job'.pc = pc /\ job'.left = left /\ job'.kind = job.kind
             /\ job'.saw = job.saw
  BY <1>6 DEF Goto, Job
<1>7. ASSUME NEW pc \in {"replace", "reinspect", "write", "reload", "enable",
                        "delete", "sweep", "refresh"},
             NEW left \in SUBSET AllUnits, Goto(pc, left)
      PROVE  job' \in Job
  BY <1>7 DEF Goto, Job
<1> QED BY <1>2, <1>3, <1>4, <1>5, <1>6, <1>7

LEMMA JobTyped ==
  ASSUME SchedulerTypeOK, SchedulerNext
  PROVE  job' \in Job /\ (job'.kind = "idle" => job' = Idle)
<1> USE DEF SchedulerTypeOK
<1>0. /\ Idle \in Job /\ Idle.kind = "idle" /\ Idle.pc = "idle"
      /\ job.pc # "idle" => job.kind # "idle"
      /\ Units \subseteq AllUnits /\ job.left \subseteq AllUnits
      /\ \A S : SawIn(S) \subseteq AllUnits
      /\ \A pc \in {"replace", "reinspect", "write", "reload", "enable",
                        "delete", "sweep", "refresh"},
              left \in SUBSET AllUnits :
            Goto(pc, left) => job' \in Job /\ job'.kind = job.kind
      /\ Look => job' \in Job /\ job'.kind = job.kind
  <2>1. /\ job.pc # "idle" => job.kind # "idle"
        /\ Units \subseteq AllUnits /\ job.left \subseteq AllUnits
        /\ \A S : SawIn(S) \subseteq AllUnits
    BY JobMoves DEF Job, Units, AllUnits, SawIn
  <2> QED BY <2>1, JobMoves, Zenon
<1>1. CASE \E s \in BOOLEAN : Install(s)
  <2>1. PICK s \in BOOLEAN : job' = [Idle EXCEPT !.kind = "install", !.scheduled = s,
                           !.pc = "inspect"]
    BY <1>1 DEF Install
  <2>2. job' \in Job
    BY <2>1, JobMoves
  <2>3. job'.kind = "install"
    BY <1>0, <2>1 DEF Job
  <2> QED BY <2>2, <2>3
<1>2. CASE Inspect
  BY <1>0, <1>2 DEF Inspect
<1>3. CASE NothingForeign
  <2>1. \/ job' = Idle
        \/ \E pc \in {"replace", "reinspect", "write", "reload", "enable",
                      "delete", "sweep", "refresh"}, left \in SUBSET AllUnits :
              Goto(pc, left)
    BY <1>0, <1>3 DEF NothingForeign, Answer
  <2>2. job.kind # "idle"
    BY <1>0, <1>3 DEF NothingForeign
  <2> QED BY <1>0, <2>1, <2>2
<1>4. CASE Declined
  <2>1. \/ job' = Idle
        \/ \E pc \in {"replace", "reinspect", "write", "reload", "enable",
                      "delete", "sweep", "refresh"}, left \in SUBSET AllUnits :
              Goto(pc, left)
    BY <1>0, <1>4 DEF Declined, Answer
  <2>2. job.kind # "idle"
    BY <1>0, <1>4 DEF Declined
  <2> QED BY <1>0, <2>1, <2>2
<1>5. CASE Consented
  <2>1. \/ job' = Idle
        \/ \E pc \in {"replace", "reinspect", "write", "reload", "enable",
                      "delete", "sweep", "refresh"}, left \in SUBSET AllUnits :
              Goto(pc, left)
    BY <1>0, <1>5 DEF Consented, Answer
  <2>2. job.kind # "idle"
    BY <1>0, <1>5 DEF Consented
  <2> QED BY <1>0, <2>1, <2>2
<1>6. CASE \E u \in AllUnits : Replace(u)
  <2>1. \/ job' = Idle
        \/ \E pc \in {"replace", "reinspect", "write", "reload", "enable",
                      "delete", "sweep", "refresh"}, left \in SUBSET AllUnits :
              Goto(pc, left)
    BY <1>0, <1>6 DEF Replace, Answer
  <2>2. job.kind # "idle"
    BY <1>0, <1>6 DEF Replace
  <2> QED BY <1>0, <2>1, <2>2
<1>7. CASE Reinspect
  BY <1>0, <1>7 DEF Reinspect, Answer
<1>8. CASE Probe
  <2>1. \/ job' = Idle
        \/ \E pc \in {"replace", "reinspect", "write", "reload", "enable",
                      "delete", "sweep", "refresh"}, left \in SUBSET AllUnits :
              Goto(pc, left)
    BY <1>0, <1>8 DEF Probe, Answer
  <2>2. job.kind # "idle"
    BY <1>0, <1>8 DEF Probe
  <2> QED BY <1>0, <2>1, <2>2
<1>9. CASE WriteEntry
  <2>1. \/ job' = Idle
        \/ \E pc \in {"replace", "reinspect", "write", "reload", "enable",
                      "delete", "sweep", "refresh"}, left \in SUBSET AllUnits :
              Goto(pc, left)
    BY <1>0, <1>9 DEF WriteEntry, Answer
  <2>2. job.kind # "idle"
    BY <1>0, <1>9 DEF WriteEntry
  <2> QED BY <1>0, <2>1, <2>2
<1>10. CASE WriteRefused
  <2>1. \/ job' = Idle
        \/ \E pc \in {"replace", "reinspect", "write", "reload", "enable",
                      "delete", "sweep", "refresh"}, left \in SUBSET AllUnits :
              Goto(pc, left)
    BY <1>0, <1>10 DEF WriteRefused, Answer
  <2>2. job.kind # "idle"
    BY <1>0, <1>10 DEF WriteRefused
  <2> QED BY <1>0, <2>1, <2>2
<1>11. CASE Reload
  <2>1. \/ job' = Idle
        \/ \E pc \in {"replace", "reinspect", "write", "reload", "enable",
                      "delete", "sweep", "refresh"}, left \in SUBSET AllUnits :
              Goto(pc, left)
    BY <1>0, <1>11 DEF Reload, Answer
  <2>2. job.kind # "idle"
    BY <1>0, <1>11 DEF Reload
  <2> QED BY <1>0, <2>1, <2>2
<1>12. CASE Enable
  <2>1. \/ job' = Idle
        \/ \E pc \in {"replace", "reinspect", "write", "reload", "enable",
                      "delete", "sweep", "refresh"}, left \in SUBSET AllUnits :
              Goto(pc, left)
    BY <1>0, <1>12 DEF Enable, Answer
  <2>2. job.kind # "idle"
    BY <1>0, <1>12 DEF Enable
  <2> QED BY <1>0, <2>1, <2>2
<1>13. CASE RemoveEntries
  <2>1. job' = [Idle EXCEPT !.kind = "remove", !.pc = "inspect"]
    BY <1>13 DEF RemoveEntries
  <2>2. job' \in Job
    BY <2>1, JobMoves
  <2>3. job'.kind = "remove"
    BY <1>0, <2>1 DEF Job
  <2> QED BY <2>2, <2>3
<1>14. CASE NothingOwned
  <2>1. \/ job' = Idle
        \/ \E pc \in {"replace", "reinspect", "write", "reload", "enable",
                      "delete", "sweep", "refresh"}, left \in SUBSET AllUnits :
              Goto(pc, left)
    BY <1>0, <1>14 DEF NothingOwned, Answer
  <2>2. job.kind # "idle"
    BY <1>0, <1>14 DEF NothingOwned
  <2> QED BY <1>0, <2>1, <2>2
<1>15. CASE Unload
  <2>1. \/ job' = Idle
        \/ \E pc \in {"replace", "reinspect", "write", "reload", "enable",
                      "delete", "sweep", "refresh"}, left \in SUBSET AllUnits :
              Goto(pc, left)
    BY <1>0, <1>15 DEF Unload, Answer
  <2>2. job.kind # "idle"
    BY <1>0, <1>15 DEF Unload
  <2> QED BY <1>0, <2>1, <2>2
<1>16. CASE \E u \in AllUnits : Delete(u)
  <2>1. \/ job' = Idle
        \/ \E pc \in {"replace", "reinspect", "write", "reload", "enable",
                      "delete", "sweep", "refresh"}, left \in SUBSET AllUnits :
              Goto(pc, left)
    BY <1>0, <1>16 DEF Delete, Answer
  <2>2. job.kind # "idle"
    BY <1>0, <1>16 DEF Delete
  <2> QED BY <1>0, <2>1, <2>2
<1>17. CASE Sweep
  <2>1. \/ job' = Idle
        \/ \E pc \in {"replace", "reinspect", "write", "reload", "enable",
                      "delete", "sweep", "refresh"}, left \in SUBSET AllUnits :
              Goto(pc, left)
    BY <1>0, <1>17 DEF Sweep, Answer
  <2>2. job.kind # "idle"
    BY <1>0, <1>17 DEF Sweep
  <2> QED BY <1>0, <2>1, <2>2
<1>18. CASE Refresh
  <2>1. \/ job' = Idle
        \/ \E pc \in {"replace", "reinspect", "write", "reload", "enable",
                      "delete", "sweep", "refresh"}, left \in SUBSET AllUnits :
              Goto(pc, left)
    BY <1>0, <1>18 DEF Refresh, Answer
  <2>2. job.kind # "idle"
    BY <1>0, <1>18 DEF Refresh
  <2> QED BY <1>0, <2>1, <2>2
<1>19. CASE CallFails
  BY <1>0, <1>19 DEF CallFails
<1>20. CASE JobKilled
  BY <1>0, <1>20 DEF JobKilled
<1>21. CASE UserMeddles
  BY <1>0, <1>21 DEF UserMeddles
<1> QED
  BY <1>1, <1>2, <1>3, <1>4, <1>5, <1>6, <1>7, <1>8, <1>9, <1>10, <1>11, <1>12, <1>13,
     <1>14, <1>15, <1>16, <1>17, <1>18, <1>19, <1>20, <1>21
     DEF SchedulerNext

LEMMA ToldTyped ==
  ASSUME told \in Telling, SchedulerNext
  PROVE  told' \in Telling
         /\ told'.meddles >= told.meddles
<1>0. /\ \A what \in Answers : /\ [told EXCEPT !.answer = what] \in Telling
                                /\ [told EXCEPT !.answer = what].meddles = told.meddles
      /\ told \in Telling /\ told.meddles \in Nat /\ told.meddles >= told.meddles
  BY SchedulerAssumption DEF Telling
<1>1. CASE \E s \in BOOLEAN : Install(s)
  <2>1. HasHandle \in BOOLEAN /\ Unanswered \in Answers
    BY DEF HasHandle, Answers
  <2>2. told' = [told EXCEPT !.answer = Unanswered, !.alone = HasHandle]
    BY <1>1 DEF Install, Started
  <2> HIDE DEF HasHandle
  <2> QED BY <1>0, <2>1, <2>2 DEF Telling
<1>2. CASE Inspect
  <2>1. \/ told' = told
        \/ \E what \in Answers : told' = [told EXCEPT !.answer = what]
    BY <1>2 DEF Inspect, Answer, Answers
  <2> QED BY <1>0, <2>1
<1>3. CASE NothingForeign
  <2>1. \/ told' = told
        \/ \E what \in Answers : told' = [told EXCEPT !.answer = what]
    BY <1>3 DEF NothingForeign, Answer, Answers
  <2> QED BY <1>0, <2>1
<1>4. CASE Declined
  <2>1. \/ told' = told
        \/ \E what \in Answers : told' = [told EXCEPT !.answer = what]
    BY <1>4 DEF Declined, Answer, Answers
  <2> QED BY <1>0, <2>1
<1>5. CASE Consented
  <2>1. \/ told' = told
        \/ \E what \in Answers : told' = [told EXCEPT !.answer = what]
    BY <1>5 DEF Consented, Answer, Answers
  <2> QED BY <1>0, <2>1
<1>6. CASE \E u \in AllUnits : Replace(u)
  <2>1. \/ told' = told
        \/ \E what \in Answers : told' = [told EXCEPT !.answer = what]
    BY <1>6 DEF Replace, Answer, Answers
  <2> QED BY <1>0, <2>1
<1>7. CASE Reinspect
  <2>1. \/ told' = told
        \/ \E what \in Answers : told' = [told EXCEPT !.answer = what]
    BY <1>7 DEF Reinspect, Answer, Answers
  <2> QED BY <1>0, <2>1
<1>8. CASE Probe
  <2>1. \/ told' = told
        \/ \E what \in Answers : told' = [told EXCEPT !.answer = what]
    BY <1>8 DEF Probe, Answer, Answers
  <2> QED BY <1>0, <2>1
<1>9. CASE WriteEntry
  <2>1. \/ told' = told
        \/ \E what \in Answers : told' = [told EXCEPT !.answer = what]
    BY <1>9 DEF WriteEntry, Answer, Answers
  <2> QED BY <1>0, <2>1
<1>10. CASE WriteRefused
  <2>1. \/ told' = told
        \/ \E what \in Answers : told' = [told EXCEPT !.answer = what]
    BY <1>10 DEF WriteRefused, Answer, Answers
  <2> QED BY <1>0, <2>1
<1>11. CASE Reload
  <2>1. \/ told' = told
        \/ \E what \in Answers : told' = [told EXCEPT !.answer = what]
    BY <1>11 DEF Reload, Answer, Answers
  <2> QED BY <1>0, <2>1
<1>12. CASE Enable
  <2>1. \/ told' = told
        \/ \E what \in Answers : told' = [told EXCEPT !.answer = what]
    BY <1>12 DEF Enable, Answer, Answers
  <2> QED BY <1>0, <2>1
<1>13. CASE RemoveEntries
  <2>1. HasHandle \in BOOLEAN /\ Unanswered \in Answers
    BY DEF HasHandle, Answers
  <2>2. told' = [told EXCEPT !.answer = Unanswered, !.alone = HasHandle]
    BY <1>13 DEF RemoveEntries, Started
  <2> HIDE DEF HasHandle
  <2> QED BY <1>0, <2>1, <2>2 DEF Telling
<1>14. CASE NothingOwned
  <2>1. \/ told' = told
        \/ \E what \in Answers : told' = [told EXCEPT !.answer = what]
    BY <1>14 DEF NothingOwned, Answer, Answers
  <2> QED BY <1>0, <2>1
<1>15. CASE Unload
  <2>1. \/ told' = told
        \/ \E what \in Answers : told' = [told EXCEPT !.answer = what]
    BY <1>15 DEF Unload, Answer, Answers
  <2> QED BY <1>0, <2>1
<1>16. CASE \E u \in AllUnits : Delete(u)
  <2>1. \/ told' = told
        \/ \E what \in Answers : told' = [told EXCEPT !.answer = what]
    BY <1>16 DEF Delete, Answer, Answers
  <2> QED BY <1>0, <2>1
<1>17. CASE Sweep
  <2>1. \/ told' = told
        \/ \E what \in Answers : told' = [told EXCEPT !.answer = what]
    BY <1>17 DEF Sweep, Answer, Answers
  <2> QED BY <1>0, <2>1
<1>18. CASE Refresh
  <2>1. \/ told' = told
        \/ \E what \in Answers : told' = [told EXCEPT !.answer = what]
    BY <1>18 DEF Refresh, Answer, Answers
  <2> QED BY <1>0, <2>1
<1>19. CASE CallFails
  <2>1. PICK n \in 0 .. SchedFaults :
           told' = [told EXCEPT !.answer = "error", !.faults = n]
    <3>1. told.faults \in 0 .. SchedFaults
      BY DEF Telling
    <3>2. PICK n \in 0 .. SchedFaults :
            n = IF told.faults < SchedFaults THEN told.faults + 1 ELSE told.faults
      BY <3>1, SchedulerAssumption
    <3> QED BY <1>19, <3>2 DEF CallFails
  <2> QED BY <1>0, <2>1 DEF Telling, Answers
<1>20. CASE JobKilled
  <2>1. PICK n \in 0 .. SchedFaults :
           told' = [told EXCEPT !.answer = "error", !.faults = n]
    <3>1. told.faults + 1 \in 0 .. SchedFaults
      BY <1>20, SchedulerAssumption DEF Telling, JobKilled
    <3> QED BY <1>20, <3>1 DEF JobKilled
  <2> QED BY <1>0, <2>1 DEF Telling, Answers
<1>21. CASE UserMeddles
  <2>1. told.meddles + 1 \in 0 .. SchedMeddles /\ told.meddles + 1 >= told.meddles
    BY <1>0, <1>21, SchedulerAssumption DEF Telling, UserMeddles
  <2>2. told' = [told EXCEPT !.alone = FALSE, !.meddles = told.meddles + 1]
    BY <1>21 DEF UserMeddles
  <2> QED BY <2>1, <2>2 DEF Telling
<1> QED
  BY <1>1, <1>2, <1>3, <1>4, <1>5, <1>6, <1>7, <1>8, <1>9, <1>10, <1>11, <1>12, <1>13,
     <1>14, <1>15, <1>16, <1>17, <1>18, <1>19, <1>20, <1>21
     DEF SchedulerNext

LEMMA SchedulerTyped ==
  ASSUME SchedulerTypeOK, told \in Telling, SchedulerNext
  PROVE  SchedulerTypeOK' /\ told' \in Telling
<1>1. told' \in Telling
  BY ToldTyped
<1>2. /\ told'.answer \in Answers /\ told'.alone \in BOOLEAN
      /\ told'.faults \in 0 .. SchedFaults /\ told'.meddles \in 0 .. SchedMeddles
  BY <1>1 DEF Telling
<1> QED BY <1>1, <1>2, EntriesTyped, ManagerTyped, JobTyped DEF SchedulerTypeOK, Answers

(* What the steps of a job come to, read off the records. *)
LEMMA SchedulerFields ==
  ASSUME SchedulerTypeOK, told \in Telling
  PROVE  /\ Main \in Units /\ Units \subseteq AllUnits /\ Units # {}
         /\ entries.at \in [AllUnits -> EntryState]
         /\ manager.loaded \in [AllUnits -> EntryState]
         /\ manager.active \in BOOLEAN /\ told.alone \in BOOLEAN
         /\ job.pc # "idle" => job.kind # "idle"
         /\ \A what : Answer(what) =>
              /\ job'.pc = "idle" /\ job'.kind = "idle"
              /\ told'.answer = what /\ told'.alone = told.alone
              /\ told'.meddles = told.meddles
         /\ Started => /\ told'.answer = Unanswered /\ told'.alone = HasHandle
                       /\ told'.meddles = told.meddles
         /\ /\ Reloaded.loaded = entries.at
            /\ Reloaded.active = manager.active /\ ~Unloaded.active
         /\ \A u \in AllUnits, f \in EntryState : [entries EXCEPT !.at[u] = f].at
                                  = [entries.at EXCEPT ![u] = f]
<1> USE DEF SchedulerTypeOK
<1>1. Main \in Units /\ Units \subseteq AllUnits /\ Units # {}
  BY DEF Main, Units, AllUnits
<1>2. /\ entries.at \in [AllUnits -> EntryState]
      /\ manager.loaded \in [AllUnits -> EntryState]
      /\ manager.active \in BOOLEAN /\ told.alone \in BOOLEAN
  BY DEF SchedulerFiles, Manager, Telling
<1>3. job.pc # "idle" => job.kind # "idle"
  BY JobMoves
<1>4. ASSUME NEW what, Answer(what)
      PROVE  /\ job'.pc = "idle" /\ job'.kind = "idle"
             /\ told'.answer = what /\ told'.alone = told.alone
             /\ told'.meddles = told.meddles
  <2>1. told' = [told EXCEPT !.answer = what] /\ job' = Idle
    BY <1>4 DEF Answer
  <2> QED BY <2>1, JobMoves DEF Telling
<1>5. ASSUME Started
      PROVE  /\ told'.answer = Unanswered /\ told'.alone = HasHandle
             /\ told'.meddles = told.meddles
  <2> HIDE DEF HasHandle
  <2> QED BY <1>5 DEF Started, Telling
<1>6. /\ Reloaded.loaded = entries.at
      /\ Reloaded.active = manager.active /\ ~Unloaded.active
  BY DEF Reloaded, Unloaded, Manager
<1>7. ASSUME NEW u \in AllUnits, NEW f \in EntryState
      PROVE  [entries EXCEPT !.at[u] = f].at = [entries.at EXCEPT ![u] = f]
  BY DEF SchedulerFiles
<1> QED BY <1>1, <1>2, <1>3, <1>4, <1>5, <1>6, <1>7

LEMMA SameUnits ==
  ASSUME SchedulerTypeOK, SchedulerNext
  PROVE  Units' = Units /\ Main' = Main
BY EntriesTyped DEF Units, Main

LEMMA ScInvStays ==
  ASSUME ScInv, SchedulerNext
  PROVE  SawTruly' /\ Written' /\ Resting' /\ OwnRuns' /\ AnswersMatchManager'
<1>0. /\ SchedulerTypeOK /\ told \in Telling /\ Units' = Units /\ Main' = Main
      /\ SchedulerTypeOK' /\ told' \in Telling
      /\ SawTruly /\ Written /\ Resting /\ OwnRuns /\ AnswersMatchManager
  BY SameUnits, SchedulerTyped DEF ScInv
<1>a. entries'.profile = entries.profile
  BY <1>0, EntriesTyped
<1>1. CASE \E s \in BOOLEAN : Install(s)
  <2>1. /\ entries'.at = entries.at
        /\ manager' = manager
        /\ job'.pc = "inspect" /\ job'.kind = "install"
        /\ told'.answer = Unanswered /\ told'.alone = HasHandle
           /\ told'.meddles = told.meddles
        /\ job.kind = "idle"
    <3>1. PICK s \in BOOLEAN : Install(s)
      BY <1>1
    <3>2. job' = [Idle EXCEPT !.kind = "install", !.scheduled = s, !.pc = "inspect"]
      BY <3>1 DEF Install
    <3>3. job'.pc = "inspect" /\ job'.kind = "install"
      BY ZenonT(60), <3>2, JobMoves, <1>0 DEF Job
    <3> QED BY <1>0, <3>1, <3>3, SchedulerFields DEF Install
  <2>2. SawTruly'
    BY <1>0, <1>a, <2>1, SchedulerFields DEF SawTruly, HasHandle, AnswersMatchManager
  <2>3. Written'
    BY <1>0, <1>a, <2>1, SchedulerFields DEF Written, SawTruly
  <2>4. Resting'
    BY <1>0, <1>a, <2>1, SchedulerFields DEF Resting, SawIn, SawTruly, HasHandle
  <2>5. OwnRuns'
    BY <1>0, <1>a, <2>1, SchedulerFields DEF OwnRuns, SawTruly, OwnedStates
  <2>6. AnswersMatchManager'
    BY <1>0, <1>a, <2>1, SchedulerFields
       DEF AnswersMatchManager, HasHandle, OwnRuns, SawTruly, OwnedStates, Unanswered
  <2> QED BY <2>2, <2>3, <2>4, <2>5, <2>6
<1>2. CASE Inspect
  <2>1. /\ entries'.at = entries.at
        /\ manager' = manager
        /\ told' = told
        /\ job.pc = "inspect"
        /\ job'.kind = job.kind /\ job'.saw = entries.at
        /\ job'.pc = IF job.kind = "remove" THEN "unload" ELSE "foreign"
    BY <1>0, <1>2, SchedulerFields, JobMoves DEF Inspect
  <2>2. SawTruly'
    BY <1>0, <1>a, <2>1, SchedulerFields
      DEF SawTruly, HasHandle, AnswersMatchManager, Written
  <2>3. Written'
    BY <1>0, <1>a, <2>1, SchedulerFields DEF Written, SawTruly
  <2>4. Resting'
    BY <1>0, <1>a, <2>1, SchedulerFields DEF Resting, SawIn, SawTruly, HasHandle
  <2>5. OwnRuns'
    BY <1>0, <1>a, <2>1, SchedulerFields DEF OwnRuns, SawTruly, OwnedStates
  <2>6. AnswersMatchManager'
    BY <1>0, <1>a, <2>1, SchedulerFields
       DEF AnswersMatchManager, HasHandle, OwnRuns, SawTruly, OwnedStates, Unanswered
  <2> QED BY <2>2, <2>3, <2>4, <2>5, <2>6
<1>3. CASE NothingForeign
  <2>1. /\ entries'.at = entries.at
        /\ manager' = manager
        /\ told' = told
        /\ job.pc = "foreign"
        /\ job'.pc = "reinspect" /\ job'.kind = job.kind /\ job'.saw = job.saw
    BY <1>0, <1>3, SchedulerFields, JobMoves DEF NothingForeign
  <2>2. SawTruly'
    BY <1>0, <1>a, <2>1, SchedulerFields DEF SawTruly, HasHandle, AnswersMatchManager
  <2>3. Written'
    BY <1>0, <1>a, <2>1, SchedulerFields DEF Written, SawTruly
  <2>4. Resting'
    BY <1>0, <1>a, <2>1, SchedulerFields DEF Resting, SawIn, SawTruly, HasHandle
  <2>5. OwnRuns'
    BY <1>0, <1>a, <2>1, SchedulerFields DEF OwnRuns, SawTruly, OwnedStates
  <2>6. AnswersMatchManager'
    BY <1>0, <1>a, <2>1, SchedulerFields
       DEF AnswersMatchManager, HasHandle, OwnRuns, SawTruly, OwnedStates, Unanswered
  <2> QED BY <2>2, <2>3, <2>4, <2>5, <2>6
<1>4. CASE Declined
  <2>1. /\ entries'.at = entries.at
        /\ manager' = manager
        /\ job.pc = "foreign"
        /\ job'.pc = "idle" /\ job'.kind = "idle"
           /\ told'.answer = "preserved" /\ told'.alone = told.alone /\ told'.meddles = told.meddles
    BY <1>0, <1>4, SchedulerFields, JobMoves DEF Declined
  <2>2. SawTruly'
    BY <1>0, <1>a, <2>1, SchedulerFields DEF SawTruly, HasHandle, AnswersMatchManager
  <2>3. Written'
    BY <1>0, <1>a, <2>1, SchedulerFields DEF Written, SawTruly
  <2>4. Resting'
    BY <1>0, <1>a, <2>1, SchedulerFields DEF Resting, SawIn, SawTruly, HasHandle
  <2>5. OwnRuns'
    BY <1>0, <1>a, <2>1, SchedulerFields DEF OwnRuns, SawTruly, OwnedStates
  <2>6. AnswersMatchManager'
    BY <1>0, <1>a, <2>1, SchedulerFields
       DEF AnswersMatchManager, HasHandle, OwnRuns, SawTruly, OwnedStates, Unanswered
  <2> QED BY <2>2, <2>3, <2>4, <2>5, <2>6
<1>5. CASE Consented
  <2>1. /\ entries'.at = entries.at
        /\ job.pc = "foreign"
        /\ \E u \in Units : job.saw[u] \in ForeignStates
        /\ \/ manager' = manager
           \/ ~manager'.active
        /\ (\/ job'.pc = "idle" /\ job'.kind = "idle" /\ told'.answer = "error"
                  /\ told'.alone = told.alone /\ told'.meddles = told.meddles
                  /\ manager' = manager
            \/ told' = told /\ job'.pc = "replace" /\ job'.kind = job.kind /\ job'.saw = job.saw)
    <3>1. job.pc = "foreign" /\ \E u \in Units : job.saw[u] \in ForeignStates
      BY <1>5 DEF Consented, SawIn
    <3>2. entries'.at = entries.at
      BY <1>5 DEF Consented
    <3>3. CASE Answer("error") /\ manager' = manager
      BY <1>0, <3>1, <3>2, <3>3, SchedulerFields
    <3>4. CASE Goto("replace", SawIn(ForeignStates)) /\ told' = told
               /\ manager' \in {manager, Unloaded}
      BY <1>0, <3>1, <3>2, <3>4, SchedulerFields, JobMoves
    <3> QED BY <1>5, <3>3, <3>4 DEF Consented
  <2>2. SawTruly'
    BY <1>0, <1>a, <2>1, SchedulerFields DEF SawTruly, HasHandle, AnswersMatchManager
  <2>3. Written'
    BY <1>0, <1>a, <2>1, SchedulerFields DEF Written, SawTruly
  <2>4. Resting'
    BY <1>0, <1>a, <2>1, SchedulerFields DEF Resting, SawIn, SawTruly, HasHandle
  <2>5. OwnRuns'
    BY <1>0, <1>a, <2>1, SchedulerFields
      DEF OwnRuns, SawTruly, OwnedStates, ForeignStates
  <2>6. AnswersMatchManager'
    BY <1>0, <1>a, <2>1, SchedulerFields
       DEF AnswersMatchManager, HasHandle, OwnRuns, SawTruly, OwnedStates, Unanswered
  <2> QED BY <2>2, <2>3, <2>4, <2>5, <2>6
<1>6. CASE \E u \in AllUnits : Replace(u)
  <2>1. /\ manager' = manager
        /\ told' = told
        /\ job.pc = "replace"
        /\ job'.pc \in {"reinspect", "replace"} /\ job'.kind = job.kind /\ job'.saw = job.saw
    BY <1>0, <1>6, SchedulerFields, JobMoves DEF Replace
  <2>2. SawTruly'
    BY <1>0, <1>a, <2>1, SchedulerFields DEF SawTruly, HasHandle, AnswersMatchManager
  <2>3. Written'
    BY <1>0, <1>a, <2>1, SchedulerFields DEF Written, SawTruly
  <2>4. Resting'
    BY <1>0, <1>a, <2>1, SchedulerFields DEF Resting, SawIn, SawTruly, HasHandle
  <2>5. OwnRuns'
    BY <1>0, <1>a, <2>1, SchedulerFields DEF OwnRuns, SawTruly, OwnedStates
  <2>6. AnswersMatchManager'
    BY <1>0, <1>a, <2>1, SchedulerFields
       DEF AnswersMatchManager, HasHandle, OwnRuns, SawTruly, OwnedStates, Unanswered
  <2> QED BY <2>2, <2>3, <2>4, <2>5, <2>6
<1>7. CASE Reinspect
  <2>1. /\ entries'.at = entries.at
        /\ manager' = manager
        /\ job.pc = "reinspect"
        /\ (\/ job'.pc = "idle" /\ job'.kind = "idle" /\ told'.answer = "error"
                  /\ told'.alone = told.alone /\ told'.meddles = told.meddles
            \/ told' = told /\ job'.kind = job.kind /\ job'.saw = entries.at
               /\ job'.pc = IF job.kind = "remove" THEN "unload" ELSE "probe")
    BY <1>0, <1>7, SchedulerFields, JobMoves DEF Reinspect
  <2>2. SawTruly'
    BY <1>0, <1>a, <2>1, SchedulerFields DEF SawTruly, HasHandle, AnswersMatchManager
  <2>3. Written'
    BY <1>0, <1>a, <2>1, SchedulerFields DEF Written, SawTruly
  <2>4. Resting'
    BY <1>0, <1>a, <2>1, SchedulerFields DEF Resting, SawIn, SawTruly, HasHandle
  <2>5. OwnRuns'
    BY <1>0, <1>a, <2>1, SchedulerFields DEF OwnRuns, SawTruly, OwnedStates
  <2>6. AnswersMatchManager'
    BY <1>0, <1>a, <2>1, SchedulerFields
       DEF AnswersMatchManager, HasHandle, OwnRuns, SawTruly, OwnedStates, Unanswered
  <2> QED BY <2>2, <2>3, <2>4, <2>5, <2>6
<1>8. CASE Probe
  <2>1. /\ entries'.at = entries.at
        /\ manager' = manager
        /\ job.pc = "probe"
        /\ (\/ /\ job'.pc = "idle" /\ job'.kind = "idle" /\ told'.answer = "enabled"
                  /\ told'.alone = told.alone /\ told'.meddles = told.meddles
               /\ Running /\ \A u \in Units : job.saw[u] = "current"
            \/ told' = told /\ job'.pc = "write" /\ job'.kind = job.kind
                  /\ job'.saw = job.saw /\ job'.left = Units)
    <3>1. job.pc = "probe" /\ entries'.at = entries.at /\ manager' = manager
      BY <1>8 DEF Probe
    <3>2. CASE Answer("enabled") /\ Running /\ SawIn({"current"}) = Units
      <4>1. \A u \in Units : job.saw[u] = "current"
        BY <3>2 DEF SawIn
      <4> QED BY <1>0, <3>1, <3>2, <4>1, SchedulerFields
    <3>3. CASE Goto("write", Units) /\ told' = told
      BY <1>0, <3>1, <3>3, JobMoves
    <3> QED BY <1>8, <3>2, <3>3 DEF Probe
  <2>2. SawTruly'
    BY <1>0, <1>a, <2>1, SchedulerFields DEF SawTruly, HasHandle, AnswersMatchManager
  <2>3. Written'
    BY <1>0, <1>a, <2>1, SchedulerFields DEF Written, SawTruly
  <2>4. Resting'
    BY <1>0, <1>a, <2>1, SchedulerFields DEF Resting, SawIn, SawTruly, HasHandle
  <2>5. OwnRuns'
    BY <1>0, <1>a, <2>1, SchedulerFields DEF OwnRuns, SawTruly, OwnedStates
  <2>6. AnswersMatchManager'
    <3>1. told'.answer = "enabled" /\ told'.alone =>
            /\ manager.active /\ manager.enabled
            /\ \A u \in Units : entries.at[u] = "current" /\ manager.loaded[u] = "current"
      <4>1. told'.answer = "enabled" => Running /\ \A u \in Units : job.saw[u] = "current"
        BY <1>0, <2>1, SchedulerFields DEF SawTruly, Unanswered
      <4>2. told'.alone => told.alone /\ job.saw = entries.at
        BY <1>0, <2>1 DEF SawTruly
      <4> QED BY <4>1, <4>2 DEF Running
    <3>2. told'.answer # "removed"
      BY <1>0, <2>1, SchedulerFields DEF SawTruly, Unanswered
    <3>3. told'.meddles = 0 => HasHandle'
      BY <1>0, <2>1 DEF AnswersMatchManager, HasHandle
    <3> QED BY <1>0, <2>1, <3>1, <3>2, <3>3 DEF AnswersMatchManager
  <2> QED BY <2>2, <2>3, <2>4, <2>5, <2>6
<1>9. CASE WriteEntry
  <2>1. /\ manager' = manager
        /\ told' = told
        /\ job.pc = "write"
        /\ \A u \in Units : entries'.at[u] = IF u = NextEntry THEN "current" ELSE entries.at[u]
        /\ (\/ job.left = {NextEntry} /\ job'.pc = "reload"
            \/ job.left # {NextEntry} /\ job'.pc = "write")
        /\ job'.kind = job.kind /\ job'.saw = job.saw
           /\ job'.left = job.left \ {NextEntry}
    <3>1. NextEntry \in AllUnits
      BY DEF NextEntry, Main, AllUnits
    <3>2. manager' = manager /\ told' = told /\ job.pc = "write"
      BY <1>9 DEF WriteEntry
    <3>3. /\ entries' = [entries EXCEPT !.at[NextEntry] = "current",
                                      !.tmp[NextEntry] = "none"]
          /\ Goto(IF job.left = {NextEntry} THEN "reload" ELSE "write",
                  job.left \ {NextEntry})
      BY <1>9 DEF WriteEntry
    <3> HIDE DEF NextEntry
    <3>4. entries'.at = [entries.at EXCEPT ![NextEntry] = "current"]
      BY <1>0, <3>1, <3>3 DEF SchedulerTypeOK, SchedulerFiles
    <3>5. \A u \in Units : entries'.at[u] = IF u = NextEntry THEN "current" ELSE entries.at[u]
      BY <1>0, <3>4, SchedulerFields
    <3>6. /\ job'.pc = IF job.left = {NextEntry} THEN "reload" ELSE "write"
          /\ job'.left = job.left \ {NextEntry}
          /\ job'.kind = job.kind /\ job'.saw = job.saw
      BY <1>0, <3>3, JobMoves
    <3> QED BY <3>2, <3>5, <3>6
  <2>2. SawTruly'
    BY <1>0, <1>a, <2>1, SchedulerFields DEF SawTruly, HasHandle, AnswersMatchManager
  <2>3. Written'
    BY <1>0, <1>a, <2>1, SchedulerFields DEF Written, SawTruly
  <2>4. Resting'
    BY <1>0, <1>a, <2>1, SchedulerFields DEF Resting, SawIn, SawTruly, HasHandle
  <2>5. OwnRuns'
    BY <1>0, <1>a, <2>1, SchedulerFields DEF OwnRuns, SawTruly, OwnedStates
  <2>6. AnswersMatchManager'
    BY <1>0, <1>a, <2>1, SchedulerFields
       DEF AnswersMatchManager, HasHandle, OwnRuns, SawTruly, OwnedStates, Unanswered
  <2> QED BY <2>2, <2>3, <2>4, <2>5, <2>6
<1>10. CASE WriteRefused
  <2>1. /\ entries'.at = entries.at
        /\ manager' = manager
        /\ job.pc = "write"
        /\ job'.pc = "idle" /\ job'.kind = "idle"
           /\ told'.answer = "error" /\ told'.alone = told.alone /\ told'.meddles = told.meddles
    BY <1>0, <1>10, SchedulerFields, JobMoves DEF WriteRefused
  <2>2. SawTruly'
    BY <1>0, <1>a, <2>1, SchedulerFields DEF SawTruly, HasHandle, AnswersMatchManager
  <2>3. Written'
    BY <1>0, <1>a, <2>1, SchedulerFields DEF Written, SawTruly
  <2>4. Resting'
    BY <1>0, <1>a, <2>1, SchedulerFields DEF Resting, SawIn, SawTruly, HasHandle
  <2>5. OwnRuns'
    BY <1>0, <1>a, <2>1, SchedulerFields DEF OwnRuns, SawTruly, OwnedStates
  <2>6. AnswersMatchManager'
    BY <1>0, <1>a, <2>1, SchedulerFields
       DEF AnswersMatchManager, HasHandle, OwnRuns, SawTruly, OwnedStates, Unanswered
  <2> QED BY <2>2, <2>3, <2>4, <2>5, <2>6
<1>11. CASE Reload
  <2>1. /\ entries'.at = entries.at
        /\ told' = told
        /\ job.pc = "reload"
        /\ job'.pc = "enable" /\ job'.kind = job.kind /\ job'.saw = job.saw
           /\ job'.left = {}
        /\ manager'.active => manager.active
        /\ entries.profile = "systemd" => manager'.loaded = entries.at
    BY <1>0, <1>11, SchedulerFields, JobMoves DEF Reload
  <2>2. SawTruly'
    BY <1>0, <1>a, <2>1, SchedulerFields DEF SawTruly, HasHandle, AnswersMatchManager
  <2>3. Written'
    BY <1>0, <1>a, <2>1, SchedulerFields DEF Written, SawTruly
  <2>4. Resting'
    BY <1>0, <1>a, <2>1, SchedulerFields DEF Resting, SawIn, SawTruly, HasHandle
  <2>5. OwnRuns'
    BY <1>0, <1>a, <2>1, SchedulerFields DEF OwnRuns, SawTruly, OwnedStates
  <2>6. AnswersMatchManager'
    BY <1>0, <1>a, <2>1, SchedulerFields
       DEF AnswersMatchManager, HasHandle, OwnRuns, SawTruly, OwnedStates, Unanswered
  <2> QED BY <2>2, <2>3, <2>4, <2>5, <2>6
<1>12. CASE Enable
  <2>1. /\ entries'.at = entries.at
        /\ job.pc = "enable"
        /\ job'.pc = "idle" /\ job'.kind = "idle"
           /\ told'.answer = "enabled" /\ told'.alone = told.alone /\ told'.meddles = told.meddles
        /\ manager'.active /\ manager'.enabled
        /\ \A u \in Units : manager'.loaded[u] = IF u = Main THEN entries.at[u] ELSE manager.loaded[u]
    <3>1. entries'.at = entries.at /\ job.pc = "enable" /\ Answer("enabled")
      BY <1>12 DEF Enable
    <3>2. manager' = [manager EXCEPT !.active = TRUE, !.enabled = TRUE,
                                    !.loaded[Main] = entries.at[Main]]
      BY <1>12 DEF Enable
    <3> HIDE DEF Main
    <3>3. manager'.active /\ manager'.enabled
          /\ manager'.loaded = [manager.loaded EXCEPT ![Main] = entries.at[Main]]
      BY <1>0, <3>2 DEF SchedulerTypeOK, Manager
    <3> QED BY <1>0, <3>1, <3>3, SchedulerFields
  <2>2. SawTruly'
    BY <1>0, <1>a, <2>1, SchedulerFields DEF SawTruly, HasHandle, AnswersMatchManager
  <2>3. Written'
    BY <1>0, <1>a, <2>1, SchedulerFields DEF Written, SawTruly
  <2>4. Resting'
    BY <1>0, <1>a, <2>1, SchedulerFields DEF Resting, SawIn, SawTruly, HasHandle
  <2>5. OwnRuns'
    BY <1>0, <1>a, <2>1, SchedulerFields
      DEF OwnRuns, SawTruly, Written, OwnedStates
  <2>6. AnswersMatchManager'
    <3>1. told.alone => \A u \in Units : entries.at[u] = "current"
      BY <1>0, <2>1 DEF Written
    <3>2. told.alone => \A u \in Units : manager'.loaded[u] = "current"
      <4>1. CASE entries.profile = "systemd"
        BY <1>0, <2>1, <3>1, <4>1 DEF Written
      <4>2. CASE entries.profile = "launchd"
        BY <2>1, <3>1, <4>2 DEF Units, Main
      <4> QED BY <1>0, <4>1, <4>2 DEF SchedulerTypeOK, SchedulerFiles, Profiles
    <3>3. told'.meddles = 0 => HasHandle'
      BY <1>0, <2>1, <3>1, SchedulerFields DEF HasHandle, SawTruly
    <3> QED BY <1>0, <2>1, <3>1, <3>2, <3>3 DEF AnswersMatchManager
  <2> QED BY <2>2, <2>3, <2>4, <2>5, <2>6
<1>13. CASE RemoveEntries
  <2>1. /\ entries'.at = entries.at
        /\ manager' = manager
        /\ job'.pc = "inspect" /\ job'.kind = "remove"
        /\ told'.answer = Unanswered /\ told'.alone = HasHandle
           /\ told'.meddles = told.meddles
        /\ job.kind = "idle"
    <3>1. job' = [Idle EXCEPT !.kind = "remove", !.pc = "inspect"]
      BY <1>13 DEF RemoveEntries
    <3>2. job'.pc = "inspect" /\ job'.kind = "remove"
      BY ZenonT(60), <3>1, JobMoves, <1>0 DEF Job
    <3> QED BY <1>0, <1>13, <3>2, SchedulerFields DEF RemoveEntries
  <2>2. SawTruly'
    BY <1>0, <1>a, <2>1, SchedulerFields DEF SawTruly, HasHandle, AnswersMatchManager
  <2>3. Written'
    BY <1>0, <1>a, <2>1, SchedulerFields DEF Written, SawTruly
  <2>4. Resting'
    BY <1>0, <1>a, <2>1, SchedulerFields DEF Resting, SawIn, SawTruly, HasHandle
  <2>5. OwnRuns'
    BY <1>0, <1>a, <2>1, SchedulerFields DEF OwnRuns, SawTruly, OwnedStates
  <2>6. AnswersMatchManager'
    BY <1>0, <1>a, <2>1, SchedulerFields
       DEF AnswersMatchManager, HasHandle, OwnRuns, SawTruly, OwnedStates, Unanswered
  <2> QED BY <2>2, <2>3, <2>4, <2>5, <2>6
<1>14. CASE NothingOwned
  <2>1. /\ entries'.at = entries.at
        /\ manager' = manager
        /\ told' = told
        /\ job.pc = "unload" /\ SawIn(OwnedStates) = {}
        /\ job'.pc = "sweep" /\ job'.kind = job.kind /\ job'.saw = job.saw
    BY <1>0, <1>14, SchedulerFields, JobMoves DEF NothingOwned
  <2>2. SawTruly'
    BY <1>0, <1>a, <2>1, SchedulerFields DEF SawTruly, HasHandle, AnswersMatchManager
  <2>3. Written'
    BY <1>0, <1>a, <2>1, SchedulerFields DEF Written, SawTruly
  <2>4. Resting'
    <3>1. told.alone => job.saw = entries.at /\ HasHandle
      BY <1>0, <2>1 DEF SawTruly
    <3>2. SawIn(ForeignStates)' = SawIn(ForeignStates)
      BY <1>0, <2>1 DEF SawIn
    <3>3. told.alone /\ SawIn(ForeignStates) = {} => entries.at[Main] = "absent"
      <4>1. entries.at[Main] \in EntryState /\ Main \in Units
        BY <1>0, SchedulerFields
      <4> QED BY <2>1, <3>1, <4>1 DEF SawIn, ForeignStates, OwnedStates, EntryState
    <3> QED BY <2>1, <3>1, <3>2, <3>3 DEF Resting, HasHandle
  <2>5. OwnRuns'
    BY <1>0, <1>a, <2>1, SchedulerFields DEF OwnRuns, SawTruly, OwnedStates
  <2>6. AnswersMatchManager'
    BY <1>0, <1>a, <2>1, SchedulerFields
       DEF AnswersMatchManager, HasHandle, OwnRuns, SawTruly, OwnedStates, Unanswered
  <2> QED BY <2>2, <2>3, <2>4, <2>5, <2>6
<1>15. CASE Unload
  <2>1. /\ entries'.at = entries.at
        /\ job.pc = "unload"
        /\ manager'.active => manager.active
        /\ (\/ job'.pc = "idle" /\ job'.kind = "idle" /\ told'.answer = "error"
                  /\ told'.alone = told.alone /\ told'.meddles = told.meddles
            \/ ~manager'.active /\ told' = told /\ job'.pc = "delete"
                  /\ job'.kind = job.kind /\ job'.saw = job.saw)
    <3>1. entries'.at = entries.at /\ job.pc = "unload"
      BY <1>15 DEF Unload
    <3>2. manager'.active => manager.active
      <4>1. [manager EXCEPT !.active = FALSE].active = FALSE
        BY <1>0 DEF SchedulerTypeOK, Manager
      <4>2. manager' \in { manager, [manager EXCEPT !.active = FALSE], Unloaded }
        BY <1>15 DEF Unload
      <4> QED BY <1>0, <4>1, <4>2, SchedulerFields
    <3>3. CASE ~manager'.active /\ Goto("delete", SawIn(OwnedStates)) /\ told' = told
      BY <1>0, <3>1, <3>2, <3>3, JobMoves
    <3>4. CASE Answer("error")
      BY <1>0, <3>1, <3>2, <3>4, SchedulerFields
    <3> QED BY <1>15, <3>3, <3>4 DEF Unload, ProvedUnloaded
  <2>2. SawTruly'
    BY <1>0, <1>a, <2>1, SchedulerFields DEF SawTruly, HasHandle, AnswersMatchManager
  <2>3. Written'
    BY <1>0, <1>a, <2>1, SchedulerFields DEF Written, SawTruly
  <2>4. Resting'
    BY <1>0, <1>a, <2>1, SchedulerFields DEF Resting, SawIn, SawTruly, HasHandle
  <2>5. OwnRuns'
    BY <1>0, <1>a, <2>1, SchedulerFields DEF OwnRuns, SawTruly, OwnedStates
  <2>6. AnswersMatchManager'
    BY <1>0, <1>a, <2>1, SchedulerFields
       DEF AnswersMatchManager, HasHandle, OwnRuns, SawTruly, OwnedStates, Unanswered
  <2> QED BY <2>2, <2>3, <2>4, <2>5, <2>6
<1>16. CASE \E u \in AllUnits : Delete(u)
  <2>1. /\ manager' = manager
        /\ told' = told
        /\ job.pc = "delete"
        /\ job'.pc \in {"sweep", "delete"} /\ job'.kind = job.kind /\ job'.saw = job.saw
    BY <1>0, <1>16, SchedulerFields, JobMoves DEF Delete
  <2>2. SawTruly'
    BY <1>0, <1>a, <2>1, SchedulerFields DEF SawTruly, HasHandle, AnswersMatchManager
  <2>3. Written'
    BY <1>0, <1>a, <2>1, SchedulerFields DEF Written, SawTruly
  <2>4. Resting'
    BY <1>0, <1>a, <2>1, SchedulerFields DEF Resting, SawIn, SawTruly, HasHandle
  <2>5. OwnRuns'
    BY <1>0, <2>1 DEF OwnRuns, Resting, SawTruly
  <2>6. AnswersMatchManager'
    BY <1>0, <2>1, SchedulerFields
      DEF AnswersMatchManager, Resting, SawTruly, HasHandle, Unanswered
  <2> QED BY <2>2, <2>3, <2>4, <2>5, <2>6
<1>17. CASE Sweep
  <2>1. /\ entries'.at = entries.at
        /\ manager' = manager
        /\ told' = told
        /\ job.pc = "sweep"
        /\ job'.pc = "refresh" /\ job'.kind = job.kind /\ job'.saw = job.saw
    <3>1. manager' = manager /\ told' = told /\ job.pc = "sweep"
      BY <1>17 DEF Sweep
    <3>2. entries'.at = entries.at
      BY <1>0, <1>17 DEF Sweep, SchedulerTypeOK, SchedulerFiles
    <3>3. Goto("refresh", {})
      BY <1>17 DEF Sweep
    <3> QED BY <1>0, <3>1, <3>2, <3>3, JobMoves
  <2>2. SawTruly'
    BY <1>0, <1>a, <2>1, SchedulerFields DEF SawTruly, HasHandle, AnswersMatchManager
  <2>3. Written'
    BY <1>0, <1>a, <2>1, SchedulerFields DEF Written, SawTruly
  <2>4. Resting'
    BY <1>0, <1>a, <2>1, SchedulerFields DEF Resting, SawIn, SawTruly, HasHandle
  <2>5. OwnRuns'
    BY <1>0, <1>a, <2>1, SchedulerFields DEF OwnRuns, SawTruly, OwnedStates
  <2>6. AnswersMatchManager'
    BY <1>0, <1>a, <2>1, SchedulerFields
       DEF AnswersMatchManager, HasHandle, OwnRuns, SawTruly, OwnedStates, Unanswered
  <2> QED BY <2>2, <2>3, <2>4, <2>5, <2>6
<1>18. CASE Refresh
  <2>1. /\ entries'.at = entries.at
        /\ job.pc = "refresh"
        /\ manager'.active = manager.active
        /\ (\/ SawIn(ForeignStates) # {} /\ job'.pc = "idle" /\ job'.kind = "idle"
                  /\ told'.answer = "unverified" /\ told'.alone = told.alone
                  /\ told'.meddles = told.meddles
            \/ SawIn(ForeignStates) = {} /\ job'.pc = "idle" /\ job'.kind = "idle"
                  /\ told'.answer = "removed" /\ told'.alone = told.alone
                  /\ told'.meddles = told.meddles)
    BY <1>0, <1>18, SchedulerFields, JobMoves DEF Refresh
  <2>2. SawTruly'
    BY <1>0, <1>a, <2>1, SchedulerFields DEF SawTruly, HasHandle, AnswersMatchManager
  <2>3. Written'
    BY <1>0, <1>a, <2>1, SchedulerFields DEF Written, SawTruly
  <2>4. Resting'
    BY <1>0, <1>a, <2>1, SchedulerFields DEF Resting, SawIn, SawTruly, HasHandle
  <2>5. OwnRuns'
    BY <1>0, <1>a, <2>1, SchedulerFields DEF OwnRuns, SawTruly, OwnedStates
  <2>6. AnswersMatchManager'
    BY <1>0, <2>1, SchedulerFields
      DEF AnswersMatchManager, Resting, SawTruly, HasHandle, Unanswered
  <2> QED BY <2>2, <2>3, <2>4, <2>5, <2>6
<1>19. CASE CallFails
  <2>1. /\ entries'.at = entries.at
        /\ manager' = manager
        /\ job'.pc = "idle" /\ job'.kind = "idle"
           /\ told'.answer = "error" /\ told'.alone = told.alone /\ told'.meddles = told.meddles
    <3>1. \E n : told' = [told EXCEPT !.answer = "error", !.faults = n]
      BY <1>19 DEF CallFails
    <3> QED BY <1>0, <1>19, <3>1, JobMoves DEF CallFails, Telling
  <2>2. SawTruly'
    BY <1>0, <1>a, <2>1, SchedulerFields DEF SawTruly, HasHandle, AnswersMatchManager
  <2>3. Written'
    BY <1>0, <1>a, <2>1, SchedulerFields DEF Written, SawTruly
  <2>4. Resting'
    BY <1>0, <1>a, <2>1, SchedulerFields DEF Resting, SawIn, SawTruly, HasHandle
  <2>5. OwnRuns'
    BY <1>0, <1>a, <2>1, SchedulerFields DEF OwnRuns, SawTruly, OwnedStates
  <2>6. AnswersMatchManager'
    BY <1>0, <1>a, <2>1, SchedulerFields
       DEF AnswersMatchManager, HasHandle, OwnRuns, SawTruly, OwnedStates, Unanswered
  <2> QED BY <2>2, <2>3, <2>4, <2>5, <2>6
<1>20. CASE JobKilled
  <2>1. /\ entries'.at = entries.at
        /\ manager' = manager
        /\ job'.pc = "idle" /\ job'.kind = "idle"
           /\ told'.answer = "error" /\ told'.alone = told.alone /\ told'.meddles = told.meddles
    <3>1. told' = [told EXCEPT !.answer = "error", !.faults = told.faults + 1]
      BY <1>20 DEF JobKilled
    <3>2. NextEntry \in AllUnits
      BY DEF NextEntry, Main, AllUnits
    <3> HIDE DEF NextEntry
    <3>3. \A u \in AllUnits : [entries EXCEPT !.tmp[u] = "safe"].at = entries.at
      BY <1>0 DEF SchedulerTypeOK, SchedulerFiles
    <3>4. entries'.at = entries.at
      BY <1>20, <3>2, <3>3 DEF JobKilled
    <3>5. /\ told'.answer = "error" /\ told'.alone = told.alone
          /\ told'.meddles = told.meddles
      BY <1>0, <3>1 DEF Telling
    <3> QED BY <1>0, <1>20, <3>4, <3>5, JobMoves DEF JobKilled
  <2>2. SawTruly'
    BY <1>0, <1>a, <2>1, SchedulerFields DEF SawTruly, HasHandle, AnswersMatchManager
  <2>3. Written'
    BY <1>0, <1>a, <2>1, SchedulerFields DEF Written, SawTruly
  <2>4. Resting'
    BY <1>0, <1>a, <2>1, SchedulerFields DEF Resting, SawIn, SawTruly, HasHandle
  <2>5. OwnRuns'
    BY <1>0, <1>a, <2>1, SchedulerFields DEF OwnRuns, SawTruly, OwnedStates
  <2>6. AnswersMatchManager'
    BY <1>0, <1>a, <2>1, SchedulerFields
       DEF AnswersMatchManager, HasHandle, OwnRuns, SawTruly, OwnedStates, Unanswered
  <2> QED BY <2>2, <2>3, <2>4, <2>5, <2>6
<1>21. CASE UserMeddles
  <2>1. /\ told'.alone = FALSE /\ told'.meddles = told.meddles + 1 /\ told'.answer = told.answer
        /\ job' = job
    <3>1. told' = [told EXCEPT !.alone = FALSE, !.meddles = told.meddles + 1]
      BY <1>21 DEF UserMeddles
    <3>2. /\ told'.alone = FALSE /\ told'.meddles = told.meddles + 1
          /\ told'.answer = told.answer
      BY <1>0, <3>1 DEF Telling
    <3> QED BY <1>21, <3>2 DEF UserMeddles
  <2>2. SawTruly'
    <3>1. told'.meddles # 0
      BY <1>0, <2>1 DEF Telling
    <3> QED BY <1>0, <2>1, <3>1, SchedulerFields DEF SawTruly
  <2>3. Written'
    BY <1>0, <1>a, <2>1, SchedulerFields DEF Written, SawTruly
  <2>4. Resting'
    BY <1>0, <1>a, <2>1, SchedulerFields DEF Resting, SawIn, SawTruly, HasHandle
  <2>5. OwnRuns'
    <3>1. told'.meddles # 0
      BY <1>0, <2>1 DEF Telling
    <3> QED BY <3>1 DEF OwnRuns
  <2>6. AnswersMatchManager'
    <3>1. told'.meddles # 0
      BY <1>0, <2>1 DEF Telling
    <3> QED BY <2>1, <3>1 DEF AnswersMatchManager
  <2> QED BY <2>2, <2>3, <2>4, <2>5, <2>6
<1> QED
  BY <1>1, <1>2, <1>3, <1>4, <1>5, <1>6, <1>7, <1>8, <1>9, <1>10, <1>11, <1>12, <1>13,
     <1>14, <1>15, <1>16, <1>17, <1>18, <1>19, <1>20, <1>21
     DEF SchedulerNext

LEMMA SchedulerStarts == SchedulerInit => ScInv
<1> SUFFICES ASSUME SchedulerInit PROVE ScInv
  OBVIOUS
<1>1. Idle \in Job /\ Idle.kind = "idle" /\ Idle.pc = "idle"
  <2>1. [u \in AllUnits |-> "absent"] \in [AllUnits -> EntryState] /\ {} \in SUBSET AllUnits
    BY DEF EntryState
  <2> QED BY <2>1 DEF Idle, Job
<1>2. told \in Telling /\ told.answer = Unanswered /\ told.alone
  BY SchedulerAssumption DEF SchedulerInit, Telling, Answers
<1>3. /\ entries \in SchedulerFiles /\ manager \in Manager
      /\ manager.active => \A u \in Units : entries.at[u] \in OwnedStates
  <2>1. CASE Fresh
    <3>1. PICK p \in Profiles, b \in BOOLEAN, v \in AllUnits,
               f \in {"absent", "foreign", "unsafe"} :
            entries = [ profile |-> p, booted |-> b,
                        at |-> [[u \in AllUnits |-> "absent"] EXCEPT ![v] = f],
                        tmp |-> [u \in AllUnits |-> "none"] ]
      BY <2>1 DEF Fresh
    <3>2. [[u \in AllUnits |-> "absent"] EXCEPT ![v] = f] \in [AllUnits -> EntryState]
      BY DEF EntryState
    <3>3. entries \in SchedulerFiles
      BY <3>1, <3>2 DEF SchedulerFiles
    <3> QED BY <2>1, <3>3 DEF Fresh, Manager, EntryState
  <2>2. CASE Outdated
    <3>1. \A u \in AllUnits : entries.at[u] = "corrupt"
      BY <2>2 DEF Outdated
    <3>2. entries \in SchedulerFiles /\ manager \in Manager
      BY <2>2 DEF Outdated, SchedulerFiles, Manager, EntryState
    <3> QED BY <3>1, <3>2 DEF OwnedStates, Units, AllUnits
  <2> QED BY <2>1, <2>2 DEF SchedulerInit
<1>4. job = Idle
  BY DEF SchedulerInit
<1>5. SchedulerTypeOK
  <2>1. /\ told.answer \in Answers /\ told.alone \in BOOLEAN
        /\ told.faults \in 0 .. SchedFaults /\ told.meddles \in 0 .. SchedMeddles
    BY <1>2 DEF Telling
  <2> QED BY <1>1, <1>3, <1>4, <2>1 DEF SchedulerTypeOK, Answers
<1>6. manager.active => entries.at[Main] # "absent"
  <2>1. Main \in Units
    BY DEF Main, Units
  <2> QED BY <1>3, <2>1 DEF OwnedStates
<1>7. SawTruly /\ Written /\ Resting
  BY <1>1, <1>2, <1>4 DEF SawTruly, Written, Resting
<1>8. OwnRuns /\ AnswersMatchManager
  BY <1>1, <1>2, <1>3, <1>4, <1>6 DEF OwnRuns, AnswersMatchManager, HasHandle, Unanswered
<1> QED BY <1>2, <1>5, <1>7, <1>8 DEF ScInv

LEMMA SchedulerAlways == SchedulerSpec => []ScInv
<1>1. ScInv /\ [SchedulerNext]_schedulerVars => ScInv'
  <2> SUFFICES ASSUME ScInv, [SchedulerNext]_schedulerVars PROVE ScInv'
    OBVIOUS
  <2>1. CASE SchedulerNext
    BY <2>1, SchedulerTyped, ScInvStays DEF ScInv
  <2>2. CASE UNCHANGED schedulerVars
    BY <2>2 DEF schedulerVars, ScInv, SchedulerTypeOK, SawTruly, Written, Resting,
       OwnRuns, AnswersMatchManager, HasHandle, Units, Main, SawIn
  <2> QED BY <2>1, <2>2
<1> QED BY <1>1, SchedulerStarts, PTL DEF SchedulerSpec

(* An answer about the scheduler is true of the service manager: automatic  *)
(* updates that are told to be on run from the files on disk, ones told to  *)
(* be removed do not run, and what runs can be found by its file again      *)
(* (install_with_authorizer, remove_with, require_unloaded).               *)
THEOREM SchedulerAnswersTrue == SchedulerSpec => []AnswersMatchManager
<1>1. ScInv => AnswersMatchManager
  BY DEF ScInv
<1> QED BY <1>1, SchedulerAlways, PTL

-----------------------------------------------------------------------------
(* Account. *)

(* Whoever works on the credentials holds the lock, and works alone.        *)
OneWorks ==
  \A p \in Processes : proc[p].pc \in Working \ {"lock"} <=> lock = p

IsNewest(pairs, n, s) ==
  /\ n \in DOMAIN pairs /\ pairs[n].session = s
  /\ \A o \in DOMAIN pairs : pairs[o].session = s => o <= n

(* The sessions that live on by a pair of this CLI.                         *)
Owed == server.live \ lost.sessions
Kept == \A s \in Owed : IsNewest(server.pairs, stored, s)

(* The pair a command works on is the stored one, until it has a newer one  *)
(* in its hands or no session is left to keep.                             *)
Guarded ==
  /\ lock = NoProcess => Kept
  /\ \A p \in Processes :
       /\ proc[p].pc \in {"session", "refresh", "revoke"} =>
            /\ proc[p].pair = stored /\ stored \in DOMAIN server.pairs
            /\ Kept
       /\ proc[p].pc = "store" =>
            /\ proc[p].pair \in DOMAIN server.pairs
            /\ \A s \in Owed : IsNewest(server.pairs, proc[p].pair, s)
       /\ proc[p].pc \in {"clear", "authorize", "tokens"} => Owed = {}

AcInv == AccountTypeOK /\ OneWorks /\ Guarded

(* The tokens a call gives, ends or ages: no pair changes its session.      *)
SameSessions ==
  /\ DOMAIN server'.pairs = DOMAIN server.pairs
  /\ \A n \in DOMAIN server.pairs :
       server'.pairs[n].session = server.pairs[n].session

LEMMA TokensGiven ==
  ASSUME AccountTypeOK, Next1 <= MaxPairs, NEW s \in 1 .. MaxPairs,
         NEW publish \in BOOLEAN, server' = Given(s, publish)
  PROVE  /\ server'.pairs \in Seq(TokenPair) /\ Len(server'.pairs) = Next1
         /\ Next1 \in 1 .. MaxPairs
         /\ DOMAIN server.pairs = 1 .. Len(server.pairs)
         /\ DOMAIN server'.pairs = 1 .. Next1
         /\ \A n \in DOMAIN server.pairs : server'.pairs[n] = server.pairs[n]
         /\ server'.pairs[Next1].session = s
         /\ server'.live = server.live \cup {s}
         /\ server' \in [ pairs : {server'.pairs}, live : SUBSET (1 .. MaxPairs),
                          build : Builds ]
<1> DEFINE new == [session |-> s, publish |-> publish, age |-> 0]
<1>1. new \in TokenPair
  BY AccountAssumption DEF TokenPair
<1>2. server' = [server EXCEPT !.pairs = Append(server.pairs, new),
                               !.live = server.live \cup {s}]
  BY DEF Given
<1> HIDE DEF new
<1>3. new.session = s
  BY DEF new
<1>4. server'.pairs = Append(server.pairs, new)
      /\ server'.live = server.live \cup {s} /\ server'.build = server.build
      /\ server' = [ pairs |-> server'.pairs, live |-> server'.live,
                     build |-> server'.build ]
  BY <1>2 DEF AccountTypeOK
<1>5. Len(server.pairs) \in Nat /\ Next1 \in 1 .. MaxPairs
  BY AccountAssumption DEF AccountTypeOK, Next1
<1> QED BY <1>1, <1>3, <1>4, <1>5 DEF AccountTypeOK, Next1

LEMMA TokensEnded ==
  ASSUME AccountTypeOK, NEW s \in 1 .. MaxPairs, server' = TokensEnd(s)
  PROVE  /\ SameSessions
         /\ server'.pairs \in Seq(TokenPair) /\ Len(server'.pairs) = Len(server.pairs)
         /\ server'.live = server.live \ {s}
         /\ server' \in [ pairs : {server'.pairs}, live : SUBSET (1 .. MaxPairs),
                          build : Builds ]
<1> DEFINE aged == [n \in DOMAIN server.pairs |->
                     IF server.pairs[n].session = s
                     THEN [server.pairs[n] EXCEPT !.age = AccessLife]
                     ELSE server.pairs[n]]
<1>1. server' = [server EXCEPT !.live = server.live \ {s}, !.pairs = aged]
  BY DEF TokensEnd
<1>2. \A n \in DOMAIN server.pairs : server.pairs[n] \in TokenPair
  BY DEF AccountTypeOK
<1>3. ASSUME NEW n \in DOMAIN server.pairs
      PROVE  aged[n] \in TokenPair /\ aged[n].session = server.pairs[n].session
  BY <1>2, AccountAssumption DEF TokenPair
<1>4. DOMAIN server.pairs = 1 .. Len(server.pairs) /\ Len(server.pairs) \in Nat
  BY DEF AccountTypeOK
<1>5. DOMAIN aged = 1 .. Len(server.pairs)
  BY <1>4
<1>6. aged \in Seq(TokenPair) /\ Len(aged) = Len(server.pairs)
  <2>1. aged \in [1 .. Len(server.pairs) -> TokenPair]
    BY <1>3, <1>4, Zenon
  <2> HIDE DEF aged
  <2> QED BY <2>1, <1>4
<1> HIDE DEF aged
<1>7. server'.pairs = aged /\ server'.live = server.live \ {s}
      /\ server' = [ pairs |-> server'.pairs, live |-> server'.live,
                     build |-> server'.build ] /\ server'.build = server.build
  BY <1>1 DEF AccountTypeOK
<1>8. SameSessions
  BY <1>3, <1>4, <1>5, <1>7 DEF SameSessions
<1> QED BY <1>6, <1>7, <1>8 DEF AccountTypeOK

LEMMA TokensAge ==
  ASSUME AccountTypeOK, Tick
  PROVE  /\ SameSessions
         /\ server'.pairs \in Seq(TokenPair) /\ Len(server'.pairs) = Len(server.pairs)
         /\ server'.live = server.live
         /\ server' \in [ pairs : {server'.pairs}, live : SUBSET (1 .. MaxPairs),
                          build : Builds ]
<1> DEFINE aged == [n \in DOMAIN server.pairs |->
                     Older(server.pairs[n])]
<1>1. server' = [server EXCEPT !.pairs = aged]
  BY Zenon DEF Tick
<1>2. \A n \in DOMAIN server.pairs : server.pairs[n] \in TokenPair
  BY DEF AccountTypeOK
<1>3. ASSUME NEW n \in DOMAIN server.pairs
      PROVE  aged[n] \in TokenPair /\ aged[n].session = server.pairs[n].session
  <2>1. PICK a \in 0 .. AccessLife :
          a = IF server.pairs[n].age < AccessLife
              THEN server.pairs[n].age + 1 ELSE server.pairs[n].age
    <3>1. server.pairs[n].age \in 0 .. AccessLife
      BY <1>2 DEF TokenPair
    <3> QED BY <3>1, AccountAssumption
  <2>2. aged[n] = [server.pairs[n] EXCEPT !.age = a]
    BY <2>1 DEF Older
  <2> HIDE DEF aged
  <2> QED BY <1>2, <2>2 DEF TokenPair
<1>4. DOMAIN server.pairs = 1 .. Len(server.pairs) /\ Len(server.pairs) \in Nat
  BY DEF AccountTypeOK
<1>5. DOMAIN aged = 1 .. Len(server.pairs)
  BY <1>4
<1>6. aged \in Seq(TokenPair) /\ Len(aged) = Len(server.pairs)
  <2>1. aged \in [1 .. Len(server.pairs) -> TokenPair]
    BY <1>3, <1>4, Zenon
  <2> HIDE DEF aged
  <2> QED BY <2>1, <1>4
<1> HIDE DEF aged
<1>7. server'.pairs = aged /\ server'.live = server.live
      /\ server' = [ pairs |-> server'.pairs, live |-> server'.live,
                     build |-> server'.build ] /\ server'.build = server.build
  BY <1>1 DEF AccountTypeOK
<1>8. SameSessions
  BY <1>3, <1>4, <1>5, <1>7 DEF SameSessions
<1> QED BY <1>6, <1>7, <1>8 DEF AccountTypeOK

(* A pair that is the newest of its session stays it, where none is given.  *)
LEMMA NewestStays ==
  ASSUME SameSessions, NEW n, NEW s, IsNewest(server.pairs, n, s)
  PROVE  IsNewest(server'.pairs, n, s)
BY DEF SameSessions, IsNewest

LEMMA NewestIs ==
  ASSUME AccountTypeOK, NEW n, NEW s, IsNewest(server.pairs, n, s)
  PROVE  Newest(s) = n
<1>1. DOMAIN server.pairs \subseteq Nat
  BY DEF AccountTypeOK
<1>2. n \in DOMAIN server.pairs /\ SessionOf(n) = s
      /\ \A o \in DOMAIN server.pairs : SessionOf(o) = s => o <= n
  BY DEF IsNewest, SessionOf, Pair
<1>3. ASSUME NEW m \in DOMAIN server.pairs, SessionOf(m) = s,
             \A o \in DOMAIN server.pairs : SessionOf(o) = s => o <= m
      PROVE  m = n
  <2>1. m <= n /\ n <= m
    BY <1>2, <1>3
  <2>2. m \in Nat /\ n \in Nat
    BY <1>1, <1>2
  <2> QED BY <2>1, <2>2
<1> QED BY <1>2, <1>3, Zenon DEF Newest

-----------------------------------------------------------------------------
(* Types. *)

LEMMA NoCommandTyped ==
  NoCommand \in Process /\ NoCommand.pc = "idle"
  /\ \A kind \in {"auth", "status", "logout", "publish"} :
       Waiting(kind) \in Process /\ Waiting(kind).pc = "lock"
<1>1. 0 \in 0 .. MaxPairs /\ 0 \in 0 .. WaitLimit
  BY AccountAssumption
<1> QED BY <1>1 DEF NoCommand, Waiting, Process, Working

LEMMA AccountProcTyped ==
  ASSUME AccountTypeOK, AccountNext
  PROVE  proc' \in [Processes -> Process]
<1> USE DEF AccountTypeOK
<1>1. proc \in [Processes -> Process]
  OBVIOUS
<1>2. ASSUME NEW p \in Processes, NEW pc \in Working \cup {"idle", "consent", "create", "wait"}
      PROVE  Step(p, pc) => proc' \in [Processes -> Process]
  <2>1. proc[p] \in Process
    BY <1>1
  <2>2. [proc[p] EXCEPT !.pc = pc] \in Process
    BY <2>1 DEF Process
  <2> QED BY <1>1, <2>2 DEF Step
<1>3. ASSUME NEW p \in Processes, Ends(p)
      PROVE  proc' \in [Processes -> Process]
  BY <1>1, <1>3, NoCommandTyped DEF Ends
<1>4. stored \in 0 .. MaxPairs /\ Len(server.pairs) \in Nat
  BY AccountAssumption
<1>5. Next1 <= MaxPairs => Next1 \in 0 .. MaxPairs
  BY <1>4 DEF Next1
<1> USE DEF Working
<1>6. ASSUME NEW p \in Processes
      PROVE  \/ \E kind \in {"auth", "status", "logout", "publish"} : Run(p, kind)
             \/ Load(p) \/ Validate(p) \/ Invalid(p) \/ Rotate(p) \/ Store(p)
             \/ Revoke(p) \/ Clear(p) \/ Authorize(p) \/ Tokens(p)
             \/ TokensExpire(p) \/ RequestFails(p) \/ ProcessKilled(p)
             \/ Consent(p) \/ Create(p) \/ Poll(p) \/ WaitEnds(p)
             => proc' \in [Processes -> Process]
  <2>1. CASE \E kind \in {"auth", "status", "logout", "publish"} : Run(p, kind)
    BY <1>1, <2>1, NoCommandTyped DEF Run
  <2>2. CASE Load(p)
    <3>1. PICK pc \in {"lock", "revoke", "session"} :
            \/ Ends(p) \/ Step(p, "authorize")
            \/ proc' = [proc EXCEPT ![p].pair = stored, ![p].pc = pc]
      BY <2>2 DEF Load, Loads
    <3>2. CASE proc' = [proc EXCEPT ![p].pair = stored, ![p].pc = pc]
      <4>1. [proc[p] EXCEPT !.pair = stored, !.pc = pc] \in Process
        <5>1. proc[p] \in Process
          BY <1>1
        <5>2. pc \in {"lock", "revoke", "session"} /\ stored \in 0 .. MaxPairs
          BY <1>4
        <5>3. [proc[p] EXCEPT !.pair = stored] \in Process
          BY <5>1, <5>2 DEF Process
        <5> QED BY <5>2, <5>3 DEF Process
      <4> QED BY <1>1, <3>2, <4>1
    <3> QED BY <1>2, <1>3, <3>1, <3>2
  <2>3. CASE Validate(p)
    BY <1>2, <1>3, <2>3, Zenon DEF Validate
  <2>4. CASE Invalid(p)
    BY <1>2, <1>3, <2>4, Zenon DEF Invalid, NoSession
  <2>5. CASE Rotate(p)
    <3>1. \/ Ends(p) \/ Step(p, "revoke")
          \/ Next1 <= MaxPairs /\ proc' = [proc EXCEPT ![p].pc = "store",
                              ![p].pair = Next1, ![p].tried = TRUE]
      BY <2>5, Zenon DEF Rotate, NoSession
    <3>2. CASE Next1 <= MaxPairs /\ proc' = [proc EXCEPT ![p].pc = "store",
                              ![p].pair = Next1, ![p].tried = TRUE]
      <4>1. [proc[p] EXCEPT !.pc = "store", !.pair = Next1] \in Process
        BY ZenonT(60), <1>1, <1>5, <3>2 DEF Process
      <4> QED BY <1>1, <3>2, <4>1 DEF Process
    <3> QED BY <1>2, <1>3, <3>1, <3>2
  <2>6. CASE Store(p)
    BY <1>2, <1>3, <2>6, Zenon DEF Store
  <2>7. CASE Revoke(p)
    BY <1>2, <1>3, <2>7, Zenon DEF Revoke
  <2>8. CASE Clear(p)
    BY <1>2, <1>3, <2>8, Zenon DEF Clear
  <2>9. CASE Authorize(p)
    BY <1>2, <1>3, <2>9, Zenon DEF Authorize
  <2>10. CASE Tokens(p)
    <3>1. CASE proc' = [proc EXCEPT ![p].pc = "store", ![p].pair = Next1,
                                ![p].asked = TRUE, ![p].tried = FALSE]
      <4>1. Next1 \in 0 .. MaxPairs
        BY <1>5, <2>10 DEF Tokens
      <4>2. [proc[p] EXCEPT !.pc = "store", !.pair = Next1] \in Process
        BY ZenonT(60), <1>1, <4>1 DEF Process
      <4> QED BY <1>1, <3>1, <4>2 DEF Process
    <3> QED BY <1>3, <2>10, <3>1 DEF Tokens
  <2>11. CASE TokensExpire(p)
    BY <1>3, <2>11 DEF TokensExpire
  <2>12. CASE RequestFails(p)
    BY <1>3, <2>12 DEF RequestFails
  <2>13. CASE ProcessKilled(p)
    BY <1>3, <2>13 DEF ProcessKilled
  <2>14. CASE Consent(p)
    BY <1>2, <1>3, <2>14, Zenon DEF Consent, Refused
  <2>15. CASE Create(p)
    BY <1>2, <1>3, <2>15, Zenon DEF Create, Refused
  <2>16. CASE Poll(p)
    BY <1>3, <2>16 DEF Poll
  <2>17. CASE WaitEnds(p)
    BY <1>3, <2>17 DEF WaitEnds
  <2> QED
    BY <2>1, <2>2, <2>3, <2>4, <2>5, <2>6, <2>7, <2>8, <2>9, <2>10, <2>11, <2>12, <2>13,
       <2>14, <2>15, <2>16, <2>17
<1>7. CASE Tick
  <2>1. ASSUME NEW p \in Processes, proc[p].pc = "wait"
        PROVE  [proc[p] EXCEPT !.waited = @ + 1] \in Process
    <3>1. proc[p] \in Process /\ proc[p].waited \in 0 .. WaitLimit
      BY <1>1 DEF Process
    <3>2. proc[p].waited + 1 \in 0 .. WaitLimit
      BY <1>7, <2>1, <3>1, AccountAssumption DEF Tick
    <3> QED BY <3>1, <3>2 DEF Process
  <2> QED BY <1>1, <1>7, <2>1 DEF Tick
<1>8. CASE BuildEnds
  BY <1>1, <1>8 DEF BuildEnds
<1>9. CASE \E s \in 1 .. MaxPairs : SessionEnds(s)
  BY <1>1, <1>9 DEF SessionEnds
<1> QED BY <1>6, <1>7, <1>8, <1>9 DEF AccountNext

(* The server's half of the types: pairs are only ever added.               *)
ServerTyped ==
  /\ server'.pairs \in Seq(TokenPair) /\ Len(server'.pairs) <= MaxPairs
  /\ server' \in [ pairs : {server'.pairs}, live : SUBSET (1 .. MaxPairs),
                   build : Builds ]
  /\ Len(server.pairs) <= Len(server'.pairs)

LEMMA AccountServerTyped ==
  ASSUME AccountTypeOK, Guarded, AccountNext
  PROVE  ServerTyped
<1>1. Len(server.pairs) \in Nat /\ Len(server.pairs) <= MaxPairs
      /\ MaxPairs \in Nat /\ DOMAIN server.pairs = 1 .. Len(server.pairs)
  BY AccountAssumption DEF AccountTypeOK
<1>2. server' = server => ServerTyped
  BY <1>1 DEF AccountTypeOK, ServerTyped
<1>3. ASSUME NEW s \in 1 .. MaxPairs, server' = TokensEnd(s)
      PROVE  ServerTyped
  <2> HIDE DEF TokensEnd
  <2> QED BY <1>1, <1>3, TokensEnded DEF ServerTyped
<1>4. ASSUME NEW s \in 1 .. MaxPairs, NEW publish \in BOOLEAN,
             Next1 <= MaxPairs, server' = Given(s, publish)
      PROVE  ServerTyped
  BY <1>1, <1>4, TokensGiven DEF ServerTyped, Next1
<1>5. ASSUME NEW n \in DOMAIN server.pairs
      PROVE  SessionOf(n) \in 1 .. MaxPairs /\ Pair(n).publish \in BOOLEAN
  <2>1. server.pairs[n] \in TokenPair
    BY DEF AccountTypeOK
  <2> QED BY <2>1 DEF TokenPair, SessionOf, Pair
<1>6. ASSUME NEW p \in Processes,
             \/ \E kind \in {"auth", "status", "logout", "publish"} : Run(p, kind)
             \/ Load(p) \/ Validate(p) \/ Invalid(p) \/ Rotate(p) \/ Store(p)
             \/ Revoke(p) \/ Clear(p) \/ Authorize(p) \/ Tokens(p)
             \/ TokensExpire(p) \/ RequestFails(p) \/ ProcessKilled(p)
             \/ Consent(p) \/ Create(p) \/ Poll(p) \/ WaitEnds(p)
      PROVE  ServerTyped
  <2>1. CASE \E kind \in {"auth", "status", "logout", "publish"} : Run(p, kind)
    BY <1>2, <2>1 DEF Run
  <2>2. CASE Load(p)
    BY <1>2, <2>2 DEF Load, Loads
  <2>3. CASE Validate(p)
    BY <1>2, <2>3 DEF Validate
  <2>4. CASE Invalid(p)
    BY <1>2, <2>4 DEF Invalid
  <2>5. CASE Rotate(p)
    <3>1. CASE Refreshes(proc[p].pair)
      <4> DEFINE s == SessionOf(proc[p].pair)
                 publish == Pair(proc[p].pair).publish
      <4>1. server' = Given(s, publish) /\ Next1 <= MaxPairs
        BY <2>5, <3>1 DEF Rotate
      <4>2. s \in server.live /\ s \in 1 .. MaxPairs
        BY <3>1 DEF Refreshes, AccountTypeOK
      <4>3. publish \in BOOLEAN
        BY <1>5, <2>5 DEF Rotate, Guarded
      <4> HIDE DEF s, publish
      <4> QED BY <1>4, <4>1, <4>2, <4>3
    <3> QED BY <1>2, <2>5, <3>1 DEF Rotate
  <2>6. CASE Store(p)
    BY <1>2, <2>6 DEF Store
  <2>7. CASE Revoke(p)
    <3>1. CASE Refreshes(proc[p].pair)
      <4>1. server' = TokensEnd(SessionOf(proc[p].pair))
        BY <2>7, <3>1 DEF Revoke
      <4>2. SessionOf(proc[p].pair) \in 1 .. MaxPairs
        BY <3>1 DEF Refreshes, AccountTypeOK
      <4> QED BY <1>3, <4>1, <4>2
    <3> QED BY <1>2, <2>7, <3>1 DEF Revoke
  <2>8. CASE Clear(p)
    BY <1>2, <2>8 DEF Clear
  <2>9. CASE Authorize(p)
    BY <1>2, <2>9 DEF Authorize
  <2>10. CASE Tokens(p)
    <3>1. PICK publish \in BOOLEAN : server' = Given(Next1, publish)
      BY <2>10 DEF Tokens
    <3>2. Next1 \in 1 .. MaxPairs /\ Next1 <= MaxPairs
      BY <1>1, <2>10 DEF Tokens, Next1
    <3> QED BY <1>4, <3>1, <3>2
  <2>11. CASE TokensExpire(p)
    BY <1>2, <2>11 DEF TokensExpire
  <2>12. CASE RequestFails(p)
    BY <1>2, <2>12 DEF RequestFails
  <2>13. CASE ProcessKilled(p)
    BY <1>2, <2>13 DEF ProcessKilled
  <2>14. CASE Consent(p)
    BY <1>2, <2>14 DEF Consent, Refused
  <2>15. CASE Create(p)
    <3>1. CASE server' = [server EXCEPT !.build = IF @ = "none" THEN "active" ELSE @]
      BY <1>1, <3>1 DEF AccountTypeOK, ServerTyped, Builds
    <3> QED BY <1>2, <2>15, <3>1 DEF Create, Refused
  <2>16. CASE Poll(p)
    BY <1>2, <2>16 DEF Poll
  <2>17. CASE WaitEnds(p)
    BY <1>2, <2>17 DEF WaitEnds
  <2> QED
    BY <1>6, <2>1, <2>2, <2>3, <2>4, <2>5, <2>6, <2>7, <2>8, <2>9, <2>10, <2>11, <2>12,
       <2>13, <2>14, <2>15, <2>16, <2>17
<1>7. CASE Tick
  BY <1>1, <1>7, TokensAge DEF ServerTyped
<1>8. CASE BuildEnds
  <2>1. server' = [server EXCEPT !.build = "over"]
    BY <1>8 DEF BuildEnds
  <2> QED BY <1>1, <2>1 DEF AccountTypeOK, ServerTyped, Builds
<1>9. CASE \E s \in 1 .. MaxPairs : SessionEnds(s)
  <2>1. PICK s \in 1 .. MaxPairs : server' = TokensEnd(s)
    BY <1>9 DEF SessionEnds
  <2> QED BY <1>3, <2>1
<1> QED BY <1>6, <1>7, <1>8, <1>9 DEF AccountNext

LEMMA AccountTyped ==
  ASSUME AccountTypeOK, Guarded, AccountNext
  PROVE  AccountTypeOK'
<1>1. ServerTyped
  BY AccountServerTyped
<1>2. proc' \in [Processes -> Process]
  BY AccountProcTyped
<1>3. Len(server.pairs) \in Nat /\ MaxPairs \in Nat /\ Len(server'.pairs) \in Nat
  BY <1>1, AccountAssumption DEF AccountTypeOK, ServerTyped
<1> DEFINE Rest == /\ stored' \in {stored, 0} \cup DOMAIN server.pairs
                   /\ lock' \in Processes \cup {NoProcess}
                   /\ lost'.sessions \subseteq 1 .. MaxPairs
                   /\ lost'.faults \in 0 .. AccountFaults
<1>4. lost' = lost => lost'.sessions \subseteq 1 .. MaxPairs
                      /\ lost'.faults \in 0 .. AccountFaults
  BY DEF AccountTypeOK
<1>5. ASSUME NEW S \in SUBSET (1 .. MaxPairs), FaultIn(S)
      PROVE  lost'.sessions \subseteq 1 .. MaxPairs /\ lost'.faults \in 0 .. AccountFaults
  BY <1>5, AccountAssumption DEF FaultIn, AccountTypeOK
<1>6. ASSUME NEW p \in Processes, Ends(p)
      PROVE  lock' \in Processes \cup {NoProcess}
  BY <1>6 DEF Ends, AccountTypeOK
<1>7. ASSUME NEW p \in Processes PROVE Unstored(p) \in SUBSET (1 .. MaxPairs)
  <2>1. ASSUME NEW n \in DOMAIN server.pairs PROVE SessionOf(n) \in 1 .. MaxPairs
    <3>1. server.pairs[n] \in TokenPair
      BY DEF AccountTypeOK
    <3> QED BY <3>1 DEF TokenPair, SessionOf, Pair
  <2> QED BY <2>1 DEF Unstored, Guarded
<1>8. ASSUME NEW p \in Processes,
             \/ \E kind \in {"auth", "status", "logout", "publish"} : Run(p, kind)
             \/ Load(p) \/ Validate(p) \/ Invalid(p) \/ Rotate(p) \/ Store(p)
             \/ Revoke(p) \/ Clear(p) \/ Authorize(p) \/ Tokens(p)
             \/ TokensExpire(p) \/ RequestFails(p) \/ ProcessKilled(p)
             \/ Consent(p) \/ Create(p) \/ Poll(p) \/ WaitEnds(p)
      PROVE  Rest
  <2>1. CASE \E kind \in {"auth", "status", "logout", "publish"} : Run(p, kind)
    BY <1>4, <1>6, <2>1 DEF Run, AccountTypeOK
  <2>2. CASE Load(p)
    BY <1>4, <1>6, <2>2 DEF Load, Loads, AccountTypeOK
  <2>3. CASE Validate(p)
    BY <1>4, <1>6, <2>3 DEF Validate, AccountTypeOK
  <2>4. CASE Invalid(p)
    BY <1>4, <1>6, <2>4 DEF Invalid, NoSession, AccountTypeOK
  <2>5. CASE Rotate(p)
    <3>1. CASE Refreshes(proc[p].pair)
      <4> DEFINE s == SessionOf(proc[p].pair)
      <4>1. s \in 1 .. MaxPairs
        BY <3>1 DEF Refreshes, AccountTypeOK
      <4>2. {s} \in SUBSET (1 .. MaxPairs)
        BY <4>1
      <4>3. \/ lock' = lock /\ lost' = lost
            \/ FaultIn({s}) /\ Ends(p)
        BY <2>5, <3>1 DEF Rotate
      <4>4. stored' = stored
        BY <2>5, Zenon DEF Rotate
      <4> HIDE DEF s
      <4> QED BY <1>4, <1>5, <1>6, <4>2, <4>3, <4>4 DEF AccountTypeOK
    <3> QED BY <1>4, <1>6, <2>5, <3>1 DEF Rotate, NoSession, AccountTypeOK
  <2>6. CASE Store(p)
    BY <1>4, <1>6, <2>6 DEF Store, AccountTypeOK, Guarded
  <2>7. CASE Revoke(p)
    BY <1>4, <1>6, <2>7 DEF Revoke, AccountTypeOK
  <2>8. CASE Clear(p)
    BY <1>4, <1>6, <2>8 DEF Clear, AccountTypeOK
  <2>9. CASE Authorize(p)
    BY <1>4, <1>6, <2>9 DEF Authorize, AccountTypeOK
  <2>10. CASE Tokens(p)
    <3>1. Next1 \in 1 .. MaxPairs
      BY <1>3, <2>10 DEF Tokens, Next1
    <3>2. {Next1} \in SUBSET (1 .. MaxPairs)
      BY <3>1
    <3>3. \/ lock' = lock /\ lost' = lost
          \/ FaultIn({Next1}) /\ Ends(p)
      BY <2>10 DEF Tokens
    <3>4. stored' = stored
      BY <2>10 DEF Tokens
    <3> QED BY <1>4, <1>5, <1>6, <3>2, <3>3, <3>4 DEF AccountTypeOK
  <2>11. CASE TokensExpire(p)
    BY <1>4, <1>6, <2>11 DEF TokensExpire, AccountTypeOK
  <2>12. CASE RequestFails(p)
    BY <1>5, <1>6, <1>7, <2>12 DEF RequestFails, AccountTypeOK
  <2>13. CASE ProcessKilled(p)
    BY <1>5, <1>6, <1>7, <2>13 DEF ProcessKilled, AccountTypeOK
  <2>14. CASE Consent(p)
    BY <1>4, <1>6, <2>14 DEF Consent, Refused, AccountTypeOK
  <2>15. CASE Create(p)
    BY <1>4, <1>6, <2>15 DEF Create, Refused, AccountTypeOK
  <2>16. CASE Poll(p)
    BY <1>4, <1>6, <2>16 DEF Poll, AccountTypeOK
  <2>17. CASE WaitEnds(p)
    BY <1>4, <1>6, <2>17 DEF WaitEnds, AccountTypeOK
  <2> QED
    BY <1>8, <2>1, <2>2, <2>3, <2>4, <2>5, <2>6, <2>7, <2>8, <2>9, <2>10, <2>11, <2>12,
       <2>13, <2>14, <2>15, <2>16, <2>17
<1>9. ASSUME Tick PROVE Rest
  BY <1>4, <1>9 DEF Tick, AccountTypeOK
<1>10. ASSUME BuildEnds PROVE Rest
  BY <1>4, <1>10 DEF BuildEnds, AccountTypeOK
<1>11. ASSUME \E s \in 1 .. MaxPairs : SessionEnds(s) PROVE Rest
  BY <1>4, <1>11 DEF SessionEnds, AccountTypeOK
<1>12. Rest
  BY <1>8, <1>9, <1>10, <1>11 DEF AccountNext
<1>13. stored' \in 0 .. Len(server'.pairs)
  <2>1. stored' \in 0 .. Len(server.pairs)
    BY <1>3, <1>12 DEF AccountTypeOK
  <2> HIDE DEF Rest
  <2> QED BY <1>1, <1>3, <2>1 DEF ServerTyped
<1> QED BY <1>1, <1>2, <1>12, <1>13 DEF AccountTypeOK, ServerTyped

LEMMA OneWorksStays ==
  ASSUME AccountTypeOK, OneWorks, AccountNext
  PROVE  OneWorks'
<1>1. proc \in [Processes -> Process] /\ NoProcess \notin Processes
  BY AccountAssumption DEF AccountTypeOK
<1>2. ASSUME NEW p \in Processes, Ends(p)
      PROVE  OneWorks'
  BY <1>1, <1>2, NoCommandTyped DEF OneWorks, Ends, Working
<1>3. ASSUME NEW p \in Processes, NEW pc, Step(p, pc), lock' = lock,
             proc[p].pc \in Working \ {"lock"} <=> pc \in Working \ {"lock"}
      PROVE  OneWorks'
  <2>1. \A q \in Processes : proc'[q].pc = IF q = p THEN pc ELSE proc[q].pc
    BY <1>1, <1>3 DEF Step, Process
  <2> QED BY <1>3, <2>1 DEF OneWorks
<1>4. ASSUME NEW p \in Processes,
             \/ \E kind \in {"auth", "status", "logout", "publish"} : Run(p, kind)
             \/ Load(p) \/ Validate(p) \/ Invalid(p) \/ Rotate(p) \/ Store(p)
             \/ Revoke(p) \/ Clear(p) \/ Authorize(p) \/ Tokens(p)
             \/ TokensExpire(p) \/ RequestFails(p) \/ ProcessKilled(p)
             \/ Consent(p) \/ Create(p) \/ Poll(p) \/ WaitEnds(p)
      PROVE  OneWorks'
  <2>1. CASE \E kind \in {"auth", "status", "logout", "publish"} : Run(p, kind)
    BY <1>1, <2>1, NoCommandTyped DEF Run, OneWorks, Working
  <2>2. CASE Load(p)
    <3>1. CASE Ends(p)
      BY <1>2, <3>1
    <3>2. CASE ~Ends(p)
      <4>1. PICK pc \in {"authorize", "revoke", "session"} :
                \/ Step(p, pc)
                \/ proc' = [proc EXCEPT ![p].pair = stored, ![p].pc = pc]
        BY <2>2, <3>2 DEF Load, Loads
      <4>2. lock = NoProcess /\ lock' = p
        BY <2>2, <3>2 DEF Load, Loads
      <4>3. \A q \in Processes : proc'[q].pc = IF q = p THEN pc ELSE proc[q].pc
        BY <1>1, <4>1 DEF Step, Process
      <4> QED BY <1>1, <4>2, <4>3 DEF OneWorks, Working
    <3> QED BY <3>1, <3>2
  <2>3. CASE Validate(p)
    <3>1. CASE Step(p, "consent") /\ lock' = NoProcess
      <4>1. \A q \in Processes : proc'[q].pc = IF q = p THEN "consent" ELSE proc[q].pc
        BY <1>1, <3>1 DEF Step, Process
      <4>2. lock = p
        BY <2>3 DEF Validate, OneWorks, Working
      <4> QED BY <1>1, <3>1, <4>1, <4>2 DEF OneWorks, Working
    <3>2. CASE Step(p, "revoke") /\ lock' = lock
      BY <1>3, <2>3, <3>2 DEF Validate, Working
    <3> QED BY <1>2, <2>3, <3>1, <3>2, Zenon DEF Validate
  <2>4. CASE Invalid(p)
    BY <1>2, <1>3, <2>4 DEF Invalid, NoSession, Working
  <2>5. CASE Rotate(p)
    <3>1. CASE lock' = lock /\ proc' = [proc EXCEPT ![p].pc = "store",
                          ![p].pair = Next1, ![p].tried = TRUE]
      <4> DEFINE new == [proc[p] EXCEPT !.pc = "store", !.pair = Next1, !.tried = TRUE]
      <4>1. new.pc = "store"
        BY <1>1 DEF Process
      <4>2. proc' = [proc EXCEPT ![p] = new]
        BY <1>1, <3>1
      <4> HIDE DEF new
      <4>3. \A q \in Processes : proc'[q].pc = IF q = p THEN "store" ELSE proc[q].pc
        BY <1>1, <4>1, <4>2
      <4>4. proc[p].pc = "refresh"
        BY <2>5, Zenon DEF Rotate
      <4>5. lock' = lock
        BY <3>1
      <4> QED BY <4>3, <4>4, <4>5 DEF OneWorks, Working
    <3>2. CASE Step(p, "revoke") /\ lock' = lock
      BY <1>3, <2>5, <3>2 DEF Rotate, Working
    <3> QED BY <1>2, <2>5, <3>1, <3>2, Zenon DEF Rotate, NoSession
  <2>6. CASE Store(p)
    BY <1>2, <1>3, <2>6 DEF Store, Working
  <2>7. CASE Revoke(p)
    BY <1>3, <2>7 DEF Revoke, Working
  <2>8. CASE Clear(p)
    BY <1>2, <1>3, <2>8, Zenon DEF Clear, Working
  <2>9. CASE Authorize(p)
    BY <1>3, <2>9 DEF Authorize, Working
  <2>10. CASE Tokens(p)
    <3>1. CASE lock' = lock /\ proc' = [proc EXCEPT ![p].pc = "store", ![p].pair = Next1,
                                    ![p].asked = TRUE, ![p].tried = FALSE]
      <4> DEFINE new == [proc[p] EXCEPT !.pc = "store", !.pair = Next1,
                                        !.asked = TRUE, !.tried = FALSE]
      <4>1. new.pc = "store"
        BY <1>1 DEF Process
      <4>2. proc' = [proc EXCEPT ![p] = new]
        BY <1>1, <3>1
      <4> HIDE DEF new
      <4>3. \A q \in Processes : proc'[q].pc = IF q = p THEN "store" ELSE proc[q].pc
        BY <1>1, <4>1, <4>2
      <4>4. proc[p].pc = "tokens"
        BY <2>10, Zenon DEF Tokens
      <4>5. lock' = lock
        BY <3>1
      <4> QED BY <4>3, <4>4, <4>5 DEF OneWorks, Working
    <3> QED BY <1>2, <2>10, <3>1, Zenon DEF Tokens
  <2>11. CASE TokensExpire(p)
    BY <1>2, <2>11 DEF TokensExpire
  <2>12. CASE RequestFails(p)
    BY <1>2, <2>12 DEF RequestFails
  <2>13. CASE ProcessKilled(p)
    BY <1>2, <2>13 DEF ProcessKilled
  <2>14. CASE Consent(p)
    BY <1>2, <1>3, <2>14 DEF Consent, Refused, Working
  <2>15. CASE Create(p)
    BY <1>2, <1>3, <2>15 DEF Create, Refused, Working
  <2>16. CASE Poll(p)
    BY <1>2, <2>16 DEF Poll
  <2>17. CASE WaitEnds(p)
    BY <1>2, <2>17 DEF WaitEnds
  <2> QED
    BY <1>4, <2>1, <2>2, <2>3, <2>4, <2>5, <2>6, <2>7, <2>8, <2>9, <2>10, <2>11, <2>12,
       <2>13, <2>14, <2>15, <2>16, <2>17
<1>5. CASE Tick
  <2>1. \A q \in Processes : proc'[q].pc = proc[q].pc
    BY <1>1, <1>5 DEF Tick, Process
  <2> QED BY <1>5, <2>1 DEF Tick, OneWorks
<1>6. CASE BuildEnds
  BY <1>6 DEF BuildEnds, OneWorks
<1>7. CASE \E s \in 1 .. MaxPairs : SessionEnds(s)
  BY <1>7 DEF SessionEnds, OneWorks
<1> QED BY <1>4, <1>5, <1>6, <1>7 DEF AccountNext

-----------------------------------------------------------------------------
(* The credentials are guarded. *)

(* With the lock in one hand, that one answers for the credentials.         *)
LEMMA HolderGuards ==
  ASSUME OneWorks', NEW p \in Processes, lock' = p,
         proc'[p].pc \in {"session", "refresh", "revoke"} =>
           /\ proc'[p].pair = stored' /\ stored' \in DOMAIN server'.pairs
           /\ Kept',
         proc'[p].pc = "store" =>
           /\ proc'[p].pair \in DOMAIN server'.pairs
           /\ \A s \in Owed' : IsNewest(server'.pairs, proc'[p].pair, s),
         proc'[p].pc \in {"clear", "authorize", "tokens"} => Owed' = {}
  PROVE  Guarded'
<1>1. lock' # NoProcess
  BY AccountAssumption
<1>2. \A q \in Processes \ {p} : proc'[q].pc \notin Working \ {"lock"}
  BY DEF OneWorks
<1> HIDE DEF Kept, Owed
<1> QED BY <1>1, <1>2 DEF Guarded, Working

(* A step beside the credentials, by which nobody takes them up.            *)
LEMMA BesideGuards ==
  ASSUME Guarded, SameSessions \/ server' = server, stored' = stored,
         Owed' \subseteq Owed,
         \A q \in Processes : proc'[q].pc \in Working \ {"lock"} =>
            proc'[q].pc = proc[q].pc /\ proc'[q].pair = proc[q].pair,
         lock' = NoProcess => Kept \/ Owed' = {}
  PROVE  Guarded'
<1>1. \A n, s : IsNewest(server.pairs, n, s) => IsNewest(server'.pairs, n, s)
  BY NewestStays
<1>2. DOMAIN server'.pairs = DOMAIN server.pairs
  BY DEF SameSessions
<1>3. Kept => Kept'
  BY <1>1 DEF Kept
<1>4. Owed' = {} => Kept'
  BY DEF Kept
<1>5. lock' = NoProcess => Kept'
  BY <1>3, <1>4
<1>6. ASSUME NEW p \in Processes
      PROVE  /\ proc'[p].pc \in {"session", "refresh", "revoke"} =>
                  /\ proc'[p].pair = stored' /\ stored' \in DOMAIN server'.pairs
                  /\ Kept'
             /\ proc'[p].pc = "store" =>
                  /\ proc'[p].pair \in DOMAIN server'.pairs
                  /\ \A s \in Owed' : IsNewest(server'.pairs, proc'[p].pair, s)
             /\ proc'[p].pc \in {"clear", "authorize", "tokens"} => Owed' = {}
  BY <1>1, <1>2, <1>3, <1>6 DEF Guarded, Working
<1> HIDE DEF Kept, Owed
<1> QED BY <1>5, <1>6 DEF Guarded

LEMMA EndsGuarded ==
  ASSUME AccountTypeOK, OneWorks, Guarded, NEW p \in Processes, Ends(p),
         SameSessions \/ server' = server, stored' = stored, Owed' \subseteq Owed,
         lock = p => Kept \/ Owed' = {}
  PROVE  Guarded'
<1>1. ASSUME NEW q \in Processes, proc'[q].pc \in Working \ {"lock"}
      PROVE  proc'[q].pc = proc[q].pc /\ proc'[q].pair = proc[q].pair
  BY <1>1, NoCommandTyped DEF Ends, AccountTypeOK, Working
<1>2. lock' = NoProcess => Kept \/ Owed' = {}
  BY DEF Ends, Guarded
<1> QED BY <1>1, <1>2, BesideGuards

(* What the one at work may count on. *)
LEMMA AtWork ==
  ASSUME AccountTypeOK, OneWorks, Guarded, NEW p \in Processes
  PROVE  /\ proc[p].pc \in Working \ {"lock"} => lock = p
         /\ proc[p].pc \notin Working \ {"lock"} => lock # p
         /\ proc[p].pc \in {"session", "refresh", "revoke"} => Kept
         /\ proc[p].pc \in {"clear", "authorize", "tokens"} => Owed = {}
         /\ proc[p].pc = "store" => Owed \subseteq {SessionOf(proc[p].pair)}
BY DEF OneWorks, Guarded, IsNewest, SessionOf, Pair

LEMMA GuardedStays ==
  ASSUME AccountTypeOK, OneWorks, Guarded, AccountNext
  PROVE  Guarded'
<1>1. OneWorks' /\ AccountTypeOK'
  BY OneWorksStays, AccountTyped
<1>2. proc \in [Processes -> Process]
  BY DEF AccountTypeOK
<1>3. server' = server /\ lost' = lost => Owed' = Owed
  BY DEF Owed
<1>4. server' = server /\ stored' = stored /\ Owed' = Owed => (Kept' <=> Kept)
  BY DEF Kept
<1>5. ASSUME NEW p \in Processes, Ends(p), server' = server, stored' = stored,
             lost' = lost, lock = p => Kept \/ Owed' = {}
      PROVE  Guarded'
  BY <1>3, <1>5, EndsGuarded
<1>6. ASSUME NEW p \in Processes, NEW pc, Step(p, pc)
      PROVE  /\ proc'[p].pc = pc /\ proc'[p].pair = proc[p].pair
             /\ \A q \in Processes \ {p} : proc'[q] = proc[q]
  BY <1>2, <1>6 DEF Step, Process
(* On to the revocation, with the pair at hand. *)
<1>7. ASSUME NEW p \in Processes, Step(p, "revoke"), lock' = lock, server' = server,
             stored' = stored, lost' = lost, proc[p].pc \in {"session", "refresh"}
      PROVE  Guarded'
  <2>1. Kept' /\ lock' = p /\ proc'[p].pc = "revoke"
    BY <1>3, <1>4, <1>6, <1>7, AtWork DEF Working
  <2>2. proc'[p].pair = stored' /\ stored' \in DOMAIN server'.pairs
    BY <1>6, <1>7 DEF Guarded
  <2> HIDE DEF Kept, Owed
  <2> QED BY <1>1, <2>1, <2>2, HolderGuards
<1> HIDE DEF Kept, Owed
<1>8. ASSUME NEW p \in Processes,
             \/ \E kind \in {"auth", "status", "logout", "publish"} : Run(p, kind)
             \/ Load(p) \/ Validate(p) \/ Invalid(p) \/ Rotate(p) \/ Store(p)
             \/ Revoke(p) \/ Clear(p) \/ Authorize(p) \/ Tokens(p)
             \/ TokensExpire(p) \/ RequestFails(p) \/ ProcessKilled(p)
             \/ Consent(p) \/ Create(p) \/ Poll(p) \/ WaitEnds(p)
      PROVE  Guarded'
  <2>1. CASE \E kind \in {"auth", "status", "logout", "publish"} : Run(p, kind)
    <3>1. \A q \in Processes : proc'[q].pc \in Working \ {"lock"} =>
            proc'[q].pc = proc[q].pc /\ proc'[q].pair = proc[q].pair
      BY <1>2, <2>1, NoCommandTyped DEF Run, Working
    <3>2. lock' = NoProcess => Kept
      BY <2>1 DEF Run, Guarded
    <3>3. server' = server /\ stored' = stored /\ lost' = lost
      BY <2>1 DEF Run
    <3> QED BY <1>3, <3>1, <3>2, <3>3, BesideGuards
  <2>2. CASE Load(p)
    <3>1. lock = NoProcess /\ server' = server /\ stored' = stored /\ lost' = lost
      BY <2>2 DEF Load, Loads
    <3>2. Kept
      BY <3>1 DEF Guarded
    <3>3. CASE Ends(p)
      BY <1>5, <3>1, <3>2, <3>3
    <3>4. CASE stored = 0 /\ lock' = p /\ Step(p, "authorize")
      <4>1. Owed' = {}
        <5>1. Owed = {}
          BY <3>2, <3>4 DEF Kept, IsNewest, AccountTypeOK
        <5> QED BY <1>3, <3>1, <5>1
      <4>2. proc'[p].pc = "authorize"
        BY <1>6, <3>4
      <4> QED BY <1>1, <3>4, <4>1, <4>2, HolderGuards
    <3>5. CASE stored # 0 /\ lock' = p
               /\ proc' = [proc EXCEPT ![p].pair = stored, ![p].pc =
                         IF proc[p].kind = "logout" THEN "revoke" ELSE "session"]
      <4>1. Kept'
        BY <1>3, <1>4, <3>1, <3>2
      <4>2. proc'[p].pair = stored' /\ proc'[p].pc \in {"revoke", "session"}
        BY <1>2, <3>1, <3>5 DEF Process
      <4>3. stored' \in DOMAIN server'.pairs
        BY <3>1, <3>5 DEF AccountTypeOK
      <4> QED BY <1>1, <3>5, <4>1, <4>2, <4>3, HolderGuards
    <3> QED BY <2>2, <3>3, <3>4, <3>5 DEF Load, Loads
  <2>3. CASE Validate(p)
    <3>1. server' = server /\ stored' = stored /\ lost' = lost /\ proc[p].pc = "session"
      BY <2>3 DEF Validate
    <3>2. lock = p /\ Kept
      BY <3>1, AtWork DEF Working
    <3>3. CASE Ends(p)
      BY <1>5, <3>1, <3>2, <3>3
    <3>4. CASE lock' = NoProcess /\ Step(p, "consent")
      <4>1. \A q \in Processes : proc'[q].pc \in Working \ {"lock"} =>
              proc'[q].pc = proc[q].pc /\ proc'[q].pair = proc[q].pair
        BY <1>6, <3>4 DEF Working
      <4> QED BY <1>3, <3>1, <3>2, <4>1, BesideGuards
    <3>5. CASE lock' = lock /\ Step(p, "revoke")
      BY <1>7, <3>1, <3>5
    <3> QED BY <2>3, <3>3, <3>4, <3>5, Zenon DEF Validate
  <2>4. CASE Invalid(p)
    <3>1. server' = server /\ stored' = stored /\ lost' = lost /\ proc[p].pc = "session"
      BY <2>4 DEF Invalid
    <3>2. lock = p /\ Kept
      BY <3>1, AtWork DEF Working
    <3>3. CASE Ends(p)
      BY <1>5, <3>1, <3>2, <3>3
    <3>4. CASE lock' = lock /\ Step(p, "refresh")
      <4>1. Kept' /\ lock' = p /\ proc'[p].pc = "refresh"
        BY <1>3, <1>4, <1>6, <3>1, <3>2, <3>4
      <4>2. proc'[p].pair = stored' /\ stored' \in DOMAIN server'.pairs
        BY <1>6, <3>1, <3>4 DEF Guarded
      <4> QED BY <1>1, <4>1, <4>2, HolderGuards
    <3>5. CASE lock' = lock /\ Step(p, "revoke")
      BY <1>7, <3>1, <3>5
    <3> QED BY <2>4, <3>3, <3>4, <3>5, Zenon DEF Invalid, NoSession
  <2>5. CASE Rotate(p)
    <3>1. proc[p].pc = "refresh" /\ stored' = stored /\ Next1 <= MaxPairs
      BY <2>5, Zenon DEF Rotate
    <3>2. lock = p /\ Kept /\ proc[p].pair = stored /\ stored \in DOMAIN server.pairs
      BY <3>1, AtWork DEF Guarded, Working
    <3>3. CASE ~Refreshes(proc[p].pair)
      <4>1. server' = server /\ lost' = lost
        BY <2>5, <3>3, Zenon DEF Rotate
      <4>2. Ends(p) \/ (Step(p, "revoke") /\ lock' = lock)
        BY <2>5, <3>3, Zenon DEF Rotate, NoSession
      <4> QED BY <1>5, <1>7, <3>1, <3>2, <4>1, <4>2
    <3>4. CASE Refreshes(proc[p].pair)
      <4> DEFINE s == SessionOf(proc[p].pair)
                 publish == Pair(proc[p].pair).publish
      <4>1. server' = Given(s, publish) /\ s \in server.live
        BY <2>5, <3>4, Zenon DEF Rotate, Refreshes
      <4>2. s \in 1 .. MaxPairs /\ publish \in BOOLEAN
        <5>1. server.pairs[stored] \in TokenPair
          BY <3>2 DEF AccountTypeOK
        <5> QED BY <3>2, <5>1 DEF TokenPair, SessionOf, Pair
      <4>3. \/ lock' = lock /\ lost' = lost
               /\ proc' = [proc EXCEPT ![p].pc = "store",
                                  ![p].pair = Next1, ![p].tried = TRUE]
            \/ FaultIn({s}) /\ Ends(p)
        BY <2>5, <3>4, Zenon DEF Rotate
      <4>4. \A r \in Owed : r = s
        BY <3>2 DEF Kept, IsNewest, SessionOf, Pair
      <4> HIDE DEF s, publish
      <4>5. /\ Next1 \in DOMAIN server'.pairs /\ server'.pairs[Next1].session = s
            /\ DOMAIN server'.pairs = 1 .. Next1 /\ server'.live = server.live
            /\ Next1 \in Nat
        <5>1. /\ Next1 \in 1 .. MaxPairs /\ server'.pairs[Next1].session = s
              /\ DOMAIN server'.pairs = 1 .. Next1
              /\ server'.live = server.live \cup {s}
          BY <3>1, <4>1, <4>2, TokensGiven
        <5> QED BY <4>1, <5>1, AccountAssumption
      <4>6. IsNewest(server'.pairs, Next1, s)
        BY <4>5 DEF IsNewest
      <4>7. CASE FaultIn({s}) /\ Ends(p)
        <5>1. Owed' = {}
          BY <4>4, <4>5, <4>7 DEF Owed, FaultIn
        <5>2. lock' = NoProcess
          BY <3>2, <4>7 DEF Ends
        <5>3. Kept'
          BY <5>1 DEF Kept
        <5>4. \A q \in Processes : proc'[q].pc \notin Working \ {"lock"}
          BY <1>1, <5>2, AccountAssumption DEF OneWorks
        <5> QED BY <5>2, <5>3, <5>4 DEF Guarded, Working
      <4>8. CASE /\ lock' = lock /\ lost' = lost
                 /\ proc' = [proc EXCEPT ![p].pc = "store",
                                  ![p].pair = Next1, ![p].tried = TRUE]
        <5> DEFINE new == [proc[p] EXCEPT !.pc = "store", !.pair = Next1, !.tried = TRUE]
        <5>1. new.pc = "store" /\ new.pair = Next1
          BY <1>2 DEF Process
        <5>2. proc' = [proc EXCEPT ![p] = new]
          BY <1>2, <4>8
        <5> HIDE DEF new
        <5>3. proc'[p].pc = "store" /\ proc'[p].pair = Next1
          BY <1>2, <5>1, <5>2
        <5>4. lock' = p /\ lost' = lost
          BY <3>2, <4>8
        <5>5. \A r \in Owed' : r = s
          BY <4>4, <4>5, <5>4 DEF Owed
        <5>6. \A r \in Owed' : IsNewest(server'.pairs, proc'[p].pair, r)
          BY <4>6, <5>3, <5>5
        <5>7. proc'[p].pair \in DOMAIN server'.pairs
          BY <4>5, <5>3
        <5> QED BY <1>1, <5>3, <5>4, <5>6, <5>7, HolderGuards
      <4> QED BY <4>3, <4>7, <4>8
    <3> QED BY <3>3, <3>4
  <2>6. CASE Store(p)
    <3>1. /\ proc[p].pc = "store" /\ stored' = proc[p].pair
          /\ server' = server /\ lost' = lost
      BY <2>6 DEF Store
    <3>2. lock = p /\ proc[p].pair \in DOMAIN server.pairs
          /\ \A s \in Owed : IsNewest(server.pairs, proc[p].pair, s)
      BY <3>1, AtWork DEF Guarded, Working
    <3>3. Kept'
      BY <1>3, <3>1, <3>2 DEF Kept
    <3>4. CASE Ends(p)
      <4>1. lock' = NoProcess
        BY <3>2, <3>4 DEF Ends
      <4>2. \A q \in Processes : proc'[q].pc \notin Working \ {"lock"}
        BY <1>1, <4>1, AccountAssumption DEF OneWorks
      <4> QED BY <3>3, <4>1, <4>2 DEF Guarded, Working
    <3>5. CASE Step(p, "session") /\ lock' = lock
      <4>1. proc'[p].pc = "session" /\ proc'[p].pair = stored' /\ lock' = p
        BY <1>6, <3>1, <3>2, <3>5
      <4>2. stored' \in DOMAIN server'.pairs
        BY <3>1, <3>2
      <4> QED BY <1>1, <3>3, <4>1, <4>2, HolderGuards
    <3> QED BY <2>6, <3>4, <3>5, Zenon DEF Store
  <2>7. CASE Revoke(p)
    <3>1. /\ proc[p].pc = "revoke" /\ stored' = stored /\ lost' = lost /\ lock' = lock
          /\ Step(p, "clear")
      BY <2>7 DEF Revoke
    <3>2. lock = p /\ Kept /\ proc[p].pair = stored
      BY <3>1, AtWork DEF Guarded, Working
    <3>3. \A s \in Owed : s \in server.live /\ SessionOf(stored) = s /\ Newest(s) = stored
      BY <3>2, NewestIs DEF Kept, Owed, IsNewest, SessionOf, Pair
    <3>4. Owed' = {}
      <4>1. CASE Owed = {}
        <5>1. server' = server \/ server'.live \subseteq server.live
          BY <2>7 DEF Revoke, TokensEnd, AccountTypeOK
        <5> QED BY <3>1, <4>1, <5>1 DEF Owed
      <4>2. CASE Owed # {}
        <5>1. Owed = {SessionOf(stored)} /\ Refreshes(stored)
          BY <3>3, <4>2 DEF Refreshes
        <5>2. server' = TokensEnd(SessionOf(stored))
          BY <2>7, <3>2, <5>1 DEF Revoke
        <5>3. server'.live = server.live \ {SessionOf(stored)}
          BY <5>2 DEF TokensEnd, AccountTypeOK
        <5> QED BY <3>1, <5>1, <5>3 DEF Owed
      <4> QED BY <4>1, <4>2
    <3>5. proc'[p].pc = "clear" /\ lock' = p
      BY <1>6, <3>1, <3>2
    <3> QED BY <1>1, <3>4, <3>5, HolderGuards
  <2>8. CASE Clear(p)
    <3>1. proc[p].pc = "clear" /\ server' = server /\ lost' = lost
      BY <2>8 DEF Clear
    <3>2. lock = p /\ Owed' = {}
      BY <1>3, <3>1, AtWork DEF Working
    <3>3. CASE Ends(p)
      <4>1. lock' = NoProcess
        BY <3>2, <3>3 DEF Ends
      <4>2. \A q \in Processes : proc'[q].pc \notin Working \ {"lock"}
        BY <1>1, <4>1, AccountAssumption DEF OneWorks
      <4>3. Kept'
        BY <3>2 DEF Kept
      <4> QED BY <4>1, <4>2, <4>3 DEF Guarded, Working
    <3>4. CASE Step(p, "authorize") /\ lock' = lock
      <4>1. proc'[p].pc = "authorize" /\ lock' = p
        BY <1>6, <3>2, <3>4
      <4> QED BY <1>1, <3>2, <4>1, HolderGuards
    <3> QED BY <2>8, <3>3, <3>4, Zenon DEF Clear
  <2>9. CASE Authorize(p)
    <3>1. /\ proc[p].pc = "authorize" /\ server' = server /\ lost' = lost
          /\ lock' = lock /\ Step(p, "tokens")
      BY <2>9 DEF Authorize
    <3>2. lock' = p /\ Owed' = {} /\ proc'[p].pc = "tokens"
      BY <1>3, <1>6, <3>1, AtWork DEF Working
    <3> QED BY <1>1, <3>2, HolderGuards
  <2>10. CASE Tokens(p)
    <3>1. proc[p].pc = "tokens" /\ stored' = stored /\ Next1 <= MaxPairs
      BY <2>10, Zenon DEF Tokens
    <3>2. lock = p /\ Owed = {}
      BY <3>1, AtWork DEF Working
    <3>3. PICK publish \in BOOLEAN : server' = Given(Next1, publish)
      BY <2>10, Zenon DEF Tokens
    <3>4. Next1 \in 1 .. MaxPairs
      BY <3>1, AccountAssumption DEF AccountTypeOK, Next1
    <3>5. /\ Next1 \in DOMAIN server'.pairs /\ server'.pairs[Next1].session = Next1
          /\ DOMAIN server'.pairs = 1 .. Next1
          /\ server'.live = server.live \cup {Next1}
      BY <3>1, <3>3, <3>4, TokensGiven
    <3>6. IsNewest(server'.pairs, Next1, Next1)
      BY <3>4, <3>5 DEF IsNewest
    <3>7. \/ lock' = lock /\ lost' = lost
             /\ proc' = [proc EXCEPT ![p].pc = "store", ![p].pair = Next1,
                                    ![p].asked = TRUE, ![p].tried = FALSE]
          \/ FaultIn({Next1}) /\ Ends(p)
      BY <2>10, Zenon DEF Tokens
    <3>8. CASE FaultIn({Next1}) /\ Ends(p)
      <4>1. Owed' = {}
        BY <3>2, <3>5, <3>8 DEF Owed, FaultIn
      <4>2. lock' = NoProcess
        BY <3>2, <3>8 DEF Ends
      <4>3. Kept'
        BY <4>1 DEF Kept
      <4>4. \A q \in Processes : proc'[q].pc \notin Working \ {"lock"}
        BY <1>1, <4>2, AccountAssumption DEF OneWorks
      <4> QED BY <4>2, <4>3, <4>4 DEF Guarded, Working
    <3>9. CASE /\ lock' = lock /\ lost' = lost
               /\ proc' = [proc EXCEPT ![p].pc = "store", ![p].pair = Next1,
                                    ![p].asked = TRUE, ![p].tried = FALSE]
      <4> DEFINE new == [proc[p] EXCEPT !.pc = "store", !.pair = Next1,
                                        !.asked = TRUE, !.tried = FALSE]
      <4>1. new.pc = "store" /\ new.pair = Next1
        BY <1>2 DEF Process
      <4>2. proc' = [proc EXCEPT ![p] = new]
        BY <1>2, <3>9
      <4> HIDE DEF new
      <4>3. proc'[p].pc = "store" /\ proc'[p].pair = Next1
        BY <1>2, <4>1, <4>2
      <4>4. lock' = p /\ lost' = lost
        BY <3>2, <3>9
      <4>5. \A r \in Owed' : r = Next1
        BY <3>2, <3>5, <4>4 DEF Owed
      <4>6. \A r \in Owed' : IsNewest(server'.pairs, proc'[p].pair, r)
        BY <3>6, <4>3, <4>5
      <4>7. proc'[p].pair \in DOMAIN server'.pairs
        BY <3>5, <4>3
      <4> QED BY <1>1, <4>3, <4>4, <4>6, <4>7, HolderGuards
    <3> QED BY <3>7, <3>8, <3>9
  <2>11. CASE TokensExpire(p)
    BY <1>3, <1>5, <2>11, AtWork DEF TokensExpire, Working
  <2>12. CASE RequestFails(p)
    <3>1. server' = server /\ stored' = stored /\ FaultIn(Unstored(p)) /\ Ends(p)
      BY <2>12 DEF RequestFails
    <3>2. Owed' = Owed \ Unstored(p)
      BY <3>1 DEF Owed, FaultIn
    <3>3. lock = p => Kept \/ Owed' = {}
      BY <3>2, AtWork DEF Unstored, Working, OneWorks
    <3> QED BY <3>1, <3>2, <3>3, EndsGuarded
  <2>13. CASE ProcessKilled(p)
    <3>1. server' = server /\ stored' = stored /\ FaultIn(Unstored(p)) /\ Ends(p)
      BY <2>13 DEF ProcessKilled
    <3>2. Owed' = Owed \ Unstored(p)
      BY <3>1 DEF Owed, FaultIn
    <3>3. lock = p => Kept \/ Owed' = {}
      BY <3>2, AtWork DEF Unstored, Working, OneWorks
    <3> QED BY <3>1, <3>2, <3>3, EndsGuarded
  <2>14. CASE Consent(p)
    <3>1. server' = server /\ stored' = stored /\ lost' = lost /\ lock # p
      BY <2>14, AtWork DEF Consent, Refused, Working
    <3>2. CASE Ends(p)
      BY <1>5, <3>1, <3>2
    <3>3. CASE Step(p, "create") /\ lock' = lock
      <4>1. \A q \in Processes : proc'[q].pc \in Working \ {"lock"} =>
              proc'[q].pc = proc[q].pc /\ proc'[q].pair = proc[q].pair
        BY <1>6, <3>3 DEF Working
      <4>2. lock' = NoProcess => Kept
        BY <3>3 DEF Guarded
      <4> QED BY <1>3, <3>1, <4>1, <4>2, BesideGuards
    <3> QED BY <2>14, <3>2, <3>3 DEF Consent, Refused
  <2>15. CASE Create(p)
    <3>1. stored' = stored /\ lost' = lost /\ lock # p
      BY <2>15, AtWork DEF Create, Working
    <3>2. CASE Ends(p) /\ server' = server
      BY <1>5, <3>1, <3>2
    <3>3. CASE Step(p, "wait") /\ lock' = lock
               /\ server' = [server EXCEPT !.build = IF @ = "none" THEN "active" ELSE @]
      <4>1. \A q \in Processes : proc'[q].pc \in Working \ {"lock"} =>
              proc'[q].pc = proc[q].pc /\ proc'[q].pair = proc[q].pair
        BY <1>6, <3>3 DEF Working
      <4>2. lock' = NoProcess => Kept
        BY <3>3 DEF Guarded
      <4>3. server'.pairs = server.pairs /\ server'.live = server.live
        BY <3>3 DEF AccountTypeOK
      <4>4. SameSessions /\ Owed' = Owed
        BY <3>1, <4>3 DEF SameSessions, Owed
      <4> QED BY <3>1, <4>1, <4>2, <4>4, BesideGuards
    <3> QED BY <2>15, <3>2, <3>3 DEF Create, Refused
  <2>16. CASE Poll(p)
    BY <1>5, <2>16, AtWork DEF Poll, Working
  <2>17. CASE WaitEnds(p)
    BY <1>5, <2>17, AtWork DEF WaitEnds, Working
  <2> QED
    BY <1>8, <2>1, <2>2, <2>3, <2>4, <2>5, <2>6, <2>7, <2>8, <2>9, <2>10, <2>11, <2>12,
       <2>13, <2>14, <2>15, <2>16, <2>17
<1>9. CASE Tick
  <2>1. SameSessions /\ server'.live = server.live
    BY <1>9, TokensAge
  <2>2. stored' = stored /\ lock' = lock /\ lost' = lost
    BY <1>9 DEF Tick
  <2>3. \A q \in Processes : proc'[q].pc = proc[q].pc /\ proc'[q].pair = proc[q].pair
    BY <1>2, <1>9 DEF Tick, Process
  <2>4. Owed' = Owed
    BY <2>1, <2>2 DEF Owed
  <2>5. lock' = NoProcess => Kept
    BY <2>2 DEF Guarded
  <2> QED BY <2>1, <2>2, <2>3, <2>4, <2>5, BesideGuards
<1>10. CASE BuildEnds
  <2>1. stored' = stored /\ lock' = lock /\ lost' = lost /\ proc' = proc
    BY <1>10 DEF BuildEnds
  <2>2. server'.pairs = server.pairs /\ server'.live = server.live
    BY <1>10 DEF BuildEnds, AccountTypeOK
  <2>3. SameSessions /\ Owed' = Owed
    BY <2>1, <2>2 DEF SameSessions, Owed
  <2>4. lock' = NoProcess => Kept
    BY <2>1 DEF Guarded
  <2> QED BY <2>1, <2>3, <2>4, BesideGuards
<1>11. CASE \E s \in 1 .. MaxPairs : SessionEnds(s)
  <2>1. PICK s \in 1 .. MaxPairs : server' = TokensEnd(s)
    BY <1>11 DEF SessionEnds
  <2>2. stored' = stored /\ lock' = lock /\ lost' = lost /\ proc' = proc
    BY <1>11 DEF SessionEnds
  <2>3. SameSessions /\ server'.live \subseteq server.live
    BY <2>1, TokensEnded
  <2>4. Owed' \subseteq Owed
    BY <2>2, <2>3 DEF Owed
  <2>5. lock' = NoProcess => Kept
    BY <2>2 DEF Guarded
  <2> QED BY <2>2, <2>3, <2>4, <2>5, BesideGuards
<1> QED BY <1>8, <1>9, <1>10, <1>11 DEF AccountNext

LEMMA AccountStarts == AccountInit => AcInv
<1> SUFFICES ASSUME AccountInit PROVE AcInv
  OBVIOUS
<1>1. server.pairs \in Seq(TokenPair) /\ Len(server.pairs) = 0 /\ server.live = {}
      /\ server.build = "none"
      /\ server = [pairs |-> server.pairs, live |-> server.live, build |-> server.build]
  BY DEF AccountInit
<1>2. AccountTypeOK
  BY <1>1, NoCommandTyped, AccountAssumption DEF AccountInit, AccountTypeOK, Builds
<1>3. \A p \in Processes : proc[p].pc = "idle" /\ lock = NoProcess
  BY NoCommandTyped DEF AccountInit
<1>4. OneWorks
  BY <1>3, AccountAssumption DEF OneWorks, Working
<1>5. Owed = {}
  BY <1>1 DEF Owed
<1>6. Guarded
  BY <1>3, <1>5 DEF Guarded, Kept
<1> QED BY <1>2, <1>4, <1>6 DEF AcInv

LEMMA AccountAlways == AccountSpec => []AcInv
<1>1. AcInv /\ [AccountNext]_accountVars => AcInv'
  <2> SUFFICES ASSUME AcInv, [AccountNext]_accountVars PROVE AcInv'
    OBVIOUS
  <2>1. CASE AccountNext
    BY <2>1, AccountTyped, OneWorksStays, GuardedStays DEF AcInv
  <2>2. CASE UNCHANGED accountVars
    BY <2>2 DEF accountVars, AcInv, AccountTypeOK, OneWorks, Guarded, Kept, Owed
  <2> QED BY <2>1, <2>2
<1> QED BY <1>1, AccountStarts, PTL DEF AccountSpec

(* A session is never lost between processes: while the lock of the         *)
(* credentials is free, every session that lives on is stored, by its       *)
(* newest pair, unless a call failed or a process died with it.             *)
THEOREM SessionsAreKept == AccountSpec => []NoSessionLost
<1>1. AcInv => NoSessionLost
  <2> SUFFICES ASSUME AcInv, lock = NoProcess,
                      NEW s \in server.live \ lost.sessions
               PROVE  stored # 0 /\ stored = Newest(s)
    BY DEF NoSessionLost
  <2>1. AccountTypeOK /\ IsNewest(server.pairs, stored, s)
    BY DEF AcInv, Guarded, Kept, Owed
  <2>2. stored = Newest(s)
    BY <2>1, NewestIs
  <2>3. stored # 0
    BY <2>1 DEF IsNewest, AccountTypeOK
  <2> QED BY <2>2, <2>3
<1> QED BY <1>1, AccountAlways, PTL

===============================================================================
