---------------------------- MODULE CommandProofs ----------------------------
(***************************************************************************)
(* Proofs about what a command of the CLI does beside the lifecycle: the   *)
(* Browser runtime it installs and removes (BrowserRuntime), its helpers   *)
(* and the wipe in Docker (DockerHelpers), the release it resolves         *)
(* (ReleaseResolution) and what it tells of the containers (StatusReport). *)
(* Each keeps its own state and has an inductive invariant of its own;     *)
(* none refers to another's.                                               *)
(***************************************************************************)
EXTENDS BrowserRuntime, DockerHelpers, ReleaseResolution, StatusReport, TLAPS

BrowserSpec == BrowserInit /\ [][BrowserNext]_browserVars
HelperSpec == HelperInit /\ [][HelperNext]_helperVars
ReleaseSpec == ReleaseInit /\ [][ReleaseNext]_releaseVars
ReportSpec == ReportInit /\ [][ReportNext]_reportVars

-----------------------------------------------------------------------------
(* BrowserRuntime. *)

Installations ==
  [ network : {"none", "ours", "odd"}, checkout : Checkouts,
    configured : BOOLEAN, marker : {"none", "torn", "old", "new"},
    admin : {"none", "ours", "foreign"}, space : BOOLEAN,
    orphan : {"none", "runs", "over"}, broke : BOOLEAN, unseen : BOOLEAN,
    faults : 0 .. BrowserFaults ]

(* What an installer that no longer obeys has made is not known.           *)
Obeyed == browser.orphan = "none"

(* What a start has prepared when the installer runs, and when it is done.  *)
Prepared ==
  /\ visit.pc # "idle" => visit.end = "none"
  /\ visit.pc \in {"checkout", "configure", "install"} => HasGit
  /\ visit.pc \in {"install", "mark"} => browser.configured
  /\ visit.pc = "mark" => browser.checkout = Pinned

(* An admin of ours has the checkout that can end it, and under a current   *)
(* marker it is the pinned one, unless an installation broke off since.    *)
Belongs ==
  Obeyed /\ browser.admin = "ours" =>
    /\ HasGit
    /\ browser.marker = Pinned /\ ~browser.broke =>
         browser.checkout = Pinned /\ browser.configured

(* What a reset has taken away, step by step.                              *)
TakenAway ==
  /\ visit.pc \in {"directory", "records", "members", "net"} =>
       browser.admin # "ours" \/ ~Obeyed
  /\ visit.pc \in {"records", "members", "net"} => ~HasGit
  /\ visit.pc \in {"members", "net"} => browser.marker = "none"

(* Past the look, an admin of somebody else is one that was not seen.       *)
Looked ==
  visit.pc \in {"download", "clone", "checkout", "configure", "install", "end"} =>
    (browser.admin = "foreign" => browser.unseen)

BrInv == BrowserTypeOK /\ Prepared /\ Belongs /\ TakenAway /\ Looked

(* Where an installer that failed may have stopped.                        *)
LEMMA HalfwayIs ==
  ASSUME browser \in Installations, browser.faults < BrowserFaults, NEW b \in Halfway
  PROVE  /\ b \in Installations
         /\ b.checkout \in {browser.checkout, "mixed"}
         /\ b.admin = browser.admin \/ b.admin = "ours"
         /\ b.unseen = browser.unseen
         /\ b.broke /\ b.orphan = browser.orphan /\ b.configured = browser.configured
         /\ b.marker = browser.marker
<1>1. PICK c \in {browser.checkout, "mixed"},
           a \in IF browser.admin = "ours" THEN {"ours"} ELSE {browser.admin, "ours"} :
        b = BrokenOff(c, a)
  BY DEF Halfway
<1> DEFINE part == [browser EXCEPT !.checkout = c, !.admin = a]
<1>2. b = [part EXCEPT !.broke = TRUE, !.faults = browser.faults + 1]
  BY <1>1 DEF BrokenOff
<1>3. /\ part \in Installations
      /\ part.checkout \in {browser.checkout, "mixed"}
      /\ part.admin = browser.admin \/ part.admin = "ours"
      /\ part.unseen = browser.unseen
      /\ part.orphan = browser.orphan /\ part.configured = browser.configured
      /\ part.marker = browser.marker
  BY DEF Installations, Checkouts
<1>4. browser.faults + 1 \in 0 .. BrowserFaults
  BY BrowserAssumption DEF Installations
<1> HIDE DEF part
<1> QED
  BY <1>2, <1>3, <1>4 DEF Installations

(* What a kill in the middle of a write or of a removal leaves.            *)
LEMMA KilledIs ==
  ASSUME browser \in Installations, KilledMidway
  PROVE  /\ browser' \in Installations
         /\ browser'.admin = browser.admin /\ browser'.network = browser.network
         /\ browser'.orphan = browser.orphan /\ browser'.broke = browser.broke
         /\ browser'.unseen = browser.unseen
         /\ browser'.configured = browser.configured
         /\ browser'.marker = IF visit.pc = "mark" THEN "torn" ELSE browser.marker
         /\ visit.pc = "directory" => browser'.checkout = "rest"
         /\ visit.pc = "clone" =>
              browser'.checkout = IF browser.checkout = "none" THEN "bare"
                                  ELSE browser.checkout
         /\ visit.pc = "mark" => browser'.checkout = browser.checkout
<1> DEFINE m == IF visit.pc = "mark" THEN "torn" ELSE browser.marker
           c == CASE visit.pc = "directory" -> "rest"
                  [] visit.pc = "clone" /\ browser.checkout = "none" -> "bare"
                  [] OTHER -> browser.checkout
           part == [browser EXCEPT !.faults = browser.faults + 1, !.marker = m]
<1>1. browser' = [part EXCEPT !.checkout = c]
  BY DEF KilledMidway
<1>2. /\ m \in {"none", "torn", "old", "new"}
      /\ c \in Checkouts
      /\ m = IF visit.pc = "mark" THEN "torn" ELSE browser.marker
      /\ visit.pc = "directory" => c = "rest"
      /\ visit.pc = "clone" =>
           c = IF browser.checkout = "none" THEN "bare" ELSE browser.checkout
      /\ visit.pc = "mark" => c = browser.checkout
  BY DEF Installations, Checkouts
<1>3. browser.faults + 1 \in 0 .. BrowserFaults
  BY BrowserAssumption DEF Installations, KilledMidway
<1> HIDE DEF m, c
<1>4. /\ part \in Installations
      /\ part.admin = browser.admin /\ part.network = browser.network
      /\ part.orphan = browser.orphan /\ part.broke = browser.broke
      /\ part.unseen = browser.unseen
      /\ part.configured = browser.configured /\ part.checkout = browser.checkout
      /\ part.marker = m
  BY <1>2, <1>3 DEF Installations
<1> HIDE DEF part
<1> QED
  BY <1>1, <1>2, <1>4 DEF Installations

(* The end of a visit, and its next step.                                  *)
Visitings ==
  [ pc : {"idle", "network", "create", "up", "look", "download", "clone",
          "checkout", "configure", "install", "mark", "git", "owner",
          "end", "directory", "records", "members", "net"},
    end : {"none", "failed", "ready", "unavailable", "reset"} ]

LEMMA VisitMoves ==
  ASSUME visit \in Visitings
  PROVE  /\ \A pc \in {"network", "create", "up", "look", "download", "clone",
                       "checkout", "configure", "install", "mark", "git", "owner",
                       "end", "directory", "records", "members", "net"} :
              Visits(pc) => visit' \in Visitings /\ visit'.pc = pc /\ visit'.end = visit.end
         /\ \A end \in {"failed", "ready", "unavailable", "reset"} :
              Leaves(end) => visit' \in Visitings /\ visit'.pc = "idle" /\ visit'.end = end
         /\ \A pc \in {"network", "git"} :
              visit' = [NoVisit EXCEPT !.pc = pc]
                => visit' \in Visitings /\ visit'.pc = pc /\ visit'.end = "none"
  BY DEF Visitings, Visits, Leaves, NoVisit

(* What a look at the owner changes: whether an admin of somebody else was  *)
(* seen.                                                                   *)
LEMMA LookMoves ==
  ASSUME browser \in Installations, NEW owner, AdminOwner(owner)
  PROVE  /\ browser' \in Installations
         /\ browser'.admin = browser.admin /\ browser'.network = browser.network
         /\ browser'.orphan = browser.orphan /\ browser'.broke = browser.broke
         /\ browser'.configured = browser.configured
         /\ browser'.marker = browser.marker /\ browser'.checkout = browser.checkout
         /\ browser.admin = "foreign" => owner = "foreign" \/ browser'.unseen
         /\ owner = "foreign" => browser.admin = "foreign"
         /\ owner = "ours" => browser.admin = "ours"
<1>1. CASE owner = browser.admin /\ browser' = [browser EXCEPT !.unseen = FALSE]
  BY <1>1 DEF Installations
<1>2. CASE /\ owner = "none" /\ browser.faults < BrowserFaults
           /\ browser' = [browser EXCEPT !.faults = browser.faults + 1,
                                         !.unseen = browser.admin = "foreign"]
  <2>1. PICK u \in BOOLEAN : u = (browser.admin = "foreign")
    OBVIOUS
  <2>2. browser' = [browser EXCEPT !.faults = browser.faults + 1, !.unseen = u]
    BY <1>2, <2>1
  <2>3. browser.faults + 1 \in 0 .. BrowserFaults
    BY <1>2, BrowserAssumption DEF Installations
  <2>4. browser' \in Installations /\ browser'.unseen = u
    BY <2>2, <2>3 DEF Installations
  <2> QED
    BY <1>2, <2>1, <2>2, <2>4 DEF Installations
<1> QED
  BY <1>1, <1>2 DEF AdminOwner

(* Somebody installs an easi.run of their own, or removes any.              *)
LEMMA OwnerMoves ==
  ASSUME browser \in Installations, OwnerActs
  PROVE  /\ browser' \in Installations
         /\ browser'.admin \in {"none", "foreign"}
         /\ browser'.admin = "foreign" => browser'.unseen
         /\ browser'.network = browser.network
         /\ browser'.orphan = browser.orphan /\ browser'.broke = browser.broke
         /\ browser'.configured = browser.configured
         /\ browser'.marker = browser.marker /\ browser'.checkout = browser.checkout
         /\ UNCHANGED visit
<1>1. PICK a \in {"none", "foreign"} :
        browser' = [browser EXCEPT !.admin = a, !.unseen = a = "foreign"]
  BY DEF OwnerActs
<1>2. PICK u \in BOOLEAN : u = (a = "foreign")
  OBVIOUS
<1>3. browser' = [browser EXCEPT !.admin = a, !.unseen = u]
  BY <1>1, <1>2
<1> QED
  BY <1>2, <1>3 DEF Installations, OwnerActs

LEMMA BrowserKept ==
  ASSUME BrInv, BrowserNext
  PROVE  BrInv'
<1>0. /\ browser \in Installations /\ visit \in Visitings
      /\ Prepared /\ Belongs /\ TakenAway /\ Looked
  BY DEF BrInv, BrowserTypeOK, Installations, Visitings
<1>1. ASSUME browser' \in Installations, visit' \in Visitings PROVE BrowserTypeOK'
  BY <1>1 DEF BrowserTypeOK, Installations, Visitings
<1> USE DEF Prepared, Belongs, TakenAway, Looked, Obeyed, HasGit, Pinned
<1>2. CASE StartRuns
  <2>1. browser' \in Installations /\ visit' \in Visitings
    BY <1>0, <1>2, BrowserAssumption, VisitMoves
       DEF StartRuns, Installations, Checkouts, Breaks
  <2>2. Prepared' /\ Belongs' /\ TakenAway' /\ Looked'
    BY <1>0, <1>2, <2>1, VisitMoves DEF StartRuns, Installations, Checkouts, Breaks
  <2> QED
    BY <1>1, <2>1, <2>2 DEF BrInv
<1>3. CASE EnsureNetwork
  <2>1. browser' \in Installations /\ visit' \in Visitings
    BY <1>0, <1>3, BrowserAssumption, VisitMoves
       DEF EnsureNetwork, Installations, Checkouts, Breaks
  <2>2. Prepared' /\ Belongs' /\ TakenAway' /\ Looked'
    BY <1>0, <1>3, <2>1, VisitMoves DEF EnsureNetwork, Installations, Checkouts, Breaks
  <2> QED
    BY <1>1, <2>1, <2>2 DEF BrInv
<1>4. CASE CreateNetwork
  <2>1. browser' \in Installations /\ visit' \in Visitings
    BY <1>0, <1>4, BrowserAssumption, VisitMoves
       DEF CreateNetwork, Installations, Checkouts, Breaks
  <2>2. Prepared' /\ Belongs' /\ TakenAway' /\ Looked'
    BY <1>0, <1>4, <2>1, VisitMoves DEF CreateNetwork, Installations, Checkouts, Breaks
  <2> QED
    BY <1>1, <2>1, <2>2 DEF BrInv
<1>5. CASE MembersUp
  <2>1. browser' \in Installations /\ visit' \in Visitings
    BY ZenonT(60), <1>0, <1>5, BrowserAssumption, VisitMoves
       DEF MembersUp, Installations, Checkouts, Breaks
  <2>2. Prepared' /\ Belongs' /\ TakenAway' /\ Looked'
    BY <1>0, <1>5, <2>1, VisitMoves DEF MembersUp, Installations, Checkouts, Breaks
  <2> QED
    BY <1>1, <2>1, <2>2 DEF BrInv
<1>6. CASE LookBeforeInstall
  <2>1. PICK owner \in {"none", "ours", "foreign"} :
          /\ AdminOwner(owner)
          /\ IF owner = "foreign" THEN Leaves("unavailable")
             ELSE IF owner = "ours" /\ browser.marker = Pinned THEN Leaves("ready")
             ELSE Visits("download")
    BY <1>6 DEF LookBeforeInstall
  <2>2. browser' \in Installations /\ visit' \in Visitings
    BY <1>0, <2>1, LookMoves, VisitMoves
  <2>3. Prepared' /\ Belongs' /\ TakenAway' /\ Looked'
    BY <1>0, <1>6, <2>1, <2>2, LookMoves, VisitMoves DEF LookBeforeInstall
  <2> QED
    BY <1>1, <2>2, <2>3 DEF BrInv
<1>7. CASE DownloadInstaller
  <2>1. browser' \in Installations /\ visit' \in Visitings
    BY <1>0, <1>7, BrowserAssumption, VisitMoves
       DEF DownloadInstaller, Installations, Checkouts, Breaks
  <2>2. Prepared' /\ Belongs' /\ TakenAway' /\ Looked'
    BY <1>0, <1>7, <2>1, VisitMoves DEF DownloadInstaller, Installations, Checkouts, Breaks
  <2> QED
    BY <1>1, <2>1, <2>2 DEF BrInv
<1>8. CASE CloneCheckout
  <2>1. browser' \in Installations /\ visit' \in Visitings
    BY <1>0, <1>8, BrowserAssumption, VisitMoves
       DEF CloneCheckout, Installations, Checkouts, Breaks
  <2>2. Prepared' /\ Belongs' /\ TakenAway' /\ Looked'
    BY <1>0, <1>8, <2>1, VisitMoves DEF CloneCheckout, Installations, Checkouts, Breaks
  <2> QED
    BY <1>1, <2>1, <2>2 DEF BrInv
<1>9. CASE CheckOutRelease
  <2>1. browser' \in Installations /\ visit' \in Visitings
    BY <1>0, <1>9, BrowserAssumption, VisitMoves
       DEF CheckOutRelease, Installations, Checkouts, Breaks
  <2>2. Prepared' /\ Belongs' /\ TakenAway' /\ Looked'
    BY <1>0, <1>9, <2>1, VisitMoves DEF CheckOutRelease, Installations, Checkouts, Breaks
  <2> QED
    BY <1>1, <2>1, <2>2 DEF BrInv
<1>10. CASE WriteConfiguration
  <2>1. browser' \in Installations /\ visit' \in Visitings
    BY <1>0, <1>10, BrowserAssumption, VisitMoves
       DEF WriteConfiguration, Installations, Checkouts, Breaks
  <2>2. Prepared' /\ Belongs' /\ TakenAway' /\ Looked'
    BY <1>0, <1>10, <2>1, VisitMoves
       DEF WriteConfiguration, Installations, Checkouts, Breaks
  <2> QED
    BY <1>1, <2>1, <2>2 DEF BrInv
<1>11. CASE KeepMarker
  <2>1. browser' \in Installations /\ visit' \in Visitings
    BY <1>0, <1>11, BrowserAssumption, VisitMoves
       DEF KeepMarker, Installations, Checkouts, Breaks
  <2>2. Prepared' /\ Belongs' /\ TakenAway' /\ Looked'
    BY <1>0, <1>11, <2>1, VisitMoves DEF KeepMarker, Installations, Checkouts, Breaks
  <2> QED
    BY <1>1, <2>1, <2>2 DEF BrInv
<1>12. CASE ResetRuns
  <2>1. browser' \in Installations /\ visit' \in Visitings
    BY <1>0, <1>12, BrowserAssumption, VisitMoves
       DEF ResetRuns, Installations, Checkouts, Breaks
  <2>2. Prepared' /\ Belongs' /\ TakenAway' /\ Looked'
    BY <1>0, <1>12, <2>1, VisitMoves DEF ResetRuns, Installations, Checkouts, Breaks
  <2> QED
    BY <1>1, <2>1, <2>2 DEF BrInv
<1>13. CASE FindCheckout
  <2>1. browser' \in Installations /\ visit' \in Visitings
    BY <1>0, <1>13, BrowserAssumption, VisitMoves
       DEF FindCheckout, Installations, Checkouts, Breaks
  <2>2. Prepared' /\ Belongs' /\ TakenAway' /\ Looked'
    BY <1>0, <1>13, <2>1, VisitMoves DEF FindCheckout, Installations, Checkouts, Breaks
  <2> QED
    BY <1>1, <2>1, <2>2 DEF BrInv
<1>14. CASE LookBeforeUninstall
  <2>1. PICK owner \in {"none", "ours", "foreign"} :
          /\ AdminOwner(owner)
          /\ Visits(IF owner = "foreign" THEN "directory" ELSE "end")
    BY <1>14 DEF LookBeforeUninstall
  <2>2. browser' \in Installations /\ visit' \in Visitings
    BY <1>0, <2>1, LookMoves, VisitMoves
  <2>3. Prepared' /\ Belongs' /\ TakenAway' /\ Looked'
    BY <1>0, <1>14, <2>1, <2>2, LookMoves, VisitMoves DEF LookBeforeUninstall
  <2> QED
    BY <1>1, <2>2, <2>3 DEF BrInv
<1>23. CASE RunUninstaller
  <2>1. browser' \in Installations /\ visit' \in Visitings
    BY <1>0, <1>23, BrowserAssumption, VisitMoves
       DEF RunUninstaller, Installations, Checkouts, Breaks
  <2>2. Prepared' /\ Belongs' /\ TakenAway' /\ Looked'
    BY <1>0, <1>23, <2>1, VisitMoves DEF RunUninstaller, Installations, Checkouts, Breaks
  <2> QED
    BY <1>1, <2>1, <2>2 DEF BrInv
<1>15. CASE RemoveCheckout
  <2>1. browser' \in Installations /\ visit' \in Visitings
    BY <1>0, <1>15, BrowserAssumption, VisitMoves
       DEF RemoveCheckout, Installations, Checkouts, Breaks
  <2>2. Prepared' /\ Belongs' /\ TakenAway' /\ Looked'
    BY <1>0, <1>15, <2>1, VisitMoves DEF RemoveCheckout, Installations, Checkouts, Breaks
  <2> QED
    BY <1>1, <2>1, <2>2 DEF BrInv
<1>16. CASE RemoveRecords
  <2>1. browser' \in Installations /\ visit' \in Visitings
    BY <1>0, <1>16, BrowserAssumption, VisitMoves
       DEF RemoveRecords, Installations, Checkouts, Breaks
  <2>2. Prepared' /\ Belongs' /\ TakenAway' /\ Looked'
    BY <1>0, <1>16, <2>1, VisitMoves DEF RemoveRecords, Installations, Checkouts, Breaks
  <2> QED
    BY <1>1, <2>1, <2>2 DEF BrInv
<1>17. CASE RemoveMembers
  <2>1. browser' \in Installations /\ visit' \in Visitings
    BY <1>0, <1>17, BrowserAssumption, VisitMoves
       DEF RemoveMembers, Installations, Checkouts, Breaks
  <2>2. Prepared' /\ Belongs' /\ TakenAway' /\ Looked'
    BY <1>0, <1>17, <2>1, VisitMoves DEF RemoveMembers, Installations, Checkouts, Breaks
  <2> QED
    BY <1>1, <2>1, <2>2 DEF BrInv
<1>18. CASE RemoveNetwork
  <2>1. browser' \in Installations /\ visit' \in Visitings
    BY <1>0, <1>18, BrowserAssumption, VisitMoves
       DEF RemoveNetwork, Installations, Checkouts, Breaks
  <2>2. Prepared' /\ Belongs' /\ TakenAway' /\ Looked'
    BY <1>0, <1>18, <2>1, VisitMoves DEF RemoveNetwork, Installations, Checkouts, Breaks
  <2> QED
    BY <1>1, <2>1, <2>2 DEF BrInv
<1>19. CASE VisitFails
  <2>1. browser' \in Installations /\ visit' \in Visitings
    BY <1>0, <1>19, BrowserAssumption, VisitMoves
       DEF VisitFails, Installations, Checkouts, Breaks
  <2>2. Prepared' /\ Belongs' /\ TakenAway' /\ Looked'
    BY <1>0, <1>19, <2>1, VisitMoves DEF VisitFails, Installations, Checkouts, Breaks
  <2> QED
    BY <1>1, <2>1, <2>2 DEF BrInv
<1>20. CASE OrphanActs
  <2>1. browser' \in Installations /\ visit' \in Visitings
    BY <1>0, <1>20, BrowserAssumption, VisitMoves
       DEF OrphanActs, Installations, Checkouts, Breaks
  <2>2. Prepared' /\ Belongs' /\ TakenAway' /\ Looked'
    BY <1>0, <1>20, <2>1, VisitMoves DEF OrphanActs, Installations, Checkouts, Breaks
  <2> QED
    BY <1>1, <2>1, <2>2 DEF BrInv
<1>21. CASE OwnerActs
  <2>1. browser' \in Installations /\ visit' \in Visitings
    BY <1>0, <1>21, OwnerMoves
  <2>2. Prepared' /\ Belongs' /\ TakenAway' /\ Looked'
    BY <1>0, <1>21, <2>1, OwnerMoves
  <2> QED
    BY <1>1, <2>1, <2>2 DEF BrInv
<1>22. CASE NetworkChanges
  <2>1. browser' \in Installations /\ visit' \in Visitings
    BY <1>0, <1>22, BrowserAssumption, VisitMoves
       DEF NetworkChanges, Installations, Checkouts, Breaks
  <2>2. Prepared' /\ Belongs' /\ TakenAway' /\ Looked'
    BY <1>0, <1>22, <2>1, VisitMoves DEF NetworkChanges, Installations, Checkouts, Breaks
  <2> QED
    BY <1>1, <2>1, <2>2 DEF BrInv
<1>30. CASE RunInstaller
  <2>1. CASE /\ browser' = [browser EXCEPT !.checkout = Pinned, !.admin = "ours"]
             /\ Visits("mark")
    <3>1. browser' \in Installations /\ visit' \in Visitings
      BY <1>0, <1>30, <2>1, VisitMoves DEF RunInstaller, Installations, Checkouts
    <3>2. Prepared' /\ Belongs' /\ TakenAway' /\ Looked'
      BY <1>0, <1>30, <2>1, <3>1, VisitMoves DEF RunInstaller, Installations, Checkouts
    <3> QED
      BY <1>1, <3>1, <3>2 DEF BrInv
  <2>2. CASE /\ browser.faults < BrowserFaults
             /\ browser' \in Halfway
             /\ Leaves("unavailable")
    <3>1. browser' \in Installations /\ visit' \in Visitings
      BY <1>0, <2>2, VisitMoves, HalfwayIs
    <3>2. Prepared' /\ Belongs' /\ TakenAway' /\ Looked'
      BY <1>0, <1>30, <2>2, <3>1, VisitMoves, HalfwayIs DEF RunInstaller
    <3> QED
      BY <1>1, <3>1, <3>2 DEF BrInv
  <2>3. CASE UNCHANGED browser /\ Leaves("unavailable")
    <3>1. browser' \in Installations /\ visit' \in Visitings
      BY <1>0, <2>3, VisitMoves
    <3>2. Prepared' /\ Belongs' /\ TakenAway' /\ Looked'
      BY <1>0, <2>3, <3>1, VisitMoves
    <3> QED
      BY <1>1, <3>1, <3>2 DEF BrInv
  <2> QED
    BY <1>30, <2>1, <2>2, <2>3 DEF RunInstaller
<1>31. CASE InstallerOutlives
  <2>1. PICK b \in Halfway : browser' = [b EXCEPT !.orphan = "runs"]
    BY <1>31 DEF InstallerOutlives
  <2>2. browser.faults < BrowserFaults /\ Leaves("unavailable")
    BY <1>31 DEF InstallerOutlives
  <2>3. browser' \in Installations /\ browser'.orphan = "runs"
    BY <1>0, <2>1, <2>2, HalfwayIs DEF Installations
  <2>4. visit' \in Visitings
    BY <1>0, <2>2, VisitMoves
  <2>5. Prepared' /\ Belongs' /\ TakenAway' /\ Looked'
    BY <1>0, <2>2, <2>3, VisitMoves
  <2> QED
    BY <1>1, <2>3, <2>4, <2>5 DEF BrInv
<1>32. CASE KilledMidway
  <2>0. visit.pc \in {"mark", "directory", "clone"} /\ Leaves("failed")
    BY <1>32 DEF KilledMidway
  <2>1. browser' \in Installations /\ visit' \in Visitings
    BY <1>0, <1>32, <2>0, VisitMoves, KilledIs
  <2>2. Prepared' /\ Belongs' /\ TakenAway' /\ Looked'
    BY <1>0, <1>32, <2>0, <2>1, VisitMoves, KilledIs
  <2> QED
    BY <1>1, <2>1, <2>2 DEF BrInv
<1> QED
  BY <1>30, <1>31, <1>32, <1>2, <1>3, <1>4, <1>5, <1>6, <1>7, <1>8, <1>9, <1>10, <1>11,
     <1>12, <1>13, <1>14, <1>15, <1>16, <1>17, <1>18, <1>19, <1>20, <1>21, <1>22, <1>23
     DEF BrowserNext

LEMMA BrowserStarts == BrowserInit => BrInv
<1> SUFFICES ASSUME BrowserInit PROVE BrInv
  OBVIOUS
<1>1. PICK admin \in {"none", "ours", "foreign"}, old \in BOOLEAN :
        /\ admin = "ours" => old
        /\ browser = [ network |-> IF old THEN "ours" ELSE "none",
                       checkout |-> IF old THEN "old" ELSE "none",
                       configured |-> old, marker |-> IF old THEN "old" ELSE "none",
                       admin |-> admin, space |-> old, orphan |-> "none",
                       broke |-> FALSE, unseen |-> FALSE, faults |-> 0 ]
  BY DEF BrowserInit
<1>2. visit = NoVisit /\ 0 \in 0 .. BrowserFaults
  BY BrowserAssumption DEF BrowserInit
<1>3. BrowserTypeOK
  BY <1>1, <1>2 DEF BrowserTypeOK, Checkouts, NoVisit
<1>4. Prepared /\ Belongs /\ TakenAway /\ Looked
  BY <1>1, <1>2 DEF Prepared, Belongs, TakenAway, Looked, NoVisit, Pinned, HasGit
<1> QED
  BY <1>3, <1>4 DEF BrInv

LEMMA BrowserAlways == BrowserSpec => []BrInv
<1>1. BrInv /\ UNCHANGED browserVars => BrInv'
  BY DEF BrInv, BrowserTypeOK, Prepared, Belongs, TakenAway, Looked, browserVars, Obeyed, HasGit
<1> QED
  BY <1>1, BrowserStarts, BrowserKept, PTL DEF BrowserSpec

(* A step of ours ends an installation of somebody else only when it came   *)
(* after the last look at the owner or that look failed; the Browser is     *)
(* ready only with what this CLI pins, unless an installation broke off      *)
(* under an older marker; and a reset that ends has left nothing of ours,   *)
(* whatever installs, removes, fails or is killed between the steps.       *)
THEOREM BrowserIsSound == BrowserSpec => BrowserSound
<1>1. ASSUME BrInv, BrowserNext, visit' # visit
      PROVE  /\ browser.admin = "foreign" /\ ~browser.unseen => browser'.admin = "foreign"
             /\ visit'.end = "ready" =>
                  \/ browser'.broke \/ browser'.orphan # "none"
                  \/ browser'.checkout = Pinned /\ browser'.configured
             /\ visit'.end = "reset" =>
                  /\ browser'.checkout \in {"none", "rest"}
                  /\ browser'.marker = "none" /\ browser'.network = "none"
                  /\ browser'.admin # "ours" \/ browser.orphan # "none"
  <2>0. /\ browser \in Installations /\ visit \in Visitings
        /\ Prepared /\ Belongs /\ TakenAway /\ Looked
    BY <1>1 DEF BrInv, BrowserTypeOK, Installations, Visitings
  <2>1. CASE StartRuns
    BY <1>1, <2>0, <2>1, VisitMoves
       DEF StartRuns, Installations, Checkouts, Breaks, Prepared, Belongs, TakenAway,
           Looked, Obeyed, HasGit, Pinned
  <2>2. CASE EnsureNetwork
    BY <1>1, <2>0, <2>2, VisitMoves
       DEF EnsureNetwork, Installations, Checkouts, Breaks, Prepared, Belongs, TakenAway,
           Looked, Obeyed, HasGit, Pinned
  <2>3. CASE CreateNetwork
    BY <1>1, <2>0, <2>3, VisitMoves
       DEF CreateNetwork, Installations, Checkouts, Breaks, Prepared, Belongs, TakenAway,
           Looked, Obeyed, HasGit, Pinned
  <2>4. CASE MembersUp
    BY <1>1, <2>0, <2>4, VisitMoves
       DEF MembersUp, Installations, Checkouts, Breaks, Prepared, Belongs, TakenAway,
           Looked, Obeyed, HasGit, Pinned
  <2>5. CASE LookBeforeInstall
    BY <1>1, <2>0, <2>5, VisitMoves
       DEF LookBeforeInstall, AdminOwner, Installations, Checkouts, Breaks, Prepared, Belongs,
           TakenAway, Looked, Obeyed, HasGit, Pinned
  <2>6. CASE DownloadInstaller
    BY <1>1, <2>0, <2>6, VisitMoves
       DEF DownloadInstaller, Installations, Checkouts, Breaks, Prepared, Belongs,
           TakenAway, Looked, Obeyed, HasGit, Pinned
  <2>7. CASE CloneCheckout
    BY <1>1, <2>0, <2>7, VisitMoves
       DEF CloneCheckout, Installations, Checkouts, Breaks, Prepared, Belongs, TakenAway,
           Looked, Obeyed, HasGit, Pinned
  <2>8. CASE CheckOutRelease
    BY <1>1, <2>0, <2>8, VisitMoves
       DEF CheckOutRelease, Installations, Checkouts, Breaks, Prepared, Belongs,
           TakenAway, Looked, Obeyed, HasGit, Pinned
  <2>9. CASE WriteConfiguration
    BY <1>1, <2>0, <2>9, VisitMoves
       DEF WriteConfiguration, Installations, Checkouts, Breaks, Prepared, Belongs,
           TakenAway, Looked, Obeyed, HasGit, Pinned
  <2>10. CASE KeepMarker
    BY <1>1, <2>0, <2>10, VisitMoves
       DEF KeepMarker, Installations, Checkouts, Breaks, Prepared, Belongs, TakenAway,
           Looked, Obeyed, HasGit, Pinned
  <2>11. CASE ResetRuns
    BY <1>1, <2>0, <2>11, VisitMoves
       DEF ResetRuns, Installations, Checkouts, Breaks, Prepared, Belongs, TakenAway,
           Looked, Obeyed, HasGit, Pinned
  <2>12. CASE FindCheckout
    BY <1>1, <2>0, <2>12, VisitMoves
       DEF FindCheckout, Installations, Checkouts, Breaks, Prepared, Belongs, TakenAway,
           Looked, Obeyed, HasGit, Pinned
  <2>13. CASE LookBeforeUninstall
    BY <1>1, <2>0, <2>13, VisitMoves
       DEF LookBeforeUninstall, AdminOwner, Installations, Checkouts, Breaks, Prepared, Belongs,
           TakenAway, Looked, Obeyed, HasGit, Pinned
  <2>25. CASE RunUninstaller
    BY <1>1, <2>0, <2>25, VisitMoves
       DEF RunUninstaller, Installations, Checkouts, Breaks, Prepared, Belongs, TakenAway,
           Looked, Obeyed, HasGit, Pinned
  <2>14. CASE RemoveCheckout
    BY <1>1, <2>0, <2>14, VisitMoves
       DEF RemoveCheckout, Installations, Checkouts, Breaks, Prepared, Belongs, TakenAway,
           Looked, Obeyed, HasGit, Pinned
  <2>15. CASE RemoveRecords
    BY <1>1, <2>0, <2>15, VisitMoves
       DEF RemoveRecords, Installations, Checkouts, Breaks, Prepared, Belongs, TakenAway,
           Looked, Obeyed, HasGit, Pinned
  <2>16. CASE RemoveMembers
    BY <1>1, <2>0, <2>16, VisitMoves
       DEF RemoveMembers, Installations, Checkouts, Breaks, Prepared, Belongs, TakenAway,
           Looked, Obeyed, HasGit, Pinned
  <2>17. CASE RemoveNetwork
    BY <1>1, <2>0, <2>17, VisitMoves
       DEF RemoveNetwork, Installations, Checkouts, Breaks, Prepared, Belongs, TakenAway,
           Looked, Obeyed, HasGit, Pinned
  <2>18. CASE VisitFails
    BY <1>1, <2>0, <2>18, VisitMoves
       DEF VisitFails, Installations, Checkouts, Breaks, Prepared, Belongs, TakenAway,
           Looked, Obeyed, HasGit, Pinned
  <2>19. CASE OrphanActs
    BY <1>1, <2>0, <2>19, VisitMoves
       DEF OrphanActs, Installations, Checkouts, Breaks, Prepared, Belongs, TakenAway,
           Looked, Obeyed, HasGit, Pinned
  <2>20. CASE OwnerActs
    BY <1>1, <2>0, <2>20, VisitMoves
       DEF OwnerActs, Installations, Checkouts, Breaks, Prepared, Belongs, TakenAway,
           Looked, Obeyed, HasGit, Pinned
  <2>21. CASE NetworkChanges
    BY <1>1, <2>0, <2>21, VisitMoves
       DEF NetworkChanges, Installations, Checkouts, Breaks, Prepared, Belongs, TakenAway,
           Looked, Obeyed, HasGit, Pinned
  <2>22. CASE RunInstaller
    <3>1. CASE /\ browser' = [browser EXCEPT !.checkout = Pinned, !.admin = "ours"]
               /\ Visits("mark")
      BY <2>0, <2>22, <3>1, VisitMoves DEF RunInstaller, Prepared, Looked, Installations
    <3>2. CASE /\ browser.faults < BrowserFaults
               /\ browser' \in Halfway
               /\ Leaves("unavailable")
      BY <2>0, <2>22, <3>2, VisitMoves, HalfwayIs DEF RunInstaller, Looked
    <3>3. CASE UNCHANGED browser /\ Leaves("unavailable")
      BY <2>0, <3>3, VisitMoves
    <3> QED
      BY <2>22, <3>1, <3>2, <3>3 DEF RunInstaller
  <2>23. CASE InstallerOutlives
    <3>1. PICK b \in Halfway : browser' = [b EXCEPT !.orphan = "runs"]
      BY <2>23 DEF InstallerOutlives
    <3>2. browser.faults < BrowserFaults /\ Leaves("unavailable")
      BY <2>23 DEF InstallerOutlives
    <3>3. browser.admin = "foreign" /\ ~browser.unseen => browser'.admin = "foreign"
      BY <2>0, <2>23, <3>1, <3>2, HalfwayIs DEF Looked, InstallerOutlives, Installations
    <3> QED
      BY <2>0, <3>2, <3>3, VisitMoves
  <2>24. CASE KilledMidway
    <3>1. Leaves("failed")
      BY <2>24 DEF KilledMidway
    <3> QED
      BY <2>0, <2>24, <3>1, VisitMoves, KilledIs
  <2> QED
    BY <1>1, <2>22, <2>23, <2>24, <2>1, <2>2, <2>3, <2>4, <2>5, <2>6, <2>7, <2>8, <2>9,
       <2>10, <2>11, <2>12, <2>13, <2>14, <2>15, <2>16, <2>17, <2>18, <2>19, <2>20, <2>21, <2>25
       DEF BrowserNext
<1>2. ASSUME BrInv, [BrowserNext]_browserVars, OurStep
      PROVE  /\ browser.admin = "foreign" /\ ~browser.unseen => browser'.admin = "foreign"
             /\ visit'.end = "ready" =>
                  \/ browser'.broke \/ browser'.orphan # "none"
                  \/ browser'.checkout = Pinned /\ browser'.configured
             /\ visit'.end = "reset" =>
                  /\ browser'.checkout \in {"none", "rest"}
                  /\ browser'.marker = "none" /\ browser'.network = "none"
                  /\ browser'.admin # "ours" \/ browser.orphan # "none"
  BY <1>1, <1>2 DEF OurStep, browserVars
<1> QED
  BY <1>2, BrowserAlways, PTL DEF BrowserSpec, BrowserSound
-----------------------------------------------------------------------------
(* DockerHelpers. *)

(* The latest helper alone may still live, and none does when the next one  *)
(* is about to start.                                                      *)
Lives(n) ==
  /\ Alive(n) => n = cli.at /\ cli.pc # "start"
  /\ n > cli.at => helper[n] = NoHelper

OneLives ==
  /\ \A n \in Helpers : Lives(n)
  /\ cli.pc \in {"list", "sweep", "prove", "start"} => cli.at < MaxHelpers
  /\ cli.pc \in {"pending", "wait", "remove", "gone"} => cli.at \in Helpers
  /\ volume <= cli.at

(* What a client proves of its container, and who waits for it.             *)
Knows(n) ==
  /\ helper[n].client = "running" =>
       n = cli.at /\ cli.pc \in {"pending", "wait"} /\ helper[n].answer = "none"
  /\ helper[n].client = "ok" => helper[n].box = "ended" /\ volume >= n
  /\ helper[n].box = "wrote" => volume >= n
  /\ helper[n].box \in {"fed", "wrote"} => helper[n].input = "document"

ClientKnown == \A n \in Helpers : Knows(n)

(* What the CLI has sent, and what it may therefore say of the helper.      *)
InputTold ==
  /\ cli.pc = "pending" => helper[cli.at].input = "open"
  /\ cli.pc \in {"wait", "remove", "gone"} /\ cli.cause = "unused" =>
       helper[cli.at].input = "closed"
  /\ cli.pc \in {"wait", "remove", "gone"} => cli.cause # ""

Stands(n) ==
  /\ helper[n].answer \in {"projected", "refused"} => ~Alive(n)
  /\ helper[n].answer = "unused" => helper[n].input = "closed"
  /\ helper[n].answer = "projected" => volume >= n

AnswerStands == \A n \in Helpers : Stands(n)

(* Only a container of ours deletes, and an answer is given at rest.        *)
WipeKnown ==
  /\ wipe.busy => wipe.box = "ours"
  /\ wipe.answer # "none" => wipe.pc = "idle"
  /\ wipe.answer \in {"cleared", "refused"} => ~wipe.busy

HlInv == HelperTypeOK /\ OneLives /\ ClientKnown /\ InputTold /\ AnswerStands /\ WipeKnown

(* What a removal by name does to the helpers.                             *)
LEMMA RemovedIs ==
  ASSUME HelperTypeOK, NEW set, helper' = RemovedOf(set)
  PROVE  /\ helper' \in [Helpers -> Helper]
         /\ \A n \in Helpers :
              /\ helper'[n].box = IF n \in set /\ Alive(n) THEN "ended" ELSE helper[n].box
              /\ helper'[n].client = helper[n].client
              /\ helper'[n].input = helper[n].input
              /\ helper'[n].answer = helper[n].answer
<1>1. \A n \in Helpers : helper'[n] = IF n \in set /\ Alive(n)
                           THEN [helper[n] EXCEPT !.box = "ended"] ELSE helper[n]
  BY DEF RemovedOf
<1>2. DOMAIN helper' = Helpers
  BY DEF RemovedOf
<1>3. ASSUME NEW n \in Helpers
      PROVE  /\ helper'[n] \in Helper
             /\ helper'[n].box = IF n \in set /\ Alive(n) THEN "ended" ELSE helper[n].box
             /\ helper'[n].client = helper[n].client
             /\ helper'[n].input = helper[n].input
             /\ helper'[n].answer = helper[n].answer
  BY <1>1, <1>3 DEF HelperTypeOK, Helper
<1>4. helper' = [n \in Helpers |-> helper'[n]]
  BY <1>2 DEF RemovedOf
<1> QED
  BY <1>3, <1>4

(* Helpers that a removal may have ended.                                  *)
Swept ==
  /\ helper' \in [Helpers -> Helper]
  /\ \A n \in Helpers :
       /\ helper'[n].box \in {helper[n].box, "ended"}
       /\ helper[n].box = "none" => helper'[n] = helper[n]
       /\ helper'[n].client = helper[n].client /\ helper'[n].input = helper[n].input
       /\ helper'[n].answer = helper[n].answer

LEMMA SweptIs ==
  ASSUME HelperTypeOK, NEW set, helper' = RemovedOf(set) \/ UNCHANGED helper
  PROVE  Swept
<1>1. CASE helper' = RemovedOf(set)
  <2>1. \A n \in Helpers : ~Alive(n) => helper'[n] = helper[n]
    BY <1>1 DEF RemovedOf
  <2> QED
    BY <1>1, <2>1, RemovedIs DEF Swept, Alive
<1>2. CASE UNCHANGED helper
  BY <1>2 DEF Swept, HelperTypeOK
<1> QED
  BY <1>1, <1>2

(* A step that changes one helper.                                         *)
Changed(n, h) ==
  helper' \in [Helpers -> Helper] /\ helper'[n] = h
    /\ \A m \in Helpers : m # n => helper'[m] = helper[m]

LEMMA ChangedIs ==
  ASSUME HelperTypeOK, NEW n \in Helpers, NEW h \in Helper, helper' = [helper EXCEPT ![n] = h]
  PROVE  Changed(n, h)
  BY DEF HelperTypeOK, Changed

(* The changes of one helper, field by field.                              *)
Alters(n, box, client, input, answer) ==
  /\ helper' \in [Helpers -> Helper]
  /\ \A m \in Helpers : m # n => helper'[m] = helper[m]
  /\ helper'[n].box = box /\ helper'[n].client = client
  /\ helper'[n].input = input /\ helper'[n].answer = answer

LEMMA HelperMoves ==
  ASSUME HelperTypeOK, NEW n \in Helpers
  PROVE  /\ CreateBox(n) =>
              Alters(n, "waiting", helper[n].client, helper[n].input, helper[n].answer)
         /\ FeedBox(n) =>
              \/ /\ helper[n].client = "running" /\ helper[n].input = "document"
                 /\ Alters(n, "fed", helper[n].client, helper[n].input, helper[n].answer)
              \/ Alters(n, "ended", IF helper[n].client = "running" THEN "failed"
                                    ELSE helper[n].client,
                        helper[n].input, helper[n].answer)
         /\ WriteDocument(n) =>
              Alters(n, "wrote", helper[n].client, helper[n].input, helper[n].answer)
         /\ BoxExits(n) =>
              Alters(n, "ended", IF helper[n].client # "running" THEN helper[n].client
                                 ELSE IF helper[n].box = "wrote" THEN "ok" ELSE "failed",
                     helper[n].input, helper[n].answer)
         /\ ClientFails(n) =>
              Alters(n, helper[n].box, "failed", helper[n].input, helper[n].answer)
         /\ \A what :
              Reply(n, what) /\ what \in {"projected", "refused", "unused", "unreaped"} =>
              Alters(n, helper[n].box, helper[n].client, helper[n].input, what)
<1> USE DEF HelperTypeOK
<1>1. CreateBox(n) =>
        Alters(n, "waiting", helper[n].client, helper[n].input, helper[n].answer)
  BY DEF CreateBox, Alters, Helper
<1>2. FeedBox(n) =>
        \/ /\ helper[n].client = "running" /\ helper[n].input = "document"
           /\ Alters(n, "fed", helper[n].client, helper[n].input, helper[n].answer)
        \/ Alters(n, "ended", IF helper[n].client = "running" THEN "failed"
                              ELSE helper[n].client,
                  helper[n].input, helper[n].answer)
  <2> DEFINE c == IF helper[n].client = "running" THEN "failed" ELSE helper[n].client
             new == [helper[n] EXCEPT !.box = "ended", !.client = c]
  <2>1. c \in {"none", "running", "ok", "failed", "stopped", "stuck"}
    BY DEF Helper
  <2>2. CASE /\ helper[n].client = "running" /\ helper[n].input = "document"
             /\ helper' = [helper EXCEPT ![n].box = "fed"]
    BY <2>2 DEF Alters, Helper
  <2>3. CASE helper' = [helper EXCEPT ![n].box = "ended", ![n].client =
                          IF @ = "running" THEN "failed" ELSE @]
    <3>1. helper' = [helper EXCEPT ![n] = new]
      BY <2>3
    <3> HIDE DEF c
    <3>2. new \in Helper /\ new.box = "ended" /\ new.client = c
          /\ new.input = helper[n].input /\ new.answer = helper[n].answer
      BY <2>1 DEF Helper
    <3> HIDE DEF new
    <3>3. Alters(n, "ended", c, helper[n].input, helper[n].answer)
      BY <3>1, <3>2, ChangedIs DEF Changed, Alters
    <3> QED
      BY <3>3 DEF c
  <2> QED
    BY <2>2, <2>3 DEF FeedBox
<1>3. WriteDocument(n) =>
        Alters(n, "wrote", helper[n].client, helper[n].input, helper[n].answer)
  BY DEF WriteDocument, Alters, Helper
<1>4. BoxExits(n) =>
        Alters(n, "ended", IF helper[n].client # "running" THEN helper[n].client
                           ELSE IF helper[n].box = "wrote" THEN "ok" ELSE "failed",
               helper[n].input, helper[n].answer)
  <2> DEFINE c == IF helper[n].client # "running" THEN helper[n].client
                  ELSE IF helper[n].box = "wrote" THEN "ok" ELSE "failed"
             new == [helper[n] EXCEPT !.box = "ended", !.client = c]
  <2> SUFFICES ASSUME BoxExits(n) PROVE Alters(n, "ended", c, helper[n].input, helper[n].answer)
    OBVIOUS
  <2>1. c \in {"none", "running", "ok", "failed", "stopped", "stuck"}
    BY DEF Helper
  <2>2. helper' = [helper EXCEPT ![n] = new]
    BY DEF BoxExits
  <2> HIDE DEF c
  <2>3. new \in Helper /\ new.box = "ended" /\ new.client = c
        /\ new.input = helper[n].input /\ new.answer = helper[n].answer
    BY <2>1 DEF Helper
  <2> HIDE DEF new
  <2> QED
    BY <2>2, <2>3, ChangedIs DEF Changed, Alters
<1>5. ClientFails(n) =>
        Alters(n, helper[n].box, "failed", helper[n].input, helper[n].answer)
  BY DEF ClientFails, Alters, Helper
<1>6. ASSUME NEW what \in {"projected", "refused", "unused", "unreaped"}, Reply(n, what)
      PROVE  Alters(n, helper[n].box, helper[n].client, helper[n].input, what)
  BY <1>6 DEF Reply, Alters, Helper
<1> QED
  BY <1>1, <1>2, <1>3, <1>4, <1>5, <1>6

(* The steps that the CLI takes with the helper it waits for.              *)
LEMMA CliMoves ==
  ASSUME HelperTypeOK, OneLives
  PROVE  /\ StartHelper =>
              /\ cli.at + 1 \in Helpers
              /\ Alters(cli.at + 1, "none", "running", "open", "none")
              /\ cli' \in Cli /\ cli'.pc = "pending" /\ cli'.at = cli.at + 1
         /\ \A what \in {"document", "closed"} :
              Send(what) =>
                /\ Alters(cli.at, helper[cli.at].box, helper[cli.at].client,
                          IF helper[cli.at].input = "open" THEN what
                          ELSE helper[cli.at].input, helper[cli.at].answer)
                /\ cli' \in Cli /\ cli'.pc = "wait" /\ cli'.at = cli.at
                /\ cli'.cause = IF what = "document" THEN "refused" ELSE "unused"
         /\ PastDeadline =>
              \/ /\ Alters(cli.at, helper[cli.at].box, "stopped", helper[cli.at].input,
                           helper[cli.at].answer)
                 /\ cli' \in Cli /\ cli'.pc = "remove" /\ cli'.at = cli.at
                 /\ cli'.cause = cli.cause
              \/ /\ Alters(cli.at, helper[cli.at].box, "stuck", helper[cli.at].input,
                           helper[cli.at].answer)
                 /\ cli' \in Cli /\ cli'.pc = "remove" /\ cli'.at = cli.at
                 /\ cli'.cause = "unreaped"
              \/ /\ Alters(cli.at, helper[cli.at].box, "stuck", helper[cli.at].input,
                           "unreaped")
                 /\ cli' = AtRest(cli.at)
         /\ CliKilled =>
              /\ helper' \in [Helpers -> Helper]
              /\ cli' = AtRest(cli.at)
              /\ \A n \in Helpers :
                   /\ helper'[n].box = helper[n].box /\ helper'[n].input = helper[n].input
                   /\ helper'[n].answer = helper[n].answer
                   /\ helper'[n].client = IF n = cli.at /\ helper[n].client = "running"
                                          THEN "stopped" ELSE helper[n].client
<1> USE DEF HelperTypeOK
<1>1. ASSUME StartHelper
      PROVE  /\ cli.at + 1 \in Helpers
             /\ Alters(cli.at + 1, "none", "running", "open", "none")
             /\ cli' \in Cli /\ cli'.pc = "pending" /\ cli'.at = cli.at + 1
  <2>1. cli.at + 1 \in Helpers /\ cli.at + 1 > cli.at /\ cli.at + 1 \in 0 .. MaxHelpers
    <3>1. cli.at \in 0 .. MaxHelpers
      BY DEF Cli
    <3>2. cli.at < MaxHelpers
      BY <1>1 DEF StartHelper, OneLives
    <3> QED
      BY <3>1, <3>2, HelperAssumption DEF Helpers
  <2>2. helper[cli.at + 1] = NoHelper
    BY <2>1 DEF OneLives, Lives
  <2>3. cli' \in Cli /\ cli'.pc = "pending" /\ cli'.at = cli.at + 1
    BY <1>1, <2>1 DEF StartHelper, Cli
  <2> DEFINE n == cli.at + 1
             new == [helper[n] EXCEPT !.client = "running"]
  <2>4. helper' = [helper EXCEPT ![n] = new]
    BY <1>1 DEF StartHelper
  <2>5. new \in Helper /\ new.box = "none" /\ new.client = "running"
        /\ new.input = "open" /\ new.answer = "none"
    BY <2>2 DEF NoHelper, Helper
  <2> HIDE DEF n, new
  <2>6. n \in Helpers
    BY <2>1 DEF n
  <2>7. Alters(n, "none", "running", "open", "none")
    BY <2>4, <2>5, <2>6, ChangedIs DEF Changed, Alters
  <2> QED
    BY <2>1, <2>3, <2>7 DEF n
<1>2. ASSUME NEW what \in {"document", "closed"}, Send(what)
      PROVE  /\ Alters(cli.at, helper[cli.at].box, helper[cli.at].client,
                       IF helper[cli.at].input = "open" THEN what
                       ELSE helper[cli.at].input, helper[cli.at].answer)
             /\ cli' \in Cli /\ cli'.pc = "wait" /\ cli'.at = cli.at
             /\ cli'.cause = IF what = "document" THEN "refused" ELSE "unused"
  <2>1. cli.at \in Helpers
    BY <1>2 DEF Send, OneLives
  <2> DEFINE i == IF helper[cli.at].input = "open" THEN what ELSE helper[cli.at].input
             c == IF what = "document" THEN "refused" ELSE "unused"
  <2>2. helper' = [helper EXCEPT ![cli.at].input = i]
    BY <1>2 DEF Send
  <2>3. i \in {"open", "document", "closed"} /\ c \in {"refused", "unused"}
    BY <2>1 DEF Helper
  <2>4. cli' = [cli EXCEPT !.pc = "wait", !.cause = c]
    BY <1>2 DEF Send
  <2> HIDE DEF i, c
  <2>5. Alters(cli.at, helper[cli.at].box, helper[cli.at].client, i, helper[cli.at].answer)
    BY <2>1, <2>2, <2>3 DEF Alters, Helper
  <2>6. cli' \in Cli /\ cli'.pc = "wait" /\ cli'.at = cli.at /\ cli'.cause = c
    BY <2>3, <2>4 DEF Cli
  <2> QED
    BY <2>5, <2>6 DEF i, c
<1>3. ASSUME PastDeadline
      PROVE  \/ /\ Alters(cli.at, helper[cli.at].box, "stopped", helper[cli.at].input,
                          helper[cli.at].answer)
                /\ cli' \in Cli /\ cli'.pc = "remove" /\ cli'.at = cli.at
                /\ cli'.cause = cli.cause
             \/ /\ Alters(cli.at, helper[cli.at].box, "stuck", helper[cli.at].input,
                          helper[cli.at].answer)
                /\ cli' \in Cli /\ cli'.pc = "remove" /\ cli'.at = cli.at
                /\ cli'.cause = "unreaped"
             \/ /\ Alters(cli.at, helper[cli.at].box, "stuck", helper[cli.at].input,
                          "unreaped")
                /\ cli' = AtRest(cli.at)
  <2>1. cli.at \in Helpers
    BY <1>3 DEF PastDeadline, OneLives
  <2>2. CASE helper' = [helper EXCEPT ![cli.at].client = "stopped"] /\ Continue("remove")
    <3>1. Alters(cli.at, helper[cli.at].box, "stopped", helper[cli.at].input,
                 helper[cli.at].answer)
      BY <2>1, <2>2 DEF Alters, Helper
    <3>2. /\ cli' \in Cli /\ cli'.pc = "remove" /\ cli'.at = cli.at
          /\ cli'.cause = cli.cause
      BY <2>2 DEF Continue, Cli
    <3> QED
      BY <3>1, <3>2
  <2>3. CASE /\ helper' = [helper EXCEPT ![cli.at].client = "stuck"]
             /\ cli' = [cli EXCEPT !.pc = "remove", !.cause = "unreaped"]
    <3>1. Alters(cli.at, helper[cli.at].box, "stuck", helper[cli.at].input,
                 helper[cli.at].answer)
      BY <2>1, <2>3 DEF Alters, Helper
    <3>2. cli' \in Cli /\ cli'.pc = "remove" /\ cli'.at = cli.at /\ cli'.cause = "unreaped"
      BY <2>3 DEF Cli
    <3> QED
      BY <3>1, <3>2
  <2>4. CASE /\ helper' = [helper EXCEPT ![cli.at].client = "stuck",
                                         ![cli.at].answer = "unreaped"]
             /\ cli' = AtRest(cli.at)
    <3> DEFINE new == [helper[cli.at] EXCEPT !.client = "stuck", !.answer = "unreaped"]
    <3>1. helper' = [helper EXCEPT ![cli.at] = new]
      BY <2>1, <2>4
    <3>2. new \in Helper /\ new.box = helper[cli.at].box /\ new.client = "stuck"
          /\ new.input = helper[cli.at].input /\ new.answer = "unreaped"
      <4>1. helper[cli.at] \in Helper
        BY <2>1
      <4> QED
        BY <4>1 DEF Helper
    <3> HIDE DEF new
    <3>3. Alters(cli.at, helper[cli.at].box, "stuck", helper[cli.at].input, "unreaped")
      BY <2>1, <3>1, <3>2, ChangedIs DEF Changed, Alters
    <3> QED
      BY <2>4, <3>3
  <2> QED
    BY <1>3, <2>2, <2>3, <2>4 DEF PastDeadline
<1>4. ASSUME CliKilled
      PROVE  /\ helper' \in [Helpers -> Helper]
             /\ cli' = AtRest(cli.at)
             /\ \A n \in Helpers :
                  /\ helper'[n].box = helper[n].box /\ helper'[n].input = helper[n].input
                  /\ helper'[n].answer = helper[n].answer
                  /\ helper'[n].client = IF n = cli.at /\ helper[n].client = "running"
                                         THEN "stopped" ELSE helper[n].client
  <2>1. \A n \in Helpers : helper'[n] = IF n = cli.at /\ helper[n].client = "running"
                 THEN [helper[n] EXCEPT !.client = "stopped"] ELSE helper[n]
    BY <1>4 DEF CliKilled
  <2>2. ASSUME NEW n \in Helpers
        PROVE  /\ helper'[n] \in Helper
               /\ helper'[n].box = helper[n].box /\ helper'[n].input = helper[n].input
               /\ helper'[n].answer = helper[n].answer
               /\ helper'[n].client = IF n = cli.at /\ helper[n].client = "running"
                                      THEN "stopped" ELSE helper[n].client
    BY <2>1, <2>2 DEF Helper
  <2>3. helper' = [n \in Helpers |-> helper'[n]]
    BY <1>4 DEF CliKilled
  <2> QED
    BY <1>4, <2>2, <2>3 DEF CliKilled
<1> QED
  BY <1>1, <1>2, <1>3, <1>4

(* Field by field, what a step of the CLI does to its projection.          *)
LEMMA CliFields ==
  ASSUME HelperTypeOK, NEW c
  PROVE  /\ Continue(c) /\ c \in { "idle", "list", "sweep", "prove", "start", "pending",
                                  "wait", "remove", "gone" } =>
              cli' \in Cli /\ cli'.pc = c /\ cli'.at = cli.at /\ cli'.cause = cli.cause
         /\ c \in 0 .. MaxHelpers =>
              AtRest(c) \in Cli /\ AtRest(c).pc = "idle" /\ AtRest(c).at = c
              /\ AtRest(c).left = {} /\ AtRest(c).cause = ""
         /\ Helpers \subseteq 0 .. MaxHelpers /\ cli.at \in 0 .. MaxHelpers
<1> USE HelperAssumption DEF HelperTypeOK
<1>1. Helpers \subseteq 0 .. MaxHelpers /\ cli.at \in 0 .. MaxHelpers
  <2>1. Helpers \subseteq 0 .. MaxHelpers
    BY DEF Helpers
  <2>2. cli.at \in 0 .. MaxHelpers
    BY DEF Cli
  <2> QED
    BY <2>1, <2>2
<1>2. Continue(c) /\ c \in { "idle", "list", "sweep", "prove", "start", "pending",
                             "wait", "remove", "gone" } =>
        cli' \in Cli /\ cli'.pc = c /\ cli'.at = cli.at /\ cli'.cause = cli.cause
  BY DEF Continue, Cli
<1>3. c \in 0 .. MaxHelpers =>
        AtRest(c) \in Cli /\ AtRest(c).pc = "idle" /\ AtRest(c).at = c
        /\ AtRest(c).left = {} /\ AtRest(c).cause = ""
  BY DEF AtRest, Cli
<1> QED
  BY <1>1, <1>2, <1>3

(* The steps of the CLI, by what they change.                              *)
LEMMA CliSteps ==
  ASSUME HelperTypeOK, OneLives, InputTold
  PROVE  /\ BeginHelper =>
              cli' \in Cli /\ cli'.pc = "list" /\ cli'.at = cli.at /\ cli'.cause = ""
         /\ ListHelpers =>
              cli' \in Cli /\ cli'.pc = (IF Living = {} THEN "start" ELSE "sweep")
              /\ cli'.at = cli.at /\ cli'.cause = cli.cause
         /\ SweepHelpers =>
              cli' \in Cli /\ cli'.pc = "prove" /\ cli'.at = cli.at /\ cli'.cause = cli.cause
         /\ Reaped =>
              /\ cli.at \in Helpers
              /\ \/ /\ helper[cli.at].client = "ok" /\ cli.cause = "refused"
                    /\ cli' = AtRest(cli.at) /\ Reply(cli.at, "projected")
                 \/ /\ helper[cli.at].client \in {"ok", "failed"} /\ cli.cause = "unused"
                    /\ cli' = AtRest(cli.at) /\ Reply(cli.at, "unused")
                 \/ /\ cli.cause = "refused" /\ helper[cli.at].client = "failed"
                    /\ Continue("remove") /\ UNCHANGED helper
         /\ ProveGone =>
              /\ cli.at \in Helpers
              /\ cli' = AtRest(cli.at)
              /\ \/ Reply(cli.at, "unreaped")
                 \/ /\ ~Alive(cli.at) /\ Reply(cli.at, cli.cause)
                    /\ cli.cause \in {"refused", "unused", "unreaped"}
<1> USE DEF HelperTypeOK
<1>1. BeginHelper => cli' \in Cli /\ cli'.pc = "list" /\ cli'.at = cli.at /\ cli'.cause = ""
  <2> DEFINE new == AtRest(cli.at)
  <2>1. new \in Cli /\ new.at = cli.at /\ new.cause = ""
    BY CliFields
  <2>2. BeginHelper => cli' = [new EXCEPT !.pc = "list"]
    BY DEF BeginHelper
  <2> HIDE DEF new
  <2> QED
    BY <2>1, <2>2 DEF Cli
<1>2. ListHelpers =>
        cli' \in Cli /\ cli'.pc = (IF Living = {} THEN "start" ELSE "sweep")
        /\ cli'.at = cli.at /\ cli'.cause = cli.cause
  <2> DEFINE c == IF Living = {} THEN "start" ELSE "sweep"
  <2>1. ListHelpers => cli' = [cli EXCEPT !.pc = c, !.left = Living]
    BY DEF ListHelpers
  <2>2. c \in {"start", "sweep"} /\ Living \in SUBSET Helpers
    BY DEF Living
  <2> HIDE DEF c
  <2>3. ListHelpers => cli' \in Cli /\ cli'.pc = c /\ cli'.at = cli.at /\ cli'.cause = cli.cause
    BY <2>1, <2>2 DEF Cli
  <2> QED
    BY <2>3 DEF c
<1>3. SweepHelpers =>
        cli' \in Cli /\ cli'.pc = "prove" /\ cli'.at = cli.at /\ cli'.cause = cli.cause
  BY DEF SweepHelpers, Cli
<1>4. Reaped =>
        /\ cli.at \in Helpers
        /\ \/ /\ helper[cli.at].client = "ok" /\ cli.cause = "refused"
              /\ cli' = AtRest(cli.at) /\ Reply(cli.at, "projected")
           \/ /\ helper[cli.at].client \in {"ok", "failed"} /\ cli.cause = "unused"
              /\ cli' = AtRest(cli.at) /\ Reply(cli.at, "unused")
           \/ /\ cli.cause = "refused" /\ helper[cli.at].client = "failed"
              /\ Continue("remove") /\ UNCHANGED helper
  BY DEF Reaped, Reply, OneLives
<1>5. ProveGone =>
        /\ cli.at \in Helpers
        /\ cli' = AtRest(cli.at)
        /\ \/ Reply(cli.at, "unreaped")
           \/ /\ ~Alive(cli.at) /\ Reply(cli.at, cli.cause)
              /\ cli.cause \in {"refused", "unused", "unreaped"}
  BY DEF ProveGone, Reply, OneLives, InputTold, Cli
<1> QED
  BY <1>1, <1>2, <1>3, <1>4, <1>5

(* An answer that what is known of the helper bears out.                   *)
LEMMA Replied ==
  ASSUME HlInv, NEW n \in Helpers, n = cli.at,
         NEW what \in {"projected", "refused", "unused", "unreaped"},
         NEW c \in {"ok", "failed", "stopped", "stuck", "none"},
         Alters(n, helper[n].box, c, helper[n].input, what),
         UNCHANGED <<volume, wipe>>,
         cli' \in Cli, cli'.pc = "idle", cli'.at = n,
         c = "ok" => helper[n].client = "ok",
         what \in {"projected", "refused"} => ~Alive(n),
         what = "unused" => helper[n].input = "closed",
         what = "projected" => volume >= n
  PROVE  HlInv'
<1>0. HelperTypeOK /\ OneLives /\ ClientKnown /\ InputTold /\ AnswerStands /\ WipeKnown
  BY DEF HlInv
<1>1. HelperTypeOK' /\ WipeKnown'
  BY <1>0 DEF HelperTypeOK, WipeKnown, Alters
<1>2. ASSUME NEW m \in Helpers PROVE Lives(m)' /\ Knows(m)' /\ Stands(m)'
  <2>1. Lives(m) /\ Knows(m) /\ Stands(m)
    BY <1>0 DEF OneLives, ClientKnown, AnswerStands
  <2>0. n \in Nat
    BY DEF Helpers
  <2>2. CASE m = n
    BY <2>0, <2>1, <2>2 DEF Lives, Knows, Stands, Alive, Alters, NoHelper
  <2>3. CASE m # n
    BY <2>1, <2>3 DEF Lives, Knows, Stands, Alive, Alters, NoHelper
  <2> QED
    BY <2>2, <2>3
<1>3. OneLives' /\ ClientKnown' /\ AnswerStands'
  BY <1>0, <1>2 DEF OneLives, ClientKnown, AnswerStands
<1>4. InputTold'
  BY DEF InputTold
<1> QED
  BY <1>1, <1>3, <1>4 DEF HlInv

LEMMA HelperKept ==
  ASSUME HlInv, HelperNext
  PROVE  HlInv'
<1>0. HelperTypeOK /\ OneLives /\ ClientKnown /\ InputTold /\ AnswerStands /\ WipeKnown
  BY DEF HlInv
<1>1. ASSUME helper' \in [Helpers -> Helper], volume' \in 0 .. MaxHelpers, cli' \in Cli,
             wipe' \in Wipe
      PROVE  HelperTypeOK'
  BY <1>1 DEF HelperTypeOK
<1>b. /\ \A n \in Helpers : n \in Nat /\ 0 < n
      /\ cli.at \in Nat /\ volume \in Nat
  <2>1. Helpers \subseteq 0 .. MaxHelpers /\ cli.at \in 0 .. MaxHelpers
        /\ volume \in 0 .. MaxHelpers
    BY <1>0, CliFields DEF HelperTypeOK
  <2>2. \A n \in Helpers : n \in Nat /\ 0 < n
    BY DEF Helpers
  <2> QED
    BY <2>1, <2>2, HelperAssumption
<1>c. HlInv /\ AtRest(cli.at) \in Cli /\ AtRest(cli.at).pc = "idle"
      /\ AtRest(cli.at).at = cli.at
  BY <1>0, CliFields
<1>2. CASE BeginHelper
  <2>1. /\ UNCHANGED <<helper, volume, wipe>>
        /\ cli.pc = "idle" /\ cli.at < MaxHelpers
        /\ cli' \in Cli /\ cli'.pc = "list" /\ cli'.at = cli.at /\ cli'.cause = ""
    BY <1>0, <1>2, CliSteps DEF BeginHelper
  <2>2. HelperTypeOK' /\ WipeKnown'
    BY <1>0, <1>1, <2>1 DEF HelperTypeOK, WipeKnown, Alters
  <2>3. OneLives'
    <3>1. ASSUME NEW m \in Helpers PROVE Lives(m)'
      <4>1. Lives(m) /\ Knows(m)
        BY <1>0 DEF ClientKnown, OneLives
      <4> QED
        BY <1>b, <2>1, <4>1 DEF Lives, Alive, Knows, Alters, NoHelper
    <3> QED
      BY <1>0, <1>b, <2>1, <3>1 DEF OneLives
  <2>4. ClientKnown'
    <3>1. ASSUME NEW m \in Helpers PROVE Knows(m)'
      <4>1. Knows(m) /\ Knows(m) /\ Lives(m)
        BY <1>0 DEF ClientKnown, AnswerStands, OneLives
      <4> QED
        BY <1>0, <1>b, <2>1, <4>1 DEF Knows, Alters, Lives, OneLives, InputTold, NoHelper
    <3> QED
      BY <3>1 DEF ClientKnown
  <2>5. InputTold'
    BY <1>0, <1>b, <2>1 DEF InputTold, OneLives, Alters
  <2>6. AnswerStands'
    <3>1. ASSUME NEW m \in Helpers PROVE Stands(m)'
      <4>1. Stands(m) /\ Knows(m) /\ Lives(m)
        BY <1>0 DEF ClientKnown, AnswerStands, OneLives
      <4> QED
        BY <1>0, <1>b, <2>1, <4>1
           DEF Stands, Knows, Alive, Alters, Lives, OneLives, InputTold, NoHelper
    <3> QED
      BY <3>1 DEF AnswerStands
  <2> QED
    BY <2>2, <2>3, <2>4, <2>5, <2>6 DEF HlInv
<1>3. CASE ListHelpers
  <2>1. /\ UNCHANGED <<helper, volume, wipe>>
        /\ cli.pc = "list"
        /\ cli'.pc = "start" => \A n \in Helpers : ~Alive(n)
        /\ cli' \in Cli /\ cli'.pc \in {"start", "sweep"}
        /\ cli'.at = cli.at /\ cli'.cause = cli.cause
    BY <1>0, <1>3, CliSteps DEF ListHelpers, Living
  <2>2. HelperTypeOK' /\ WipeKnown'
    BY <1>0, <1>1, <2>1 DEF HelperTypeOK, WipeKnown, Alters
  <2>3. OneLives'
    <3>1. ASSUME NEW m \in Helpers PROVE Lives(m)'
      <4>1. Lives(m) /\ Knows(m)
        BY <1>0 DEF ClientKnown, OneLives
      <4> QED
        BY <1>b, <2>1, <4>1 DEF Lives, Alive, Knows, Alters, NoHelper
    <3> QED
      BY <1>0, <1>b, <2>1, <3>1 DEF OneLives
  <2>4. ClientKnown'
    <3>1. ASSUME NEW m \in Helpers PROVE Knows(m)'
      <4>1. Knows(m) /\ Knows(m) /\ Lives(m)
        BY <1>0 DEF ClientKnown, AnswerStands, OneLives
      <4> QED
        BY <1>0, <1>b, <2>1, <4>1 DEF Knows, Alters, Lives, OneLives, InputTold, NoHelper
    <3> QED
      BY <3>1 DEF ClientKnown
  <2>5. InputTold'
    BY <1>0, <1>b, <2>1 DEF InputTold, OneLives, Alters
  <2>6. AnswerStands'
    <3>1. ASSUME NEW m \in Helpers PROVE Stands(m)'
      <4>1. Stands(m) /\ Knows(m) /\ Lives(m)
        BY <1>0 DEF ClientKnown, AnswerStands, OneLives
      <4> QED
        BY <1>0, <1>b, <2>1, <4>1
           DEF Stands, Knows, Alive, Alters, Lives, OneLives, InputTold, NoHelper
    <3> QED
      BY <3>1 DEF AnswerStands
  <2> QED
    BY <2>2, <2>3, <2>4, <2>5, <2>6 DEF HlInv
<1>4. CASE SweepHelpers
  <2>1. /\ UNCHANGED <<volume, wipe>>
        /\ cli.pc = "sweep"
        /\ Swept
        /\ cli' \in Cli /\ cli'.pc = "prove" /\ cli'.at = cli.at /\ cli'.cause = cli.cause
    BY <1>0, <1>4, CliSteps, SweptIs DEF SweepHelpers
  <2>2. HelperTypeOK' /\ WipeKnown'
    BY <1>0, <1>1, <2>1 DEF HelperTypeOK, WipeKnown, Swept
  <2>3. OneLives'
    <3>1. ASSUME NEW m \in Helpers PROVE Lives(m)'
      <4>1. Lives(m) /\ Knows(m)
        BY <1>0 DEF ClientKnown, OneLives
      <4> QED
        BY <1>b, <2>1, <4>1 DEF Swept, Lives, Alive, Knows, Alters, NoHelper
    <3> QED
      BY <1>0, <1>b, <2>1, <3>1 DEF OneLives
  <2>4. ClientKnown'
    <3>1. ASSUME NEW m \in Helpers PROVE Knows(m)'
      <4>1. Knows(m) /\ Knows(m) /\ Lives(m)
        BY <1>0 DEF ClientKnown, AnswerStands, OneLives
      <4> QED
        BY <1>0, <1>b, <2>1, <4>1
           DEF Swept, Knows, Alters, Lives, OneLives, InputTold, NoHelper
    <3> QED
      BY <3>1 DEF ClientKnown
  <2>5. InputTold'
    BY <1>0, <1>b, <2>1 DEF InputTold, OneLives, Swept
  <2>6. AnswerStands'
    <3>1. ASSUME NEW m \in Helpers PROVE Stands(m)'
      <4>1. Stands(m) /\ Knows(m) /\ Lives(m)
        BY <1>0 DEF ClientKnown, AnswerStands, OneLives
      <4> QED
        BY <1>0, <1>b, <2>1, <4>1
           DEF Swept, Stands, Knows, Alive, Alters, Lives, OneLives, InputTold, NoHelper
    <3> QED
      BY <3>1 DEF AnswerStands
  <2> QED
    BY <2>2, <2>3, <2>4, <2>5, <2>6 DEF HlInv
<1>5. CASE ProveSwept
  <2>1. /\ UNCHANGED <<helper, volume, wipe>>
        /\ cli.pc = "prove"
        /\ cli'.pc = "start" => \A n \in Helpers : ~Alive(n)
        /\ cli' \in Cli /\ cli'.pc \in {"start", "idle"}
        /\ cli'.at = cli.at /\ cli'.cause = cli.cause
    BY <1>0, <1>5, CliFields DEF ProveSwept, Living
  <2>2. HelperTypeOK' /\ WipeKnown'
    BY <1>0, <1>1, <2>1 DEF HelperTypeOK, WipeKnown, Alters
  <2>3. OneLives'
    <3>1. ASSUME NEW m \in Helpers PROVE Lives(m)'
      <4>1. Lives(m) /\ Knows(m)
        BY <1>0 DEF ClientKnown, OneLives
      <4> QED
        BY <1>b, <2>1, <4>1 DEF Lives, Alive, Knows, Alters, NoHelper
    <3> QED
      BY <1>0, <1>b, <2>1, <3>1 DEF OneLives
  <2>4. ClientKnown'
    <3>1. ASSUME NEW m \in Helpers PROVE Knows(m)'
      <4>1. Knows(m) /\ Knows(m) /\ Lives(m)
        BY <1>0 DEF ClientKnown, AnswerStands, OneLives
      <4> QED
        BY <1>0, <1>b, <2>1, <4>1 DEF Knows, Alters, Lives, OneLives, InputTold, NoHelper
    <3> QED
      BY <3>1 DEF ClientKnown
  <2>5. InputTold'
    BY <1>0, <1>b, <2>1 DEF InputTold, OneLives, Alters
  <2>6. AnswerStands'
    <3>1. ASSUME NEW m \in Helpers PROVE Stands(m)'
      <4>1. Stands(m) /\ Knows(m) /\ Lives(m)
        BY <1>0 DEF ClientKnown, AnswerStands, OneLives
      <4> QED
        BY <1>0, <1>b, <2>1, <4>1
           DEF Stands, Knows, Alive, Alters, Lives, OneLives, InputTold, NoHelper
    <3> QED
      BY <3>1 DEF AnswerStands
  <2> QED
    BY <2>2, <2>3, <2>4, <2>5, <2>6 DEF HlInv
<1>6. CASE LookFails
  <2>1. /\ UNCHANGED <<helper, volume, wipe>>
        /\ cli.pc \in {"list", "prove"}
        /\ cli' \in Cli /\ cli'.pc = "idle" /\ cli'.at = cli.at /\ cli'.cause = cli.cause
    BY <1>0, <1>6, CliFields DEF LookFails
  <2>2. HelperTypeOK' /\ WipeKnown'
    BY <1>0, <1>1, <2>1 DEF HelperTypeOK, WipeKnown, Alters
  <2>3. OneLives'
    <3>1. ASSUME NEW m \in Helpers PROVE Lives(m)'
      <4>1. Lives(m) /\ Knows(m)
        BY <1>0 DEF ClientKnown, OneLives
      <4> QED
        BY <1>b, <2>1, <4>1 DEF Lives, Alive, Knows, Alters, NoHelper
    <3> QED
      BY <1>0, <1>b, <2>1, <3>1 DEF OneLives
  <2>4. ClientKnown'
    <3>1. ASSUME NEW m \in Helpers PROVE Knows(m)'
      <4>1. Knows(m) /\ Knows(m) /\ Lives(m)
        BY <1>0 DEF ClientKnown, AnswerStands, OneLives
      <4> QED
        BY <1>0, <1>b, <2>1, <4>1 DEF Knows, Alters, Lives, OneLives, InputTold, NoHelper
    <3> QED
      BY <3>1 DEF ClientKnown
  <2>5. InputTold'
    BY <1>0, <1>b, <2>1 DEF InputTold, OneLives, Alters
  <2>6. AnswerStands'
    <3>1. ASSUME NEW m \in Helpers PROVE Stands(m)'
      <4>1. Stands(m) /\ Knows(m) /\ Lives(m)
        BY <1>0 DEF ClientKnown, AnswerStands, OneLives
      <4> QED
        BY <1>0, <1>b, <2>1, <4>1
           DEF Stands, Knows, Alive, Alters, Lives, OneLives, InputTold, NoHelper
    <3> QED
      BY <3>1 DEF AnswerStands
  <2> QED
    BY <2>2, <2>3, <2>4, <2>5, <2>6 DEF HlInv
<1>7. CASE StartHelper
  <2>1. /\ UNCHANGED <<volume, wipe>>
        /\ cli.pc = "start" /\ cli.at + 1 \in Helpers
        /\ Alters(cli.at + 1, "none", "running", "open", "none")
        /\ cli' \in Cli /\ cli'.pc = "pending" /\ cli'.at = cli.at + 1
    BY <1>0, <1>7, CliMoves DEF StartHelper
  <2>2. HelperTypeOK' /\ WipeKnown'
    BY <1>0, <1>1, <2>1 DEF HelperTypeOK, WipeKnown, Alters
  <2>3. OneLives'
    <3>1. ASSUME NEW m \in Helpers PROVE Lives(m)'
      <4>1. Lives(m) /\ Knows(m)
        BY <1>0 DEF ClientKnown, OneLives
      <4>2. CASE m = cli.at + 1
        BY <1>b, <2>1, <4>1, <4>2 DEF Lives, Alive, Knows, Alters, NoHelper
      <4>3. CASE m # cli.at + 1
        BY <1>b, <2>1, <4>1, <4>3 DEF Lives, Alive, Knows, Alters, NoHelper
      <4> QED
        BY <4>2, <4>3
    <3> QED
      BY <1>0, <1>b, <2>1, <3>1 DEF OneLives
  <2>4. ClientKnown'
    <3>1. ASSUME NEW m \in Helpers PROVE Knows(m)'
      <4>1. Knows(m) /\ Knows(m) /\ Lives(m)
        BY <1>0 DEF ClientKnown, AnswerStands, OneLives
      <4>2. CASE m = cli.at + 1
        BY <1>0, <1>b, <2>1, <4>1, <4>2
           DEF Knows, Alters, Lives, OneLives, InputTold, NoHelper
      <4>3. CASE m # cli.at + 1
        BY <1>0, <1>b, <2>1, <4>1, <4>3
           DEF Knows, Alters, Lives, OneLives, InputTold, NoHelper
      <4> QED
        BY <4>2, <4>3
    <3> QED
      BY <3>1 DEF ClientKnown
  <2>5. InputTold'
    BY <1>0, <1>b, <2>1 DEF InputTold, OneLives, Alters
  <2>6. AnswerStands'
    <3>1. ASSUME NEW m \in Helpers PROVE Stands(m)'
      <4>1. Stands(m) /\ Knows(m) /\ Lives(m)
        BY <1>0 DEF ClientKnown, AnswerStands, OneLives
      <4>2. CASE m = cli.at + 1
        BY <1>0, <1>b, <2>1, <4>1, <4>2
           DEF Stands, Knows, Alive, Alters, Lives, OneLives, InputTold, NoHelper
      <4>3. CASE m # cli.at + 1
        BY <1>0, <1>b, <2>1, <4>1, <4>3
           DEF Stands, Knows, Alive, Alters, Lives, OneLives, InputTold, NoHelper
      <4> QED
        BY <4>2, <4>3
    <3> QED
      BY <3>1 DEF AnswerStands
  <2> QED
    BY <2>2, <2>3, <2>4, <2>5, <2>6 DEF HlInv
<1>8. CASE Send("document")
  <2>1. /\ UNCHANGED <<volume, wipe>>
        /\ cli.pc = "pending" /\ cli.at \in Helpers
        /\ Alters(cli.at, helper[cli.at].box, helper[cli.at].client,
                  "document", helper[cli.at].answer)
        /\ cli' \in Cli /\ cli'.pc = "wait" /\ cli'.at = cli.at /\ cli'.cause = "refused"
    BY <1>0, <1>8, CliMoves DEF Send, OneLives, InputTold
  <2>2. HelperTypeOK' /\ WipeKnown'
    BY <1>0, <1>1, <2>1 DEF HelperTypeOK, WipeKnown, Alters
  <2>3. OneLives'
    <3>1. ASSUME NEW m \in Helpers PROVE Lives(m)'
      <4>1. Lives(m) /\ Knows(m)
        BY <1>0 DEF ClientKnown, OneLives
      <4>2. CASE m = cli.at
        BY <1>b, <2>1, <4>1, <4>2 DEF Lives, Alive, Knows, Alters, NoHelper
      <4>3. CASE m # cli.at
        BY <1>b, <2>1, <4>1, <4>3 DEF Lives, Alive, Knows, Alters, NoHelper
      <4> QED
        BY <4>2, <4>3
    <3> QED
      BY <1>0, <1>b, <2>1, <3>1 DEF OneLives
  <2>4. ClientKnown'
    <3>1. ASSUME NEW m \in Helpers PROVE Knows(m)'
      <4>1. Knows(m) /\ Knows(m) /\ Lives(m)
        BY <1>0 DEF ClientKnown, AnswerStands, OneLives
      <4>2. CASE m = cli.at
        BY <1>0, <1>b, <2>1, <4>1, <4>2
           DEF Knows, Alters, Lives, OneLives, InputTold, NoHelper
      <4>3. CASE m # cli.at
        BY <1>0, <1>b, <2>1, <4>1, <4>3
           DEF Knows, Alters, Lives, OneLives, InputTold, NoHelper
      <4> QED
        BY <4>2, <4>3
    <3> QED
      BY <3>1 DEF ClientKnown
  <2>5. InputTold'
    BY <1>0, <1>b, <2>1 DEF InputTold, OneLives, Alters
  <2>6. AnswerStands'
    <3>1. ASSUME NEW m \in Helpers PROVE Stands(m)'
      <4>1. Stands(m) /\ Knows(m) /\ Lives(m)
        BY <1>0 DEF ClientKnown, AnswerStands, OneLives
      <4>2. CASE m = cli.at
        BY <1>0, <1>b, <2>1, <4>1, <4>2
           DEF Stands, Knows, Alive, Alters, Lives, OneLives, InputTold, NoHelper
      <4>3. CASE m # cli.at
        BY <1>0, <1>b, <2>1, <4>1, <4>3
           DEF Stands, Knows, Alive, Alters, Lives, OneLives, InputTold, NoHelper
      <4> QED
        BY <4>2, <4>3
    <3> QED
      BY <3>1 DEF AnswerStands
  <2> QED
    BY <2>2, <2>3, <2>4, <2>5, <2>6 DEF HlInv
<1>9. CASE Send("closed")
  <2>1. /\ UNCHANGED <<volume, wipe>>
        /\ cli.pc = "pending" /\ cli.at \in Helpers
        /\ Alters(cli.at, helper[cli.at].box, helper[cli.at].client,
                  "closed", helper[cli.at].answer)
        /\ cli' \in Cli /\ cli'.pc = "wait" /\ cli'.at = cli.at /\ cli'.cause = "unused"
    BY <1>0, <1>9, CliMoves DEF Send, OneLives, InputTold
  <2>2. HelperTypeOK' /\ WipeKnown'
    BY <1>0, <1>1, <2>1 DEF HelperTypeOK, WipeKnown, Alters
  <2>3. OneLives'
    <3>1. ASSUME NEW m \in Helpers PROVE Lives(m)'
      <4>1. Lives(m) /\ Knows(m)
        BY <1>0 DEF ClientKnown, OneLives
      <4>2. CASE m = cli.at
        BY <1>b, <2>1, <4>1, <4>2 DEF Lives, Alive, Knows, Alters, NoHelper
      <4>3. CASE m # cli.at
        BY <1>b, <2>1, <4>1, <4>3 DEF Lives, Alive, Knows, Alters, NoHelper
      <4> QED
        BY <4>2, <4>3
    <3> QED
      BY <1>0, <1>b, <2>1, <3>1 DEF OneLives
  <2>4. ClientKnown'
    <3>1. ASSUME NEW m \in Helpers PROVE Knows(m)'
      <4>1. Knows(m) /\ Knows(m) /\ Lives(m)
        BY <1>0 DEF ClientKnown, AnswerStands, OneLives
      <4>2. CASE m = cli.at
        BY <1>0, <1>b, <2>1, <4>1, <4>2
           DEF Knows, Alters, Lives, OneLives, InputTold, NoHelper
      <4>3. CASE m # cli.at
        BY <1>0, <1>b, <2>1, <4>1, <4>3
           DEF Knows, Alters, Lives, OneLives, InputTold, NoHelper
      <4> QED
        BY <4>2, <4>3
    <3> QED
      BY <3>1 DEF ClientKnown
  <2>5. InputTold'
    BY <1>0, <1>b, <2>1 DEF InputTold, OneLives, Alters
  <2>6. AnswerStands'
    <3>1. ASSUME NEW m \in Helpers PROVE Stands(m)'
      <4>1. Stands(m) /\ Knows(m) /\ Lives(m)
        BY <1>0 DEF ClientKnown, AnswerStands, OneLives
      <4>2. CASE m = cli.at
        BY <1>0, <1>b, <2>1, <4>1, <4>2
           DEF Stands, Knows, Alive, Alters, Lives, OneLives, InputTold, NoHelper
      <4>3. CASE m # cli.at
        BY <1>0, <1>b, <2>1, <4>1, <4>3
           DEF Stands, Knows, Alive, Alters, Lives, OneLives, InputTold, NoHelper
      <4> QED
        BY <4>2, <4>3
    <3> QED
      BY <3>1 DEF AnswerStands
  <2> QED
    BY <2>2, <2>3, <2>4, <2>5, <2>6 DEF HlInv
<1>10. CASE Reaped
  <2>0. cli.at \in Helpers /\ cli.pc = "wait" /\ UNCHANGED <<volume, wipe>>
    BY <1>0, <1>10, CliSteps DEF Reaped
  <2>1. CASE /\ helper[cli.at].client = "ok" /\ cli.cause = "refused"
             /\ cli' = AtRest(cli.at) /\ Reply(cli.at, "projected")
    <3>1. Alters(cli.at, helper[cli.at].box, helper[cli.at].client,
                 helper[cli.at].input, "projected")
      BY <1>0, <2>0, <2>1, HelperMoves
    <3>2. ~Alive(cli.at) /\ volume >= cli.at
      BY <1>0, <2>0, <2>1 DEF ClientKnown, Knows, Alive
    <3> QED
      BY <1>c, <2>0, <2>1, <3>1, <3>2, Replied
  <2>2. CASE /\ helper[cli.at].client \in {"ok", "failed"} /\ cli.cause = "unused"
             /\ cli' = AtRest(cli.at) /\ Reply(cli.at, "unused")
    <3>1. Alters(cli.at, helper[cli.at].box, helper[cli.at].client,
                 helper[cli.at].input, "unused")
      BY <1>0, <2>0, <2>2, HelperMoves
    <3>2. helper[cli.at].input = "closed"
      BY <1>0, <2>0, <2>2 DEF InputTold
    <3> QED
      BY <1>c, <2>0, <2>2, <3>1, <3>2, Replied
  <2>3. CASE /\ cli.cause = "refused" /\ helper[cli.at].client = "failed"
             /\ Continue("remove") /\ UNCHANGED helper
    <3>1. /\ UNCHANGED <<helper, volume, wipe>> /\ cli.at \in Helpers
          /\ cli.pc = "wait" /\ helper[cli.at].client = "failed"
          /\ cli' \in Cli /\ cli'.pc = "remove" /\ cli'.at = cli.at
          /\ cli'.cause = cli.cause
      BY <1>0, <2>0, <2>3, CliFields DEF HelperTypeOK
    <3>2. HelperTypeOK' /\ WipeKnown'
      BY <1>0, <1>1, <3>1 DEF HelperTypeOK, WipeKnown, Alters
    <3>3. OneLives'
      <4>1. ASSUME NEW m \in Helpers PROVE Lives(m)'
        <5>1. Lives(m) /\ Knows(m)
          BY <1>0 DEF ClientKnown, OneLives
        <5>2. CASE m = cli.at
          BY <1>b, <3>1, <5>1, <5>2 DEF Lives, Alive, Knows, Alters, NoHelper
        <5>3. CASE m # cli.at
          BY <1>b, <3>1, <5>1, <5>3 DEF Lives, Alive, Knows, Alters, NoHelper
        <5> QED
          BY <5>2, <5>3
      <4> QED
        BY <1>0, <1>b, <3>1, <4>1 DEF OneLives
    <3>4. ClientKnown'
      <4>1. ASSUME NEW m \in Helpers PROVE Knows(m)'
        <5>1. Knows(m) /\ Knows(m) /\ Lives(m)
          BY <1>0 DEF ClientKnown, AnswerStands, OneLives
        <5>2. CASE m = cli.at
          BY <1>0, <1>b, <3>1, <5>1, <5>2
             DEF Knows, Alters, Lives, OneLives, InputTold, NoHelper
        <5>3. CASE m # cli.at
          BY <1>0, <1>b, <3>1, <5>1, <5>3
             DEF Knows, Alters, Lives, OneLives, InputTold, NoHelper
        <5> QED
          BY <5>2, <5>3
      <4> QED
        BY <4>1 DEF ClientKnown
    <3>5. InputTold'
      BY <1>0, <1>b, <3>1 DEF InputTold, OneLives, Alters
    <3>6. AnswerStands'
      <4>1. ASSUME NEW m \in Helpers PROVE Stands(m)'
        <5>1. Stands(m) /\ Knows(m) /\ Lives(m)
          BY <1>0 DEF ClientKnown, AnswerStands, OneLives
        <5>2. CASE m = cli.at
          BY <1>0, <1>b, <3>1, <5>1, <5>2
             DEF Stands, Knows, Alive, Alters, Lives, OneLives, InputTold, NoHelper
        <5>3. CASE m # cli.at
          BY <1>0, <1>b, <3>1, <5>1, <5>3
             DEF Stands, Knows, Alive, Alters, Lives, OneLives, InputTold, NoHelper
        <5> QED
          BY <5>2, <5>3
      <4> QED
        BY <4>1 DEF AnswerStands
    <3> QED
      BY <3>2, <3>3, <3>4, <3>5, <3>6 DEF HlInv
  <2> QED
    BY <1>10, <2>0, <2>1, <2>2, <2>3, CliSteps, <1>0
<1>11. CASE PastDeadline
  <2>0. /\ cli.at \in Helpers /\ cli.pc = "wait" /\ UNCHANGED <<volume, wipe>>
        /\ helper[cli.at].client = "running" /\ helper[cli.at].answer = "none"
    BY <1>0, <1>11, <1>0 DEF PastDeadline, OneLives, ClientKnown, Knows
  <2>1. CASE /\ Alters(cli.at, helper[cli.at].box, "stopped", helper[cli.at].input,
                       helper[cli.at].answer)
             /\ cli' \in Cli /\ cli'.pc = "remove" /\ cli'.at = cli.at
             /\ cli'.cause = cli.cause
    <3>1. /\ cli.at \in Helpers /\ UNCHANGED <<volume, wipe>>
          /\ cli.pc = "wait" /\ helper[cli.at].answer = "none"
          /\ Alters(cli.at, helper[cli.at].box, "stopped", helper[cli.at].input,
                       "none")
          /\ cli' \in Cli /\ cli'.pc = "remove" /\ cli'.at = cli.at /\ cli'.cause = cli.cause
      BY <1>0, <2>0, <2>1, <1>0 DEF Alters
    <3>2. HelperTypeOK' /\ WipeKnown'
      BY <1>0, <1>1, <3>1 DEF HelperTypeOK, WipeKnown, Alters
    <3>3. OneLives'
      <4>1. ASSUME NEW m \in Helpers PROVE Lives(m)'
        <5>1. Lives(m) /\ Knows(m)
          BY <1>0 DEF ClientKnown, OneLives
        <5>2. CASE m = cli.at
          BY <1>b, <3>1, <5>1, <5>2 DEF Lives, Alive, Knows, Alters, NoHelper
        <5>3. CASE m # cli.at
          BY <1>b, <3>1, <5>1, <5>3 DEF Lives, Alive, Knows, Alters, NoHelper
        <5> QED
          BY <5>2, <5>3
      <4> QED
        BY <1>0, <1>b, <3>1, <4>1 DEF OneLives
    <3>4. ClientKnown'
      <4>1. ASSUME NEW m \in Helpers PROVE Knows(m)'
        <5>1. Knows(m) /\ Knows(m) /\ Lives(m)
          BY <1>0 DEF ClientKnown, AnswerStands, OneLives
        <5>2. CASE m = cli.at
          BY <1>0, <1>b, <3>1, <5>1, <5>2
             DEF Knows, Alters, Lives, OneLives, InputTold, NoHelper
        <5>3. CASE m # cli.at
          BY <1>0, <1>b, <3>1, <5>1, <5>3
             DEF Knows, Alters, Lives, OneLives, InputTold, NoHelper
        <5> QED
          BY <5>2, <5>3
      <4> QED
        BY <4>1 DEF ClientKnown
    <3>5. InputTold'
      BY <1>0, <1>b, <3>1 DEF InputTold, OneLives, Alters
    <3>6. AnswerStands'
      <4>1. ASSUME NEW m \in Helpers PROVE Stands(m)'
        <5>1. Stands(m) /\ Knows(m) /\ Lives(m)
          BY <1>0 DEF ClientKnown, AnswerStands, OneLives
        <5>2. CASE m = cli.at
          BY <1>0, <1>b, <3>1, <5>1, <5>2
             DEF Stands, Knows, Alive, Alters, Lives, OneLives, InputTold, NoHelper
        <5>3. CASE m # cli.at
          BY <1>0, <1>b, <3>1, <5>1, <5>3
             DEF Stands, Knows, Alive, Alters, Lives, OneLives, InputTold, NoHelper
        <5> QED
          BY <5>2, <5>3
      <4> QED
        BY <4>1 DEF AnswerStands
    <3> QED
      BY <3>2, <3>3, <3>4, <3>5, <3>6 DEF HlInv
  <2>2. CASE /\ Alters(cli.at, helper[cli.at].box, "stuck", helper[cli.at].input,
                       helper[cli.at].answer)
             /\ cli' \in Cli /\ cli'.pc = "remove" /\ cli'.at = cli.at
             /\ cli'.cause = "unreaped"
    <3>1. /\ cli.at \in Helpers /\ UNCHANGED <<volume, wipe>>
          /\ cli.pc = "wait" /\ helper[cli.at].answer = "none"
          /\ Alters(cli.at, helper[cli.at].box, "stuck", helper[cli.at].input,
                       "none")
          /\ cli' \in Cli /\ cli'.pc = "remove" /\ cli'.at = cli.at /\ cli'.cause = "unreaped"
      BY <1>0, <2>0, <2>2, <1>0 DEF Alters
    <3>2. HelperTypeOK' /\ WipeKnown'
      BY <1>0, <1>1, <3>1 DEF HelperTypeOK, WipeKnown, Alters
    <3>3. OneLives'
      <4>1. ASSUME NEW m \in Helpers PROVE Lives(m)'
        <5>1. Lives(m) /\ Knows(m)
          BY <1>0 DEF ClientKnown, OneLives
        <5>2. CASE m = cli.at
          BY <1>b, <3>1, <5>1, <5>2 DEF Lives, Alive, Knows, Alters, NoHelper
        <5>3. CASE m # cli.at
          BY <1>b, <3>1, <5>1, <5>3 DEF Lives, Alive, Knows, Alters, NoHelper
        <5> QED
          BY <5>2, <5>3
      <4> QED
        BY <1>0, <1>b, <3>1, <4>1 DEF OneLives
    <3>4. ClientKnown'
      <4>1. ASSUME NEW m \in Helpers PROVE Knows(m)'
        <5>1. Knows(m) /\ Knows(m) /\ Lives(m)
          BY <1>0 DEF ClientKnown, AnswerStands, OneLives
        <5>2. CASE m = cli.at
          BY <1>0, <1>b, <3>1, <5>1, <5>2
             DEF Knows, Alters, Lives, OneLives, InputTold, NoHelper
        <5>3. CASE m # cli.at
          BY <1>0, <1>b, <3>1, <5>1, <5>3
             DEF Knows, Alters, Lives, OneLives, InputTold, NoHelper
        <5> QED
          BY <5>2, <5>3
      <4> QED
        BY <4>1 DEF ClientKnown
    <3>5. InputTold'
      BY <1>0, <1>b, <3>1 DEF InputTold, OneLives, Alters
    <3>6. AnswerStands'
      <4>1. ASSUME NEW m \in Helpers PROVE Stands(m)'
        <5>1. Stands(m) /\ Knows(m) /\ Lives(m)
          BY <1>0 DEF ClientKnown, AnswerStands, OneLives
        <5>2. CASE m = cli.at
          BY <1>0, <1>b, <3>1, <5>1, <5>2
             DEF Stands, Knows, Alive, Alters, Lives, OneLives, InputTold, NoHelper
        <5>3. CASE m # cli.at
          BY <1>0, <1>b, <3>1, <5>1, <5>3
             DEF Stands, Knows, Alive, Alters, Lives, OneLives, InputTold, NoHelper
        <5> QED
          BY <5>2, <5>3
      <4> QED
        BY <4>1 DEF AnswerStands
    <3> QED
      BY <3>2, <3>3, <3>4, <3>5, <3>6 DEF HlInv
  <2>3. CASE /\ Alters(cli.at, helper[cli.at].box, "stuck", helper[cli.at].input,
                       "unreaped")
             /\ cli' = AtRest(cli.at)
    BY <1>c, <2>0, <2>3, Replied
  <2> QED
    BY <1>11, <2>0, <2>1, <2>2, <2>3, CliMoves, <1>0
<1>12. CASE RemoveHelper
  <2>1. /\ UNCHANGED <<volume, wipe>>
        /\ cli.pc = "remove"
        /\ Swept
        /\ cli' \in Cli /\ cli'.pc = "gone" /\ cli'.at = cli.at /\ cli'.cause = cli.cause
    BY <1>0, <1>12, CliFields, SweptIs DEF RemoveHelper
  <2>2. HelperTypeOK' /\ WipeKnown'
    BY <1>0, <1>1, <2>1 DEF HelperTypeOK, WipeKnown, Swept
  <2>3. OneLives'
    <3>1. ASSUME NEW m \in Helpers PROVE Lives(m)'
      <4>1. Lives(m) /\ Knows(m)
        BY <1>0 DEF ClientKnown, OneLives
      <4> QED
        BY <1>b, <2>1, <4>1 DEF Swept, Lives, Alive, Knows, Alters, NoHelper
    <3> QED
      BY <1>0, <1>b, <2>1, <3>1 DEF OneLives
  <2>4. ClientKnown'
    <3>1. ASSUME NEW m \in Helpers PROVE Knows(m)'
      <4>1. Knows(m) /\ Knows(m) /\ Lives(m)
        BY <1>0 DEF ClientKnown, AnswerStands, OneLives
      <4> QED
        BY <1>0, <1>b, <2>1, <4>1
           DEF Swept, Knows, Alters, Lives, OneLives, InputTold, NoHelper
    <3> QED
      BY <3>1 DEF ClientKnown
  <2>5. InputTold'
    BY <1>0, <1>b, <2>1 DEF InputTold, OneLives, Swept
  <2>6. AnswerStands'
    <3>1. ASSUME NEW m \in Helpers PROVE Stands(m)'
      <4>1. Stands(m) /\ Knows(m) /\ Lives(m)
        BY <1>0 DEF ClientKnown, AnswerStands, OneLives
      <4> QED
        BY <1>0, <1>b, <2>1, <4>1
           DEF Swept, Stands, Knows, Alive, Alters, Lives, OneLives, InputTold, NoHelper
    <3> QED
      BY <3>1 DEF AnswerStands
  <2> QED
    BY <2>2, <2>3, <2>4, <2>5, <2>6 DEF HlInv
<1>13. CASE ProveGone
  <2>0. /\ cli.at \in Helpers /\ cli.pc = "gone" /\ UNCHANGED <<volume, wipe>>
        /\ cli' = AtRest(cli.at)
    BY <1>0, <1>13, CliSteps DEF ProveGone
  <2>1. helper[cli.at].client # "running"
    BY <1>0, <2>0 DEF ClientKnown, Knows
  <2>9. helper[cli.at].client \in {"ok", "failed", "stopped", "stuck", "none"}
    BY <1>0, <2>0, <2>1 DEF HelperTypeOK, Helper
  <2>2. CASE Reply(cli.at, "unreaped")
    <3>1. Alters(cli.at, helper[cli.at].box, helper[cli.at].client,
                 helper[cli.at].input, "unreaped")
      BY <1>0, <2>0, <2>2, HelperMoves
    <3> QED
      BY <1>c, <2>0, <2>1, <2>9, <3>1, Replied
  <2>3. CASE /\ ~Alive(cli.at) /\ Reply(cli.at, cli.cause)
             /\ cli.cause \in {"refused", "unused", "unreaped"}
    <3>1. Alters(cli.at, helper[cli.at].box, helper[cli.at].client,
                 helper[cli.at].input, cli.cause)
      BY <1>0, <2>0, <2>3, HelperMoves
    <3>2. cli.cause = "unused" => helper[cli.at].input = "closed"
      BY <1>0, <2>0 DEF InputTold
    <3> QED
      BY <1>c, <2>0, <2>1, <2>3, <2>9, <3>1, <3>2, Replied
  <2> QED
    BY <1>0, <1>13, <2>2, <2>3, CliSteps
<1>14. CASE CliKilled
  <2>1. /\ UNCHANGED <<volume, wipe>>
        /\ helper' \in [Helpers -> Helper]
        /\ \A n \in Helpers : helper[n].client # "running" => helper'[n] = helper[n]
        /\ \A n \in Helpers :
             /\ helper'[n].box = helper[n].box /\ helper'[n].input = helper[n].input
             /\ helper'[n].answer = helper[n].answer
             /\ helper'[n].client = IF n = cli.at /\ helper[n].client = "running"
                                    THEN "stopped" ELSE helper[n].client
        /\ cli' \in Cli /\ cli'.pc = "idle" /\ cli'.at = cli.at /\ cli'.cause = ""
    BY <1>0, <1>14, CliMoves, CliFields DEF CliKilled
  <2>2. HelperTypeOK' /\ WipeKnown'
    BY <1>0, <1>1, <2>1 DEF HelperTypeOK, WipeKnown, Alters
  <2>3. OneLives'
    <3>1. ASSUME NEW m \in Helpers PROVE Lives(m)'
      <4>1. Lives(m) /\ Knows(m)
        BY <1>0 DEF ClientKnown, OneLives
      <4>2. CASE m = cli.at
        <5>1. ~ (cli.at > cli.at)
          BY <1>b
        <5> QED
          BY <2>1, <4>1, <4>2, <5>1 DEF Lives, Alive, Knows, Alters, NoHelper
      <4>3. CASE m # cli.at
        BY <1>b, <2>1, <4>1, <4>3 DEF Lives, Alive, Knows, Alters, NoHelper
      <4> QED
        BY <4>2, <4>3
    <3> QED
      BY <1>0, <1>b, <2>1, <3>1 DEF OneLives
  <2>4. ClientKnown'
    <3>1. ASSUME NEW m \in Helpers PROVE Knows(m)'
      <4>1. Knows(m) /\ Knows(m) /\ Lives(m)
        BY <1>0 DEF ClientKnown, AnswerStands, OneLives
      <4>2. CASE m = cli.at
        BY <1>0, <1>b, <2>1, <4>1, <4>2
           DEF Knows, Alters, Lives, OneLives, InputTold, NoHelper
      <4>3. CASE m # cli.at
        BY <1>0, <1>b, <2>1, <4>1, <4>3
           DEF Knows, Alters, Lives, OneLives, InputTold, NoHelper
      <4> QED
        BY <4>2, <4>3
    <3> QED
      BY <3>1 DEF ClientKnown
  <2>5. InputTold'
    BY <1>0, <1>b, <2>1 DEF InputTold, OneLives, Alters
  <2>6. AnswerStands'
    <3>1. ASSUME NEW m \in Helpers PROVE Stands(m)'
      <4>1. Stands(m) /\ Knows(m) /\ Lives(m)
        BY <1>0 DEF ClientKnown, AnswerStands, OneLives
      <4>2. CASE m = cli.at
        BY <1>0, <1>b, <2>1, <4>1, <4>2
           DEF Stands, Knows, Alive, Alters, Lives, OneLives, InputTold, NoHelper
      <4>3. CASE m # cli.at
        BY <1>0, <1>b, <2>1, <4>1, <4>3
           DEF Stands, Knows, Alive, Alters, Lives, OneLives, InputTold, NoHelper
      <4> QED
        BY <4>2, <4>3
    <3> QED
      BY <3>1 DEF AnswerStands
  <2> QED
    BY <2>2, <2>3, <2>4, <2>5, <2>6 DEF HlInv
<1>15. ASSUME NEW n \in Helpers, CreateBox(n) PROVE HlInv'
  <2>1. /\ UNCHANGED <<volume, cli, wipe>>
        /\ helper[n].client = "running" /\ helper[n].box = "none"
        /\ Alters(n, "waiting", helper[n].client, helper[n].input, helper[n].answer)
    BY <1>0, <1>15, HelperMoves DEF CreateBox
  <2>2. HelperTypeOK' /\ WipeKnown'
    BY <1>0, <1>1, <2>1 DEF HelperTypeOK, WipeKnown, Alters
  <2>3. OneLives'
    <3>1. ASSUME NEW m \in Helpers PROVE Lives(m)'
      <4>1. Lives(m) /\ Knows(m)
        BY <1>0 DEF ClientKnown, OneLives
      <4>2. CASE m = n
        BY <1>b, <2>1, <4>1, <4>2 DEF Lives, Alive, Knows, Alters, NoHelper
      <4>3. CASE m # n
        BY <1>b, <2>1, <4>1, <4>3 DEF Lives, Alive, Knows, Alters, NoHelper
      <4> QED
        BY <4>2, <4>3
    <3> QED
      BY <1>0, <1>b, <2>1, <3>1 DEF OneLives
  <2>4. ClientKnown'
    <3>1. ASSUME NEW m \in Helpers PROVE Knows(m)'
      <4>1. Knows(m) /\ Knows(m) /\ Lives(m)
        BY <1>0 DEF ClientKnown, AnswerStands, OneLives
      <4>2. CASE m = n
        BY <1>0, <1>b, <2>1, <4>1, <4>2
           DEF Knows, Alters, Lives, OneLives, InputTold, NoHelper
      <4>3. CASE m # n
        BY <1>0, <1>b, <2>1, <4>1, <4>3
           DEF Knows, Alters, Lives, OneLives, InputTold, NoHelper
      <4> QED
        BY <4>2, <4>3
    <3> QED
      BY <3>1 DEF ClientKnown
  <2>5. InputTold'
    BY <1>0, <1>b, <2>1 DEF InputTold, OneLives, Alters
  <2>6. AnswerStands'
    <3>1. ASSUME NEW m \in Helpers PROVE Stands(m)'
      <4>1. Stands(m) /\ Knows(m) /\ Lives(m)
        BY <1>0 DEF ClientKnown, AnswerStands, OneLives
      <4>2. CASE m = n
        BY <1>0, <1>b, <2>1, <4>1, <4>2
           DEF Stands, Knows, Alive, Alters, Lives, OneLives, InputTold, NoHelper
      <4>3. CASE m # n
        BY <1>0, <1>b, <2>1, <4>1, <4>3
           DEF Stands, Knows, Alive, Alters, Lives, OneLives, InputTold, NoHelper
      <4> QED
        BY <4>2, <4>3
    <3> QED
      BY <3>1 DEF AnswerStands
  <2> QED
    BY <2>2, <2>3, <2>4, <2>5, <2>6 DEF HlInv
<1>16. ASSUME NEW n \in Helpers, WriteDocument(n) PROVE HlInv'
  <2>1. /\ UNCHANGED <<cli, wipe>> /\ volume' = n
        /\ helper[n].box = "fed" /\ n = cli.at /\ n \in 0 .. MaxHelpers
        /\ n \in Nat /\ volume <= n
        /\ Alters(n, "wrote", helper[n].client, helper[n].input, helper[n].answer)
    BY <1>0, <1>b, <1>16, CliFields, HelperMoves DEF WriteDocument, OneLives, Lives, Alive
  <2>2. HelperTypeOK' /\ WipeKnown'
    BY <1>0, <1>1, <2>1 DEF HelperTypeOK, WipeKnown, Alters
  <2>3. OneLives'
    <3>1. ASSUME NEW m \in Helpers PROVE Lives(m)'
      <4>1. Lives(m) /\ Knows(m)
        BY <1>0 DEF ClientKnown, OneLives
      <4>0. m \in Nat /\ n \in Nat /\ volume \in Nat
        BY <1>b
      <4>2. CASE m = n
        BY <1>b, <2>1, <4>1, <4>2 DEF Lives, Alive, Knows, Alters, NoHelper
      <4>3. CASE m # n
        BY <1>b, <2>1, <4>1, <4>3 DEF Lives, Alive, Knows, Alters, NoHelper
      <4> QED
        BY <4>2, <4>3
    <3> QED
      BY <1>0, <1>b, <2>1, <3>1 DEF OneLives
  <2>4. ClientKnown'
    <3>1. ASSUME NEW m \in Helpers PROVE Knows(m)'
      <4>1. Knows(m) /\ Knows(m) /\ Lives(m)
        BY <1>0 DEF ClientKnown, AnswerStands, OneLives
      <4>0. m \in Nat /\ n \in Nat /\ volume \in Nat
        BY <1>b
      <4>2. CASE m = n
        BY <2>1, <4>1, <4>2 DEF Knows, Alters
      <4>3. CASE m # n
        BY <4>0, <2>1, <4>1, <4>3 DEF Knows, Alters
      <4> QED
        BY <4>2, <4>3
    <3> QED
      BY <3>1 DEF ClientKnown
  <2>5. InputTold'
    BY <1>0, <1>b, <2>1 DEF InputTold, OneLives, Alters
  <2>6. AnswerStands'
    <3>1. ASSUME NEW m \in Helpers PROVE Stands(m)'
      <4>1. Stands(m) /\ Knows(m) /\ Lives(m)
        BY <1>0 DEF ClientKnown, AnswerStands, OneLives
      <4>0. m \in Nat /\ n \in Nat /\ volume \in Nat
        BY <1>b
      <4>2. CASE m = n
        BY <2>1, <4>1, <4>2 DEF Stands, Knows, Alive, Alters
      <4>3. CASE m # n
        BY <4>0, <2>1, <4>1, <4>3 DEF Stands, Knows, Alive, Alters
      <4> QED
        BY <4>2, <4>3
    <3> QED
      BY <3>1 DEF AnswerStands
  <2> QED
    BY <2>2, <2>3, <2>4, <2>5, <2>6 DEF HlInv
<1>17. ASSUME NEW n \in Helpers, BoxExits(n) PROVE HlInv'
  <2>1. /\ UNCHANGED <<volume, cli, wipe>>
        /\ helper[n].box \in {"fed", "wrote"}
        /\ Alters(n, "ended", IF helper[n].client # "running" THEN helper[n].client
                                  ELSE IF helper[n].box = "wrote" THEN "ok" ELSE "failed",
                   helper[n].input, helper[n].answer)
    BY <1>0, <1>17, HelperMoves DEF BoxExits
  <2>2. HelperTypeOK' /\ WipeKnown'
    BY <1>0, <1>1, <2>1 DEF HelperTypeOK, WipeKnown, Alters
  <2>3. OneLives'
    <3>1. ASSUME NEW m \in Helpers PROVE Lives(m)'
      <4>1. Lives(m) /\ Knows(m)
        BY <1>0 DEF ClientKnown, OneLives
      <4>2. CASE m = n
        BY <1>b, <2>1, <4>1, <4>2 DEF Lives, Alive, Knows, Alters, NoHelper
      <4>3. CASE m # n
        BY <1>b, <2>1, <4>1, <4>3 DEF Lives, Alive, Knows, Alters, NoHelper
      <4> QED
        BY <4>2, <4>3
    <3> QED
      BY <1>0, <1>b, <2>1, <3>1 DEF OneLives
  <2>4. ClientKnown'
    <3>1. ASSUME NEW m \in Helpers PROVE Knows(m)'
      <4>1. Knows(m) /\ Knows(m) /\ Lives(m)
        BY <1>0 DEF ClientKnown, AnswerStands, OneLives
      <4>2. CASE m = n
        BY <1>0, <1>b, <2>1, <4>1, <4>2
           DEF Knows, Alters, Lives, OneLives, InputTold, NoHelper
      <4>3. CASE m # n
        BY <1>0, <1>b, <2>1, <4>1, <4>3
           DEF Knows, Alters, Lives, OneLives, InputTold, NoHelper
      <4> QED
        BY <4>2, <4>3
    <3> QED
      BY <3>1 DEF ClientKnown
  <2>5. InputTold'
    BY <1>0, <1>b, <2>1 DEF InputTold, OneLives, Alters
  <2>6. AnswerStands'
    <3>1. ASSUME NEW m \in Helpers PROVE Stands(m)'
      <4>1. Stands(m) /\ Knows(m) /\ Lives(m)
        BY <1>0 DEF ClientKnown, AnswerStands, OneLives
      <4>2. CASE m = n
        BY <1>0, <1>b, <2>1, <4>1, <4>2
           DEF Stands, Knows, Alive, Alters, Lives, OneLives, InputTold, NoHelper
      <4>3. CASE m # n
        BY <1>0, <1>b, <2>1, <4>1, <4>3
           DEF Stands, Knows, Alive, Alters, Lives, OneLives, InputTold, NoHelper
      <4> QED
        BY <4>2, <4>3
    <3> QED
      BY <3>1 DEF AnswerStands
  <2> QED
    BY <2>2, <2>3, <2>4, <2>5, <2>6 DEF HlInv
<1>18. ASSUME NEW n \in Helpers, ClientFails(n) PROVE HlInv'
  <2>1. /\ UNCHANGED <<volume, cli, wipe>>
        /\ helper[n].client = "running"
        /\ Alters(n, helper[n].box, "failed", helper[n].input, helper[n].answer)
    BY <1>0, <1>18, HelperMoves DEF ClientFails
  <2>2. HelperTypeOK' /\ WipeKnown'
    BY <1>0, <1>1, <2>1 DEF HelperTypeOK, WipeKnown, Alters
  <2>3. OneLives'
    <3>1. ASSUME NEW m \in Helpers PROVE Lives(m)'
      <4>1. Lives(m) /\ Knows(m)
        BY <1>0 DEF ClientKnown, OneLives
      <4>2. CASE m = n
        BY <1>b, <2>1, <4>1, <4>2 DEF Lives, Alive, Knows, Alters, NoHelper
      <4>3. CASE m # n
        BY <1>b, <2>1, <4>1, <4>3 DEF Lives, Alive, Knows, Alters, NoHelper
      <4> QED
        BY <4>2, <4>3
    <3> QED
      BY <1>0, <1>b, <2>1, <3>1 DEF OneLives
  <2>4. ClientKnown'
    <3>1. ASSUME NEW m \in Helpers PROVE Knows(m)'
      <4>1. Knows(m) /\ Knows(m) /\ Lives(m)
        BY <1>0 DEF ClientKnown, AnswerStands, OneLives
      <4>2. CASE m = n
        BY <1>0, <1>b, <2>1, <4>1, <4>2
           DEF Knows, Alters, Lives, OneLives, InputTold, NoHelper
      <4>3. CASE m # n
        BY <1>0, <1>b, <2>1, <4>1, <4>3
           DEF Knows, Alters, Lives, OneLives, InputTold, NoHelper
      <4> QED
        BY <4>2, <4>3
    <3> QED
      BY <3>1 DEF ClientKnown
  <2>5. InputTold'
    BY <1>0, <1>b, <2>1 DEF InputTold, OneLives, Alters
  <2>6. AnswerStands'
    <3>1. ASSUME NEW m \in Helpers PROVE Stands(m)'
      <4>1. Stands(m) /\ Knows(m) /\ Lives(m)
        BY <1>0 DEF ClientKnown, AnswerStands, OneLives
      <4>2. CASE m = n
        BY <1>0, <1>b, <2>1, <4>1, <4>2
           DEF Stands, Knows, Alive, Alters, Lives, OneLives, InputTold, NoHelper
      <4>3. CASE m # n
        BY <1>0, <1>b, <2>1, <4>1, <4>3
           DEF Stands, Knows, Alive, Alters, Lives, OneLives, InputTold, NoHelper
      <4> QED
        BY <4>2, <4>3
    <3> QED
      BY <3>1 DEF AnswerStands
  <2> QED
    BY <2>2, <2>3, <2>4, <2>5, <2>6 DEF HlInv
<1>19. ASSUME NEW n \in Helpers, FeedBox(n) PROVE HlInv'
  <2>1. /\ UNCHANGED <<volume, cli, wipe>>
        /\ helper[n].box = "waiting"
        /\ \/ /\ helper[n].client = "running" /\ helper[n].input = "document"
              /\ Alters(n, "fed", helper[n].client, helper[n].input, helper[n].answer)
           \/ Alters(n, "ended", IF helper[n].client = "running" THEN "failed"
                                 ELSE helper[n].client,
                     helper[n].input, helper[n].answer)
    BY <1>0, <1>19, HelperMoves DEF FeedBox
  <2>2. HelperTypeOK' /\ WipeKnown'
    BY <1>0, <1>1, <2>1 DEF HelperTypeOK, WipeKnown, Alters
  <2>3. OneLives'
    <3>1. ASSUME NEW m \in Helpers PROVE Lives(m)'
      <4>1. Lives(m) /\ Knows(m)
        BY <1>0 DEF ClientKnown, OneLives
      <4>2. CASE m = n
        BY <1>b, <2>1, <4>1, <4>2 DEF Lives, Alive, Knows, Alters, NoHelper
      <4>3. CASE m # n
        BY <1>b, <2>1, <4>1, <4>3 DEF Lives, Alive, Knows, Alters, NoHelper
      <4> QED
        BY <4>2, <4>3
    <3> QED
      BY <1>0, <1>b, <2>1, <3>1 DEF OneLives
  <2>4. ClientKnown'
    <3>1. ASSUME NEW m \in Helpers PROVE Knows(m)'
      <4>1. Knows(m) /\ Knows(m) /\ Lives(m)
        BY <1>0 DEF ClientKnown, AnswerStands, OneLives
      <4>2. CASE m = n
        BY <1>0, <1>b, <2>1, <4>1, <4>2
           DEF Knows, Alters, Lives, OneLives, InputTold, NoHelper
      <4>3. CASE m # n
        BY <1>0, <1>b, <2>1, <4>1, <4>3
           DEF Knows, Alters, Lives, OneLives, InputTold, NoHelper
      <4> QED
        BY <4>2, <4>3
    <3> QED
      BY <3>1 DEF ClientKnown
  <2>5. InputTold'
    BY <1>0, <1>b, <2>1 DEF InputTold, OneLives, Alters
  <2>6. AnswerStands'
    <3>1. ASSUME NEW m \in Helpers PROVE Stands(m)'
      <4>1. Stands(m) /\ Knows(m) /\ Lives(m)
        BY <1>0 DEF ClientKnown, AnswerStands, OneLives
      <4>2. CASE m = n
        BY <1>0, <1>b, <2>1, <4>1, <4>2
           DEF Stands, Knows, Alive, Alters, Lives, OneLives, InputTold, NoHelper
      <4>3. CASE m # n
        BY <1>0, <1>b, <2>1, <4>1, <4>3
           DEF Stands, Knows, Alive, Alters, Lives, OneLives, InputTold, NoHelper
      <4> QED
        BY <4>2, <4>3
    <3> QED
      BY <3>1 DEF AnswerStands
  <2> QED
    BY <2>2, <2>3, <2>4, <2>5, <2>6 DEF HlInv
<1>20. CASE ClearVolumes
  <2>1. wipe' \in Wipe /\ UNCHANGED <<helper, volume, cli>>
    BY <1>0, <1>20 DEF HelperTypeOK, ClearVolumes, WipeTo, WipeReply, Wipe
  <2>2. WipeKnown'
    BY <1>0, <1>20 DEF HelperTypeOK, ClearVolumes, WipeTo, WipeReply, Wipe, WipeKnown
  <2> QED
    BY <1>0, <2>1, <2>2
       DEF HlInv, HelperTypeOK, OneLives, Lives, ClientKnown, Knows, InputTold,
           AnswerStands, Stands,
           Alive
<1>21. CASE InspectName
  <2>1. wipe' \in Wipe /\ UNCHANGED <<helper, volume, cli>>
    BY <1>0, <1>21 DEF HelperTypeOK, InspectName, WipeTo, WipeReply, Wipe
  <2>2. WipeKnown'
    BY <1>0, <1>21 DEF HelperTypeOK, InspectName, WipeTo, WipeReply, Wipe, WipeKnown
  <2> QED
    BY <1>0, <2>1, <2>2
       DEF HlInv, HelperTypeOK, OneLives, Lives, ClientKnown, Knows, InputTold,
           AnswerStands, Stands,
           Alive
<1>22. CASE ClearLeftover
  <2>1. wipe' \in Wipe /\ UNCHANGED <<helper, volume, cli>>
    BY <1>0, <1>22 DEF HelperTypeOK, ClearLeftover, WipeTo, WipeReply, Wipe
  <2>2. WipeKnown'
    BY <1>0, <1>22 DEF HelperTypeOK, ClearLeftover, WipeTo, WipeReply, Wipe, WipeKnown
  <2> QED
    BY <1>0, <2>1, <2>2
       DEF HlInv, HelperTypeOK, OneLives, Lives, ClientKnown, Knows, InputTold,
           AnswerStands, Stands,
           Alive
<1>23. CASE RunWipe
  <2>1. wipe' \in Wipe /\ UNCHANGED <<helper, volume, cli>>
    BY <1>0, <1>23 DEF HelperTypeOK, RunWipe, WipeTo, WipeReply, Wipe
  <2>2. WipeKnown'
    BY <1>0, <1>23 DEF HelperTypeOK, RunWipe, WipeTo, WipeReply, Wipe, WipeKnown
  <2> QED
    BY <1>0, <2>1, <2>2
       DEF HlInv, HelperTypeOK, OneLives, Lives, ClientKnown, Knows, InputTold,
           AnswerStands, Stands,
           Alive
<1>24. CASE WipeDone
  <2>1. wipe' \in Wipe /\ UNCHANGED <<helper, volume, cli>>
    BY <1>0, <1>24 DEF HelperTypeOK, WipeDone, WipeTo, WipeReply, Wipe
  <2>2. WipeKnown'
    BY <1>0, <1>24 DEF HelperTypeOK, WipeDone, WipeTo, WipeReply, Wipe, WipeKnown
  <2> QED
    BY <1>0, <2>1, <2>2
       DEF HlInv, HelperTypeOK, OneLives, Lives, ClientKnown, Knows, InputTold,
           AnswerStands, Stands,
           Alive
<1>25. CASE WipeClientEnds
  <2>1. wipe' \in Wipe /\ UNCHANGED <<helper, volume, cli>>
    BY <1>0, <1>25 DEF HelperTypeOK, WipeClientEnds, WipeTo, WipeReply, Wipe
  <2>2. WipeKnown'
    BY <1>0, <1>25 DEF HelperTypeOK, WipeClientEnds, WipeTo, WipeReply, Wipe, WipeKnown
  <2> QED
    BY <1>0, <2>1, <2>2
       DEF HlInv, HelperTypeOK, OneLives, Lives, ClientKnown, Knows, InputTold,
           AnswerStands, Stands,
           Alive
<1>26. CASE RemoveWipe
  <2>1. wipe' \in Wipe /\ UNCHANGED <<helper, volume, cli>>
    BY <1>0, <1>26 DEF HelperTypeOK, RemoveWipe, WipeTo, WipeReply, Wipe
  <2>2. WipeKnown'
    BY <1>0, <1>26 DEF HelperTypeOK, RemoveWipe, WipeTo, WipeReply, Wipe, WipeKnown
  <2> QED
    BY <1>0, <2>1, <2>2
       DEF HlInv, HelperTypeOK, OneLives, Lives, ClientKnown, Knows, InputTold,
           AnswerStands, Stands,
           Alive
<1>27. CASE ProveWiped
  <2>1. wipe' \in Wipe /\ UNCHANGED <<helper, volume, cli>>
    BY <1>0, <1>27 DEF HelperTypeOK, ProveWiped, WipeTo, WipeReply, Wipe
  <2>2. WipeKnown'
    BY <1>0, <1>27 DEF HelperTypeOK, ProveWiped, WipeTo, WipeReply, Wipe, WipeKnown
  <2> QED
    BY <1>0, <2>1, <2>2
       DEF HlInv, HelperTypeOK, OneLives, Lives, ClientKnown, Knows, InputTold,
           AnswerStands, Stands,
           Alive
<1>28. CASE WipeKilled
  <2>1. wipe' \in Wipe /\ UNCHANGED <<helper, volume, cli>>
    BY <1>0, <1>28 DEF HelperTypeOK, WipeKilled, WipeTo, WipeReply, Wipe
  <2>2. WipeKnown'
    BY <1>0, <1>28 DEF HelperTypeOK, WipeKilled, WipeTo, WipeReply, Wipe, WipeKnown
  <2> QED
    BY <1>0, <2>1, <2>2
       DEF HlInv, HelperTypeOK, OneLives, Lives, ClientKnown, Knows, InputTold,
           AnswerStands, Stands,
           Alive
<1> QED
  BY <1>2, <1>3, <1>4, <1>5, <1>6, <1>7, <1>8, <1>9, <1>10, <1>11, <1>12, <1>13, <1>14,
     <1>15, <1>16, <1>17, <1>18, <1>19, <1>20, <1>21, <1>22, <1>23, <1>24, <1>25, <1>26,
     <1>27, <1>28
     DEF HelperNext, CliStep

LEMMA HelpersStart == HelperInit => HlInv
<1> SUFFICES ASSUME HelperInit PROVE HlInv
  OBVIOUS
<1>1. /\ \A n \in Helpers : helper[n] = NoHelper
      /\ helper \in [Helpers -> Helper]
      /\ volume = 0 /\ cli = AtRest(0) /\ 0 \in 0 .. MaxHelpers
  BY HelperAssumption DEF HelperInit, NoHelper, Helper
<1>2. cli \in Cli /\ cli.pc = "idle" /\ cli.at = 0
  BY <1>1, HelperAssumption DEF AtRest, Cli
<1>3. wipe \in Wipe /\ ~wipe.busy /\ wipe.answer = "none"
  <2>1. PICK b \in {"none", "foreign"} :
          wipe = [pc |-> "idle", box |-> b, busy |-> FALSE, answer |-> "none"]
    BY DEF HelperInit
  <2> QED
    BY <2>1 DEF Wipe
<1>4. HelperTypeOK
  BY <1>1, <1>2, <1>3 DEF HelperTypeOK
<1>5. \A n \in Helpers : Lives(n) /\ Knows(n) /\ Stands(n)
  BY <1>1 DEF Lives, Knows, Stands, Alive, NoHelper
<1>6. OneLives
  BY <1>1, <1>2, <1>5 DEF OneLives
<1>7. InputTold /\ WipeKnown
  BY <1>2, <1>3 DEF InputTold, WipeKnown
<1> QED
  BY <1>4, <1>5, <1>6, <1>7 DEF HlInv, ClientKnown, AnswerStands

LEMMA HelpersAlways == HelperSpec => []HlInv
<1>1. ASSUME HlInv, UNCHANGED helperVars PROVE HlInv'
  <2>1. helper' = helper /\ cli' = cli /\ volume' = volume /\ wipe' = wipe /\ spent' = spent
    BY <1>1 DEF helperVars
  <2>2. HelperTypeOK'
    BY <1>1, <2>1 DEF HlInv, HelperTypeOK
  <2>3. OneLives' /\ ClientKnown'
    BY <1>1, <2>1 DEF HlInv, OneLives, Lives, Alive, ClientKnown, Knows
  <2>4. InputTold' /\ AnswerStands' /\ WipeKnown'
    BY <1>1, <2>1 DEF HlInv, InputTold, AnswerStands, Stands, Alive, WipeKnown
  <2> QED
    BY <2>2, <2>3, <2>4 DEF HlInv
<1> QED
  BY <1>1, HelpersStart, HelperKept, PTL DEF HelperSpec

(* For any number of helpers, failures and kills: no older document         *)
(* replaces a newer one in Admin's volume, a projected document was         *)
(* written, one not projected never will be, and a deletion that is         *)
(* answered deletes nothing any more.                                      *)
THEOREM HelpersAnswerFinally == HelperSpec => AnswersAreFinal
<1>1. ASSUME HlInv, [HelperNext]_helperVars
      PROVE  /\ volume' >= volume
             /\ \A n \in Helpers :
                  helper[n].answer \in {"projected", "refused", "unused"} /\ volume # n
                    => volume' # n
  <2>0. /\ HelperTypeOK /\ OneLives /\ ClientKnown /\ AnswerStands
        /\ \A n \in Helpers : n \in Nat
        /\ volume \in Nat
    BY <1>1, HelperAssumption DEF HlInv, HelperTypeOK, Helpers
  <2>1. CASE volume' = volume
    <3>1. volume' = volume /\ volume \in Nat
      BY <2>0, <2>1
    <3> QED
      BY <3>1
  <2>2. ASSUME NEW n \in Helpers, WriteDocument(n)
        PROVE  /\ volume' >= volume
               /\ \A m \in Helpers :
                    helper[m].answer \in {"projected", "refused", "unused"} /\ volume # m
                      => volume' # m
    <3>1. helper[n].box = "fed" /\ volume' = n
      BY <2>2 DEF WriteDocument
    <3>2. n = cli.at /\ volume <= n
      BY <2>0, <3>1 DEF OneLives, Lives, Alive
    <3>3. helper[n].answer \notin {"projected", "refused", "unused"}
      BY <2>0, <3>1 DEF ClientKnown, Knows, AnswerStands, Stands, Alive
    <3> QED
      BY <2>0, <3>1, <3>2, <3>3
  <2>3. CASE CliStep \/ BeginHelper \/ LookFails \/ CliKilled
    <3>1. volume' = volume
      BY <2>3 DEF CliStep, ListHelpers, SweepHelpers, ProveSwept, StartHelper, Send, Reaped,
           PastDeadline, RemoveHelper, ProveGone, BeginHelper, LookFails, CliKilled
    <3> QED
      BY <2>1, <3>1
  <2>4. ASSUME NEW n \in Helpers, CreateBox(n) \/ FeedBox(n) \/ BoxExits(n) \/ ClientFails(n)
        PROVE  volume' = volume
    BY <2>4 DEF CreateBox, FeedBox, BoxExits, ClientFails
  <2>5. CASE \/ ClearVolumes \/ InspectName \/ ClearLeftover \/ RunWipe \/ WipeDone
             \/ WipeClientEnds \/ RemoveWipe \/ ProveWiped \/ WipeKilled
    <3>1. volume' = volume
      BY <2>5 DEF ClearVolumes, InspectName, ClearLeftover, RunWipe, WipeDone,
           WipeClientEnds, RemoveWipe, ProveWiped, WipeKilled
    <3> QED
      BY <2>1, <3>1
  <2>6. CASE UNCHANGED helperVars
    BY <2>1, <2>6 DEF helperVars
  <2> QED
    BY <1>1, <2>1, <2>2, <2>3, <2>4, <2>5, <2>6 DEF HelperNext
<1>2. ASSUME HlInv, [HelperNext]_helperVars PROVE volume' >= volume
  BY <1>1, <1>2
<1>3. ASSUME HlInv, [HelperNext]_helperVars
      PROVE  \A n \in Helpers :
               helper[n].answer \in {"projected", "refused", "unused"} /\ volume # n
                 => volume' # n
  BY <1>1, <1>3
<1>4. HlInv => \A n \in Helpers : helper[n].answer = "projected" => volume >= n
  BY DEF HlInv, AnswerStands, Stands
<1>5. HlInv => (wipe.answer \in {"cleared", "refused"} => ~wipe.busy)
  BY DEF HlInv, WipeKnown
<1>6. HelperSpec => [][volume' >= volume]_helperVars
  BY <1>2, HelpersAlways, PTL DEF HelperSpec
<1>7. HelperSpec => [][\A n \in Helpers :
          helper[n].answer \in {"projected", "refused", "unused"}
          /\ volume # n => volume' # n]_helperVars
  BY <1>3, HelpersAlways, PTL DEF HelperSpec
<1>8. HelperSpec => [](\A n \in Helpers : helper[n].answer = "projected" => volume >= n)
  BY <1>4, HelpersAlways, PTL
<1>9. HelperSpec => [](wipe.answer \in {"cleared", "refused"} => ~wipe.busy)
  BY <1>5, HelpersAlways, PTL
<1> QED
  BY <1>6, <1>7, <1>8, <1>9 DEF AnswersAreFinal

-----------------------------------------------------------------------------
(* ReleaseResolution. *)

ImageStores ==
  [ held : SUBSET Sets, stable : Published \cup {NoSet}, members : SUBSET Sets,
    copy : Sets \cup {NoSet, "torn"}, cli : Sets \cup {NoSet, "torn", "link"},
    box : BOOLEAN, mac : BOOLEAN, pulls : 0 .. MaxPulls ]

Picks ==
  [ pc : {"idle", "select", "pull", "digest", "create", "copy", "remove",
          "read", "labels", "decide", "cli", "members"},
    command : {"none", "install", "start", "update"},
    exact : Sets \cup {NoSet}, installed : Sets \cup {NoSet},
    reference : Sets \cup {NoSet}, what : {"metadata", "cli"}, copied : BOOLEAN,
    removed : BOOLEAN, tried : BOOLEAN, kept : BOOLEAN, document : Document,
    epoch : Nat, resumed : BOOLEAN, failed : Sets \cup {NoSet}, now : Nat,
    end : {"none", "failed", "refused", "expired", "kept", "handed", "applies"} ]

(* Which set a command may resolve, and what it remembers before it has     *)
(* decided.                                                                *)
Named ==
  /\ pick.pc # "idle" => pick.end = "none"
  /\ pick.pc \in {"create", "copy", "remove", "read", "labels", "decide", "cli", "members"}
       => pick.reference # NoSet
  /\ pick.pc \notin {"idle", "select"} =>
       /\ pick.reference \in Developer => pick.reference \in {pick.exact, pick.installed}
       /\ pick.resumed => pick.reference = pick.installed
  /\ pick.command = "start" => pick.installed # NoSet
  /\ pick.resumed => pick.command = "start" /\ pick.pc # "digest"
  /\ pick.what = "cli" => pick.pc \in {"create", "copy", "remove", "cli", "idle"}
  /\ pick.pc = "cli" => pick.what = "cli"
  /\ pick.what = "metadata" /\ pick.pc # "members" /\ pick.pc # "idle" =>
       pick.failed = NoSet \/ pick.resumed

(* What was copied is of the resolved set, and so is what was read of it.   *)
Faithful ==
  /\ pick.what = "metadata" /\ pick.copied /\ pick.pc \in {"remove", "read"} =>
       images.copy = pick.reference
  /\ pick.what = "cli" /\ pick.copied /\ pick.pc \in {"remove", "cli"} =>
       images.cli \in {pick.reference, "link"}
  /\ pick.pc \in {"labels", "decide"} => pick.document = Carries[pick.reference].document
  /\ pick.pc = "decide" =>
       pick.epoch = Carries[pick.reference].epoch /\ Sound(pick.reference)

(* What holds of the set once the command has decided for it.              *)
Decided == pick.pc = "members" \/ pick.what = "cli" \/ Goes

Chosen(s) ==
  /\ pick.document = Carries[s].document /\ pick.epoch = Carries[s].epoch
  /\ Sound(s)
  /\ s \in Developer => s \in {pick.exact, pick.installed}
  /\ s \in Published /\ pick.installed \in Published /\ s # pick.installed
       => Ordinal(s) > Ordinal(pick.installed)
  /\ s \in Published /\ s # pick.installed => Current(Carries[s].document, pick.now)
  /\ pick.exact = NoSet /\ s # pick.installed => s # pick.failed

DecidedWell == Decided => Chosen(pick.reference) /\ pick.reference \in Sets

(* What is left of the copies and their container at each step.            *)
TidiedUp ==
  /\ pick.what = "cli" \/ pick.pc \in {"remove", "read", "labels", "decide"} => pick.tried
  /\ pick.pc # "idle" => ~pick.kept
  /\ pick.tried /\ ~pick.kept =>
       images.copy = NoSet \/ (pick.what = "metadata" /\ pick.pc \in {"remove", "read"})
  /\ images.box =>
       \/ pick.pc \in {"copy", "remove"}
       \/ (pick.pc \in {"read", "cli"} \/ pick.end = "failed") /\ ~pick.removed
  /\ images.cli = "link" =>
       \/ pick.what = "cli" /\ pick.pc \in {"remove", "cli"}
       \/ pick.end = "failed"

RlInv ==
  /\ images \in ImageStores /\ pick \in Picks
  /\ Named /\ Faithful /\ DecidedWell /\ TidiedUp
  /\ pick.end = "handed" => images.cli = pick.reference
  /\ pick.end = "expired" => pick.reference # pick.installed \/ pick.command = "update"

(* What the steps of a command leave as it is.                             *)
SameAsked ==
  /\ pick'.command = pick.command /\ pick'.exact = pick.exact
  /\ pick'.installed = pick.installed /\ pick'.resumed = pick.resumed

SameRead ==
  /\ pick'.reference = pick.reference /\ pick'.document = pick.document
  /\ pick'.epoch = pick.epoch /\ pick'.failed = pick.failed /\ pick'.now = pick.now

SameCopies ==
  /\ pick'.what = pick.what /\ pick'.copied = pick.copied /\ pick'.removed = pick.removed
  /\ pick'.tried = pick.tried /\ pick'.kept = pick.kept

PickSteps ==
  {"select", "pull", "digest", "create", "copy", "remove", "read", "labels", "decide",
   "cli", "members"}

Endings == {"failed", "refused", "expired", "kept", "handed", "applies"}

AsBefore(r) ==
  /\ r.command = pick.command /\ r.exact = pick.exact
  /\ r.installed = pick.installed /\ r.resumed = pick.resumed
  /\ r.reference = pick.reference /\ r.document = pick.document
  /\ r.epoch = pick.epoch /\ r.failed = pick.failed
  /\ r.copied = pick.copied /\ r.removed = pick.removed
  /\ r.tried = pick.tried /\ r.kept = pick.kept

LEMMA PickMoves ==
  ASSUME pick \in Picks
  PROVE  /\ \A pc \in PickSteps :
              PickTo(pc) => /\ pick' \in Picks /\ pick'.pc = pc /\ pick'.end = pick.end
                            /\ SameAsked /\ SameRead /\ SameCopies
         /\ \A end \in Endings :
              PickEnds(end) => /\ pick' \in Picks /\ pick'.pc = "idle" /\ pick'.end = end
                               /\ SameAsked /\ SameRead /\ SameCopies
<1>1. ASSUME NEW pc \in PickSteps, PickTo(pc)
      PROVE  /\ pick' \in Picks /\ pick'.pc = pc /\ pick'.end = pick.end
             /\ SameAsked /\ SameRead /\ SameCopies
  BY <1>1 DEF PickTo, Picks, PickSteps, SameAsked, SameRead, SameCopies
<1>2. ASSUME NEW end \in Endings, PickEnds(end)
      PROVE  /\ pick' \in Picks /\ pick'.pc = "idle" /\ pick'.end = end
             /\ SameAsked /\ SameRead /\ SameCopies
  <2>1. PICK q : q = [pick EXCEPT !.pc = "idle"]
    OBVIOUS
  <2>2. pick' = [q EXCEPT !.end = end]
    BY <1>2, <2>1 DEF PickEnds
  <2>3. /\ q \in Picks /\ q.pc = "idle" /\ AsBefore(q) /\ q.now = pick.now
        /\ q.what = pick.what
    BY <2>1 DEF Picks, AsBefore
  <2> QED
    BY <1>2, <2>2, <2>3 DEF Picks, Endings, AsBefore, SameAsked, SameRead, SameCopies
<1> QED
  BY <1>1, <1>2

LEMMA CarriedTyped ==
  ASSUME NEW s \in Sets
  PROVE  Carries[s].document \in Document /\ Carries[s].epoch \in Nat
  BY ReleaseAssumption

LEMMA LocateMoves ==
  ASSUME pick \in Picks, Locate
  PROVE  /\ pick' \in Picks /\ SameAsked /\ images' = images
         /\ \/ pick'.pc = "idle" /\ pick'.end = "refused" /\ SameRead /\ SameCopies
            \/ /\ pick'.pc = IF Selector \in images.held THEN "create" ELSE "pull"
               /\ Selector \in Developer => Selector \in images.held
               /\ pick'.end = pick.end /\ pick'.reference = Selector /\ pick'.what = "metadata"
               /\ pick'.document = pick.document /\ pick'.epoch = pick.epoch
               /\ pick'.failed = pick.failed /\ pick'.now = pick.now
               /\ pick'.copied = pick.copied /\ pick'.removed = pick.removed
               /\ pick'.tried = pick.tried /\ pick'.kept = pick.kept
<1>1. CASE PickEnds("refused") /\ UNCHANGED images
  BY <1>1, PickMoves DEF Endings
<1>2. CASE /\ Selector \in Developer => Selector \in images.held
           /\ pick' = [pick EXCEPT !.pc = IF Selector \in images.held THEN "create" ELSE "pull",
                                   !.reference = Selector, !.what = "metadata"]
           /\ UNCHANGED images
  <2> DEFINE s == Selector
             p == IF Selector \in images.held THEN "create" ELSE "pull"
  <2>0. PICK part : part = [pick EXCEPT !.reference = s, !.what = "metadata"]
    OBVIOUS
  <2>1. pick' = [part EXCEPT !.pc = p]
    BY <1>2, <2>0
  <2>2. s \in Sets \cup {NoSet} /\ p \in PickSteps
    BY DEF Selector, Picks, PickSteps
  <2> HIDE DEF s, p
  <2>3. /\ part \in Picks /\ part.pc = pick.pc
        /\ part.command = pick.command /\ part.exact = pick.exact
        /\ part.installed = pick.installed /\ part.resumed = pick.resumed
        /\ part.end = pick.end /\ part.reference = s /\ part.what = "metadata"
        /\ part.document = pick.document /\ part.epoch = pick.epoch
        /\ part.failed = pick.failed /\ part.now = pick.now
        /\ part.copied = pick.copied /\ part.removed = pick.removed
        /\ part.tried = pick.tried /\ part.kept = pick.kept
    BY <2>0, <2>2 DEF Picks
  <2>4. /\ pick' \in Picks /\ pick'.pc = p /\ SameAsked
        /\ pick'.end = pick.end /\ pick'.reference = s /\ pick'.what = "metadata"
        /\ pick'.document = pick.document /\ pick'.epoch = pick.epoch
        /\ pick'.failed = pick.failed /\ pick'.now = pick.now
        /\ pick'.copied = pick.copied /\ pick'.removed = pick.removed
        /\ pick'.tried = pick.tried /\ pick'.kept = pick.kept
    BY <2>1, <2>2, <2>3 DEF Picks, PickSteps, SameAsked
  <2> QED
    BY <1>2, <2>4 DEF s, p
<1> QED
  BY <1>1, <1>2 DEF Locate

LEMMA DigestMoves ==
  ASSUME pick \in Picks, images \in ImageStores, UniqueRepoDigest
  PROVE  /\ pick' \in Picks /\ pick'.pc = "create" /\ pick'.end = pick.end
         /\ SameAsked /\ SameCopies /\ images' = images
         /\ pick'.reference = images.stable /\ images.stable \in Published
         /\ pick'.document = pick.document /\ pick'.epoch = pick.epoch
         /\ pick'.failed = pick.failed /\ pick'.now = pick.now
<1>1. images.stable \in Published
  BY ReleaseAssumption DEF UniqueRepoDigest, ImageStores
<1>2. images.stable \in Sets
  BY <1>1 DEF Published
<1> QED
  BY <1>1, <1>2 DEF UniqueRepoDigest, Picks, SameAsked, SameCopies

LEMMA CopyMoves ==
  ASSUME pick \in Picks, CopyMember
  PROVE  /\ pick' \in Picks /\ pick'.pc = "remove" /\ pick'.end = pick.end
         /\ SameAsked /\ SameRead
         /\ pick'.what = pick.what /\ pick'.removed = pick.removed
         /\ pick'.tried = TRUE /\ pick'.kept = pick.kept
         /\ images' \in IF pick'.copied THEN Copied ELSE CopyBreaks
<1>1. PICK copied \in BOOLEAN :
        /\ images' \in IF copied THEN Copied ELSE CopyBreaks
        /\ pick' = [pick EXCEPT !.pc = "remove", !.copied = copied, !.tried = TRUE]
  BY DEF CopyMember
<1> DEFINE part == [pick EXCEPT !.copied = copied, !.tried = TRUE]
<1>2. pick' = [part EXCEPT !.pc = "remove"]
  BY <1>1
<1>3. /\ part \in Picks /\ part.end = pick.end /\ part.pc = pick.pc
      /\ part.command = pick.command /\ part.exact = pick.exact
      /\ part.installed = pick.installed /\ part.resumed = pick.resumed
      /\ part.reference = pick.reference /\ part.document = pick.document
      /\ part.epoch = pick.epoch /\ part.failed = pick.failed /\ part.now = pick.now
      /\ part.what = pick.what /\ part.copied = copied /\ part.removed = pick.removed
      /\ part.tried = TRUE /\ part.kept = pick.kept
  BY DEF Picks
<1> HIDE DEF part
<1>4. /\ pick' \in Picks /\ pick'.pc = "remove" /\ pick'.end = pick.end
      /\ SameAsked /\ SameRead
      /\ pick'.what = pick.what /\ pick'.removed = pick.removed /\ pick'.copied = copied
      /\ pick'.tried = TRUE /\ pick'.kept = pick.kept
  BY <1>2, <1>3 DEF Picks, SameAsked, SameRead
<1> QED
  BY <1>1, <1>4

LEMMA RemoveMoves ==
  ASSUME pick \in Picks, RemoveBox
  PROVE  /\ pick' \in Picks
         /\ pick'.pc = IF pick.what = "metadata" THEN "read" ELSE "cli"
         /\ pick'.end = pick.end /\ SameAsked /\ SameRead
         /\ pick'.what = pick.what /\ pick'.copied = pick.copied
         /\ pick'.tried = pick.tried /\ pick'.kept = pick.kept
         /\ images' = [images EXCEPT !.box = ~pick'.removed]
<1>1. PICK removed \in BOOLEAN :
        /\ images' = [images EXCEPT !.box = ~removed]
        /\ pick' = [pick EXCEPT !.removed = removed,
                     !.pc = IF pick.what = "metadata" THEN "read" ELSE "cli"]
  BY DEF RemoveBox
<1> DEFINE p == IF pick.what = "metadata" THEN "read" ELSE "cli"
<1>2. pick' = [pick EXCEPT !.removed = removed, !.pc = p] /\ p \in PickSteps
  BY <1>1 DEF PickSteps
<1> HIDE DEF p
<1>3. /\ pick' \in Picks /\ pick'.pc = p /\ pick'.end = pick.end /\ SameAsked /\ SameRead
      /\ pick'.what = pick.what /\ pick'.copied = pick.copied /\ pick'.removed = removed
      /\ pick'.tried = pick.tried /\ pick'.kept = pick.kept
  <2>1. pick' = [[pick EXCEPT !.pc = p] EXCEPT !.removed = removed]
    BY <1>2
  <2> DEFINE part == [pick EXCEPT !.pc = p]
  <2>2. /\ part \in Picks /\ part.pc = p /\ part.end = pick.end
        /\ part.command = pick.command /\ part.exact = pick.exact
        /\ part.installed = pick.installed /\ part.resumed = pick.resumed
        /\ part.reference = pick.reference /\ part.document = pick.document
        /\ part.epoch = pick.epoch /\ part.failed = pick.failed /\ part.now = pick.now
        /\ part.what = pick.what /\ part.copied = pick.copied
        /\ part.tried = pick.tried /\ part.kept = pick.kept
    BY <1>2 DEF Picks, PickSteps
  <2>3. pick' = [part EXCEPT !.removed = removed]
    BY <2>1
  <2> HIDE DEF part
  <2> QED
    BY <2>2, <2>3 DEF Picks, SameAsked, SameRead
<1> QED
  BY <1>1, <1>3 DEF p

LEMMA EndedIs ==
  ASSUME pick \in Picks, NEW end \in Endings,
         NEW r, r = [pick EXCEPT !.pc = "idle", !.end = end]
  PROVE  /\ r \in Picks /\ r.pc = "idle" /\ r.end = end /\ r.now = pick.now
         /\ AsBefore(r) /\ r.what = pick.what
<1>1. PICK q : q = [pick EXCEPT !.pc = "idle"]
  OBVIOUS
<1>2. r = [q EXCEPT !.end = end]
  BY <1>1
<1>3. q \in Picks /\ q.pc = "idle" /\ q.now = pick.now /\ AsBefore(q) /\ q.what = pick.what
  BY <1>1 DEF Picks, AsBefore
<1> QED
  BY <1>2, <1>3 DEF Picks, Endings, AsBefore

LEMMA ReadMoves ==
  ASSUME pick \in Picks, ReadMetadata, images.copy \in Sets \/ ~pick.copied
  PROVE  /\ pick' \in Picks /\ SameAsked
         /\ images' = images \/ images' = [images EXCEPT !.copy = NoSet]
         /\ pick'.reference = pick.reference /\ pick'.epoch = pick.epoch
         /\ pick'.failed = pick.failed /\ pick'.now = pick.now
         /\ pick'.what = pick.what /\ pick'.copied = pick.copied
         /\ pick'.removed = pick.removed /\ pick'.tried = pick.tried
         /\ \/ /\ pick'.pc = "labels" /\ pick'.end = pick.end /\ pick'.kept = pick.kept
               /\ pick.copied /\ pick.removed
               /\ pick'.document = Carries[images.copy].document
               /\ images' = [images EXCEPT !.copy = NoSet]
            \/ /\ pick'.pc = "idle" /\ pick'.end = "failed"
               /\ pick'.document = pick.document
               /\ pick'.kept \/ images' = [images EXCEPT !.copy = NoSet]
<1>1. PICK read \in BOOLEAN, cleaned \in BOOLEAN :
        /\ images' = IF cleaned THEN [images EXCEPT !.copy = NoSet] ELSE images
        /\ pick' =
             IF pick.copied /\ pick.removed /\ read /\ cleaned
               THEN [pick EXCEPT !.pc = "labels",
                                 !.document = Carries[images.copy].document]
               ELSE [pick EXCEPT !.pc = "idle", !.end = "failed", !.kept = ~cleaned]
  BY DEF ReadMetadata
<1>2. CASE pick.copied /\ pick.removed /\ read /\ cleaned
  <2> DEFINE d == Carries[images.copy].document
  <2>1. pick' = [pick EXCEPT !.pc = "labels", !.document = d]
    BY <1>1, <1>2
  <2>2. d \in Document
    BY <1>2, CarriedTyped
  <2> HIDE DEF d
  <2>3. /\ pick' \in Picks /\ SameAsked
        /\ pick'.reference = pick.reference /\ pick'.epoch = pick.epoch
        /\ pick'.failed = pick.failed /\ pick'.now = pick.now
        /\ SameCopies
        /\ pick'.pc = "labels" /\ pick'.end = pick.end /\ pick'.document = d
    BY <2>1, <2>2 DEF Picks, SameAsked, SameCopies
  <2> QED
    BY <1>1, <1>2, <2>3 DEF d, SameCopies
<1>3. CASE ~(pick.copied /\ pick.removed /\ read /\ cleaned)
  <2> DEFINE k == ~cleaned
  <2>0. PICK ended : ended = [pick EXCEPT !.pc = "idle", !.end = "failed"]
    OBVIOUS
  <2>1. pick' = [ended EXCEPT !.kept = k] /\ k \in BOOLEAN
    BY <1>1, <1>3, <2>0
  <2> HIDE DEF k
  <2>2. /\ ended \in Picks /\ ended.end = "failed" /\ ended.pc = "idle"
        /\ ended.command = pick.command /\ ended.exact = pick.exact
        /\ ended.installed = pick.installed /\ ended.resumed = pick.resumed
        /\ ended.reference = pick.reference /\ ended.document = pick.document
        /\ ended.epoch = pick.epoch /\ ended.failed = pick.failed
        /\ ended.now = pick.now /\ ended.what = pick.what /\ ended.copied = pick.copied
        /\ ended.removed = pick.removed /\ ended.tried = pick.tried
    BY <2>0, EndedIs DEF Endings, AsBefore
  <2>3. /\ pick' \in Picks /\ SameAsked /\ SameRead
        /\ pick'.what = pick.what /\ pick'.copied = pick.copied
        /\ pick'.removed = pick.removed /\ pick'.tried = pick.tried /\ pick'.kept = k
        /\ pick'.pc = "idle" /\ pick'.end = "failed"
    BY <2>1, <2>2 DEF Picks, SameAsked, SameRead
  <2> QED
    BY <1>1, <2>3 DEF k, SameRead
<1> QED
  BY <1>2, <1>3

LEMMA LabelsMove ==
  ASSUME pick \in Picks, images \in ImageStores, ReadLabels
  PROVE  /\ pick' \in Picks /\ SameAsked /\ SameCopies /\ images' = images
         /\ pick'.reference = pick.reference /\ pick'.document = pick.document
         /\ pick'.failed = pick.failed /\ pick'.now = pick.now
         /\ \/ pick'.pc = "idle" /\ pick'.end = "refused"
            \/ /\ pick'.pc = "decide" /\ pick'.end = pick.end
               /\ pick'.epoch = Carries[pick.reference].epoch
               /\ Parses(pick.reference, pick.document, Carries[pick.reference].epoch,
                         Carries[pick.reference].signature)
<1>1. CASE PickEnds("refused") /\ UNCHANGED images
  BY <1>1, PickMoves DEF Endings, SameRead
<1>2. CASE /\ Parses(pick.reference, pick.document, Carries[pick.reference].epoch,
                     Carries[pick.reference].signature)
           /\ pick' = [pick EXCEPT !.pc = "decide", !.epoch = Carries[pick.reference].epoch]
           /\ pick.reference \in images.held /\ UNCHANGED images
  <2> DEFINE e == Carries[pick.reference].epoch
  <2>1. e \in Nat /\ pick' = [pick EXCEPT !.pc = "decide", !.epoch = e]
    BY <1>2, CarriedTyped DEF ImageStores
  <2> HIDE DEF e
  <2>2. /\ pick' \in Picks /\ SameAsked /\ SameCopies
        /\ pick'.reference = pick.reference /\ pick'.document = pick.document
        /\ pick'.failed = pick.failed /\ pick'.now = pick.now
        /\ pick'.pc = "decide" /\ pick'.end = pick.end /\ pick'.epoch = e
    BY <2>1 DEF Picks, SameAsked, SameCopies
  <2> QED
    BY <1>2, <2>2 DEF e
<1> QED
  BY <1>1, <1>2 DEF ReadLabels

(* What a command makes of a set that it read.                             *)
LEMMA ProceedsIs ==
  ASSUME pick \in Picks, NEW now \in Times, NEW foreign \in BOOLEAN,
         NEW q, q = Proceeds(now, foreign)
  PROVE  /\ q \in Picks /\ AsBefore(q)
         /\ \/ q.pc = "idle" /\ q.end = "refused" /\ q.what = pick.what
            \/ q.pc = "idle" /\ q.end = "expired" /\ q.what = pick.what /\ AsksWindow
            \/ /\ \/ q.pc = "create" /\ q.what = "cli"
                  \/ q.pc = "members" /\ q.what = pick.what
               /\ q.end = pick.end /\ q.now = now
               /\ Forward(pick.reference, pick.document, pick.installed)
               /\ AsksWindow => Current(pick.document, now)
<1>0. now \in Nat
  BY ReleaseAssumption
<1>1. ASSUME ~Forward(pick.reference, pick.document, pick.installed) PROVE
        /\ q \in Picks /\ AsBefore(q)
        /\ q.pc = "idle" /\ q.end = "refused" /\ q.what = pick.what
  <2>1. q = [pick EXCEPT !.pc = "idle", !.end = "refused"]
    BY <1>1 DEF Proceeds
  <2> QED
    BY <2>1, EndedIs DEF Endings
<1>3. ASSUME Forward(pick.reference, pick.document, pick.installed),
             AsksWindow /\ ~Current(pick.document, now) PROVE
        /\ q \in Picks /\ AsBefore(q)
        /\ q.pc = "idle" /\ q.end = "expired" /\ q.what = pick.what
  <2>1. PICK r : r = [pick EXCEPT !.pc = "idle", !.now = now]
    OBVIOUS
  <2>2. q = [r EXCEPT !.end = "expired"]
    BY <1>3, <2>1 DEF Proceeds
  <2>3. /\ r \in Picks /\ r.pc = "idle"
        /\ AsBefore(r) /\ r.what = pick.what
    BY <1>0, <2>1 DEF Picks, AsBefore
  <2> QED
    BY <2>2, <2>3 DEF Picks, AsBefore
<1>4. ASSUME Forward(pick.reference, pick.document, pick.installed),
             ~(AsksWindow /\ ~Current(pick.document, now)),
             foreign /\ MayHandOff PROVE
        /\ q \in Picks /\ AsBefore(q)
        /\ q.pc = "create" /\ q.what = "cli" /\ q.end = pick.end /\ q.now = now
  <2>1. PICK r : r = [pick EXCEPT !.pc = "create", !.now = now]
    OBVIOUS
  <2>2. q = [r EXCEPT !.what = "cli"]
    BY <1>4, <2>1 DEF Proceeds
  <2>3. /\ r \in Picks /\ r.pc = "create" /\ r.end = pick.end /\ r.now = now
        /\ AsBefore(r) /\ r.what = pick.what
    BY <1>0, <2>1 DEF Picks, AsBefore
  <2> QED
    BY <2>2, <2>3 DEF Picks, AsBefore
<1>5. ASSUME Forward(pick.reference, pick.document, pick.installed),
             ~(AsksWindow /\ ~Current(pick.document, now)),
             ~(foreign /\ MayHandOff) PROVE
        /\ q \in Picks /\ AsBefore(q)
        /\ q.pc = "members" /\ q.what = pick.what /\ q.end = pick.end /\ q.now = now
  <2>1. PICK r : r = [pick EXCEPT !.pc = "members"]
    OBVIOUS
  <2>2. q = [r EXCEPT !.now = now]
    BY <1>5, <2>1 DEF Proceeds
  <2>3. /\ r \in Picks /\ r.pc = "members" /\ r.end = pick.end
        /\ AsBefore(r) /\ r.what = pick.what
    BY <2>1 DEF Picks, AsBefore
  <2> QED
    BY <1>0, <2>2, <2>3 DEF Picks, AsBefore
<1> QED
  BY <1>1, <1>3, <1>4, <1>5

Decides == DecideInstall \/ DecideStart \/ DecideUpdate

(* How a decision comes out: the command ends, resolves the installed      *)
(* release instead, or goes on with this one.                              *)
Undecided ==
  /\ pick' \in Picks /\ images' = images
  /\ pick'.command = pick.command /\ pick'.exact = pick.exact
  /\ pick'.installed = pick.installed /\ pick'.reference = pick.reference
  /\ pick'.document = pick.document /\ pick'.epoch = pick.epoch
  /\ pick'.copied = pick.copied /\ pick'.removed = pick.removed
  /\ pick'.tried = pick.tried /\ pick'.kept = pick.kept

EndsHere ==
  /\ pick'.pc = "idle" /\ pick'.what = pick.what /\ pick'.resumed = pick.resumed
  /\ pick'.end \in {"refused", "kept"} \/ (pick'.end = "expired" /\ AsksWindow)

ResumesNow ==
  /\ pick'.pc = "select" /\ pick'.end = pick.end /\ pick'.what = pick.what
  /\ pick'.resumed /\ pick.command = "start"

GoesOn ==
  /\ \/ pick'.pc = "create" /\ pick'.what = "cli"
     \/ pick'.pc = "members" /\ pick'.what = pick.what
  /\ pick'.end = pick.end /\ pick'.resumed = pick.resumed
  /\ Forward(pick.reference, pick.document, pick.installed)
  /\ AsksWindow => Current(pick.document, pick'.now)
  /\ \/ pick'.failed = pick.failed \/ pick.resumed \/ pick.exact # NoSet
     \/ pick'.failed # pick.reference

LEMMA RememberedIs ==
  ASSUME pick \in Picks, NEW q \in Picks, NEW failed \in Sets \cup {NoSet},
         pick' = [q EXCEPT !.failed = failed]
  PROVE  /\ pick' \in Picks /\ pick'.failed = failed
         /\ pick'.pc = q.pc /\ pick'.end = q.end /\ pick'.what = q.what
         /\ pick'.command = q.command /\ pick'.exact = q.exact
         /\ pick'.installed = q.installed /\ pick'.resumed = q.resumed
         /\ pick'.reference = q.reference /\ pick'.document = q.document
         /\ pick'.epoch = q.epoch /\ pick'.now = q.now
         /\ pick'.copied = q.copied /\ pick'.removed = q.removed
         /\ pick'.tried = q.tried /\ pick'.kept = q.kept
  BY DEF Picks

LEMMA DecideMoves ==
  ASSUME pick \in Picks, Decides
  PROVE  Undecided /\ (EndsHere \/ ResumesNow \/ GoesOn)
<1>1. CASE DecideInstall
  <2>1. PICK now \in Times, foreign \in BOOLEAN : pick' = Proceeds(now, foreign)
    BY <1>1 DEF DecideInstall
  <2> QED
    BY <1>1, <2>1, ProceedsIs
       DEF DecideInstall, AsBefore, Undecided, EndsHere, ResumesNow, GoesOn
<1>2. CASE DecideStart
  <2>1. PICK failed \in {NoSet, pick.reference}, stopped \in BOOLEAN, foreign \in BOOLEAN,
             now \in Times :
          pick' = IF pick.resumed \/ ~Remembered(failed)
                    THEN [Proceeds(now, foreign) EXCEPT !.failed = failed]
                  ELSE IF stopped
                    THEN [pick EXCEPT !.pc = "select", !.resumed = TRUE, !.failed = failed]
                    ELSE [pick EXCEPT !.pc = "idle", !.end = "kept", !.failed = failed]
    BY <1>2 DEF DecideStart
  <2>2. failed \in Sets \cup {NoSet} /\ images' = images
    BY <1>2 DEF Picks, DecideStart
  <2>3. CASE pick.resumed \/ ~Remembered(failed)
    <3>1. PICK q : q = Proceeds(now, foreign)
      OBVIOUS
    <3>2. pick' = [q EXCEPT !.failed = failed]
      BY <2>1, <2>3, <3>1
    <3>3. /\ q \in Picks /\ AsBefore(q)
          /\ \/ q.pc = "idle" /\ q.end = "refused" /\ q.what = pick.what
             \/ q.pc = "idle" /\ q.end = "expired" /\ q.what = pick.what /\ AsksWindow
             \/ /\ \/ q.pc = "create" /\ q.what = "cli"
                   \/ q.pc = "members" /\ q.what = pick.what
                /\ q.end = pick.end /\ q.now = now
                /\ Forward(pick.reference, pick.document, pick.installed)
                /\ AsksWindow => Current(pick.document, now)
      BY <3>1, ProceedsIs
    <3>4. pick.resumed \/ pick.exact # NoSet \/ failed # pick.reference
      BY <2>3 DEF Remembered
    <3> QED
      BY <2>2, <3>2, <3>3, <3>4, RememberedIs
         DEF AsBefore, Undecided, EndsHere, ResumesNow, GoesOn
  <2>4. CASE pick' = [pick EXCEPT !.pc = "select", !.resumed = TRUE, !.failed = failed]
    <3>1. PICK q : q = [pick EXCEPT !.pc = "select", !.resumed = TRUE]
      OBVIOUS
    <3>2. pick' = [q EXCEPT !.failed = failed]
      BY <2>4, <3>1
    <3>3. /\ q \in Picks /\ q.pc = "select" /\ q.end = pick.end /\ q.resumed
          /\ q.what = pick.what /\ q.command = pick.command /\ q.exact = pick.exact
          /\ q.installed = pick.installed /\ q.reference = pick.reference
          /\ q.document = pick.document /\ q.epoch = pick.epoch
          /\ q.copied = pick.copied /\ q.removed = pick.removed
          /\ q.tried = pick.tried /\ q.kept = pick.kept
      BY <3>1 DEF Picks
    <3>4. pick.command = "start"
      BY <1>2 DEF DecideStart
    <3>5. /\ pick' \in Picks
          /\ pick'.pc = q.pc /\ pick'.end = q.end /\ pick'.what = q.what
          /\ pick'.command = q.command /\ pick'.exact = q.exact
          /\ pick'.installed = q.installed /\ pick'.resumed = q.resumed
          /\ pick'.reference = q.reference /\ pick'.document = q.document
          /\ pick'.epoch = q.epoch
          /\ pick'.copied = q.copied /\ pick'.removed = q.removed
          /\ pick'.tried = q.tried /\ pick'.kept = q.kept
      BY <2>2, <3>2, <3>3, RememberedIs
    <3> QED
      BY <2>2, <3>3, <3>4, <3>5 DEF Undecided, ResumesNow
  <2>5. CASE pick' = [pick EXCEPT !.pc = "idle", !.end = "kept", !.failed = failed]
    <3>1. PICK q : q = [pick EXCEPT !.pc = "idle", !.end = "kept"]
      OBVIOUS
    <3>2. pick' = [q EXCEPT !.failed = failed]
      BY <2>5, <3>1
    <3>3. q \in Picks /\ AsBefore(q) /\ q.pc = "idle" /\ q.end = "kept" /\ q.what = pick.what
      BY <3>1, EndedIs DEF Endings
    <3> QED
      BY <2>2, <3>2, <3>3, RememberedIs DEF AsBefore, Undecided, EndsHere
  <2> QED
    BY <2>1, <2>3, <2>4, <2>5
<1>3. CASE DecideUpdate
  <2>1. PICK failed \in {NoSet, pick.reference}, stopped \in BOOLEAN, foreign \in BOOLEAN,
             now \in Times :
          LET next == Proceeds(now, foreign) IN
          pick' = IF next.pc # "idle" /\ UpdateKeeps(failed, stopped)
                    THEN [pick EXCEPT !.pc = "idle", !.end = "kept", !.failed = failed]
                    ELSE [next EXCEPT !.failed = failed]
    BY <1>3 DEF DecideUpdate
  <2>2. failed \in Sets \cup {NoSet} /\ images' = images
    BY <1>3 DEF Picks, DecideUpdate
  <2>3. PICK next : next = Proceeds(now, foreign)
    OBVIOUS
  <2>4. /\ next \in Picks /\ AsBefore(next)
        /\ \/ next.pc = "idle" /\ next.end = "refused" /\ next.what = pick.what
           \/ next.pc = "idle" /\ next.end = "expired" /\ next.what = pick.what /\ AsksWindow
           \/ /\ \/ next.pc = "create" /\ next.what = "cli"
                 \/ next.pc = "members" /\ next.what = pick.what
              /\ next.end = pick.end /\ next.now = now
              /\ Forward(pick.reference, pick.document, pick.installed)
              /\ AsksWindow => Current(pick.document, now)
    BY <2>3, ProceedsIs
  <2>5. CASE pick' = [pick EXCEPT !.pc = "idle", !.end = "kept", !.failed = failed]
    <3>1. PICK q : q = [pick EXCEPT !.pc = "idle", !.end = "kept"]
      OBVIOUS
    <3>2. pick' = [q EXCEPT !.failed = failed]
      BY <2>5, <3>1
    <3>3. q \in Picks /\ AsBefore(q) /\ q.pc = "idle" /\ q.end = "kept" /\ q.what = pick.what
      BY <3>1, EndedIs DEF Endings
    <3> QED
      BY <2>2, <3>2, <3>3, RememberedIs DEF AsBefore, Undecided, EndsHere
  <2>6. CASE pick' = [next EXCEPT !.failed = failed]
             /\ (next.pc = "idle" \/ ~UpdateKeeps(failed, stopped))
    <3>1. next.pc = "idle" \/ failed # pick.reference
      BY <2>6 DEF UpdateKeeps
    <3> QED
      BY <2>2, <2>4, <2>6, <3>1, RememberedIs
         DEF AsBefore, Undecided, EndsHere, ResumesNow, GoesOn
  <2> QED
    BY <2>1, <2>3, <2>5, <2>6
<1> QED
  BY <1>1, <1>2, <1>3 DEF Decides

(* What a copy leaves of the images.                                       *)
LEMMA CopiedIs ==
  ASSUME pick \in Picks, pick.reference \in Sets, images \in ImageStores,
         images' \in IF pick'.copied THEN Copied ELSE CopyBreaks
  PROVE  /\ images' \in ImageStores /\ images'.box = images.box
         /\ images'.held = images.held /\ images'.stable = images.stable
         /\ pick.what = "metadata" =>
              images'.cli = images.cli /\ (pick'.copied => images'.copy = pick.reference)
         /\ pick.what = "cli" =>
              /\ images'.copy = images.copy
              /\ pick'.copied => images'.cli \in {pick.reference, "link"}
              /\ ~pick'.copied => images'.cli \in {images.cli, "torn"}
<1>1. CASE pick.what = "metadata"
  <2>1. \/ pick'.copied /\ images' = [images EXCEPT !.copy = pick.reference]
        \/ ~pick'.copied /\ images' = images
        \/ ~pick'.copied /\ images' = [images EXCEPT !.copy = "torn"]
    BY <1>1 DEF Copied, CopyBreaks
  <2> QED
    BY <1>1, <2>1 DEF ImageStores
<1>2. CASE pick.what = "cli"
  <2>1. \/ /\ pick'.copied
           /\ \E f \in {pick.reference, "link"} : images' = [images EXCEPT !.cli = f]
        \/ ~pick'.copied /\ images' = images
        \/ ~pick'.copied /\ images' = [images EXCEPT !.cli = "torn"]
    BY <1>2 DEF Copied, CopyBreaks
  <2> QED
    BY <1>2, <2>1 DEF ImageStores
<1> QED
  BY <1>1, <1>2 DEF Picks

(* A set that was read, admitted and moves forward is chosen well.          *)
LEMMA WellChosen ==
  ASSUME RlInv, pick.pc = "decide", Undecided, GoesOn
  PROVE  Chosen(pick.reference)' /\ pick'.reference \in Sets
<1> DEFINE s == pick.reference
<1>1. /\ pick \in Picks /\ s \in Sets
      /\ pick.document = Carries[s].document /\ pick.epoch = Carries[s].epoch /\ Sound(s)
      /\ s \in Developer => s \in {pick.exact, pick.installed}
      /\ pick.resumed => s = pick.installed
      /\ pick.failed = NoSet \/ pick.resumed
  BY DEF RlInv, Named, Faithful, Picks
<1>2. /\ pick'.reference = s /\ pick'.document = pick.document /\ pick'.epoch = pick.epoch
      /\ pick'.exact = pick.exact /\ pick'.installed = pick.installed
  BY DEF Undecided
<1>3. s \in Published /\ pick.installed \in Published /\ s # pick.installed
        => Ordinal(s) > Ordinal(pick.installed)
  <2> SUFFICES ASSUME s \in Published, pick.installed \in Published, s # pick.installed
               PROVE  Ordinal(s) > Ordinal(pick.installed)
    OBVIOUS
  <2>1. Ordinal(s) >= Ordinal(pick.installed) /\ Ordinal(s) # Ordinal(pick.installed)
    BY <1>1, ReleaseAssumption DEF GoesOn, Forward, Ordinal, Published
  <2>2. Ordinal(s) \in Nat /\ Ordinal(pick.installed) \in Nat
    BY <1>1, CarriedTyped DEF Ordinal, Published, Document
  <2> QED
    BY <2>1, <2>2
<1>4. s \in Published /\ s # pick.installed => Current(Carries[s].document, pick'.now)
  BY <1>1 DEF GoesOn, AsksWindow
<1>5. pick'.exact = NoSet /\ s # pick.installed => s # pick'.failed
  BY <1>1, <1>2, ReleaseAssumption DEF GoesOn
<1> HIDE DEF s
<1> QED
  BY <1>1, <1>2, <1>3, <1>4, <1>5 DEF Chosen, Sound, Ordinal

(* Where the command and the files stay as they are, so does what holds.    *)
LEMMA NothingPicked ==
  ASSUME RlInv, pick' = pick, images' \in ImageStores,
         images'.copy = images.copy, images'.cli = images.cli, images'.box = images.box
  PROVE  RlInv'
  BY DEF RlInv, Named, Faithful, Decided, DecidedWell, TidiedUp, Goes, Chosen

LEMMA ReleaseKept ==
  ASSUME RlInv, ReleaseNext
  PROVE  RlInv'
<1>0. /\ images \in ImageStores /\ pick \in Picks
      /\ Named /\ Faithful /\ DecidedWell /\ TidiedUp
      /\ pick.end = "handed" => images.cli = pick.reference
      /\ pick.end = "expired" => pick.reference # pick.installed \/ pick.command = "update"
  BY DEF RlInv
<1>a. ASSUME pick' \in Picks, images' = images, pick.pc # "idle", pick'.pc = "idle",
             pick'.end \in {"failed", "refused"}, SameAsked, SameRead, SameCopies,
             pick.pc \in {"copy", "remove", "read", "cli"} => pick'.end = "failed",
             pick.pc \notin {"copy", "remove", "cli", "read"}
      PROVE  RlInv'
  BY <1>0, <1>a DEF RlInv, Named, Faithful, Decided, DecidedWell, TidiedUp, Goes, Chosen,
     SameAsked, SameRead, SameCopies
<1>1. CASE CommandOver
  BY <1>0, <1>1, NothingPicked DEF CommandOver, releaseVars
<1>2. CASE Invoked
  <2>1. images' = images /\ pick = NoPick
    BY <1>2 DEF Invoked
  <2>2. /\ pick' \in Picks /\ pick'.pc = "select" /\ pick'.end = "none"
        /\ pick'.what = "metadata" /\ ~pick'.copied /\ ~pick'.tried /\ ~pick'.kept
        /\ pick'.failed = NoSet /\ ~pick'.resumed
        /\ pick'.command = "start" => pick'.installed # NoSet
    <3>1. PICK command \in {"install", "start", "update"},
               installed \in Sets \cup {NoSet}, exact \in Sets \cup {NoSet} :
            /\ command # "install" => installed # NoSet
            /\ pick' = [NoPick EXCEPT !.pc = "select", !.command = command,
                                      !.installed = installed, !.exact = exact]
      BY <1>2 DEF Invoked
    <3>2. PICK q : q = [pick EXCEPT !.pc = "select", !.command = command]
      OBVIOUS
    <3>3. PICK r : r = [q EXCEPT !.installed = installed]
      OBVIOUS
    <3>6. pick' = [r EXCEPT !.exact = exact]
      BY <2>1, <3>1, <3>2, <3>3
    <3>4. /\ q \in Picks /\ q.pc = "select" /\ q.command = command /\ q.end = pick.end
          /\ q.what = pick.what /\ q.copied = pick.copied /\ q.tried = pick.tried
          /\ q.kept = pick.kept /\ q.failed = pick.failed /\ q.resumed = pick.resumed
      BY <1>0, <3>2 DEF Picks
    <3>7. /\ r \in Picks /\ r.pc = "select" /\ r.command = command /\ r.end = pick.end
          /\ r.what = pick.what /\ r.copied = pick.copied /\ r.tried = pick.tried
          /\ r.kept = pick.kept /\ r.failed = pick.failed /\ r.resumed = pick.resumed
          /\ r.installed = installed
      BY <3>3, <3>4 DEF Picks
    <3>5. /\ pick.end = "none" /\ pick.what = "metadata" /\ ~pick.copied /\ ~pick.tried
          /\ ~pick.kept /\ pick.failed = NoSet /\ ~pick.resumed
      BY <2>1 DEF NoPick
    <3> QED
      <4>1. /\ pick' \in Picks /\ pick'.pc = r.pc /\ pick'.command = r.command
            /\ pick'.end = r.end /\ pick'.what = r.what /\ pick'.copied = r.copied
            /\ pick'.tried = r.tried /\ pick'.kept = r.kept /\ pick'.failed = r.failed
            /\ pick'.resumed = r.resumed /\ pick'.installed = r.installed
        BY <3>6, <3>7 DEF Picks
      <4> QED
        BY <3>1, <3>5, <3>7, <4>1
  <2>3. images.box = FALSE /\ images.cli # "link"
    BY <1>0, <2>1 DEF TidiedUp, NoPick
  <2> QED
    BY <1>0, <2>1, <2>2, <2>3
       DEF RlInv, Named, Faithful, Decided, DecidedWell, TidiedUp, Goes
<1>3. CASE Locate
  <2>1. /\ pick' \in Picks /\ SameAsked /\ images' = images /\ pick.pc = "select"
    BY <1>0, <1>3, LocateMoves DEF Locate
  <2>2. CASE pick'.pc = "idle" /\ pick'.end = "refused" /\ SameRead /\ SameCopies
    BY <1>a, <2>1, <2>2
  <2>3. CASE /\ pick'.pc = IF Selector \in images.held THEN "create" ELSE "pull"
             /\ Selector \in Developer => Selector \in images.held
             /\ pick'.end = pick.end /\ pick'.reference = Selector /\ pick'.what = "metadata"
             /\ pick'.document = pick.document /\ pick'.epoch = pick.epoch
             /\ pick'.failed = pick.failed /\ pick'.now = pick.now
             /\ pick'.copied = pick.copied /\ pick'.removed = pick.removed
             /\ pick'.tried = pick.tried /\ pick'.kept = pick.kept
    <3>1. Selector \in Developer => Selector \in {pick.exact, pick.installed}
      BY ReleaseAssumption DEF Selector
    <3>2. pick.resumed => Selector = pick.installed
      BY DEF Selector
    <3>3. pick'.pc = "create" => pick'.reference # NoSet
      BY <1>0, <2>3, ReleaseAssumption DEF ImageStores
    <3>4. Named'
      BY <1>0, <2>1, <2>3, <3>1, <3>2, <3>3 DEF Named, SameAsked, Picks
    <3>5. Faithful' /\ DecidedWell' /\ TidiedUp'
      BY <1>0, <2>1, <2>3 DEF Named, Faithful, Decided, DecidedWell, TidiedUp, Goes
    <3> QED
      BY <1>0, <2>1, <2>3, <3>4, <3>5 DEF RlInv, Named
  <2> QED
    BY <1>0, <1>3, <2>2, <2>3, LocateMoves
<1>4. CASE PullSelected
  <2>1. /\ images' \in ImageStores /\ images'.copy = images.copy /\ images'.cli = images.cli
        /\ images'.box = images.box /\ pick.pc = "pull"
        /\ \/ PickTo("create") /\ pick.reference # NoSet
           \/ PickTo("digest") /\ pick.reference = NoSet
    <3>1. CASE /\ pick.reference # NoSet
               /\ images' = [images EXCEPT !.held = @ \cup {pick.reference}]
      BY <1>0, <1>4, <3>1 DEF PullSelected, ImageStores, Picks
    <3>2. CASE /\ pick.reference = NoSet
               /\ \E s \in Published :
                    images' = [images EXCEPT !.held = @ \cup {s}, !.stable = s]
      <4>1. PICK s \in Published :
              images' = [images EXCEPT !.held = images.held \cup {s}, !.stable = s]
        BY <3>2
      <4>2. images.held \cup {s} \in SUBSET Sets
        BY <1>0 DEF ImageStores, Published
      <4> QED
        BY <1>0, <1>4, <3>2, <4>1, <4>2 DEF PullSelected, ImageStores
    <3> QED
      BY <1>4, <3>1, <3>2 DEF PullSelected
  <2>2. /\ pick' \in Picks /\ pick'.pc \in {"create", "digest"} /\ pick'.end = pick.end
        /\ SameAsked /\ SameRead /\ SameCopies
        /\ pick'.pc = "create" <=> pick.reference # NoSet
    BY <1>0, <2>1, PickMoves DEF PickSteps
  <2> QED
    BY <1>0, <2>1, <2>2 DEF RlInv, Named, Faithful, Decided, DecidedWell, TidiedUp, Goes,
       SameAsked, SameRead, SameCopies
<1>5. CASE UniqueRepoDigest
  <2>1. pick.pc = "digest"
    BY <1>5 DEF UniqueRepoDigest
  <2> QED
    BY <1>0, <1>5, <2>1, DigestMoves, ReleaseAssumption
       DEF RlInv, Named, Faithful, Decided, DecidedWell, TidiedUp, Goes, SameAsked,
           SameCopies, Published
<1>6. CASE CreateMember
  <2>1. /\ images' \in ImageStores /\ images'.copy = images.copy /\ images'.cli = images.cli
        /\ pick.pc = "create"
    BY <1>0, <1>6 DEF CreateMember, ImageStores
  <2>2. /\ pick' \in Picks /\ pick'.pc = "copy" /\ pick'.end = pick.end
        /\ SameAsked /\ SameRead /\ SameCopies
    BY <1>0, <1>6, PickMoves DEF CreateMember, PickSteps
  <2>3. Named' /\ Faithful' /\ TidiedUp'
    BY <1>0, <2>1, <2>2 DEF Named, Faithful, TidiedUp, SameAsked, SameRead, SameCopies
  <2>4. DecidedWell'
    BY <1>0, <2>1, <2>2
       DEF Named, Decided, DecidedWell, Goes, Chosen, SameAsked, SameRead, SameCopies
  <2> QED
    BY <1>0, <2>1, <2>2, <2>3, <2>4 DEF RlInv, Named
<1>7. CASE CopyMember
  <2>1. pick.pc = "copy" /\ pick.reference \in Sets
    BY <1>0, <1>7 DEF CopyMember, Named, Picks
  <2>2. /\ pick' \in Picks /\ pick'.pc = "remove" /\ pick'.end = pick.end
        /\ SameAsked /\ SameRead
        /\ pick'.what = pick.what /\ pick'.removed = pick.removed
        /\ pick'.tried = TRUE /\ pick'.kept = pick.kept
        /\ images' \in IF pick'.copied THEN Copied ELSE CopyBreaks
    BY <1>0, <1>7, CopyMoves
  <2>3. /\ images' \in ImageStores /\ images'.box = images.box
        /\ pick.what = "metadata" =>
             images'.cli = images.cli /\ (pick'.copied => images'.copy = pick.reference)
        /\ pick.what = "cli" =>
             /\ images'.copy = images.copy
             /\ pick'.copied => images'.cli \in {pick.reference, "link"}
             /\ ~pick'.copied => images'.cli \in {images.cli, "torn"}
    BY <1>0, <2>1, <2>2, CopiedIs
  <2>4. Named' /\ Faithful'
    BY <1>0, <2>1, <2>2, <2>3 DEF Named, Faithful, SameAsked, SameRead
  <2>5. TidiedUp'
    BY <1>0, <2>1, <2>2, <2>3 DEF Named, TidiedUp, Picks
  <2>6. DecidedWell'
    BY <1>0, <2>1, <2>2 DEF Named, Decided, DecidedWell, Goes, Chosen, SameAsked, SameRead
  <2> QED
    BY <1>0, <2>1, <2>2, <2>3, <2>4, <2>5, <2>6 DEF RlInv, Named
<1>8. CASE RemoveBox
  <2>1. pick.pc = "remove"
    BY <1>8 DEF RemoveBox
  <2>2. /\ pick' \in Picks
        /\ pick'.pc = IF pick.what = "metadata" THEN "read" ELSE "cli"
        /\ pick'.end = pick.end /\ SameAsked /\ SameRead
        /\ pick'.what = pick.what /\ pick'.copied = pick.copied
        /\ pick'.tried = pick.tried /\ pick'.kept = pick.kept
        /\ images' = [images EXCEPT !.box = ~pick'.removed]
    BY <1>0, <1>8, RemoveMoves
  <2>3. /\ images' \in ImageStores /\ images'.copy = images.copy /\ images'.cli = images.cli
        /\ images'.box = ~pick'.removed
    BY <1>0, <2>2 DEF ImageStores
  <2>4. Named' /\ Faithful'
    BY <1>0, <2>1, <2>2, <2>3 DEF Named, Faithful, SameAsked, SameRead, Picks
  <2>5. TidiedUp'
    BY <1>0, <2>1, <2>2, <2>3 DEF Named, TidiedUp, Picks
  <2>6. DecidedWell'
    BY <1>0, <2>1, <2>2 DEF Named, Decided, DecidedWell, Goes, Chosen, SameAsked, SameRead
  <2> QED
    BY <1>0, <2>1, <2>2, <2>3, <2>4, <2>5, <2>6 DEF RlInv, Named
<1>9. CASE ReadMetadata
  <2>1. pick.pc = "read"
    BY <1>9 DEF ReadMetadata
  <2>2. /\ pick.what = "metadata" /\ pick.reference \in Sets
        /\ pick.copied => images.copy = pick.reference
    BY <1>0, <2>1 DEF Named, Faithful, Picks
  <2>3. /\ pick' \in Picks /\ SameAsked
        /\ images' = images \/ images' = [images EXCEPT !.copy = NoSet]
        /\ pick'.reference = pick.reference /\ pick'.epoch = pick.epoch
        /\ pick'.failed = pick.failed /\ pick'.now = pick.now
        /\ pick'.what = pick.what /\ pick'.copied = pick.copied
        /\ pick'.removed = pick.removed /\ pick'.tried = pick.tried
        /\ \/ /\ pick'.pc = "labels" /\ pick'.end = pick.end /\ pick'.kept = pick.kept
              /\ pick.copied /\ pick.removed
              /\ pick'.document = Carries[images.copy].document
              /\ images' = [images EXCEPT !.copy = NoSet]
           \/ /\ pick'.pc = "idle" /\ pick'.end = "failed"
              /\ pick'.document = pick.document
              /\ pick'.kept \/ images' = [images EXCEPT !.copy = NoSet]
    BY <1>0, <1>9, <2>2, ReadMoves
  <2>4. /\ images' \in ImageStores /\ images'.cli = images.cli /\ images'.box = images.box
        /\ images' = [images EXCEPT !.copy = NoSet] => images'.copy = NoSet
    BY <1>0, <2>3 DEF ImageStores
  <2>5. Named' /\ Faithful'
    BY <1>0, <2>1, <2>2, <2>3 DEF Named, Faithful, SameAsked
  <2>6. TidiedUp'
    BY <1>0, <2>1, <2>2, <2>3, <2>4 DEF Named, TidiedUp
  <2>7. DecidedWell'
    BY <1>0, <2>1, <2>2, <2>3 DEF Named, Decided, DecidedWell, Goes
  <2> QED
    BY <1>0, <2>1, <2>3, <2>4, <2>5, <2>6, <2>7 DEF RlInv, Named
<1>10. CASE ReadLabels
  <2>1. pick.pc = "labels"
    BY <1>10 DEF ReadLabels
  <2>2. /\ pick' \in Picks /\ SameAsked /\ SameCopies /\ images' = images
        /\ pick'.reference = pick.reference /\ pick'.document = pick.document
        /\ pick'.failed = pick.failed /\ pick'.now = pick.now
        /\ \/ pick'.pc = "idle" /\ pick'.end = "refused"
           \/ /\ pick'.pc = "decide" /\ pick'.end = pick.end
              /\ pick'.epoch = Carries[pick.reference].epoch
              /\ Parses(pick.reference, pick.document, Carries[pick.reference].epoch,
                        Carries[pick.reference].signature)
    BY <1>0, <1>10, LabelsMove
  <2>3. pick.document = Carries[pick.reference].document /\ pick.what = "metadata"
    BY <1>0, <2>1 DEF Named, Faithful, Picks
  <2>4. pick'.pc = "decide" => Sound(pick.reference)
    BY <2>2, <2>3 DEF Sound
  <2>5. Named' /\ TidiedUp'
    BY <1>0, <2>1, <2>2, <2>3 DEF Named, TidiedUp, SameAsked, SameCopies
  <2>6. Faithful'
    BY <1>0, <2>1, <2>2, <2>3, <2>4 DEF Faithful, Sound
  <2>7. DecidedWell'
    BY <1>0, <2>1, <2>2, <2>3 DEF Named, Decided, DecidedWell, Goes, SameCopies
  <2> QED
    BY <1>0, <2>1, <2>2, <2>5, <2>6, <2>7 DEF RlInv, Named
<1>11. CASE Decides
  <2>1. pick.pc = "decide"
    BY <1>11 DEF Decides, DecideInstall, DecideStart, DecideUpdate
  <2>2. Undecided /\ (EndsHere \/ ResumesNow \/ GoesOn)
    BY <1>0, <1>11, DecideMoves
  <2>3. /\ pick.what = "metadata" /\ pick.reference \in Sets
        /\ images.box = FALSE /\ images.cli # "link" /\ pick.end = "none"
    BY <1>0, <2>1 DEF Named, TidiedUp, Picks, ImageStores
  <2>4. CASE EndsHere
    <3>1. Named' /\ Faithful' /\ TidiedUp'
      BY <1>0, <2>1, <2>2, <2>3, <2>4 DEF Named, Faithful, TidiedUp, Undecided, EndsHere
    <3>2. DecidedWell'
      BY <2>2, <2>3, <2>4 DEF Decided, DecidedWell, Goes, Undecided, EndsHere
    <3> QED
      BY <1>0, <2>2, <2>4, <3>1, <3>2 DEF RlInv, Undecided, EndsHere, AsksWindow
  <2>5. CASE ResumesNow
    <3>1. Named' /\ Faithful' /\ TidiedUp'
      BY <1>0, <2>1, <2>2, <2>3, <2>5 DEF Named, Faithful, TidiedUp, Undecided, ResumesNow
    <3>2. DecidedWell'
      BY <2>2, <2>3, <2>5 DEF Decided, DecidedWell, Goes, Undecided, ResumesNow
    <3> QED
      BY <1>0, <2>2, <2>3, <2>5, <3>1, <3>2 DEF RlInv, Undecided, ResumesNow
  <2>6. CASE GoesOn
    <3>1. Chosen(pick.reference)' /\ pick'.reference \in Sets
      BY <2>1, <2>2, <2>6, WellChosen
    <3>2. pick.tried => images.copy = NoSet
      BY <1>0, <2>1 DEF TidiedUp
    <3>3. Named' /\ Faithful' /\ TidiedUp'
      BY <1>0, <2>1, <2>2, <2>3, <2>6, <3>2
         DEF Named, Faithful, TidiedUp, Undecided, GoesOn
    <3>4. DecidedWell'
      BY <3>1 DEF DecidedWell
    <3> QED
      BY <1>0, <2>2, <2>3, <2>6, <3>3, <3>4 DEF RlInv, Undecided, GoesOn
  <2> QED
    BY <2>2, <2>4, <2>5, <2>6
<1>12. CASE ExtractCli
  <2>1. pick.pc = "cli" /\ pick.what = "cli" /\ pick.reference # NoSet
    BY <1>0, <1>12 DEF ExtractCli, Named, Picks
  <2>2. CASE ~pick.copied \/ ~pick.removed
    <3>1. PickEnds("failed") /\ images' = images
      BY <1>12, <2>2 DEF ExtractCli
    <3>2. /\ pick' \in Picks /\ pick'.pc = "idle" /\ pick'.end = "failed"
          /\ SameAsked /\ SameRead /\ SameCopies
      BY <1>0, <3>1, PickMoves DEF Endings
    <3>3. Named' /\ Faithful' /\ TidiedUp'
      BY <1>0, <2>1, <3>1, <3>2
         DEF Named, Faithful, TidiedUp, SameAsked, SameRead, SameCopies
    <3>4. DecidedWell'
      BY <1>0, <2>1, <3>2
         DEF Decided, DecidedWell, Goes, Chosen, SameAsked, SameRead, SameCopies
    <3> QED
      BY <1>0, <3>1, <3>2, <3>3, <3>4 DEF RlInv
  <2>3. CASE pick.copied /\ pick.removed /\ images.cli = "link"
    <3>1. PickEnds("refused") /\ images' = [images EXCEPT !.cli = NoSet]
      BY <1>12, <2>3 DEF ExtractCli
    <3>2. /\ images' \in ImageStores /\ images'.copy = images.copy /\ images'.cli = NoSet
          /\ images'.box = images.box
      BY <1>0, <3>1 DEF ImageStores
    <3>3. /\ pick' \in Picks /\ pick'.pc = "idle" /\ pick'.end = "refused"
          /\ SameAsked /\ SameRead /\ SameCopies
      BY <1>0, <3>1, PickMoves DEF Endings
    <3>4. Named' /\ Faithful' /\ TidiedUp'
      BY <1>0, <2>1, <2>3, <3>2, <3>3, ReleaseAssumption
         DEF Named, Faithful, TidiedUp, SameAsked, SameRead, SameCopies
    <3>5. DecidedWell'
      BY <1>0, <2>1, <3>3
         DEF Decided, DecidedWell, Goes, Chosen, SameAsked, SameRead, SameCopies
    <3> QED
      BY <1>0, <3>2, <3>3, <3>4, <3>5 DEF RlInv
  <2>4. CASE pick.copied /\ pick.removed /\ images.cli # "link"
    <3>1. PickEnds("handed") /\ images' = images
      BY <1>12, <2>4 DEF ExtractCli
    <3>2. images.cli = pick.reference /\ images.box = FALSE
      BY <1>0, <2>1, <2>4 DEF Faithful, TidiedUp, ImageStores
    <3>3. /\ pick' \in Picks /\ pick'.pc = "idle" /\ pick'.end = "handed"
          /\ SameAsked /\ SameRead /\ SameCopies
      BY <1>0, <3>1, PickMoves DEF Endings
    <3>4. Named' /\ Faithful' /\ TidiedUp'
      BY <1>0, <2>1, <2>4, <3>1, <3>2, <3>3
         DEF Named, Faithful, TidiedUp, SameAsked, SameRead, SameCopies
    <3>5. DecidedWell'
      BY <1>0, <2>1, <3>3
         DEF Decided, DecidedWell, Goes, Chosen, SameAsked, SameRead, SameCopies
    <3> QED
      BY <1>0, <3>1, <3>2, <3>3, <3>4, <3>5 DEF RlInv, SameRead
  <2> QED
    BY <2>2, <2>3, <2>4
<1>13. CASE PullMembers
  <2>1. pick.pc = "members" /\ pick.what = "metadata"
    BY <1>0, <1>13 DEF PullMembers, Named, Picks
  <2>2. images.box = FALSE /\ images.cli # "link" /\ Decided
    BY <1>0, <2>1 DEF TidiedUp, ImageStores, Decided, Named
  <2>3. /\ images' \in ImageStores /\ images'.copy = images.copy
        /\ images'.cli = images.cli /\ images'.box = images.box
    <3>1. pick.reference \in Sets
      BY <1>0, <2>2 DEF DecidedWell
    <3> QED
      BY <1>0, <1>13, <3>1 DEF PullMembers, ImageStores
  <2>4. \E end \in {"applies", "refused"} : PickEnds(end)
    BY <1>13 DEF PullMembers
  <2>5. /\ pick' \in Picks /\ pick'.pc = "idle" /\ pick'.end \in {"applies", "refused"}
        /\ SameAsked /\ SameRead /\ SameCopies
    BY <1>0, <2>4, PickMoves DEF Endings
  <2>6. Named' /\ Faithful' /\ TidiedUp'
    BY <1>0, <2>1, <2>2, <2>3, <2>5
       DEF Named, Faithful, TidiedUp, SameAsked, SameRead, SameCopies
  <2>7. DecidedWell'
    BY <1>0, <2>2, <2>5 DEF DecidedWell, Chosen, SameAsked, SameRead
  <2> QED
    BY <1>0, <2>3, <2>5, <2>6, <2>7 DEF RlInv
<1>14. CASE DockerFails
  <2>1. pick.pc \in {"pull", "digest", "create", "labels", "members"}
    BY <1>14 DEF DockerFails
  <2>2. /\ pick' \in Picks /\ pick'.pc = "idle" /\ pick'.end = "failed" /\ images' = images
        /\ SameAsked /\ SameRead /\ SameCopies
    BY <1>0, <1>14, PickMoves DEF DockerFails, Endings
  <2> QED
    BY <1>a, <2>1, <2>2
<1>15. CASE \E s \in Published : OtherPulls(s)
  <2>1. PICK s \in Published : OtherPulls(s)
    BY <1>15
  <2>2. /\ images' \in ImageStores /\ images'.copy = images.copy
        /\ images'.cli = images.cli /\ images'.box = images.box
    <3>1. PICK i : i = [images EXCEPT !.held = @ \cup {s}, !.stable = s]
      OBVIOUS
    <3>2. images' = [i EXCEPT !.pulls = images.pulls + 1]
      BY <1>0, <2>1, <3>1 DEF OtherPulls, ImageStores
    <3>3. /\ i \in ImageStores /\ i.copy = images.copy /\ i.cli = images.cli
          /\ i.box = images.box
      BY <1>0, <3>1 DEF ImageStores, Published
    <3>4. images.pulls + 1 \in 0 .. MaxPulls
      BY <1>0, <2>1, ReleaseAssumption DEF OtherPulls, ImageStores
    <3> QED
      BY <3>2, <3>3, <3>4 DEF ImageStores
  <2> QED
    BY <2>1, <2>2, NothingPicked DEF OtherPulls
<1>16. CASE \E s \in Sets : ImageRemoved(s)
  <2>1. PICK s \in Sets : ImageRemoved(s)
    BY <1>16
  <2>2. /\ images' \in ImageStores /\ images'.copy = images.copy
        /\ images'.cli = images.cli /\ images'.box = images.box
    <3> DEFINE h == images.held \ {s}
               m == images.members \ {s}
               t == IF images.stable = s THEN NoSet ELSE images.stable
               n == images.pulls + 1
    <3>1. /\ h \in SUBSET Sets /\ m \in SUBSET Sets /\ t \in Published \cup {NoSet}
          /\ n \in 0 .. MaxPulls
      BY <1>0, <2>1, ReleaseAssumption DEF ImageRemoved, ImageStores
    <3>2. images' = [images EXCEPT !.held = h, !.members = m, !.pulls = n, !.stable = t]
      BY <1>0, <2>1 DEF ImageRemoved, ImageStores
    <3> HIDE DEF h, m, t, n
    <3>3. PICK i : i = [images EXCEPT !.held = h, !.members = m]
      OBVIOUS
    <3>4. images' = [i EXCEPT !.pulls = n, !.stable = t]
      BY <3>2, <3>3
    <3>5. /\ i \in ImageStores /\ i.copy = images.copy /\ i.cli = images.cli
          /\ i.box = images.box
      BY <1>0, <3>1, <3>3 DEF ImageStores
    <3> QED
      BY <3>1, <3>4, <3>5 DEF ImageStores
  <2> QED
    BY <2>1, <2>2, NothingPicked DEF ImageRemoved
<1> QED
  BY <1>1, <1>2, <1>3, <1>4, <1>5, <1>6, <1>7, <1>8, <1>9, <1>10, <1>11, <1>12, <1>13, <1>14,
     <1>15, <1>16 DEF ReleaseNext, Decides

LEMMA ReleaseStarts ==
  ASSUME ReleaseInit
  PROVE  RlInv
<1>1. PICK stable \in Published \cup {NoSet}, present \in SUBSET Developer,
           killed \in BOOLEAN, mac \in BOOLEAN :
        images = [ held |-> present \cup ({stable} \ {NoSet}), stable |-> stable,
                   members |-> present,
                   copy |-> IF killed THEN stable ELSE NoSet, cli |-> NoSet, box |-> FALSE,
                   mac |-> mac, pulls |-> 0 ]
  BY DEF ReleaseInit
<1>2. images \in ImageStores /\ images.box = FALSE /\ images.cli = NoSet
  <2>1. present \cup ({stable} \ {NoSet}) \in SUBSET Sets /\ present \in SUBSET Sets
    BY ReleaseAssumption DEF Published
  <2>2. 0 \in 0 .. MaxPulls
    BY ReleaseAssumption
  <2> QED
    BY <1>1, <2>1, <2>2 DEF ImageStores, Published
<1>3. pick \in Picks
  BY DEF ReleaseInit, NoPick, Picks, NoDocument, Document
<1>4. Named /\ Faithful /\ DecidedWell /\ TidiedUp /\ pick.end = "none"
  BY <1>2, ReleaseAssumption
     DEF ReleaseInit, NoPick, Named, Faithful, Decided, DecidedWell, Goes, TidiedUp
<1> QED
  BY <1>2, <1>3, <1>4 DEF RlInv

LEMMA ReleaseAlways == ReleaseSpec => []RlInv
<1>1. ReleaseInit => RlInv
  BY ReleaseStarts
<1>2. RlInv /\ [ReleaseNext]_releaseVars => RlInv'
  <2>1. RlInv /\ ReleaseNext => RlInv'
    BY ReleaseKept
  <2>2. RlInv /\ UNCHANGED releaseVars => RlInv'
    BY NothingPicked DEF releaseVars, RlInv
  <2> QED
    BY <2>1, <2>2
<1> QED
  BY <1>1, <1>2, PTL DEF ReleaseSpec

(* The theorem of ReleaseResolution: whatever the channel, the tag and the  *)
(* image store become meanwhile, whatever a killed command left, and        *)
(* whichever call to Docker fails, what a command goes on with is one       *)
(* release set that it may apply, and it leaves no copy and no container    *)
(* behind that it has not told (resolve_release, copy_member, extract_cli). *)
THEOREM OnlyTheAdmitted == ReleaseSpec => []ReleaseAdmitted
<1>1. RlInv => ReleaseAdmitted
  <2> SUFFICES ASSUME RlInv
               PROVE  ReleaseAdmitted
    OBVIOUS
  <2>1. Goes => /\ pick.end = "handed" => images.cli = pick.reference
                /\ Chosen(pick.reference)
    BY DEF RlInv, DecidedWell, Decided
  <2>2. pick.end # "none" =>
          /\ pick.tried /\ ~pick.kept => images.copy = NoSet
          /\ images.box => pick.end = "failed" /\ ~pick.removed
          /\ images.cli # "link" \/ pick.end = "failed"
    BY DEF RlInv, Named, TidiedUp
  <2> QED
    BY <2>1, <2>2 DEF ReleaseAdmitted, Chosen, RlInv
<1> QED
  BY <1>1, ReleaseAlways, PTL

-----------------------------------------------------------------------------
(* StatusReport. *)

InstalledSpaces ==
  [ at : [Components -> Runtime], detached : SUBSET Serving, stop : BOOLEAN,
    current : BOOLEAN, marked : BOOLEAN, changes : 0 .. MaxChanges ]

Observation == UNION {[D -> Runtime] : D \in SUBSET Components}

Reports ==
  [ kind : {"none", "status", "stop", "install"},
    pc : {"idle", "record", "list", "stopTeam", "stopRest", "static", "apps", "attach",
          "render"},
    listed : SUBSET Components, seen : Observation, apart : SUBSET Serving, round : 0 .. 2,
    said : {"none", "absent", "busy", "failed", "stopped", "healthy", "attention"},
    next : {"none", "start", "stop", "install"}, quiet : BOOLEAN,
    advised : {"none", "start", "stop", "install"} ]

(* Which commands reach which steps.                                       *)
OnTheWay ==
  /\ report.pc # "idle" => report.kind \in {"status", "stop"}
  /\ report.pc \in {"record", "stopTeam", "stopRest"} => report.kind = "stop"
  /\ report.pc = "attach" => report.kind = "status"
  /\ report.pc \in {"stopTeam", "stopRest"} => space.stop
  /\ report.kind = "stop" /\ report.pc \in {"static", "apps", "render"} =>
       report.round = 2 /\ space.stop
  /\ report.kind = "stop" /\ report.pc = "list" /\ report.round # 1 => space.stop
  /\ report.pc = "list" => report.round \in {1, 2}
  /\ report.pc \in {"record", "list", "stopTeam", "stopRest", "static"} =>
       DOMAIN report.seen = {}
  /\ report.pc = "apps" => DOMAIN report.seen = Static
  /\ report.pc \in {"attach", "render"} =>
       DOMAIN report.seen = Static \cup (Apps \cap report.listed)

(* While nobody else changes anything, what a command has listed and seen   *)
(* is there.                                                               *)
SeenIsThere ==
  report.quiet =>
    /\ report.pc \notin {"idle", "list"} => report.listed = Present
    /\ report.pc = "list" /\ report.round = 2 => report.listed = Present
    /\ report.pc \in {"apps", "attach", "render"} =>
         \A c \in Static : report.seen[c] = space.at[c]
    /\ report.pc \in {"attach", "render"} =>
         \A c \in Apps \cap report.listed : report.seen[c] = space.at[c]
    /\ report.pc = "render" /\ report.kind = "status" =>
         report.apart = {c \in space.detached : space.at[c] \in Health}

(* A stop completes what is so: the setup has ended, no service is missing  *)
(* or dead, no Assistant is dead.                                          *)
Stoppable ==
  /\ \A c \in Serving : space.at[c] \notin {"missing", "dead"}
  /\ space.at["init"] = "exited0"
  /\ \A a \in Apps : space.at[a] # "dead"

RestOf(cs) == \A c \in cs : space.at[c] \in Exited \cup {"missing", "removing", "created"}

AdviceHelps ==
  /\ report.quiet /\ report.pc = "idle" /\ report.next = "stop" => Stoppable
  /\ report.quiet /\ report.kind = "stop" /\ report.pc # "idle" /\ report.advised = "stop" =>
       /\ Stoppable
       /\ report.pc = "stopRest" => RestOf({"team"})
       /\ report.pc \in {"static", "apps", "render"} \/ (report.round = 2 /\ report.pc = "list")
            => RestOf(Components)

RpInv ==
  /\ space \in InstalledSpaces /\ report \in Reports
  /\ OnTheWay /\ SeenIsThere /\ AdviceHelps
  /\ report.quiet /\ report.pc = "idle" /\ report.said \in {"stopped", "healthy"} =>
       report.next # "install"
  /\ ReportsHelp

(* The values alone.                                                       *)
RpTyped == space \in InstalledSpaces /\ report \in Reports

ReportSteps == {"record", "list", "stopTeam", "stopRest", "static", "apps", "attach", "render"}
Sayings == {"none", "absent", "busy", "failed", "stopped", "healthy", "attention"}
Advices == {"none", "start", "stop", "install"}

LEMMA NothingReported == <<>> \in Observation /\ DOMAIN <<>> = {}
<1>1. <<>> \in [{} -> Runtime] /\ DOMAIN <<>> = {}
  OBVIOUS
<1> QED
  BY <1>1 DEF Observation

LEMMA NoReportIs ==
  /\ NoReport \in Reports /\ NoReport.kind = "none" /\ NoReport.pc = "idle"
  /\ NoReport.seen = <<>> /\ NoReport.said = "none" /\ NoReport.next = "none"
  /\ NoReport.advised = "none"
<1>1. {} \in SUBSET Components /\ {} \in SUBSET Serving /\ 0 \in 0 .. 2 /\ TRUE \in BOOLEAN
  OBVIOUS
<1> QED
  BY <1>1, NothingReported DEF NoReport, Reports

(* What a command keeps when it goes on to a step.                         *)
SameReport ==
  /\ report'.kind = report.kind /\ report'.listed = report.listed
  /\ report'.seen = report.seen /\ report'.apart = report.apart
  /\ report'.said = report.said /\ report'.next = report.next
  /\ report'.quiet = report.quiet /\ report'.advised = report.advised

LEMMA ReportAtMoves ==
  ASSUME report \in Reports, NEW pc \in ReportSteps, ReportAt(pc)
  PROVE  report' \in Reports /\ report'.pc = pc /\ report'.round = report.round /\ SameReport
  BY DEF ReportAt, Reports, ReportSteps, SameReport

LEMMA TellsMoves ==
  ASSUME report \in Reports, NEW said \in Sayings, NEW next \in Advices, Tells(said, next)
  PROVE  /\ report' \in Reports /\ report'.pc = "idle" /\ report'.kind = report.kind
         /\ report'.said = said /\ report'.next = next
         /\ report'.quiet = report.quiet /\ report'.advised = report.advised
<1>1. PICK q : q = [NoReport EXCEPT !.kind = report.kind, !.said = said]
  OBVIOUS
<1>2. PICK r : r = [q EXCEPT !.next = next, !.quiet = report.quiet]
  OBVIOUS
<1>3. report' = [r EXCEPT !.advised = report.advised]
  BY <1>1, <1>2 DEF Tells
<1>4. q \in Reports /\ q.pc = "idle" /\ q.kind = report.kind /\ q.said = said
  BY <1>1, NoReportIs DEF Reports, Sayings
<1>5. /\ r \in Reports /\ r.pc = "idle" /\ r.kind = report.kind /\ r.said = said
      /\ r.next = next /\ r.quiet = report.quiet
  BY <1>2, <1>4 DEF Reports, Advices
<1> QED
  BY <1>3, <1>5 DEF Reports

LEMMA BeginsMoves ==
  ASSUME report \in Reports, NEW kind \in {"status", "stop"}, Begins(kind, "list")
  PROVE  /\ report' \in Reports /\ report'.pc = "list" /\ report'.kind = kind
         /\ report'.round = 1 /\ DOMAIN report'.seen = {} /\ report'.said = "none"
         /\ report'.advised = IF report.quiet THEN report.next ELSE "none"
<1> DEFINE a == IF report.quiet THEN report.next ELSE "none"
<1>0. a \in Advices
  BY DEF Reports, Advices
<1>1. PICK q : q = [NoReport EXCEPT !.kind = kind, !.pc = "list"]
  OBVIOUS
<1>2. report' = [q EXCEPT !.round = 1, !.advised = a]
  BY <1>1 DEF Begins
<1> HIDE DEF a
<1>3. /\ q \in Reports /\ q.pc = "list" /\ q.kind = kind /\ q.seen = <<>> /\ q.said = "none"
  BY <1>1, NoReportIs DEF Reports
<1>5. PICK r : r = [q EXCEPT !.round = 1]
  OBVIOUS
<1>6. /\ r \in Reports /\ r.pc = "list" /\ r.kind = kind /\ r.seen = <<>> /\ r.said = "none"
      /\ r.round = 1
  BY <1>3, <1>5 DEF Reports
<1>7. report' = [r EXCEPT !.advised = a]
  BY <1>2, <1>5
<1>4. /\ report' \in Reports /\ report'.pc = "list" /\ report'.kind = kind
      /\ report'.round = 1 /\ report'.seen = <<>> /\ report'.said = "none"
      /\ report'.advised = a
  BY <1>0, <1>6, <1>7 DEF Reports, Advices
<1> QED
  BY <1>4, NothingReported DEF a

(* Where a command has ended, only what was told counts.                   *)
LEMMA ToldIsEnough ==
  ASSUME RpInv, space' \in InstalledSpaces, report' \in Reports, report'.pc = "idle",
         report'.quiet =>
           /\ report'.next = "stop" => Stoppable'
           /\ report'.said \in {"stopped", "healthy"} => report'.next # "install",
         ReportsHelp'
  PROVE  RpInv'
<1>1. OnTheWay' /\ SeenIsThere'
  BY DEF OnTheWay, SeenIsThere
<1>2. AdviceHelps'
  BY DEF AdviceHelps
<1> QED
  BY <1>1, <1>2 DEF RpInv

(* A failure and an answer without a look tell nothing of the containers.   *)
LEMMA NothingTold ==
  ASSUME RpInv, space' = space, report' \in Reports, report'.pc = "idle",
         report'.said \notin {"stopped", "healthy"}, report'.next = "none",
         report'.advised # "stop" \/ report'.kind # "stop" \/ ~report'.quiet
  PROVE  RpInv'
<1>1. ReportsHelp'
  BY DEF ReportsHelp, Restopped
<1> QED
  BY <1>1, ToldIsEnough DEF RpInv, AdviceHelps

LEMMA StatusKept ==
  ASSUME RpInv, Status \/ Stop \/ StopAbsent
  PROVE  RpInv'
<1>0. /\ space \in InstalledSpaces /\ report \in Reports /\ report.pc = "idle"
      /\ space' = space /\ OnTheWay /\ SeenIsThere /\ AdviceHelps
  BY DEF RpInv, Status, Stop, StopAbsent
<1>1. ASSUME NEW kind \in {"status", "stop"}, NEW said \in {"busy", "absent", "failed"},
             report' = [NoReport EXCEPT !.kind = kind, !.said = said]
      PROVE  RpInv'
  <2>1. /\ report' \in Reports /\ report'.pc = "idle" /\ report'.said = said
        /\ report'.next = "none" /\ report'.advised = "none"
    BY <1>1, NoReportIs DEF Reports
  <2> QED
    BY <1>0, <2>1, NothingTold
<1>2. ASSUME NEW kind \in {"status", "stop"}, Begins(kind, "list")
      PROVE  RpInv'
  <2>1. /\ report' \in Reports /\ report'.pc = "list" /\ report'.kind = kind
        /\ report'.round = 1 /\ DOMAIN report'.seen = {} /\ report'.said = "none"
        /\ report'.advised = IF report.quiet THEN report.next ELSE "none"
    BY <1>0, <1>2, BeginsMoves
  <2>2. report'.advised = "stop" => Stoppable
    BY <1>0, <2>1 DEF AdviceHelps
  <2>3. OnTheWay' /\ SeenIsThere'
    BY <2>1 DEF OnTheWay, SeenIsThere
  <2>4. AdviceHelps'
    BY <1>0, <2>1, <2>2 DEF AdviceHelps, Stoppable
  <2> QED
    BY <1>0, <2>1, <2>3, <2>4 DEF RpInv, ReportsHelp, Restopped
<1>3. CASE Status
  BY <1>1, <1>2, <1>3 DEF Status
<1>4. CASE Stop
  BY <1>2, <1>4 DEF Stop
<1>5. CASE StopAbsent
  BY <1>1, <1>5 DEF StopAbsent
<1> QED
  BY <1>3, <1>4, <1>5

LEMMA ListKept ==
  ASSUME RpInv, List
  PROVE  RpInv'
<1>0. /\ space \in InstalledSpaces /\ report \in Reports /\ report.pc = "list"
      /\ space' = space /\ OnTheWay /\ AdviceHelps
  BY DEF RpInv, List
<1> DEFINE p == IF report.kind = "stop" /\ report.round = 1 THEN "record" ELSE "static"
<1>1. report' = [report EXCEPT !.listed = Present, !.pc = p]
  BY DEF List
<1>2. Present \in SUBSET Components
  BY DEF Present
<1>3. /\ report' \in Reports /\ report'.pc = p /\ report'.listed = Present
      /\ report'.kind = report.kind /\ report'.seen = report.seen
      /\ report'.round = report.round /\ report'.quiet = report.quiet
      /\ report'.advised = report.advised
  BY <1>0, <1>1, <1>2 DEF Reports
<1>4. OnTheWay'
  BY <1>0, <1>3 DEF OnTheWay
<1>5. SeenIsThere' /\ AdviceHelps'
  BY <1>0, <1>3 DEF OnTheWay, SeenIsThere, AdviceHelps, Stoppable, RestOf, Present
<1> QED
  BY <1>0, <1>3, <1>4, <1>5 DEF RpInv, ReportsHelp, Restopped

LEMMA WriteStoppedKept ==
  ASSUME RpInv, WriteStopped
  PROVE  RpInv'
<1>0. /\ space \in InstalledSpaces /\ report \in Reports /\ report.pc = "record"
      /\ OnTheWay /\ SeenIsThere /\ AdviceHelps /\ space' = [space EXCEPT !.stop = TRUE]
  BY DEF RpInv, WriteStopped
<1>1. /\ report' \in Reports /\ report'.pc = "stopTeam" /\ report'.round = report.round
      /\ SameReport
  BY <1>0, ReportAtMoves DEF WriteStopped, ReportSteps
<1>2. /\ space' \in InstalledSpaces /\ space'.at = space.at /\ space'.stop
      /\ space'.detached = space.detached
  BY <1>0 DEF InstalledSpaces
<1>3. OnTheWay'
  BY <1>0, <1>1, <1>2 DEF OnTheWay, SameReport
<1>4. SeenIsThere' /\ AdviceHelps'
  BY <1>0, <1>1, <1>2
     DEF SameReport, SeenIsThere, AdviceHelps, Stoppable, Present
<1> QED
  BY <1>1, <1>2, <1>3, <1>4 DEF RpInv, ReportsHelp, Restopped

(* What docker stop makes of the containers.                               *)
RestsAll(cs, code) == space' = [space EXCEPT !.at = StoppedOf(cs, code)]

LEMMA StoppedIs ==
  ASSUME space \in InstalledSpaces, NEW cs \in SUBSET Components, NEW code \in Exited,
         RestsAll(cs, code)
  PROVE  /\ space' \in InstalledSpaces
         /\ space'.stop = space.stop /\ space'.detached = space.detached
         /\ \A c \in Components :
              \/ space'.at[c] = space.at[c]
                 /\ (c \in cs => space.at[c] \notin Health \cup {"restarting"})
              \/ /\ c \in cs /\ space.at[c] \in Health \cup {"restarting"}
                 /\ space'.at[c] = IF c = "init" THEN code ELSE "exited"
<1> DEFINE a == StoppedOf(cs, code)
<1>1. a \in [Components -> Runtime]
  BY DEF StoppedOf, InstalledSpaces, Runtime, Exited
<1>2. \A c \in Components :
        a[c] = IF c \notin cs \/ space.at[c] \notin Health \cup {"restarting"}
                 THEN space.at[c] ELSE IF c = "init" THEN code ELSE "exited"
  BY DEF StoppedOf
<1> HIDE DEF a
<1>3. space' = [space EXCEPT !.at = a]
  BY DEF a, RestsAll
<1>4. /\ space' \in InstalledSpaces /\ space'.at = a
      /\ space'.stop = space.stop /\ space'.detached = space.detached
  BY <1>1, <1>3 DEF InstalledSpaces
<1> QED
  BY <1>2, <1>4

LEMMA StopListedKept ==
  ASSUME RpInv, NEW pc, NEW cs, NEW then, StopListed(pc, cs, then),
         \/ pc = "stopTeam" /\ cs = report.listed \cap {"team"} /\ then = "stopRest"
         \/ pc = "stopRest" /\ cs = report.listed \ {"team"} /\ then = "list"
  PROVE  RpInv'
<1>0. /\ space \in InstalledSpaces /\ report \in Reports
      /\ report.pc = pc /\ report.kind = "stop" /\ space.stop /\ DOMAIN report.seen = {}
      /\ OnTheWay /\ SeenIsThere /\ AdviceHelps
  BY DEF RpInv, OnTheWay, StopListed
<1>1. cs \in SUBSET Components
  BY <1>0 DEF Reports
<1>2. PICK code \in Exited : RestsAll(cs, code)
  BY DEF StopListed, RestsAll
<1>3. /\ space' \in InstalledSpaces
      /\ space'.stop = space.stop /\ space'.detached = space.detached
      /\ \A c \in Components :
           \/ space'.at[c] = space.at[c]
              /\ (c \in cs => space.at[c] \notin Health \cup {"restarting"})
           \/ /\ c \in cs /\ space.at[c] \in Health \cup {"restarting"}
              /\ space'.at[c] = IF c = "init" THEN code ELSE "exited"
  BY <1>0, <1>1, <1>2, StoppedIs
<1>4. Present' = Present
  BY <1>0, <1>3 DEF Present, Exited, Health
<1>5. Stoppable => Stoppable'
  <2>1. Serving \subseteq Components /\ "init" \in Components /\ Apps \subseteq Components
    BY DEF Components, Static
  <2> QED
    BY <1>3, <2>1, ReportAssumption DEF Stoppable, Health, Serving
<1>6. Stoppable /\ RestOf({"team"}) => RestOf({"team"})'
  BY <1>3 DEF RestOf, Exited, Health, Components, Static, Serving
<1>7. CASE ~(cs \subseteq Present)
  <2>1. /\ report' \in Reports /\ report'.pc = "idle" /\ report'.said = "failed"
        /\ report'.next = "none" /\ report'.quiet = report.quiet
    BY <1>0, <1>7, TellsMoves DEF StopListed, Sayings, Advices
  <2>2. ~report.quiet
    BY <1>0, <1>7 DEF SeenIsThere
  <2> QED
    BY <1>3, <1>4, <2>1, <2>2, ToldIsEnough DEF ReportsHelp, Restopped
<1>8. CASE cs \subseteq Present
  <2>1. report' = [report EXCEPT !.pc = then, !.round = 2] /\ then \in {"stopRest", "list"}
    BY <1>8 DEF StopListed
  <2>2. /\ report' \in Reports /\ report'.pc = then /\ report'.round = 2
        /\ report'.kind = "stop" /\ report'.listed = report.listed
        /\ report'.seen = report.seen /\ report'.quiet = report.quiet
        /\ report'.advised = report.advised
    <3>1. PICK q : q = [report EXCEPT !.pc = then]
      OBVIOUS
    <3>2. report' = [q EXCEPT !.round = 2]
      BY <2>1, <3>1
    <3>3. /\ q \in Reports /\ q.pc = then /\ q.kind = "stop" /\ q.listed = report.listed
          /\ q.seen = report.seen /\ q.quiet = report.quiet /\ q.advised = report.advised
      BY <1>0, <2>1, <3>1 DEF Reports
    <3> QED
      BY <3>2, <3>3 DEF Reports
  <2>3. OnTheWay'
    BY <1>0, <1>3, <2>1, <2>2 DEF OnTheWay
  <2>4. SeenIsThere'
    BY <1>0, <1>4, <2>1, <2>2 DEF SeenIsThere
  <2>5. ASSUME report.quiet, Stoppable, pc = "stopTeam"
        PROVE  RestOf({"team"})'
    <3>1. "team" \in Components /\ (space.at["team"] = "missing" \/ "team" \in cs)
      BY <1>0, <2>5 DEF SeenIsThere, Present, Components, Static, Serving
    <3>2. space.at["team"] # "dead" /\ space.at["team"] \in Runtime
      BY <1>0, <2>5, <3>1 DEF Stoppable, Serving, InstalledSpaces
    <3> QED
      BY <1>3, <3>1, <3>2 DEF RestOf, Exited, Health, Runtime
  <2>6. ASSUME report.quiet, Stoppable, pc = "stopRest", RestOf({"team"})
        PROVE  RestOf(Components)'
    <3> SUFFICES ASSUME NEW c \in Components
                 PROVE  space'.at[c] \in Exited \cup {"missing", "removing", "created"}
      BY DEF RestOf
    <3>1. CASE c = "team"
      BY <1>5, <1>6, <2>6, <3>1 DEF RestOf
    <3>2. CASE c # "team" /\ space.at[c] = "missing"
      BY <1>3, <3>2 DEF Health
    <3>3. CASE c = "init"
      BY <1>3, <2>6, <3>3 DEF Stoppable, Exited, Health
    <3>4. CASE c \notin {"team", "init"} /\ space.at[c] # "missing"
      <4>1. c \in cs
        BY <1>0, <2>6, <3>4 DEF SeenIsThere, Present
      <4>2. space.at[c] # "dead" /\ space.at[c] \in Runtime
        BY <1>0, <2>6, <3>4 DEF Stoppable, Components, Static, InstalledSpaces
      <4> QED
        BY <1>3, <3>4, <4>1, <4>2 DEF Exited, Health, Runtime
    <3> QED
      BY <3>1, <3>2, <3>3, <3>4
  <2>7. AdviceHelps'
    BY <1>0, <1>4, <1>5, <2>2, <2>5, <2>6 DEF AdviceHelps
  <2> QED
    BY <1>3, <2>1, <2>2, <2>3, <2>4, <2>7 DEF RpInv, ReportsHelp, Restopped
<1> QED
  BY <1>7, <1>8

(* What an inspection of some containers makes of what was seen.           *)
LEMMA ObservesTyped ==
  ASSUME RpTyped, NEW pc, NEW cs \in SUBSET Components, NEW then \in ReportSteps,
         Observes(pc, cs, then), report.listed \cap cs \subseteq Present
  PROVE  /\ report' \in Reports /\ report'.pc = then
         /\ report'.kind = report.kind /\ report'.listed = report.listed
         /\ report'.round = report.round /\ report'.quiet = report.quiet
         /\ report'.advised = report.advised
         /\ DOMAIN report'.seen = DOMAIN report.seen \cup cs
         /\ \A c \in DOMAIN report.seen \ cs : report'.seen[c] = report.seen[c]
         /\ \A c \in cs :
              report'.seen[c] = IF c \in report.listed THEN space.at[c] ELSE "missing"
<1>0. space \in InstalledSpaces /\ report \in Reports
  BY DEF RpTyped
<1> DEFINE seen == [ c \in DOMAIN report.seen \cup cs |->
                       IF c \notin cs THEN report.seen[c]
                       ELSE IF c \in report.listed THEN space.at[c] ELSE "missing" ]
<1>1. report' = [report EXCEPT !.pc = then, !.seen = seen]
  BY DEF Observes
<1>2. PICK D \in SUBSET Components : report.seen \in [D -> Runtime]
  BY <1>0 DEF Reports, Observation
<1>3. seen \in [D \cup cs -> Runtime]
  BY <1>0, <1>2 DEF InstalledSpaces, Runtime
<1>4. seen \in Observation
  <2>1. D \cup cs \in SUBSET Components
    BY <1>2
  <2> HIDE DEF seen
  <2> QED
    BY <1>3, <2>1 DEF Observation
<1>5. /\ DOMAIN seen = DOMAIN report.seen \cup cs
      /\ \A c \in DOMAIN report.seen \ cs : seen[c] = report.seen[c]
      /\ \A c \in cs : seen[c] = IF c \in report.listed THEN space.at[c] ELSE "missing"
  OBVIOUS
<1> HIDE DEF seen
<1>6. PICK q : q = [report EXCEPT !.pc = then]
  OBVIOUS
<1>7. report' = [q EXCEPT !.seen = seen]
  BY <1>1, <1>6
<1>8. /\ q \in Reports /\ q.pc = then /\ q.kind = report.kind /\ q.listed = report.listed
      /\ q.round = report.round /\ q.quiet = report.quiet /\ q.advised = report.advised
  BY <1>0, <1>6 DEF Reports, ReportSteps
<1>9. /\ report' \in Reports /\ report'.pc = then /\ report'.seen = seen
      /\ report'.kind = report.kind /\ report'.listed = report.listed
      /\ report'.round = report.round /\ report'.quiet = report.quiet
      /\ report'.advised = report.advised
  BY <1>4, <1>7, <1>8 DEF Reports
<1> QED
  BY <1>5, <1>9

LEMMA ObservesMoves ==
  ASSUME RpInv, NEW pc \in {"static", "apps"}, NEW cs \in SUBSET Components,
         NEW then \in ReportSteps,
         Observes(pc, cs, then)
  PROVE  /\ report.pc = pc /\ space' = space
         /\ \/ RpInv'
            \/ /\ report' \in Reports /\ report'.pc = then
               /\ report'.kind = report.kind /\ report'.listed = report.listed
               /\ report'.round = report.round /\ report'.quiet = report.quiet
               /\ report'.advised = report.advised
               /\ DOMAIN report'.seen = DOMAIN report.seen \cup cs
               /\ \A c \in DOMAIN report.seen \ cs : report'.seen[c] = report.seen[c]
               /\ \A c \in cs :
                    report'.seen[c] = IF c \in report.listed THEN space.at[c] ELSE "missing"
<1>0. /\ space \in InstalledSpaces /\ report \in Reports /\ report.pc = pc /\ space' = space
      /\ SeenIsThere /\ OnTheWay
  BY DEF RpInv, Observes
<1>1. CASE ~(report.listed \cap cs \subseteq Present)
  <2>1. /\ report' \in Reports /\ report'.pc = "idle" /\ report'.said = "failed"
        /\ report'.next = "none" /\ report'.quiet = report.quiet
    BY <1>0, <1>1, TellsMoves DEF Observes, Sayings, Advices
  <2>2. ~report.quiet
    BY <1>0, <1>1 DEF SeenIsThere
  <2> QED
    BY <1>0, <2>1, <2>2, NothingTold
<1>2. CASE report.listed \cap cs \subseteq Present
  BY <1>0, <1>2, ObservesTyped DEF RpTyped
<1> QED
  BY <1>1, <1>2

LEMMA ObserveStaticKept ==
  ASSUME RpInv, ObserveStatic
  PROVE  RpInv'
<1>0. /\ space \in InstalledSpaces /\ report \in Reports /\ OnTheWay /\ SeenIsThere
      /\ AdviceHelps
  BY DEF RpInv
<1>1. Static \in SUBSET Components
  BY DEF Components
<1>2. /\ report.pc = "static" /\ space' = space
      /\ \/ RpInv'
         \/ /\ report' \in Reports /\ report'.pc = "apps"
            /\ report'.kind = report.kind /\ report'.listed = report.listed
            /\ report'.round = report.round /\ report'.quiet = report.quiet
            /\ report'.advised = report.advised
            /\ DOMAIN report'.seen = DOMAIN report.seen \cup Static
            /\ \A c \in Static :
                 report'.seen[c] = IF c \in report.listed THEN space.at[c] ELSE "missing"
  BY <1>1, ObservesMoves DEF ObserveStatic, ReportSteps
<1>3. CASE /\ report' \in Reports /\ report'.pc = "apps"
           /\ report'.kind = report.kind /\ report'.listed = report.listed
           /\ report'.round = report.round /\ report'.quiet = report.quiet
           /\ report'.advised = report.advised
           /\ DOMAIN report'.seen = DOMAIN report.seen \cup Static
           /\ \A c \in Static :
                report'.seen[c] = IF c \in report.listed THEN space.at[c] ELSE "missing"
  <2>1. OnTheWay'
    BY <1>0, <1>2, <1>3 DEF OnTheWay
  <2>2. report.quiet => report.listed = Present
    BY <1>0, <1>2 DEF SeenIsThere
  <2>3. report.quiet => \A c \in Static : report'.seen[c] = space.at[c]
    BY <1>1, <1>3, <2>2 DEF Present
  <2>4. SeenIsThere'
    BY <1>2, <1>3, <2>2, <2>3 DEF SeenIsThere, Present
  <2>5. AdviceHelps'
    BY <1>0, <1>2, <1>3 DEF AdviceHelps, Stoppable, RestOf
  <2> QED
    BY <1>0, <1>2, <1>3, <2>1, <2>4, <2>5 DEF RpInv, ReportsHelp, Restopped
<1> QED
  BY <1>2, <1>3

LEMMA ObserveAppsKept ==
  ASSUME RpInv, ObserveApps
  PROVE  RpInv'
<1>0. /\ space \in InstalledSpaces /\ report \in Reports /\ OnTheWay /\ SeenIsThere
      /\ AdviceHelps
  BY DEF RpInv
<1> DEFINE cs == Apps \cap report.listed
           then == IF report.kind = "stop" THEN "render" ELSE "attach"
<1>1. cs \in SUBSET Components /\ then \in ReportSteps /\ cs \cap Static = {}
  BY ReportAssumption DEF Components, Static, Serving, ReportSteps
<1>a. Observes("apps", cs, then)
  BY DEF ObserveApps
<1> HIDE DEF cs, then
<1>2. /\ report.pc = "apps" /\ space' = space
      /\ \/ RpInv'
         \/ /\ report' \in Reports /\ report'.pc = then
            /\ report'.kind = report.kind /\ report'.listed = report.listed
            /\ report'.round = report.round /\ report'.quiet = report.quiet
            /\ report'.advised = report.advised
            /\ DOMAIN report'.seen = DOMAIN report.seen \cup cs
            /\ \A c \in DOMAIN report.seen \ cs : report'.seen[c] = report.seen[c]
            /\ \A c \in cs :
                 report'.seen[c] = IF c \in report.listed THEN space.at[c] ELSE "missing"
  BY <1>1, <1>a, ObservesMoves
<1>3. CASE /\ report' \in Reports /\ report'.pc = then
           /\ report'.kind = report.kind /\ report'.listed = report.listed
           /\ report'.round = report.round /\ report'.quiet = report.quiet
           /\ report'.advised = report.advised
           /\ DOMAIN report'.seen = DOMAIN report.seen \cup cs
           /\ \A c \in DOMAIN report.seen \ cs : report'.seen[c] = report.seen[c]
           /\ \A c \in cs :
                report'.seen[c] = IF c \in report.listed THEN space.at[c] ELSE "missing"
  <2>1. DOMAIN report.seen = Static /\ report.kind \in {"status", "stop"}
    BY <1>0, <1>2 DEF OnTheWay
  <2>2. OnTheWay'
    BY <1>0, <1>2, <1>3, <2>1 DEF OnTheWay, cs, then
  <2>3. report.quiet => /\ report.listed = Present
                        /\ \A c \in Static : report.seen[c] = space.at[c]
    BY <1>0, <1>2 DEF SeenIsThere
  <2>4. report.quiet => /\ \A c \in Static : report'.seen[c] = space.at[c]
                        /\ \A c \in cs : report'.seen[c] = space.at[c]
    BY <1>1, <1>3, <2>1, <2>3 DEF cs
  <2>5. then = "render" => report.kind = "stop"
    BY DEF then
  <2>6. SeenIsThere'
    BY <1>2, <1>3, <2>3, <2>4, <2>5 DEF SeenIsThere, Present, cs
  <2>7. then # "stopRest" /\ then # "idle" /\ then # "list"
    BY DEF then
  <2>8. AdviceHelps'
    BY <1>0, <1>2, <1>3, <2>7 DEF AdviceHelps, Stoppable, RestOf
  <2> QED
    BY <1>0, <1>2, <1>3, <2>2, <2>6, <2>7, <2>8 DEF RpInv, ReportsHelp, Restopped
<1> QED
  BY <1>2, <1>3

LEMMA ObserveAttachmentKept ==
  ASSUME RpInv, ObserveAttachment
  PROVE  RpInv'
<1>0. /\ space \in InstalledSpaces /\ report \in Reports /\ report.pc = "attach"
      /\ space' = space /\ OnTheWay /\ SeenIsThere /\ AdviceHelps /\ report.kind = "status"
  BY DEF RpInv, ObserveAttachment, OnTheWay
<1> DEFINE apart == {c \in space.detached : space.at[c] \in Health}
<1>1. report' = [report EXCEPT !.pc = "render", !.apart = apart]
  BY DEF ObserveAttachment
<1>2. apart \in SUBSET Serving
  BY <1>0 DEF InstalledSpaces
<1>3. apart' = apart
  BY <1>0
<1> HIDE DEF apart
<1>4. /\ report' \in Reports /\ report'.pc = "render" /\ report'.apart = apart
      /\ report'.kind = report.kind /\ report'.listed = report.listed
      /\ report'.seen = report.seen /\ report'.round = report.round
      /\ report'.quiet = report.quiet /\ report'.advised = report.advised
  <2>1. PICK q : q = [report EXCEPT !.pc = "render"]
    OBVIOUS
  <2>2. report' = [q EXCEPT !.apart = apart]
    BY <1>1, <2>1
  <2>3. /\ q \in Reports /\ q.pc = "render"
        /\ q.kind = report.kind /\ q.listed = report.listed
        /\ q.seen = report.seen /\ q.round = report.round
        /\ q.quiet = report.quiet /\ q.advised = report.advised
    BY <1>0, <2>1 DEF Reports
  <2> QED
    BY <1>2, <2>2, <2>3 DEF Reports
<1>5. OnTheWay'
  BY <1>0, <1>4 DEF OnTheWay
<1>6. SeenIsThere'
  BY <1>0, <1>4 DEF SeenIsThere, Present, apart
<1>7. AdviceHelps'
  BY <1>0, <1>4 DEF AdviceHelps
<1> QED
  BY <1>0, <1>4, <1>5, <1>6, <1>7 DEF RpInv, ReportsHelp, Restopped

(* What a command tells is true, when nobody else changed anything.         *)
LEMMA RenderKept ==
  ASSUME RpInv, Render
  PROVE  RpInv'
<1>0. /\ space \in InstalledSpaces /\ report \in Reports /\ report.pc = "render"
      /\ space' = space /\ OnTheWay /\ SeenIsThere /\ AdviceHelps
      /\ report.kind \in {"status", "stop"}
      /\ report.kind = "stop" => space.stop
      /\ DOMAIN report.seen = Static \cup (Apps \cap report.listed)
  BY DEF RpInv, Render, OnTheWay
<1>1. /\ Static \cap Apps = {} /\ Static = Serving \cup {"init"} /\ "init" \notin Serving
      /\ Components = Static \cup Apps
  BY ReportAssumption DEF Static, Serving, Components
<1>2. SeenApps = Apps \cap report.listed
  BY <1>0, <1>1 DEF SeenApps
<1>3. ASSUME report.quiet
      PROVE  /\ \A c \in Static : report.seen[c] = space.at[c]
             /\ \A a \in SeenApps : report.seen[a] = space.at[a]
             /\ Apps \cap Present = SeenApps
             /\ \A a \in Apps \ SeenApps : space.at[a] = "missing"
             /\ report.kind = "status" =>
                  report.apart = {c \in space.detached : space.at[c] \in Health}
  BY <1>0, <1>1, <1>2, <1>3 DEF SeenIsThere, Present
<1>4. CASE space.stop /\ fully_stopped_seen
  <2>1. Tells("stopped", "start")
    BY <1>4 DEF Render
  <2>2. /\ report' \in Reports /\ report'.pc = "idle" /\ report'.kind = report.kind
        /\ report'.said = "stopped" /\ report'.next = "start"
        /\ report'.quiet = report.quiet /\ report'.advised = report.advised
    BY <1>0, <2>1, TellsMoves DEF Sayings, Advices
  <2>3. report.quiet => \A c \in Present : space.at[c] \in Exited
    <3> SUFFICES ASSUME report.quiet, NEW c \in Present
                 PROVE  space.at[c] \in Exited
      OBVIOUS
    <3>1. c \in Static \cup SeenApps
      BY <1>1, <1>3 DEF Present
    <3>2. \A d \in Static : space.at[d] \in Exited
      BY <1>1, <1>3, <1>4 DEF fully_stopped_seen, static_stopped, Exited
    <3>3. \A a \in SeenApps : space.at[a] \in Exited
      BY <1>3, <1>4 DEF fully_stopped_seen
    <3> QED
      BY <3>1, <3>2, <3>3
  <2>4. ReportsHelp'
    BY <1>0, <1>4, <2>2, <2>3 DEF ReportsHelp, Restopped, Present
  <2> QED
    BY <1>0, <2>2, <2>4, ToldIsEnough DEF AdviceHelps
<1>5. CASE space.stop /\ ~fully_stopped_seen
  <2> DEFINE next == IF stop_requires_reconciliation THEN "install" ELSE "stop"
  <2>1. Tells("attention", next) /\ next \in Advices
    BY <1>5 DEF Render, Advices
  <2> HIDE DEF next
  <2>2. /\ report' \in Reports /\ report'.pc = "idle" /\ report'.kind = report.kind
        /\ report'.said = "attention" /\ report'.next = next
        /\ report'.quiet = report.quiet /\ report'.advised = report.advised
    BY <1>0, <2>1, TellsMoves DEF Sayings
  <2>3. ASSUME report.quiet, next = "stop"
        PROVE  Stoppable
    <3>1. ~stop_requires_reconciliation
      BY <2>3 DEF next
    <3>2. /\ \A c \in Serving : space.at[c] \notin {"missing", "dead"}
          /\ space.at["init"] = "exited0"
      BY <1>1, <1>3, <2>3, <3>1 DEF stop_requires_reconciliation
    <3>3. \A a \in Apps : space.at[a] # "dead"
      BY <1>3, <2>3, <3>1 DEF stop_requires_reconciliation
    <3> QED
      BY <3>2, <3>3 DEF Stoppable
  <2>4. ASSUME report.quiet, Restopped, ~Removing
        PROVE  NeverStarted # {} /\ next = "stop"
    <3>1. /\ Stoppable
          /\ \A c \in Components : space.at[c] \in Exited \cup {"missing", "created"}
      BY <1>0, <2>4 DEF AdviceHelps, RestOf, Restopped, Removing
    <3>2. ASSUME NeverStarted = {} PROVE FALSE
      <4>1. \A c \in Components : space.at[c] \in Exited \cup {"missing"}
        BY <1>1, <3>1, <3>2 DEF NeverStarted, Stoppable, Exited
      <4>2. static_stopped
        BY <1>1, <1>3, <2>4, <3>1, <4>1 DEF static_stopped, Stoppable, Exited
      <4>3. \A a \in SeenApps : report.seen[a] \in Exited
        BY <1>0, <1>1, <1>2, <1>3, <2>4, <4>1 DEF SeenIsThere, Present
      <4> QED
        BY <1>5, <4>2, <4>3 DEF fully_stopped_seen
    <3>3. ~stop_requires_reconciliation
      BY <1>1, <1>2, <1>3, <2>4, <3>1 DEF stop_requires_reconciliation, Stoppable
    <3> QED
      BY <3>2, <3>3 DEF next
  <2>5. ReportsHelp'
    BY <1>0, <2>2, <2>4 DEF ReportsHelp, Restopped, Removing, NeverStarted
  <2> QED
    BY <1>0, <2>2, <2>3, <2>5, ToldIsEnough DEF AdviceHelps, Stoppable
<1>6. CASE ~space.stop /\ Problems
  <2>1. Tells("attention", "start")
    BY <1>6 DEF Render
  <2>2. /\ report' \in Reports /\ report'.pc = "idle" /\ report'.kind = report.kind
        /\ report'.said = "attention" /\ report'.next = "start"
        /\ report'.quiet = report.quiet /\ report'.advised = report.advised
    BY <1>0, <2>1, TellsMoves DEF Sayings, Advices
  <2>3. ReportsHelp'
    BY <1>0, <1>6, <2>2 DEF ReportsHelp, Restopped
  <2> QED
    BY <1>0, <2>2, <2>3, ToldIsEnough DEF AdviceHelps
<1>7. CASE ~space.stop /\ ~Problems
  <2>1. Tells("healthy", "none")
    BY <1>7 DEF Render
  <2>2. /\ report' \in Reports /\ report'.pc = "idle" /\ report'.kind = report.kind
        /\ report'.said = "healthy" /\ report'.next = "none"
        /\ report'.quiet = report.quiet /\ report'.advised = report.advised
    BY <1>0, <2>1, TellsMoves DEF Sayings, Advices
  <2>3. ASSUME report.quiet
        PROVE  /\ space.current
               /\ \A c \in Serving : space.at[c] = "healthy" /\ c \notin space.detached
               /\ \A a \in Apps \cap Present : space.at[a] \in Health
    <3>1. space.current /\ \A a \in Apps \cap Present : space.at[a] \in Health
      BY <1>3, <1>7, <2>3 DEF Problems
    <3>2. \A c \in Serving : space.at[c] = "healthy" /\ c \notin report.apart
      BY <1>1, <1>3, <1>7, <2>3 DEF Problems, ServiceProblem
    <3>3. report.apart = {c \in space.detached : space.at[c] \in Health}
      BY <1>0, <1>3, <1>7, <2>3
    <3> QED
      BY <3>1, <3>2, <3>3 DEF Health
  <2>4. ReportsHelp'
    BY <1>0, <1>7, <2>2, <2>3 DEF ReportsHelp, Restopped, Present
  <2> QED
    BY <1>0, <2>2, <2>4, ToldIsEnough DEF AdviceHelps
<1> QED
  BY <1>4, <1>5, <1>6, <1>7

LEMMA ObservationFailsKept ==
  ASSUME RpInv, ObservationFails
  PROVE  RpInv'
<1>0. report \in Reports /\ space' = space /\ report.kind \in {"status", "stop"}
  BY DEF RpInv, ObservationFails, OnTheWay, Reports
<1>1. PICK q : q = [NoReport EXCEPT !.kind = report.kind, !.said = "failed"]
  OBVIOUS
<1>2. report' = [q EXCEPT !.quiet = FALSE]
  BY <1>1 DEF ObservationFails
<1>3. q \in Reports /\ q.pc = "idle" /\ q.said = "failed" /\ q.next = "none"
  BY <1>0, <1>1, NoReportIs DEF Reports
<1>4. /\ report' \in Reports /\ report'.pc = "idle" /\ report'.said = "failed"
      /\ report'.next = "none" /\ ~report'.quiet
  BY <1>2, <1>3 DEF Reports
<1> QED
  BY <1>0, <1>4, NothingTold

(* An install as advised leaves a Space that a stop completes.              *)
LEMMA ReconciledIs ==
  ASSUME space \in InstalledSpaces, Reconcile
  PROVE  /\ space' \in InstalledSpaces
         /\ \A c \in Components : space'.at[c] \in {"exited0", "unhealthy", "healthy", "missing"}
         /\ \A c \in Serving : space'.at[c] = "healthy"
         /\ space'.at["init"] = "exited0"
<1> DEFINE a == [c \in Components |->
                   IF c \in Apps /\ space.at[c] = "missing" THEN space.at[c] ELSE InOrder(c)]
<1>1. space' = [space EXCEPT !.at = a, !.detached = {}, !.current = TRUE, !.stop = FALSE]
  BY DEF Reconcile, InstalledSpaces
<1>2. \A c \in Components : a[c] \in {"exited0", "unhealthy", "healthy", "missing"}
  BY DEF InOrder
<1>3. a \in [Components -> Runtime]
  BY <1>2 DEF Runtime, Health
<1>4. /\ \A c \in Serving : a[c] = "healthy"
      /\ a["init"] = "exited0"
  BY ReportAssumption DEF InOrder, Serving, Components, Static
<1> HIDE DEF a
<1>5. /\ space' \in InstalledSpaces /\ space'.at = a
  <2>1. PICK t : t = [space EXCEPT !.at = a, !.detached = {}]
    OBVIOUS
  <2>2. space' = [t EXCEPT !.current = TRUE, !.stop = FALSE]
    BY <1>1, <2>1
  <2>3. t \in InstalledSpaces /\ t.at = a
    BY <1>3, <2>1 DEF InstalledSpaces
  <2> QED
    BY <2>2, <2>3 DEF InstalledSpaces
<1> QED
  BY <1>2, <1>4, <1>5

LEMMA ReconcileKept ==
  ASSUME RpInv, Reconcile
  PROVE  RpInv'
<1>0. /\ space \in InstalledSpaces /\ report \in Reports /\ report.pc = "idle"
      /\ report.said \notin {"stopped", "healthy"}
  BY DEF RpInv, Reconcile
<1>2. /\ space' \in InstalledSpaces
      /\ \A c \in Components : space'.at[c] \in {"exited0", "unhealthy", "healthy", "missing"}
      /\ \A c \in Serving : space'.at[c] = "healthy"
      /\ space'.at["init"] = "exited0"
  BY <1>0, ReconciledIs
<1>6. /\ report' \in Reports /\ report'.pc = "idle" /\ report'.kind = "install"
      /\ report'.next = "stop" /\ report'.said = report.said
  BY <1>0 DEF Reconcile, Reports
<1>7. Stoppable'
  <2>1. Apps \subseteq Components
    BY DEF Components
  <2> QED
    BY <1>2, <2>1 DEF Stoppable
<1>8. ReportsHelp'
  BY <1>0, <1>6 DEF ReportsHelp, Restopped
<1> QED
  BY <1>0, <1>2, <1>6, <1>7, <1>8, ToldIsEnough

(* What others change, no command answers for.                             *)
LEMMA ChangesTyped ==
  ASSUME space \in InstalledSpaces, NEW c \in Components, NEW r \in Runtime, Changes1(c, r)
  PROVE  /\ space' \in InstalledSpaces /\ space'.stop = space.stop
         /\ \A d \in Components : space'.at[d] = IF d = c THEN r ELSE space.at[d]
<1> DEFINE a == [space.at EXCEPT ![c] = r]
<1>1. /\ space' = [space EXCEPT !.at = a, !.changes = space.changes + 1]
      /\ space.changes < MaxChanges
  BY DEF Changes1, InstalledSpaces
<1>2. /\ a \in [Components -> Runtime]
      /\ \A d \in Components : a[d] = IF d = c THEN r ELSE space.at[d]
  BY DEF InstalledSpaces
<1> HIDE DEF a
<1>3. space.changes + 1 \in 0 .. MaxChanges
  BY <1>1, ReportAssumption DEF InstalledSpaces
<1>4. space' \in InstalledSpaces /\ space'.at = a /\ space'.stop = space.stop
  BY <1>1, <1>2, <1>3 DEF InstalledSpaces
<1> QED
  BY <1>2, <1>4

LEMMA ChangesKept ==
  ASSUME RpInv, NEW c \in Components, NEW r \in Runtime, Changes1(c, r)
  PROVE  RpInv'
<1>0. /\ space \in InstalledSpaces /\ report \in Reports /\ OnTheWay /\ AdviceHelps
  BY DEF RpInv
<1>5. /\ space' \in InstalledSpaces /\ space'.stop = space.stop
      /\ \A d \in Components : space'.at[d] = IF d = c THEN r ELSE space.at[d]
  BY <1>0, ChangesTyped
<1>6. /\ report' \in Reports /\ ~report'.quiet /\ report'.pc = report.pc
      /\ report'.kind = report.kind /\ report'.round = report.round
      /\ report'.seen = report.seen /\ report'.listed = report.listed
  BY <1>0 DEF Changes1, Reports
<1>7. OnTheWay'
  BY <1>0, <1>5, <1>6 DEF OnTheWay
<1>8. AdviceHelps'
  BY <1>0, <1>5, <1>6 DEF AdviceHelps
<1> QED
  BY <1>5, <1>6, <1>7, <1>8 DEF RpInv, SeenIsThere, ReportsHelp, Restopped

LEMMA ReportStartsTyped ==
  ASSUME ReportInit
  PROVE  RpTyped /\ report = NoReport
<1>a. PICK rest, stop, current, marked \in BOOLEAN, odd \in Components,
           detached \in SUBSET {"brain"} :
        \E r \in Runtime :
          /\ rest \/ stop \/ ~marked => current /\ detached = {}
          /\ stop => marked
          /\ space = [ at |-> [ c \in Components |->
                         IF c = odd THEN r ELSE IF rest THEN Rested(c) ELSE InOrder(c) ],
                       detached |-> detached, stop |-> stop, current |-> current,
                       marked |-> marked, changes |-> 0 ]
  BY Zenon DEF ReportInit
<1>1. PICK r \in Runtime :
        /\ rest \/ stop \/ ~marked => current /\ detached = {}
        /\ stop => marked
        /\ space = [ at |-> [ c \in Components |->
                       IF c = odd THEN r ELSE IF rest THEN Rested(c) ELSE InOrder(c) ],
                     detached |-> detached, stop |-> stop, current |-> current,
                     marked |-> marked, changes |-> 0 ]
  BY <1>a
<1> DEFINE a == [ c \in Components |->
                    IF c = odd THEN r ELSE IF rest THEN Rested(c) ELSE InOrder(c) ]
<1>2. \A c \in Components :
        \/ a[c] = r /\ c = odd
        \/ a[c] \in {"exited0", "exited", "unhealthy", "healthy"}
  BY DEF Rested, InOrder
<1>3. a \in [Components -> Runtime]
  BY <1>2 DEF Runtime, Health
<1> HIDE DEF a
<1>5. space = [ at |-> a, detached |-> detached, stop |-> stop, current |-> current,
                marked |-> marked, changes |-> 0 ]
  BY <1>1 DEF a
<1>6. detached \in SUBSET Serving /\ 0 \in 0 .. MaxChanges
  BY ReportAssumption DEF Serving
<1>7. space \in InstalledSpaces /\ space.at = a
  BY <1>3, <1>5, <1>6 DEF InstalledSpaces
<1> QED
  BY <1>7, NoReportIs DEF RpTyped, ReportInit

LEMMA ReportStarts ==
  ASSUME ReportInit
  PROVE  RpInv
<1>1. space \in InstalledSpaces /\ report \in Reports
  BY ReportStartsTyped DEF RpTyped
<1>2. /\ report.pc = "idle" /\ report.said = "none"
      /\ report.next = "none" /\ report.advised = "none" /\ report.kind = "none"
  BY ReportStartsTyped, NoReportIs
<1> QED
  BY <1>1, <1>2 DEF RpInv, OnTheWay, SeenIsThere, AdviceHelps, ReportsHelp, Restopped

LEMMA ReportKept ==
  ASSUME RpInv, [ReportNext]_reportVars
  PROVE  RpInv'
<1>1. CASE ReportNext
  <2>1. StopTeamFirst => RpInv'
    BY StopListedKept DEF StopTeamFirst
  <2>2. StopOthers => RpInv'
    BY StopListedKept DEF StopOthers
  <2> QED
    BY <1>1, <2>1, <2>2, StatusKept, ListKept, WriteStoppedKept, ObserveStaticKept,
       ObserveAppsKept, ObserveAttachmentKept, RenderKept, ObservationFailsKept,
       ReconcileKept, ChangesKept DEF ReportNext
<1>2. CASE UNCHANGED reportVars
  BY <1>2 DEF reportVars, RpInv, OnTheWay, SeenIsThere, AdviceHelps, ReportsHelp, Stoppable,
     RestOf, Present, Restopped, Removing, NeverStarted
<1> QED
  BY <1>1, <1>2

(* What stop and status tell of a Space that nobody else changes is true    *)
(* when they tell it, however many commands were there and whatever changed *)
(* before them.  The stop that they tell to run next ends with all of it    *)
(* stopped, unless Docker is still removing a container, or one was never   *)
(* started and the advice is repeated (render, fully_stopped,              *)
(* stop_requires_reconciliation).                                          *)
THEOREM AdviceIsGood == ReportSpec => []ReportsHelp
<1>1. ReportInit => RpInv
  BY ReportStarts
<1>2. RpInv /\ [ReportNext]_reportVars => RpInv'
  BY ReportKept
<1>3. RpInv => ReportsHelp
  BY DEF RpInv
<1> QED
  BY <1>1, <1>2, <1>3, PTL DEF ReportSpec

=============================================================================
