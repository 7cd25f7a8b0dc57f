--------------------------- MODULE BrowserRuntime ---------------------------
(***************************************************************************)
(* The Browser's runtime (src/space/easi.rs): one easi.run installation in  *)
(* the home of the Space, made by its own pinned installer once the Space   *)
(* is ready, and the internal network that its admin shares with Team.  A   *)
(* start makes the network before the members and the installation after    *)
(* them; a reset removes the installation, then the members, then the       *)
(* network.  A host may run an easi.run that this Space did not make.       *)
(***************************************************************************)
EXTENDS Naturals

CONSTANT BrowserFaults  \* bound: calls and programs that fail, commands killed

ASSUME BrowserAssumption == BrowserFaults \in Nat

VARIABLES browser, visit

browserVars == <<browser, visit>>

(* The release this CLI pins, and the one an earlier CLI pinned.  A bare    *)
(* checkout has its .git alone, a mixed one was left half way by the        *)
(* installer, and rest is what a removal left without its .git.             *)
Pinned    == "new"
Checkouts == {"none", "bare", "old", "new", "mixed", "rest"}

(* space: members on the network; orphan: an installer whose bash was       *)
(* killed goes on, or did; broke: an installation broke off since the       *)
(* marker was written; unseen: a foreign admin came after the last look at  *)
(* the owner, or that look failed.                                         *)
BrowserTypeOK ==
  /\ browser \in
       [ network : {"none", "ours", "odd"}, checkout : Checkouts,
         configured : BOOLEAN, marker : {"none", "torn", "old", "new"},
         admin : {"none", "ours", "foreign"}, space : BOOLEAN,
         orphan : {"none", "runs", "over"}, broke : BOOLEAN, unseen : BOOLEAN,
         faults : 0 .. BrowserFaults ]
  /\ visit \in
       [ pc : {"idle", "network", "create", "up", "look", "download", "clone",
               "checkout", "configure", "install", "mark", "git", "owner",
               "end", "directory", "records", "members", "net"},
         end : {"none", "failed", "ready", "unavailable", "reset"} ]

NoVisit == [pc |-> "idle", end |-> "none"]

(* Fresh, or as the CLI of an earlier release left it.                      *)
BrowserInit ==
  /\ \E admin \in {"none", "ours", "foreign"}, old \in BOOLEAN :
       /\ admin = "ours" => old
       /\ browser = [ network |-> IF old THEN "ours" ELSE "none",
                      checkout |-> IF old THEN "old" ELSE "none",
                      configured |-> old, marker |-> IF old THEN "old" ELSE "none",
                      admin |-> admin, space |-> old, orphan |-> "none", broke |-> FALSE,
                      unseen |-> FALSE, faults |-> 0 ]
  /\ visit = NoVisit

Visits(pc) == visit' = [visit EXCEPT !.pc = pc]
Leaves(end) == visit' = [NoVisit EXCEPT !.end = end]

Breaks ==
  /\ browser.faults < BrowserFaults
  /\ browser' = [browser EXCEPT !.faults = @ + 1]

----------------------------------------------------------------------------
(* A start.                                                                *)

StartRuns ==
  /\ visit.pc = "idle"
  /\ visit' = [NoVisit EXCEPT !.pc = "network"]
  /\ UNCHANGED browser

(* ensure_network: one that is there must have exactly the shape.           *)
EnsureNetwork ==
  /\ visit.pc = "network"
  /\ CASE browser.network = "none" -> Visits("create")
       [] browser.network = "ours" -> Visits("up")
       [] OTHER                    -> Leaves("failed")
  /\ UNCHANGED browser

CreateNetwork ==
  /\ visit.pc = "create"
  /\ IF browser.network = "none"
       THEN Visits("up") /\ browser' = [browser EXCEPT !.network = "ours"]
       ELSE Leaves("failed") /\ UNCHANGED browser

(* compose_up, and the rest of the apply, which may fail with members up.   *)
MembersUp ==
  /\ visit.pc = "up"
  /\ IF browser.network = "none"
       THEN Leaves("failed") /\ UNCHANGED browser
       ELSE /\ browser' = [browser EXCEPT !.space = TRUE]
            /\ Visits("look") \/ Leaves("failed")

(* admin_owner: an inspection that fails is taken for an absent admin.      *)
AdminOwner(owner) ==
  \/ /\ owner = browser.admin
     /\ browser' = [browser EXCEPT !.unseen = FALSE]
  \/ /\ owner = "none" /\ browser.faults < BrowserFaults
     /\ browser' = [browser EXCEPT !.faults = @ + 1,
                                   !.unseen = browser.admin = "foreign"]

(* install: the owner of the admin, and whether the marker is current.      *)
LookBeforeInstall ==
  /\ visit.pc = "look"
  /\ \E owner \in {"none", "ours", "foreign"} :
       /\ AdminOwner(owner)
       /\ IF owner = "foreign" THEN Leaves("unavailable")
          ELSE IF owner = "ours" /\ browser.marker = Pinned THEN Leaves("ready")
          ELSE Visits("download")

HasGit == browser.checkout \notin {"none", "rest"}

(* The pinned installer, by its digest; a checkout with a .git is updated.  *)
DownloadInstaller ==
  /\ visit.pc = "download"
  /\ Visits(IF HasGit THEN "configure" ELSE "clone")
  /\ UNCHANGED browser

(* prepare_checkout: git clones into no directory that holds anything.      *)
CloneCheckout ==
  /\ visit.pc = "clone"
  /\ IF browser.checkout = "none"
       THEN Visits("checkout") /\ browser' = [browser EXCEPT !.checkout = "bare"]
       ELSE Leaves("unavailable") /\ UNCHANGED browser

CheckOutRelease ==
  /\ visit.pc = "checkout"
  /\ browser' = [browser EXCEPT !.checkout = Pinned]
  /\ Visits("configure")

WriteConfiguration ==
  /\ visit.pc = "configure"
  /\ browser' = [browser EXCEPT !.configured = TRUE]
  /\ Visits("install")

(* External: the installer brings the checkout to its release and the admin *)
(* up, in the place of a foreign one if it can; one that fails may stop     *)
(* anywhere.                                                               *)
BrokenOff(checkout, admin) ==
  [browser EXCEPT !.checkout = checkout, !.admin = admin, !.broke = TRUE,
                  !.faults = @ + 1]

Halfway ==
  { BrokenOff(checkout, admin) :
      checkout \in {browser.checkout, "mixed"},
      admin \in IF browser.admin = "ours" THEN {"ours"} ELSE {browser.admin, "ours"} }

RunInstaller ==
  /\ visit.pc = "install"
  /\ \/ /\ browser' = [browser EXCEPT !.checkout = Pinned, !.admin = "ours"]
        /\ Visits("mark")
     \/ /\ browser.faults < BrowserFaults
        /\ browser' \in Halfway
        /\ Leaves("unavailable")
     \/ /\ browser.admin = "foreign"     \* which keeps the installer out
        /\ UNCHANGED browser /\ Leaves("unavailable")

(* Past INSTALL_BUDGET the shell is killed, and what it started goes on.    *)
InstallerOutlives ==
  /\ visit.pc = "install" /\ browser.faults < BrowserFaults
  /\ browser' \in {[b EXCEPT !.orphan = "runs"] : b \in Halfway}
  /\ Leaves("unavailable")

(* The last write: the release of what was installed.                       *)
KeepMarker ==
  /\ visit.pc = "mark"
  /\ browser' = [browser EXCEPT !.marker = Pinned, !.broke = FALSE]
  /\ Leaves("ready")

----------------------------------------------------------------------------
(* A reset, plain or hard.                                                 *)

ResetRuns ==
  /\ visit.pc = "idle"
  /\ visit' = [NoVisit EXCEPT !.pc = "git"]
  /\ UNCHANGED browser

(* uninstall: only an installation with a .git is ours to end, and only     *)
(* when no other runs.                                                      *)
FindCheckout ==
  /\ visit.pc = "git"
  /\ Visits(IF HasGit THEN "owner" ELSE "records")
  /\ UNCHANGED browser

(* Mutant: the uninstaller runs whoever owns the admin.                     *)
UninstallAnyway ==
  /\ visit.pc = "owner"
  /\ \E owner \in {"none", "ours", "foreign"} : AdminOwner(owner)
  /\ Visits("end")

(* Mutant: the checkout goes without its uninstaller.                       *)
RemoveUnended ==
  /\ visit.pc = "owner"
  /\ \E owner \in {"none", "ours", "foreign"} : AdminOwner(owner)
  /\ Visits("directory")

LookBeforeUninstall ==
  /\ visit.pc = "owner"
  /\ \E owner \in {"none", "ours", "foreign"} :
       /\ AdminOwner(owner)
       /\ Visits(IF owner = "foreign" THEN "directory" ELSE "end")

(* External: the uninstaller of the checkout ends an admin of ours, and     *)
(* maybe one that is not.                                                  *)
RunUninstaller ==
  /\ visit.pc = "end"
  /\ IF browser.checkout = "bare"      \* no install.sh in it
       THEN Leaves("failed") /\ UNCHANGED browser
       ELSE /\ Visits("directory")
            /\ browser' \in { [browser EXCEPT !.admin = a] :
                               a \in IF browser.admin = "foreign"
                                       THEN {"none", "foreign"} ELSE {"none"} }

RemoveCheckout ==
  /\ visit.pc = "directory"
  /\ browser' = [browser EXCEPT !.checkout = "none", !.configured = FALSE]
  /\ Visits("records")

RemoveRecords ==
  /\ visit.pc = "records"
  /\ browser' = [browser EXCEPT !.marker = "none", !.broke = FALSE]
  /\ Visits("members")

(* Inventory::remove.                                                      *)
RemoveMembers ==
  /\ visit.pc = "members"
  /\ browser' = [browser EXCEPT !.space = FALSE]
  /\ Visits("net")

(* remove_network: Docker keeps one that somebody is attached to.           *)
RemoveNetwork ==
  /\ visit.pc = "net"
  /\ IF browser.network # "none" /\ (browser.admin = "ours" \/ browser.space)
       THEN Leaves("failed") /\ UNCHANGED browser
       ELSE Leaves("reset") /\ browser' = [browser EXCEPT !.network = "none"]

----------------------------------------------------------------------------
(* What goes wrong, and who else acts.                                     *)

(* A call or a program fails: the installation only leaves the Browser      *)
(* unavailable.                                                            *)
VisitFails ==
  /\ visit.pc \notin {"idle", "git", "install"}
  /\ Leaves(IF visit.pc \in {"look", "download", "clone", "checkout",
                             "configure", "mark"}
              THEN "unavailable" ELSE "failed")
  /\ Breaks

(* keep truncates before it writes, and remove_dir_all goes file by file.    *)
KilledMidway ==
  /\ visit.pc \in {"mark", "directory", "clone"}
  /\ browser.faults < BrowserFaults
  /\ browser' =
       [browser EXCEPT !.faults = @ + 1,
          !.marker = IF visit.pc = "mark" THEN "torn" ELSE @,
          !.checkout = CASE visit.pc = "directory" -> "rest"
                         [] visit.pc = "clone" /\ @ = "none" -> "bare"
                         [] OTHER -> @]
  /\ Leaves("failed")

(* The orphaned installer brings its admin up, or ends.                     *)
OrphanActs ==
  /\ browser.orphan = "runs"
  /\ \/ /\ browser.admin = "none"
        /\ browser' = [browser EXCEPT !.admin = "ours"]
     \/ browser' = [browser EXCEPT !.orphan = "over"]
  /\ UNCHANGED visit

(* Somebody installs an easi.run of their own, or removes any.              *)
OwnerActs ==
  /\ browser' \in { [browser EXCEPT !.admin = a, !.unseen = a = "foreign"] :
                      a \in {"none"} \cup (IF browser.admin = "none"
                                             THEN {"foreign"} ELSE {}) }
  /\ browser'.admin # browser.admin
  /\ UNCHANGED visit

(* With nobody on the network, somebody may make it anew.                   *)
NetworkChanges ==
  /\ ~browser.space /\ browser.admin # "ours"
  /\ \E n \in {"none", "odd"} \ {browser.network} :
       browser' = [browser EXCEPT !.network = n]
  /\ UNCHANGED visit

BrowserNext ==
  \/ StartRuns \/ EnsureNetwork \/ CreateNetwork \/ MembersUp
  \/ LookBeforeInstall \/ DownloadInstaller \/ CloneCheckout
  \/ CheckOutRelease \/ WriteConfiguration \/ RunInstaller
  \/ InstallerOutlives \/ KeepMarker
  \/ ResetRuns \/ FindCheckout \/ LookBeforeUninstall \/ RunUninstaller
  \/ RemoveCheckout
  \/ RemoveRecords \/ RemoveMembers \/ RemoveNetwork
  \/ VisitFails \/ KilledMidway \/ OrphanActs \/ OwnerActs \/ NetworkChanges

----------------------------------------------------------------------------
(* Properties.                                                             *)

OurStep == visit' # visit

(* An installation that this Space did not make is not ended by a command   *)
(* that saw it: only one that came after the look at the owner, or whose    *)
(* look failed and was taken for absence, may be.  The Browser is called    *)
(* ready only when the pinned release is checked out and configured, unless *)
(* an installation broke off under the marker of an earlier one, which is   *)
(* not taken back first.  A reset that ends has left neither checkout nor   *)
(* marker nor network, nor an admin of ours.  Of an installer that outlived *)
(* its budget nothing is known (install, uninstall, remove_network).       *)
BrowserSound ==
  [][ OurStep =>
        /\ browser.admin = "foreign" /\ ~browser.unseen => browser'.admin = "foreign"
        /\ visit'.end = "ready" =>
             \/ browser'.broke \/ browser'.orphan # "none"
             \/ browser'.checkout = Pinned /\ browser'.configured
        /\ visit'.end = "reset" =>
             /\ browser'.checkout \in {"none", "rest"}
             /\ browser'.marker = "none" /\ browser'.network = "none"
             /\ browser'.admin # "ours" \/ browser.orphan # "none" ]_browserVars

(* "An installation this Space did not make is never touched" (easi.rs).    *)
ForeignStays ==
  [][ OurStep => (browser.admin = "foreign" => browser'.admin = "foreign") ]_browserVars
=============================================================================
