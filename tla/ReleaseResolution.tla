------------------------- MODULE ReleaseResolution -------------------------
(***************************************************************************)
(* Which release a command applies (src/space/docker/release.rs,            *)
(* release.rs, lifecycle.rs): install, start and update select a release    *)
(* set, make it available, copy its metadata out of the image through a     *)
(* container that never runs, read its labels, admit it, decide what it      *)
(* means for the installed release, and take its CLI or its members from    *)
(* it.  The channel and the tag of this host's Docker move meanwhile.       *)
(***************************************************************************)
EXTENDS FiniteSets, Naturals

CONSTANTS
  Sets,       \* release sets, by the digest of their image
  Developer,  \* those in the namespace of this host
  NoSet,
  Carries,    \* what the image of each set carries
  Validity,   \* VALIDITY_SECONDS
  Skew,       \* CLOCK_SKEW_SECONDS
  Times,      \* the readings of the host's clock
  MaxPulls    \* bound: pulls and removals by others during one command

Published == Sets \ Developer

(* members: the form of the four image references.                         *)
Document == [ schema : {"published", "developer", "other"}, ordinal : Nat,
              issued : Nat, expires : Nat, members : {"published", "local", "other"} ]

(* signature: the document and the epoch it was made over.                 *)
ASSUME ReleaseAssumption ==
  /\ Developer \subseteq Sets /\ NoSet \notin Sets
  /\ {"torn", "link"} \cap (Sets \cup {NoSet}) = {}
  /\ Times \subseteq Nat /\ {Validity, Skew, MaxPulls} \subseteq Nat
  /\ \A s \in Sets :
       /\ Carries[s].document \in Document
       /\ Carries[s].epoch \in Nat
       /\ Carries[s].signature \in Document \X Nat

VARIABLES
  images, \* Docker's image store, and the files that are copied out
  pick    \* the command

releaseVars == <<images, pick>>

NoDocument == [ schema |-> "other", ordinal |-> 0, issued |-> 0,
                expires |-> 0, members |-> "other" ]

(* resumed: the installed release is resolved instead of a failed one;     *)
(* what: the member that is copied out; tried, kept: metadata was copied,   *)
(* and could not be removed; failed: the remembered failure.               *)
NoPick ==
  [ pc |-> "idle", command |-> "none", exact |-> NoSet, installed |-> NoSet,
    reference |-> NoSet, what |-> "metadata", copied |-> FALSE, removed |-> FALSE,
    tried |-> FALSE, kept |-> FALSE, document |-> NoDocument, epoch |-> 0, resumed |-> FALSE,
    failed |-> NoSet, now |-> 0, end |-> "none" ]

ReleaseTypeOK ==
  /\ images.held \subseteq Sets /\ images.members \subseteq Sets
  /\ images.stable \in Sets \cup {NoSet}
  /\ images.copy \in Sets \cup {NoSet, "torn"}
  /\ images.cli \in Sets \cup {NoSet, "torn", "link"}
  /\ {images.box, images.mac} \subseteq BOOLEAN /\ images.pulls \in 0 .. MaxPulls
  /\ pick.pc \in {"idle", "select", "pull", "digest", "create", "copy", "remove",
                  "read", "labels", "decide", "cli", "members"}
  /\ pick.reference \in Sets \cup {NoSet} /\ pick.document \in Document
  /\ pick.end \in {"none", "failed", "refused", "expired", "kept", "handed", "applies"}

-----------------------------------------------------------------------------
(* What a set means.                                                       *)

(* parse: the namespace selects the schema, and the signature of a          *)
(* published set is verified over exactly what was read.                   *)
Window(document) ==
  /\ document.issued > 0 /\ document.expires > document.issued
  /\ document.expires - document.issued <= Validity

Parses(s, document, epoch, signature) ==
  /\ s \in Published => /\ signature = <<document, epoch>>
                        /\ document.schema = "published"
                        /\ document.members = "published"
                        /\ Window(document)
  /\ s \in Developer => /\ document.schema = "developer"
                        /\ document.members \in {"published", "local"}
  /\ document.ordinal > 0 /\ epoch > 0

Sound(s) == Parses(s, Carries[s].document, Carries[s].epoch, Carries[s].signature)

Ordinal(s) == Carries[s].document.ordinal

Current(document, now) ==
  document.issued <= now + Skew /\ now < document.expires + Skew

(* validate_forward_release, without the window.                           *)
Forward(s, document, installed) ==
  s \in Developer \/ installed \in Developer \cup {NoSet}
  \/ /\ document.ordinal >= Ordinal(installed)
     /\ (s = installed) <=> (document.ordinal = Ordinal(installed))

(* The window is asked of a change, and by update of what it found.        *)
AsksWindow ==
  /\ pick.reference \in Published
  /\ pick.reference # pick.installed \/ pick.command = "update"

-----------------------------------------------------------------------------

(* Whatever earlier commands left, one among them that was killed while it  *)
(* read the set that the tag names.                                        *)
ReleaseInit ==
  /\ \E stable \in Published \cup {NoSet}, present \in SUBSET Developer,
        killed, mac \in BOOLEAN :
       images = [ held |-> present \cup ({stable} \ {NoSet}), stable |-> stable,
                  members |-> present,
                  copy |-> IF killed THEN stable ELSE NoSet, cli |-> NoSet, box |-> FALSE,
                  mac |-> mac, pulls |-> 0 ]
  /\ pick = NoPick

(* One command: what an earlier one leaves, ReleaseInit begins with.  An    *)
(* installed release was admitted when it was applied; failed stands for    *)
(* the remembered release only where it is the resolved one.               *)
Invoked ==
  /\ pick = NoPick
  /\ \E command \in {"install", "start", "update"},
        installed \in {s \in Sets : Sound(s)} \cup {NoSet},
        exact \in Sets \cup {NoSet} :
       /\ command # "install" => installed # NoSet
       /\ command = "update" => exact = NoSet
       /\ images.mac => installed \notin Developer
       /\ pick' = [NoPick EXCEPT !.pc = "select", !.command = command,
                                 !.installed = installed, !.exact = exact]
  /\ UNCHANGED images

PickTo(pc)   == pick' = [pick EXCEPT !.pc = pc]
PickEnds(end) == pick' = [pick EXCEPT !.pc = "idle", !.end = end]

(* NoSet is the stable channel.  A start follows it only from a published  *)
(* release.                                                                *)
Selector ==
  IF pick.resumed THEN pick.installed
  ELSE IF pick.exact # NoSet THEN pick.exact
  ELSE IF pick.command = "start" /\ pick.installed \in Developer THEN pick.installed
  ELSE NoSet

(* A developer set is never pulled, an exact published one only when the   *)
(* store does not hold it.                                                 *)
Locate ==
  /\ pick.pc = "select"
  /\ IF Selector \in Developer /\ Selector \notin images.held
       THEN PickEnds("refused")
       ELSE pick' = [pick EXCEPT
              !.pc = IF Selector \in images.held THEN "create" ELSE "pull",
              !.reference = Selector, !.what = "metadata"]
  /\ UNCHANGED images

PullSelected ==
  /\ pick.pc = "pull"
  /\ \/ /\ pick.reference # NoSet
        /\ images' = [images EXCEPT !.held = @ \cup {pick.reference}]
        /\ PickTo("create")
     \/ /\ pick.reference = NoSet
        /\ \E s \in Published :
             images' = [images EXCEPT !.held = @ \cup {s}, !.stable = s]
        /\ PickTo("digest")

(* unique_repo_digest of the tag, which is another set's when somebody     *)
(* pulled since.                                                           *)
UniqueRepoDigest ==
  /\ pick.pc = "digest" /\ images.stable \in images.held
  /\ pick' = [pick EXCEPT !.pc = "create", !.reference = images.stable]
  /\ UNCHANGED images

(* copy_member: create without a pull, copy, and remove whatever came of   *)
(* the copy.                                                               *)
CreateMember ==
  /\ pick.pc = "create" /\ pick.reference \in images.held
  /\ images' = [images EXCEPT !.box = TRUE]
  /\ PickTo("copy")

(* Mutant: metadata is copied out of the tag that was pulled.              *)
CopiedOfTag ==
  {[images EXCEPT !.copy = IF images.stable = NoSet THEN pick.reference
                                                    ELSE images.stable]}

(* The file that a member is copied to.  What a copied CLI is, the image   *)
(* says, which no signature covers.                                        *)
Copied ==
  IF pick.what = "metadata"
    THEN {[images EXCEPT !.copy = pick.reference]}
    ELSE {[images EXCEPT !.cli = f] : f \in {pick.reference, "link"}}

CopyBreaks ==
  IF pick.what = "metadata"
    THEN {images, [images EXCEPT !.copy = "torn"]}
    ELSE {images, [images EXCEPT !.cli = "torn"]}

CopyMember ==
  /\ pick.pc = "copy"
  /\ \E copied \in BOOLEAN :
       /\ images' \in IF copied THEN Copied ELSE CopyBreaks
       /\ pick' = [pick EXCEPT !.pc = "remove", !.copied = copied, !.tried = TRUE]

RemoveBox ==
  /\ pick.pc = "remove"
  /\ \E removed \in BOOLEAN :
       /\ images' = [images EXCEPT !.box = ~removed]
       /\ pick' = [pick EXCEPT !.removed = removed,
            !.pc = IF pick.what = "metadata" THEN "read" ELSE "cli"]

(* Mutant: a failed copy returns at once, and leaves what it copied.       *)
ReadIfCopied ==
  /\ pick.pc = "read"
  /\ IF pick.copied /\ pick.removed
       THEN /\ pick' = [pick EXCEPT !.pc = "labels",
                          !.document = Carries[images.copy].document]
            /\ images' = [images EXCEPT !.copy = NoSet]
       ELSE PickEnds("failed") /\ UNCHANGED images

(* The copy is read if it was made, and removed whatever else failed.      *)
ReadMetadata ==
  /\ pick.pc = "read"
  /\ \E read, cleaned \in BOOLEAN :
       /\ images' = IF cleaned THEN [images EXCEPT !.copy = NoSet] ELSE images
       /\ pick' =
            IF pick.copied /\ pick.removed /\ read /\ cleaned
              THEN [pick EXCEPT !.pc = "labels",
                                !.document = Carries[images.copy].document]
              ELSE [pick EXCEPT !.pc = "idle", !.end = "failed", !.kept = ~cleaned]

(* The labels are those of the digest; then the set is parsed.             *)
ReadLabels ==
  /\ pick.pc = "labels" /\ pick.reference \in images.held
  /\ LET s     == pick.reference
         label == Carries[s] IN
     IF /\ Parses(s, pick.document, label.epoch, label.signature)
        /\ ~(images.mac /\ s \in Developer)
       THEN pick' = [pick EXCEPT !.pc = "decide", !.epoch = label.epoch]
       ELSE PickEnds("refused")
  /\ UNCHANGED images

-----------------------------------------------------------------------------
(* What the command makes of it.                                           *)

(* handoff_if_needed: exact published installs activate the CLI that runs, *)
(* and a resumed release needs no other.                                   *)
MayHandOff ==
  /\ ~pick.resumed
  /\ pick.command = "install" /\ pick.exact # NoSet => pick.reference \in Developer

(* foreign: the running CLI is not the one of this set.                    *)
Proceeds(now, foreign) ==
  IF ~Forward(pick.reference, pick.document, pick.installed)
    THEN [pick EXCEPT !.pc = "idle", !.end = "refused"]
  ELSE IF AsksWindow /\ ~Current(pick.document, now)
    THEN [pick EXCEPT !.pc = "idle", !.end = "expired", !.now = now]
  ELSE IF foreign /\ MayHandOff
    THEN [pick EXCEPT !.pc = "create", !.what = "cli", !.now = now]
    ELSE [pick EXCEPT !.pc = "members", !.now = now]

Remembered(failed) == pick.exact = NoSet /\ pick.reference = failed

DecideInstall ==
  /\ pick.pc = "decide" /\ pick.command = "install"
  /\ \E now \in Times, foreign \in BOOLEAN : pick' = Proceeds(now, foreign)
  /\ UNCHANGED images

(* select_start: the memory of a failure is asked before the admission.    *)
DecideStart ==
  /\ pick.pc = "decide" /\ pick.command = "start"
  /\ \E failed \in {NoSet, pick.reference}, stopped, foreign \in BOOLEAN, now \in Times :
       pick' =
         IF pick.resumed \/ ~Remembered(failed)
           THEN [Proceeds(now, foreign) EXCEPT !.failed = failed]
         ELSE IF stopped
           THEN [pick EXCEPT !.pc = "select", !.resumed = TRUE, !.failed = failed]
           ELSE [pick EXCEPT !.pc = "idle", !.end = "kept", !.failed = failed]
  /\ UNCHANGED images

(* update_decision, which follows the admission: nothing is applied.       *)
UpdateKeeps(failed, stopped) ==
  stopped \/ pick.reference \in {failed, pick.installed}

DecideUpdate ==
  /\ pick.pc = "decide" /\ pick.command = "update"
  /\ \E failed \in {NoSet, pick.reference}, stopped, foreign \in BOOLEAN, now \in Times :
       LET next == Proceeds(now, foreign) IN
       pick' = IF next.pc # "idle" /\ UpdateKeeps(failed, stopped)
                 THEN [pick EXCEPT !.pc = "idle", !.end = "kept", !.failed = failed]
                 ELSE [next EXCEPT !.failed = failed]
  /\ UNCHANGED images

(* extract_cli: anything but a regular file is removed.                    *)
ExtractCli ==
  /\ pick.pc = "cli"
  /\ IF ~pick.copied \/ ~pick.removed
       THEN PickEnds("failed") /\ UNCHANGED images
     ELSE IF images.cli = "link"
       THEN PickEnds("refused") /\ images' = [images EXCEPT !.cli = NoSet]
       ELSE PickEnds("handed") /\ UNCHANGED images

(* pull_exact of the members: those of this host's namespace are never     *)
(* pulled, the others only when the store does not hold them.              *)
PullMembers ==
  /\ pick.pc = "members"
  /\ \/ /\ pick.reference \in images.members
           \/ pick.document.members = "published"
        /\ images' = [images EXCEPT !.members = @ \cup {pick.reference}]
        /\ PickEnds("applies")
     \/ /\ pick.reference \notin images.members
        /\ pick.document.members = "local"
        /\ PickEnds("refused") /\ UNCHANGED images

(* Any call to Docker may fail; between the copy and the reading that is   *)
(* part of the steps.                                                      *)
DockerFails ==
  /\ pick.pc \in {"pull", "digest", "create", "labels", "members"}
  /\ PickEnds("failed")
  /\ UNCHANGED images

-----------------------------------------------------------------------------
(* Others on this host: a pull of the channel, and the removal of images.   *)

OtherPulls(s) ==
  /\ pick.pc # "idle" /\ images.pulls < MaxPulls
  /\ images' = [images EXCEPT !.held = @ \cup {s}, !.stable = s, !.pulls = @ + 1]
  /\ UNCHANGED pick

ImageRemoved(s) ==
  /\ pick.pc # "idle" /\ images.pulls < MaxPulls
  /\ s \in images.held
  /\ images' = [images EXCEPT !.held = @ \ {s}, !.members = @ \ {s}, !.pulls = @ + 1,
                              !.stable = IF @ = s THEN NoSet ELSE @]
  /\ UNCHANGED pick

(* The command is over.                                                    *)
CommandOver == pick.end # "none" /\ UNCHANGED releaseVars

ReleaseNext ==
  \/ CommandOver
  \/ Invoked \/ Locate \/ PullSelected \/ UniqueRepoDigest
  \/ CreateMember \/ CopyMember \/ RemoveBox \/ ReadMetadata \/ ReadLabels
  \/ DecideInstall \/ DecideStart \/ DecideUpdate
  \/ ExtractCli \/ PullMembers \/ DockerFails
  \/ \E s \in Published : OtherPulls(s)
  \/ \E s \in Sets : ImageRemoved(s)

-----------------------------------------------------------------------------
(* Properties.                                                             *)

Goes == pick.end \in {"handed", "applies"}

(* What a command goes on with is one release set: the metadata, the epoch *)
(* and the CLI come from the digest it decided for, however the channel    *)
(* and the tag moved and whatever a killed command left behind; a published *)
(* set is signed, moves a published Space forward and, when it changes it, *)
(* is within its window; a developer set was named or is installed; and a   *)
(* release remembered as failed is started or updated to only by name       *)
(* (resolve_release, validate_forward_release, select_start, update).  The  *)
(* window never keeps the installed release from starting (release.rs:22).  *)
(* A command that ends leaves neither the copied metadata nor the container *)
(* it was copied through, unless it reports that the removal failed, and    *)
(* keeps no link in place of a CLI (copy_member, extract_cli).             *)
ReleaseAdmitted ==
  /\ Goes =>
       LET s == pick.reference IN
       /\ pick.document = Carries[s].document /\ pick.epoch = Carries[s].epoch
       /\ Sound(s)
       /\ pick.end = "handed" => images.cli = s
       /\ s \in Developer => s \in {pick.exact, pick.installed}
       /\ s \in Published /\ pick.installed \in Published /\ s # pick.installed
            => Ordinal(s) > Ordinal(pick.installed)
       /\ s \in Published /\ s # pick.installed => Current(Carries[s].document, pick.now)
       /\ pick.exact = NoSet /\ s # pick.installed => s # pick.failed
  /\ pick.end = "expired" => pick.reference # pick.installed \/ pick.command = "update"
  /\ pick.end # "none" =>
       /\ pick.tried /\ ~pick.kept => images.copy = NoSet
       /\ images.box => pick.end = "failed" /\ ~pick.removed
       /\ images.cli # "link" \/ pick.end = "failed"
=============================================================================
