----------------------------- MODULE LocalSnapshots -----------------------------
(***************************************************************************)
(* The Local snapshots of one Assistant: images of the workstation's Docker *)
(* daemon, of which the one that carries the Assistant's tag is current.   *)
(* `stage` reuses the current image or builds one that arrives already     *)
(* tagged, proves it, and undoes its own tag when the proof fails;         *)
(* `unstage` removes every staged image.  Both hold a lock file, but the   *)
(* lock is per configuration directory and the daemon is shared: another   *)
(* command under another directory, the Space, which collects superseded   *)
(* images, and the user move the same tag and images between two calls.    *)
(***************************************************************************)
EXTENDS FiniteSets, Naturals

CONSTANTS
  Commands,   \* stage and unstage processes
  LockFile,   \* [Commands -> ...], the lock file each one takes
  Builds,     \* build digests: of source, requirements, platform and pack
  NoImage,    \* no image carries the tag
  Foreign,    \* the tag names an image that is not this Assistant's snapshot
  Unstaging,  \* bound: the commands that unstage too
  MaxBatch,   \* MAX_BATCH
  MaxBuilds,  \* bound: builds in all, each of which is a nonce
  MaxMeddles  \* bound: tags moved and processes killed from outside

Ids == 1 .. MaxBuilds

ASSUME SnapshotAssumption ==
  /\ IsFiniteSet(Commands)
  /\ DOMAIN LockFile = Commands
  /\ Builds # {}
  /\ {NoImage, Foreign} \cap (Ids \cup {0}) = {} /\ NoImage # Foreign
  /\ NoImage \notin [build : Builds, good : BOOLEAN]
  /\ MaxBatch \in Nat \ {0}
  /\ MaxBuilds \in Nat /\ MaxMeddles \in Nat

VARIABLES
  daemon,  \* the images of the Docker daemon
  cmd,     \* the commands
  obs      \* observer; a guard reads no more of it than the meddles

snapshotVars == <<daemon, cmd, obs>>

(* An image is known by the nonce of the attempt that built it: every      *)
(* attempt has its own.  good: the files in the image are those the host   *)
(* anchored.  Which images a container uses is left open: Docker may       *)
(* refuse any removal.                                                     *)
Image  == [build : Builds, good : BOOLEAN]

Daemon == [ made : [Ids -> Image \cup {NoImage}], tries : 0 .. MaxBuilds,
            tag : Ids \cup {NoImage, Foreign} ]

Command == [ pc : { "idle", "resolve", "build", "validate", "open",
                    "compare", "require", "reconcile", "retag", "discard",
                    "list", "inspect", "remove" },
             staging : BOOLEAN, want : Builds, nonce : 0 .. MaxBuilds,
             image : Ids \cup {NoImage}, previous : Ids \cup {NoImage},
             batch : SUBSET Ids, todo : SUBSET Ids, refused : BOOLEAN ]

Quiet == [ pc |-> "idle", staging |-> FALSE,
           want |-> CHOOSE b \in Builds : TRUE, nonce |-> 0,
           image |-> NoImage, previous |-> NoImage,
           batch |-> {}, todo |-> {}, refused |-> FALSE ]

(* found: the tag when the command resolved it; alone: since then nobody   *)
(* else moved or collected what it relies on, and Docker did as it was told.*)
Watch == [found : Ids \cup {NoImage, Foreign}, alone : BOOLEAN]

Unwatched == [found |-> NoImage, alone |-> TRUE]

SnapshotInit ==
  /\ daemon = [ made |-> [i \in Ids |-> NoImage], tries |-> 0,
                tag |-> NoImage ]
  /\ cmd = [c \in Commands |-> Quiet]
  /\ obs = [ meddles |-> 0,
             of |-> [c \in Commands |-> Unwatched] ]

-----------------------------------------------------------------------------
(* Helpers. *)

Free(c) == \A o \in Commands :
  LockFile[o] = LockFile[c] => cmd[o].pc = "idle"

At(c, from) == cmd[c].pc = from

GoTo(c, to) == cmd' = [cmd EXCEPT ![c].pc = to]

(* The command returns: its lock file is released with it. *)
Return(c) ==
  /\ cmd' = [cmd EXCEPT ![c] = Quiet]
  /\ obs' = [obs EXCEPT !.of[c] = Unwatched]

ReturnDisturbed(c) ==
  /\ cmd' = [cmd EXCEPT ![c] = Quiet]
  /\ obs' = [obs EXCEPT !.of[c] = [Unwatched EXCEPT !.alone = FALSE]]

(* What one actor does to the tag and images, the commands of others see.  *)
Disturbs(others) ==
  obs' = [obs EXCEPT !.of =
           [c \in Commands |->
             IF c \in others THEN [@[c] EXCEPT !.alone = FALSE] ELSE @[c]]]

Busy(c) == cmd[c].pc # "idle"

Images == {i \in Ids : daemon.made[i] # NoImage}

(* Docker keeps an image that a container was created from. *)
InUse(i) == \E c \in Commands : At(c, "compare") /\ cmd[c].image = i

(* docker image rm by id: the tag goes with the image in one step. *)
Without(i) ==
  [daemon EXCEPT !.made[i] = NoImage, !.tag = IF @ = i THEN NoImage ELSE @]

-----------------------------------------------------------------------------
(* Both commands, up to the lock and the resolved tag. *)

(* A command that waits for the lock has not begun, for what follows. *)
Stage(c, want) ==
  /\ At(c, "idle") /\ Free(c)
  /\ cmd' = [cmd EXCEPT ![c] = [Quiet EXCEPT !.pc = "resolve",
                                  !.staging = TRUE, !.want = want]]
  /\ obs' = [obs EXCEPT !.of[c] = Unwatched]
  /\ UNCHANGED daemon

Unstage(c) ==
  /\ At(c, "idle") /\ Free(c)
  /\ c \in Unstaging
  /\ cmd' = [cmd EXCEPT ![c] = [Quiet EXCEPT !.pc = "list"]]
  /\ obs' = [obs EXCEPT !.of[c] = Unwatched]
  /\ UNCHANGED daemon

(* The catalog, the pack, the workspace, the requirements or Docker itself *)
(* failed before the tag was read.                                         *)
PrepareFails(c) ==
  /\ At(c, "resolve") \/ At(c, "list")
  /\ cmd[c].batch = {}
  /\ ReturnDisturbed(c)
  /\ UNCHANGED daemon

(* A foreign tag is refused before anything is built. *)
ResolveCurrent(c) ==
  /\ At(c, "resolve")
  /\ IF daemon.tag = Foreign
     THEN Return(c)
     ELSE LET reuse == /\ daemon.tag # NoImage
                       /\ daemon.made[daemon.tag].build = cmd[c].want
          IN  /\ cmd' = [cmd EXCEPT
                          ![c].pc = IF reuse THEN "validate" ELSE "build",
                          ![c].image = IF reuse THEN daemon.tag ELSE NoImage,
                          ![c].previous = daemon.tag]
              /\ obs' = [obs EXCEPT !.of[c].found = daemon.tag]
  /\ UNCHANGED daemon

-----------------------------------------------------------------------------
(* stage: the build and its proof. *)

(* Creator code runs in an earlier stage of the build than the one that    *)
(* copies the pack in, so whatever it does the pack is the staged one; the *)
(* catalog in its contract may still be another than the host extracted.   *)
Built(c, good) == [build |-> cmd[c].want, good |-> good]

(* The build fails before its image is loaded: no image has its nonce. *)
BuildFails(c) ==
  /\ At(c, "build")
  /\ GoTo(c, "reconcile")
  /\ UNCHANGED <<daemon, obs>>

(* The image arrives tagged; its identity may still fail to be read.       *)
Build(c, good, answered) ==
  /\ At(c, "build") /\ daemon.tries < MaxBuilds
  /\ LET n == daemon.tries + 1
     IN  /\ daemon' = [daemon EXCEPT !.tries = n, !.tag = n,
                          !.made[n] = Built(c, good)]
         /\ cmd' = [cmd EXCEPT ![c].nonce = n, ![c].image = n,
                          ![c].pc = IF answered THEN "validate"
                                                ELSE "reconcile"]
  /\ Disturbs({o \in Commands \ {c} : Busy(o)})

(* Mutant of Refuse: an image refused after its build is left tagged. *)
RefuseAtOnce(c) ==
  /\ Return(c)
  /\ UNCHANGED daemon

(* A reused image that is refused is left as it is; one of this attempt is *)
(* reconciled.                                                             *)
Refuse(c) ==
  /\ IF cmd[c].previous = cmd[c].image
     THEN Return(c)
     ELSE GoTo(c, "reconcile") /\ UNCHANGED obs
  /\ UNCHANGED daemon

(* The inspected image has the expected labels and exactly the one tag.    *)
Matches(c) ==
  /\ cmd[c].image \in Images
  /\ daemon.tag = cmd[c].image
  /\ daemon.made[cmd[c].image].build = cmd[c].want

ValidateImage(c) ==
  /\ At(c, "validate")
  /\ Matches(c)
  /\ GoTo(c, "open")
  /\ UNCHANGED <<daemon, obs>>

(* Docker may fail at every call. *)
ValidateFails(c) ==
  /\ At(c, "validate")
  /\ Refuse(c)

OpenFiles(c) ==
  /\ At(c, "open")
  /\ cmd[c].image \in Images
  /\ GoTo(c, "compare")
  /\ UNCHANGED <<daemon, obs>>

OpenFails(c) ==
  /\ At(c, "open")
  /\ Refuse(c)

(* Mutant of Verified: the pack is exported but its anchor is not compared. *)
Exported(c) == cmd[c].image \in Ids

(* The exported contract carries the catalog of the host, and the pack is  *)
(* the staged one and passes the validator of the SDK.                     *)
Verified(c) == daemon.made[cmd[c].image].good

(* The files are compared and the container is removed: both must succeed, *)
(* or the stage fails.                                                     *)
CompareFiles(c) ==
  /\ At(c, "compare")
  /\ Verified(c)
  /\ GoTo(c, "require")
  /\ UNCHANGED <<daemon, obs>>

CompareFails(c) ==
  /\ At(c, "compare")
  /\ Refuse(c)

RequireCurrent(c) ==
  /\ At(c, "require")
  /\ daemon.tag = cmd[c].image
  /\ Return(c)
  /\ UNCHANGED daemon

RequireFails(c) ==
  /\ At(c, "require")
  /\ Refuse(c)

-----------------------------------------------------------------------------
(* stage: a failed attempt undoes its own tag. *)

OwnTag(c) == daemon.tag = cmd[c].nonce

(* The tag is read again.  One moved or removed by another actor is left;  *)
(* a foreign one, or one that cannot be read, likewise.                    *)
ReadTag(c) ==
  /\ At(c, "reconcile")
  /\ IF OwnTag(c)
     THEN /\ GoTo(c, IF cmd[c].previous = NoImage THEN "discard" ELSE "retag")
          /\ UNCHANGED obs
     ELSE Return(c)
  /\ UNCHANGED daemon

ReadTagFails(c) ==
  /\ At(c, "reconcile")
  /\ ReturnDisturbed(c)
  /\ UNCHANGED daemon

Retag(c) ==
  /\ At(c, "retag")
  /\ cmd[c].previous \in Images
  /\ daemon' = [daemon EXCEPT !.tag = cmd[c].previous]
  /\ cmd' = [cmd EXCEPT ![c] = Quiet]
  /\ Disturbs({o \in Commands \ {c} : Busy(o)})

Discard(c) ==
  /\ At(c, "discard")
  /\ ~InUse(cmd[c].nonce)
  /\ daemon' = Without(cmd[c].nonce)
  /\ cmd' = [cmd EXCEPT ![c] = Quiet]
  /\ Disturbs({o \in Commands \ {c} : Busy(o)})

(* Docker refuses, or what is named is gone: only the message tells. *)
UndoFails(c) ==
  /\ At(c, "retag") \/ At(c, "discard")
  /\ ReturnDisturbed(c)
  /\ UNCHANGED daemon

-----------------------------------------------------------------------------
(* unstage. *)

Converging(c, images) == images \cap cmd[c].batch = {}

(* The first MaxBatch of the images, always in the same order.             *)
Listing == {i \in Images :
              Cardinality({j \in Images : j <= i}) <= MaxBatch}

ListImages(c) ==
  /\ At(c, "list")
  /\ Images # {}
  /\ IF Converging(c, Listing)
     THEN /\ cmd' = [cmd EXCEPT ![c].pc = "inspect", ![c].batch = Listing,
                                ![c].todo = Listing]
          /\ UNCHANGED obs
     ELSE Return(c)
  /\ UNCHANGED daemon

ListEmpty(c) ==
  /\ At(c, "list")
  /\ Images = {}
  /\ Return(c)
  /\ UNCHANGED daemon

(* Every image of the batch is inspected before one is removed. *)
InspectImages(c) ==
  /\ At(c, "inspect")
  /\ IF cmd[c].batch \subseteq Images
     THEN GoTo(c, "remove") /\ UNCHANGED obs
     ELSE Return(c)
  /\ UNCHANGED daemon

(* A listing or an inspection fails later than in the first round.         *)
UnstageFails(c) ==
  /\ At(c, "inspect") \/ (At(c, "list") /\ cmd[c].batch # {})
  /\ ReturnDisturbed(c)
  /\ UNCHANGED daemon

(* Docker removes the image, or claims it, or finds that it is absent. *)
RemoveImage(c, i, claimed) ==
  /\ At(c, "remove") /\ i \in cmd[c].todo
  /\ ~InUse(i)
  /\ daemon' = IF claimed THEN daemon ELSE Without(i)
  /\ cmd' = [cmd EXCEPT ![c].todo = @ \ {i}]
  /\ Disturbs({o \in Commands : Busy(o) /\ (o # c \/ claimed)})

RemoveRefused(c, i) ==
  /\ At(c, "remove") /\ i \in cmd[c].todo
  /\ i \in Images
  /\ cmd' = [cmd EXCEPT ![c].todo = @ \ {i}, ![c].refused = TRUE]
  /\ UNCHANGED <<daemon, obs>>

(* The whole batch was tried: a refusal ends the command. *)
BatchDone(c) ==
  /\ At(c, "remove") /\ cmd[c].todo = {}
  /\ IF cmd[c].refused
     THEN Return(c)
     ELSE GoTo(c, "list") /\ UNCHANGED obs
  /\ UNCHANGED daemon

-----------------------------------------------------------------------------
(* What the commands do not control. *)

(* The command is killed and its lock is released. *)
Killed(c) ==
  /\ Busy(c) /\ obs.meddles < MaxMeddles
  /\ cmd' = [cmd EXCEPT ![c] = Quiet]
  /\ obs' = [obs EXCEPT !.meddles = @ + 1, !.of[c] = Unwatched]
  /\ UNCHANGED daemon

(* The user moves or removes the tag. *)
Meddle(tag) ==
  /\ obs.meddles < MaxMeddles
  /\ daemon' = [daemon EXCEPT !.tag = tag]
  /\ cmd' = cmd
  /\ obs' = [obs EXCEPT
              !.meddles = @ + 1,
              !.of = [c \in Commands |->
                       IF Busy(c) THEN [@[c] EXCEPT !.alone = FALSE] ELSE @[c]]]

(* The Space collects a superseded image that nothing uses. *)
Collect(i) ==
  /\ i \in Images /\ daemon.tag # i /\ ~InUse(i)
  /\ daemon' = Without(i)
  /\ UNCHANGED cmd
  /\ Disturbs({c \in Commands : Busy(c)})

StageStep(c) ==
  \/ PrepareFails(c) \/ ResolveCurrent(c)
  \/ BuildFails(c)
  \/ \E good, answered \in BOOLEAN : Build(c, good, answered)
  \/ ValidateImage(c) \/ ValidateFails(c)
  \/ OpenFiles(c) \/ OpenFails(c)
  \/ CompareFiles(c) \/ CompareFails(c)
  \/ RequireCurrent(c) \/ RequireFails(c)
  \/ ReadTag(c) \/ ReadTagFails(c)
  \/ Retag(c) \/ Discard(c) \/ UndoFails(c)

UnstageStep(c) ==
  \/ ListImages(c) \/ ListEmpty(c) \/ InspectImages(c) \/ UnstageFails(c)
  \/ \E i \in Ids : \/ \E claimed \in BOOLEAN : RemoveImage(c, i, claimed)
                    \/ RemoveRefused(c, i)
  \/ BatchDone(c)

SnapshotNext ==
  \/ \E c \in Commands :
       \/ \E want \in Builds : Stage(c, want)
       \/ Unstage(c)
       \/ StageStep(c)
       \/ UnstageStep(c)
       \/ Killed(c)
  \/ \E tag \in {NoImage, Foreign} : Meddle(tag)
  \/ \E i \in Ids : Collect(i)

(* A process that is not killed goes on. *)
SnapshotFairness == \A c \in Commands : WF_snapshotVars(UnstageStep(c))

-----------------------------------------------------------------------------
(* Properties. *)

(* Every variable keeps its shape. *)
SnapshotTypeOK ==
  /\ daemon \in Daemon
  /\ cmd \in [Commands -> Command]
  /\ obs.of \in [Commands -> Watch]
  /\ obs.meddles \in 0 .. MaxMeddles

(* A stage that reports success leaves a current snapshot with the build   *)
(* asked for and files that were compared with the host's: also when it    *)
(* reused an image that an interrupted attempt had left tagged             *)
(* (stage_image, admit_staged).  One that fails undisturbed leaves the      *)
(* snapshot that was current when it began, or none if there was none,     *)
(* however far it came (reconcile_current).                                *)
StagedOrRestored ==
  [][ \A c \in Commands :
      /\ RequireCurrent(c)
          => LET i == cmd[c].image
             IN  /\ daemon.tag = i /\ i \in Images
                 /\ daemon.made[i] = [build |-> cmd[c].want, good |-> TRUE]
      /\ /\ cmd[c].pc \notin {"idle", "resolve"} /\ cmd[c].staging
         /\ cmd'[c].pc = "idle" /\ ~RequireCurrent(c)
         /\ obs.of[c].alone /\ obs'.of[c].alone
         /\ obs'.meddles = obs.meddles
         => daemon'.tag = obs.of[c].found
    ]_snapshotVars

(* An unstage that has not ended.                                          *)
UnstageRuns == \E c \in Commands : cmd[c].pc \in {"list", "inspect", "remove"}
=============================================================================
