------------------------------ MODULE StoragePool ------------------------------
(***************************************************************************)
(* The encrypted storage pool of a Linux Space: five entries of the        *)
(* security directory, a LUKS2 mapping and a mount.  Each is made and       *)
(* unmade by a call of its own, most of them a tool run as root that may   *)
(* outlive this process, so a run may be cut between any two.  A later     *)
(* start goes on from a whole pool; from anything else only a reset does,  *)
(* which must therefore recognise every layout an earlier run can leave.   *)
(* That a tool may still be at work is known to the process it outlived    *)
(* only: the next one begins beside it.                                    *)
(***************************************************************************)
EXTENDS Naturals, Sequences

CONSTANTS
  Wedges,    \* faults admitted of "crashed write", "failed write",
             \* "cut discard"
  MaxFaults  \* bound: calls that fail or outlive, kills and reboots in all

ASSUME StorageAssumption ==
  /\ Wedges \subseteq {"crashed write", "failed write", "cut discard"}
  /\ MaxFaults \in Nat

VARIABLES
  pool,   \* the pool on this host
  run,    \* the command at work on it
  late,   \* the privileged tools whose callers no longer wait, how many
  faults,
  verified, \* observer: a start returned this pool, none was told to reset it
  hasty    \* observer: a reset began beside a tool that builds a pool

storageVars == <<pool, run, late, faults, verified, hasty>>

(* A record is written through a temporary: torn until it is written.  The *)
(* UUID's is removed unread, so torn or not is one entry.                  *)
Entries == { "security", "marker_torn", "marker_tmp", "marker", "image",
             "uuid_tmp", "uuid", "mount" }

(* luks, fs: the image holds a LUKS2 container, and that a file system;    *)
(* owned, volumes: whose root is the account's and holds every volume.     *)
Pool == [ files : SUBSET Entries, luks : BOOLEAN, fs : BOOLEAN,
          owned : BOOLEAN, volumes : BOOLEAN, mapped : BOOLEAN,
          mounted : BOOLEAN ]

NoPool == [ files |-> {}, luks |-> FALSE, fs |-> FALSE, owned |-> FALSE,
            volumes |-> FALSE, mapped |-> FALSE, mounted |-> FALSE ]

Tools == {"install", "format", "open", "mkfs", "mount", "own", "volumes",
          "umount", "close"}

Steps == [verb : {"make", "write", "rename", "remove"}, of : Entries]
         \cup [verb : {"tool"}, of : Tools]
         \cup [verb : {"ask", "check"}, of : {""}]

NoRun == [kind |-> "idle", todo |-> <<>>]

NoTool == [t \in Tools |-> 0]

(* What is at work behind its caller and adds to a pool.                    *)
Building == {t \in Tools \ {"umount", "close"} : late[t] > 0}

StorageInit ==
  /\ pool = NoPool
  /\ run = NoRun
  /\ late = NoTool
  /\ faults = 0
  /\ verified = FALSE
  /\ hasty = FALSE

-----------------------------------------------------------------------------
(* What one call does to the host. *)

Has(e) == e \in pool.files

Make(e)   == [verb |-> "make", of |-> e]
Fill(e)   == [verb |-> "write", of |-> e]
Place(e)  == [verb |-> "rename", of |-> e]
Remove(e) == [verb |-> "remove", of |-> e]
Tool(t)   == [verb |-> "tool", of |-> t]
Ask       == [verb |-> "ask", of |-> ""]
Check     == [verb |-> "check", of |-> ""]

(* write_private: create the temporary, fill it, rename it. *)
WriteMarker == << Make("marker_torn"), Fill("marker_tmp"), Place("marker") >>
WriteUuid   == << Make("uuid_tmp"), Place("uuid") >>

Draft(record) == IF record = "marker" THEN "marker_tmp" ELSE "uuid_tmp"

(* validate_metadata: marker, image and record are there and agree. *)
MetadataValid == {"marker", "image", "uuid"} \subseteq pool.files /\ pool.luks

MountedValid == /\ MetadataValid /\ pool.mapped /\ pool.mounted
                /\ pool.owned /\ pool.volumes

(* The calls the host itself would refuse. *)
Able(step) ==
  CASE step = Tool("open")       -> pool.luks /\ ~pool.mapped
    [] step = Tool("mkfs")       -> pool.mapped
    [] step = Tool("mount")      -> pool.mapped /\ pool.fs /\ Has("mount")
    [] step \in {Tool("own"), Tool("volumes"), Tool("umount")} -> pool.mounted
    [] step = Tool("close")      -> pool.mapped /\ ~pool.mounted
    [] step = Tool("format")     -> Has("image")
    [] step = Tool("install")    -> Has("security")
    [] step = Remove("mount")    -> ~pool.mounted
    [] step = Remove("security") -> pool.files = {"security"}
    [] step = Check              -> MountedValid
    [] OTHER                     -> TRUE

(* With the image goes what it held. *)
Without(e) ==
  IF e = "image"
  THEN [pool EXCEPT !.files = @ \ {e}, !.luks = FALSE, !.fs = FALSE,
                    !.owned = FALSE, !.volumes = FALSE]
  ELSE [pool EXCEPT !.files = @ \ {e}]

Ran(tool) ==
  CASE tool = "install" -> [pool EXCEPT !.files = @ \cup {"mount"}]
    [] tool = "format"  -> [pool EXCEPT !.luks = TRUE]
    [] tool = "open"    -> [pool EXCEPT !.mapped = TRUE]
    [] tool = "mkfs"    -> [pool EXCEPT !.fs = TRUE, !.owned = FALSE,
                                        !.volumes = FALSE]
    [] tool = "mount"   -> [pool EXCEPT !.mounted = TRUE]
    [] tool = "own"     -> [pool EXCEPT !.owned = TRUE]
    [] tool = "volumes" -> [pool EXCEPT !.volumes = TRUE]
    [] tool = "umount"  -> [pool EXCEPT !.mounted = FALSE]
    [] tool = "close"   -> [pool EXCEPT !.mapped = FALSE]

Done(step) ==
  CASE step.verb = "make"   -> [pool EXCEPT !.files = @ \cup {step.of}]
    [] step.verb = "write"  -> [pool EXCEPT !.files =
                                 (@ \ {"marker_torn"}) \cup {"marker_tmp"}]
    [] step.verb = "rename" -> [pool EXCEPT !.files =
                                 (@ \ {Draft(step.of)}) \cup {step.of}]
    [] step.verb = "remove" -> Without(step.of)
    [] step.verb = "tool"   -> Ran(step.of)
    [] OTHER                -> pool

-----------------------------------------------------------------------------
(* What a run makes of the layout it finds. *)

If(condition, steps) == IF condition THEN steps ELSE <<>>

(* reset_layout_is_incomplete; a pending marker counts. *)
Layout ==
  LET marker == Has("marker") \/ Has("marker_tmp")
  IN CASE marker /\ Has("image") /\ Has("mount") /\ Has("uuid") -> "complete"
       [] ~Has("image") /\ ~Has("mount") /\ ~Has("uuid")   -> "incomplete"
       [] marker /\ Has("image") /\ ~Has("uuid")           -> "incomplete"
       [] OTHER                                            -> "impossible"

(* The marker a reset finds is whole, or there is none. *)
MarkerValid == ~Has("marker_torn") /\ ~(Has("marker") /\ Has("marker_tmp"))

(* preflight_reset, and reset's own checks: the last one only looks for a  *)
(* loop device, which a mapping holds.                                     *)
ResetAdmits ==
  \/ ~Has("security")
  \/ /\ MarkerValid /\ Layout = "complete"
     /\ ~Has("uuid_tmp") /\ MetadataValid
     /\ pool.mounted => pool.mapped
  \/ /\ MarkerValid /\ Layout = "incomplete"
     /\ IF Has("marker") \/ Has("marker_tmp")
        THEN ~pool.mapped /\ ~pool.mounted
        ELSE pool.files = {"security"}

ProvisionSteps ==
  << Make("security") >> \o WriteMarker
  \o << Make("image"), Tool("install"), Ask, Tool("format") >> \o WriteUuid
  \o << Tool("open"), Tool("mkfs"), Tool("mount"), Tool("own"),
        Tool("volumes"), Check >>

OpenSteps ==
  If(~pool.mapped, <<Ask, Tool("open")>>)
  \o If(~pool.mounted, <<Tool("mount"), Tool("own")>>)
  \o <<Tool("volumes"), Check>>

(* discard_new; whatever is absent is passed over. *)
DiscardSteps ==
  If(pool.mounted, <<Tool("umount")>>) \o If(pool.mapped, <<Tool("close")>>)
  \o If(Has("uuid"), <<Remove("uuid")>>)
  \o If(Has("image"), <<Remove("image")>>)
  \o If(Has("marker"), <<Remove("marker")>>)
  \o If(Has("mount"), <<Remove("mount")>>)
  \o <<Remove("security")>>

(* Mutant: the image before the mount point. *)
ResetStepsImageFirst ==
  If(Has("marker_tmp"), <<Place("marker")>>)
  \o If(pool.mounted, <<Tool("umount")>>) \o If(pool.mapped, <<Tool("close")>>)
  \o If(Has("uuid"), <<Remove("uuid")>>)
  \o If(Has("uuid_tmp"), <<Remove("uuid_tmp")>>)
  \o If(Has("image"), <<Remove("image")>>)
  \o If(Has("mount"), <<Remove("mount")>>)
  \o If(Has("marker") \/ Has("marker_tmp"), <<Remove("marker")>>)
  \o <<Remove("security")>>

(* reset, after incomplete() renamed a pending marker. *)
ResetSteps ==
  If(Has("marker_tmp"), <<Place("marker")>>)
  \o If(pool.mounted, <<Tool("umount")>>) \o If(pool.mapped, <<Tool("close")>>)
  \o If(Has("uuid"), <<Remove("uuid")>>)
  \o If(Has("uuid_tmp"), <<Remove("uuid_tmp")>>)
  \o If(Has("mount"), <<Remove("mount")>>)
  \o If(Has("image"), <<Remove("image")>>)
  \o If(Has("marker") \/ Has("marker_tmp"), <<Remove("marker")>>)
  \o <<Remove("security")>>

-----------------------------------------------------------------------------
(* Runs.  The lifecycle lock admits one; require_settled knows of the tools *)
(* of its own process only, so one begins beside those of an earlier one.  *)

Begin(kind, todo) ==
  /\ run.kind = "idle"
  /\ run' = IF todo = <<>> THEN NoRun
            ELSE [kind |-> kind, todo |-> todo]
  /\ verified' = (verified /\ kind # "reset")
  /\ hasty' = (hasty \/ (kind = "reset" /\ Building # {}))
  /\ UNCHANGED <<pool, late, faults>>

(* ensure of a fresh installation without a pool; a mapping of that name    *)
(* is foreign.                                                              *)
Provision ==
  /\ ~Has("security") /\ ~pool.mapped
  /\ Begin("provision", ProvisionSteps)

(* ensure of a pool that is there: a scheduled run only looks. *)
Open ==
  /\ Has("security") /\ MetadataValid /\ ~MountedValid
  /\ Begin("open", OpenSteps)

Reset ==
  /\ Has("security") /\ ResetAdmits
  /\ Begin("reset", ResetSteps)

(* A reset that is not admitted, and a start that meets a mapping without   *)
(* a pool, change nothing.                                                 *)
PoolRefused ==
  /\ run.kind = "idle"
  /\ IF Has("security") THEN ~ResetAdmits ELSE pool.mapped
  /\ UNCHANGED storageVars

StepDone ==
  /\ run.kind # "idle"
  /\ Able(Head(run.todo))
  /\ pool' = Done(Head(run.todo))
  /\ run' = IF Tail(run.todo) = <<>> THEN NoRun
            ELSE [run EXCEPT !.todo = Tail(@)]
  /\ verified' = (verified \/ Head(run.todo) = Check)
  /\ UNCHANGED <<late, faults, hasty>>

(* Mutant: nothing is asked about tools still at work. *)
GiveUpUnsettled(unsettled) ==
  run' = IF run.kind = "provision" /\ Has("security")
         THEN [run EXCEPT !.kind = "discard", !.todo = DiscardSteps]
         ELSE NoRun

(* Mutant: a pool that could not be opened is discarded as a new one is. *)
GiveUpOnAny(unsettled) ==
  run' = IF run.kind \in {"provision", "open"} /\ ~unsettled /\ Has("security")
         THEN [run EXCEPT !.kind = "discard", !.todo = DiscardSteps]
         ELSE NoRun

(* The run's answer to a failed call: a pool this run created is discarded *)
(* unless a tool of the run may still be at work; any other run returns.   *)
GiveUp(unsettled) ==
  run' = IF run.kind = "provision" /\ ~unsettled /\ Has("security")
         THEN [run EXCEPT !.kind = "discard", !.todo = DiscardSteps]
         ELSE NoRun

(* What cannot be removed keeps its directory: a temporary of a record is  *)
(* of no list, and the discard takes the mount point after the marker.     *)
Wedging(step) ==
  \/ step.verb \in {"write", "rename"} /\ run.kind = "provision"
     /\ "failed write" \notin Wedges
  \/ step.verb = "remove" /\ run.kind = "discard"
     /\ "cut discard" \notin Wedges

StepFails ==
  /\ run.kind # "idle"
  /\ \/ /\ faults < MaxFaults /\ ~Wedging(Head(run.todo))
        /\ faults' = faults + 1
     \/ ~Able(Head(run.todo)) /\ UNCHANGED faults
  /\ GiveUp(FALSE)
  /\ UNCHANGED <<pool, late, verified, hasty>>

Outlived == [late EXCEPT ![Head(run.todo).of] = @ + 1]

(* Past its deadline, or ended by a signal: nothing proves it stopped. *)
ToolOutlives ==
  /\ run.kind # "idle" /\ Head(run.todo).verb = "tool"
  /\ faults < MaxFaults /\ faults' = faults + 1
  /\ late' = Outlived
  /\ GiveUp(TRUE)
  /\ UNCHANGED <<pool, verified, hasty>>

LateToolEnds(t) ==
  /\ late[t] > 0
  /\ pool' \in {pool} \cup (IF Able(Tool(t)) THEN {Ran(t)} ELSE {})
  /\ late' = [late EXCEPT ![t] = @ - 1]
  /\ UNCHANGED <<run, faults, verified, hasty>>

Tearing(step) ==
  \/ step.verb = "write" /\ "crashed write" \notin Wedges
  \/ step.verb = "remove" /\ run.kind = "discard"
     /\ "cut discard" \notin Wedges

(* A tool at work survives the process that waited for it. *)
Killed ==
  /\ run.kind # "idle" /\ ~Tearing(Head(run.todo))
  /\ faults < MaxFaults /\ faults' = faults + 1
  /\ run' = NoRun
  /\ late' \in {late} \cup (IF Head(run.todo).verb = "tool"
                            THEN {Outlived} ELSE {})
  /\ UNCHANGED <<pool, verified, hasty>>

Reboot ==
  /\ run.kind # "idle" => ~Tearing(Head(run.todo))
  /\ faults < MaxFaults /\ faults' = faults + 1
  /\ pool' = [pool EXCEPT !.mapped = FALSE, !.mounted = FALSE]
  /\ run' = NoRun /\ late' = NoTool
  /\ UNCHANGED <<verified, hasty>>

StorageNext ==
  \/ Provision \/ Open \/ Reset \/ PoolRefused
  \/ StepDone \/ StepFails \/ ToolOutlives
  \/ \E t \in Tools : LateToolEnds(t)
  \/ Killed \/ Reboot

-----------------------------------------------------------------------------
(* Properties. *)

(* The type invariant: the pool, the command at work and its tools are     *)
(* what linux.rs can make of them.                                         *)
StorageTypeOK ==
  /\ pool \in Pool
  /\ run.kind \in {"idle", "provision", "discard", "open", "reset"}
  /\ run.kind = "idle" <=> run.todo = <<>>
  /\ \A i \in DOMAIN run.todo : run.todo[i] \in Steps
  /\ late \in [Tools -> Nat]
  /\ faults \in 0 .. MaxFaults
  /\ verified \in BOOLEAN /\ hasty \in BOOLEAN

(* Whatever a cut, failed or outlived run left behind, the reset the user   *)
(* is told to run is not refused for it: neither as a partial layout, nor   *)
(* for what it holds open (preflight_reset, reset).  Nor are the runs that  *)
(* follow, unless a reset was begun while a tool that builds the pool was   *)
(* still at work: require_settled says to wait for it, but only to the      *)
(* caller of the process it outlived.                                      *)
ResetAdmitted == run.kind = "idle" /\ ~hasty => ResetAdmits

(* No failure of a start, none of its compensations and no tool that ends  *)
(* after its run gave up, or behind a later one, orphans a layer or empties *)
(* the pool: a mapping has its image, a mount its mapping, and what a start *)
(* once returned as verified is given up by a reset only, unless a reset    *)
(* was begun beside a tool that builds (ensure, provision, discard_new,     *)
(* reset, require_settled).                                                *)
PoolSound ==
  ~hasty =>
    /\ pool.mapped => Has("image")
    /\ pool.mounted => pool.mapped /\ Has("mount")
    /\ verified => pool.luks /\ pool.fs /\ pool.volumes /\ MetadataValid
================================================================================
