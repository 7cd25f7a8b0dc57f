--------------------------- MODULE PrivateRecords ---------------------------
(***************************************************************************)
(* The files this CLI keeps: the records of the Local lifecycle             *)
(* (src/space/state.rs), written through private_file::replace under the    *)
(* lifecycle lock, and the credentials (src/credentials.rs), under theirs.  *)
(* A file is what its directory names; what a loss of power leaves of it is *)
(* any of the files it was since the directory last reached the disk, whole *)
(* only if it was synced itself.                                            *)
(***************************************************************************)
EXTENDS FiniteSets, Naturals

CONSTANTS
  Writers,     \* processes of this user
  NoWriter,
  Values,      \* what a record may say
  Stopped,     \* STOPPED, all that the stopped-state record may say
  MaxBreaks    \* bound: breaks: failed calls, killed processes, losses of power

ASSUME RecordsAssumption ==
  /\ NoWriter \notin Writers /\ Stopped \in Values /\ MaxBreaks \in Nat
  /\ Values \cap {"absent", "odd", "torn"} = {}

VARIABLES
  file,   \* the record and its directory
  writer  \* the one that holds the lock

recordVars == <<file, writer>>

(* odd: nothing that admit_record or admit lets through, like a link.      *)
Content == Values \cup {"absent", "odd"}
File == [value : Content, whole : BOOLEAN, synced : BOOLEAN]
OnDisk(v) == [value |-> v, whole |-> TRUE, synced |-> TRUE]

(* What reads and losses of power make of a file.                          *)
Seen(f)  == IF f.whole THEN f.value ELSE "torn"
After(f) == IF f.synced THEN Seen(f) ELSE "torn"

Temporary(f) == [state |-> "file", of |-> f]
NoTemporary  == [state |-> "none", of |-> OnDisk("absent")]
OddOne       == [state |-> "odd", of |-> OnDisk("odd")]

NoCall(reply) == [ by |-> NoWriter, pc |-> "idle", op |-> "none", want |-> "absent",
                 reply |-> reply ]

(* The calls on each kind of record.                                       *)
Ops(kind) ==
  CASE kind = "stopped"     -> {"write_stopped", "clear_stopped"}
    [] kind = "epoch"       -> {"write_private", "forget_state_epoch"}
    [] kind = "credentials" -> {"store", "clear"}

Clears == {"clear_stopped", "forget_state_epoch", "clear"}

(* Answered before the change is known to have reached the disk.           *)
Lax(op) == op = "clear_stopped"

Malformed == Values \ IF file.kind = "stopped" THEN {Stopped} ELSE Values

RecordsTypeOK ==
  /\ file.kind \in {"stopped", "epoch", "credentials"}
  /\ file.path \in File /\ file.durable \subseteq File /\ file.durable # {}
  /\ file.tmp.state \in {"none", "file", "odd"} /\ file.tmp.of \in File
  /\ file.breaks \in 0 .. MaxBreaks
  /\ writer.by \in Writers \cup {NoWriter}
  /\ writer.pc \in {"idle", "load", "discard", "create", "write", "sync", "rename",
                    "remove", "sync_parent"}
  /\ writer.want \in Content /\ writer.reply \in {"none", "ok", "error"}

RecordsInit ==
  /\ \E kind \in {"stopped", "epoch", "credentials"}, v \in Content,
        tmp \in {NoTemporary, OddOne} :
       file = [ kind |-> kind, path |-> OnDisk(v), tmp |-> tmp,
                durable |-> {OnDisk(v)}, breaks |-> 0 ]
  /\ writer = NoCall("none")

-----------------------------------------------------------------------------
(* A call.                                                                 *)

To(pc) == writer' = [writer EXCEPT !.pc = pc]
Replies(reply) == writer' = NoCall(reply)

(* Lock::acquire and credentials::lock: one call at a time.  The lock goes *)
(* with its process.                                                       *)
Acquire(w) ==
  /\ writer.by = NoWriter
  /\ \E op \in Ops(file.kind), v \in Values \ Malformed :
       writer' = [ by |-> w, op |-> op, reply |-> "none",
                   want |-> IF op \in Clears THEN "absent" ELSE v,
                   pc |-> CASE op \in {"write_stopped", "clear_stopped", "clear"} -> "load"
                            [] op = "forget_state_epoch" -> "remove"
                            [] OTHER -> "discard" ]
  /\ UNCHANGED file

(* stopped and load_from: what is no such record is refused.               *)
LoadRecord ==
  /\ writer.pc = "load"
  /\ IF Seen(file.path) \in {"odd", "torn"} \cup Malformed
       THEN Replies("error")
     ELSE IF (Seen(file.path) = "absent") = (writer.op \in Clears)
       THEN Replies("ok")
       ELSE To(IF writer.op \in Clears THEN "remove" ELSE "discard")
  /\ UNCHANGED file

(* A leftover temporary is discarded, if it is a regular file.  That of     *)
(* the credentials has a name of its own in every call.                    *)
Discard ==
  /\ writer.pc = "discard"
  /\ IF file.tmp.state = "odd" /\ file.kind # "credentials"
       THEN Replies("error") /\ UNCHANGED file
       ELSE /\ file' = [file EXCEPT !.tmp = NoTemporary]
            /\ To("create")

(* create_new: nobody else's temporary is written to.                      *)
CreateTemporary ==
  /\ writer.pc = "create"
  /\ IF file.tmp.state # "none"
       THEN Replies("error") /\ UNCHANGED file
       ELSE /\ file' = [file EXCEPT !.tmp = Temporary(
                 [value |-> writer.want, whole |-> FALSE, synced |-> FALSE])]
            /\ To("write")

WriteAll ==
  /\ writer.pc = "write"
  /\ file' = [file EXCEPT !.tmp.of.whole = TRUE]
  /\ To("sync")

(* Mutant: the temporary is renamed before it is synced.                   *)
SyncLater ==
  /\ writer.pc = "sync"
  /\ To("rename")
  /\ UNCHANGED file

SyncAll ==
  /\ writer.pc = "sync"
  /\ file' = [file EXCEPT !.tmp.of.synced = TRUE]
  /\ To("rename")

(* The directory names another file, or none, and reaches the disk later.  *)
Rename ==
  /\ writer.pc = "rename"
  /\ file' = [file EXCEPT !.path = file.tmp.of, !.durable = @ \cup {file.tmp.of},
                          !.tmp = NoTemporary]
  /\ To("sync_parent")

(* forget_state_epoch finds nothing to remove, and syncs nothing.          *)
RemoveFile ==
  /\ writer.pc = "remove"
  /\ IF file.path.value = "absent"
       THEN Replies("ok") /\ UNCHANGED file
       ELSE /\ file' = [file EXCEPT !.path = OnDisk("absent"),
                                    !.durable = @ \cup {OnDisk("absent")}]
            /\ To("sync_parent")

(* clear_stopped does not sync.                                            *)
SyncParent ==
  /\ writer.pc = "sync_parent"
  /\ file' = IF writer.op = "clear_stopped" THEN file
                                            ELSE [file EXCEPT !.durable = {file.path}]
  /\ Replies("ok")

-----------------------------------------------------------------------------
(* What goes wrong.                                                        *)

(* A call fails, or the process is killed: the record is as it was left.   *)
Stops ==
  /\ writer.by # NoWriter /\ file.breaks < MaxBreaks
  /\ file' = [file EXCEPT !.breaks = @ + 1]
  /\ Replies("error")

(* The directory reaches the disk in its own time.                         *)
WriteBack ==
  /\ file.durable # {file.path}
  /\ file' = [file EXCEPT !.durable = {file.path}]
  /\ UNCHANGED writer

PowerLoss ==
  /\ file.breaks < MaxBreaks
  /\ \E f \in file.durable, tmp \in {file.tmp, NoTemporary} :
       LET left == [f EXCEPT !.whole = f.whole /\ f.synced, !.synced = TRUE] IN
       file' = [file EXCEPT !.path = left, !.durable = {left}, !.tmp = tmp,
                            !.breaks = @ + 1]
  /\ Replies("none")

RecordsNext ==
  \/ \E w \in Writers : Acquire(w)
  \/ LoadRecord \/ Discard \/ CreateTemporary \/ WriteAll \/ SyncAll
  \/ Rename \/ RemoveFile \/ SyncParent
  \/ Stops \/ WriteBack \/ PowerLoss

RecordsSpec == RecordsInit /\ [][RecordsNext]_recordVars

-----------------------------------------------------------------------------
(* Properties.                                                             *)

(* What the readers of a record, the commands that write it and the host    *)
(* after a loss of power rely on: never a part of a record, and an answered *)
(* change that lasts (replace, store_at, forget_state_epoch).              *)
Promise == INSTANCE AtomicRecord WITH
  Contents <- Content,
  value    <- Seen(file.path),
  safe     <- {After(f) : f \in file.durable},
  call     <- IF writer.by = NoWriter
                THEN [busy |-> FALSE, reply |-> writer.reply]
                ELSE [busy |-> TRUE, want |-> writer.want, lax |-> Lax(writer.op),
                      changed |-> writer.pc = "sync_parent"]

(* Records are replaced atomically, and what a call changed lasts once it   *)
(* is answered, though processes are killed, calls fail and the power goes  *)
(* at any step (replace, write_private, store_at, clear_at,                 *)
(* forget_state_epoch).  clear_stopped alone answers before its removal has *)
(* reached the disk.                                                       *)
RecordsKept == Promise!Init /\ [][Promise!Next]_(Promise!record)
=============================================================================
