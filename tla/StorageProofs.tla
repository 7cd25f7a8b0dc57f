----------------------------- MODULE StorageProofs -----------------------------
(***************************************************************************)
(* Proofs about what the CLI keeps on a disk: single records               *)
(* (PrivateRecords implements AtomicRecord, for any values, any writers     *)
(* and any number of failed calls, killed processes and losses of power)    *)
(* and the encrypted pool (StoragePool, for any number of faults).  Each    *)
(* has an inductive invariant of its own.                                  *)
(***************************************************************************)
EXTENDS PrivateRecords, StoragePool, SequenceTheorems, TLAPS

AllOps == { "write_stopped", "clear_stopped", "write_private",
            "forget_state_epoch", "store", "clear" }

Pcs == { "idle", "load", "discard", "create", "write", "sync", "rename",
         "remove", "sync_parent" }

Directories == [ kind : {"stopped", "epoch", "credentials"}, path : File,
          tmp : [state : {"none", "file", "odd"}, of : File],
          durable : SUBSET File, breaks : 0 .. MaxBreaks ]

Call == [ by : Writers \cup {NoWriter}, pc : Pcs, op : AllOps \cup {"none"},
          want : Content, reply : {"none", "ok", "error"} ]

(* Whatever the directory may be left with was written whole and synced    *)
(* before it got its name.                                                 *)
Solid(f) == f.whole /\ f.synced

Lasting ==
  /\ file.path \in file.durable
  /\ \A f \in file.durable : Solid(f)

(* What the writer relies on at each step.                                 *)
WriterReady ==
  /\ writer.by = NoWriter <=> writer.pc = "idle"
  /\ writer.pc # "idle" =>
       writer.op \in AllOps /\ (writer.op \in Clears <=> writer.want = "absent")
  /\ writer.pc # "idle" /\ writer.op = "write_stopped" =>
       file.kind = "stopped" /\ writer.want = Stopped
  /\ writer.pc = "load" => writer.op \in Clears \cup {"write_stopped"}
  /\ writer.pc = "remove" => writer.op \in Clears
  /\ writer.pc \in {"discard", "create", "write", "sync", "rename"} =>
       writer.op \notin Clears

(* The temporary holds what will be the record.                            *)
TmpPrepared ==
  /\ writer.pc \in {"write", "sync", "rename"} => file.tmp.of.value = writer.want
  /\ writer.pc \in {"sync", "rename"} => file.tmp.of.whole
  /\ writer.pc = "rename" => file.tmp.of.synced
  /\ writer.pc = "sync_parent" => file.path.value = writer.want

RecInv ==
  /\ file \in Directories /\ writer \in Call
  /\ Lasting /\ WriterReady /\ TmpPrepared

-----------------------------------------------------------------------------
(* The shape of what the directory may hold.                               *)

LEMMA OnDiskSolid ==
  ASSUME NEW v \in Content
  PROVE  OnDisk(v) \in File /\ Solid(OnDisk(v)) /\ OnDisk(v).value = v
  BY DEF OnDisk, File, Solid

(* A solid file is read, and left by a loss of power, as what it says.     *)
LEMMA SolidIsSeen ==
  ASSUME NEW f \in File, Solid(f)
  PROVE  Seen(f) = f.value /\ After(f) = f.value
         /\ [f EXCEPT !.whole = f.whole /\ f.synced, !.synced = TRUE] = f
  BY DEF File, Solid, Seen, After

-----------------------------------------------------------------------------
(* The inductive invariant.                                                *)

(* Every record begins whole, and nobody writes it.                        *)
LEMMA InitRInv == RecordsInit => RecInv
<1> SUFFICES ASSUME RecordsInit PROVE RecInv
  OBVIOUS
<1>1. PICK kind \in {"stopped", "epoch", "credentials"}, v \in Content,
           tmp \in {NoTemporary, OddOne} :
        file = [ kind |-> kind, path |-> OnDisk(v), tmp |-> tmp,
                 durable |-> {OnDisk(v)}, breaks |-> 0 ]
  BY DEF RecordsInit
<1>2. tmp \in [state : {"none", "file", "odd"}, of : File]
  BY OnDiskSolid DEF NoTemporary, OddOne, Content
<1>3. 0 \in 0 .. MaxBreaks
  BY RecordsAssumption
<1>4. file \in Directories
  BY <1>1, <1>2, <1>3, OnDiskSolid DEF Directories
<1>5. writer = NoCall("none")
  BY DEF RecordsInit
<1>6. writer \in Call /\ writer.pc = "idle" /\ writer.by = NoWriter
  BY <1>5 DEF NoCall, Call, Content, Pcs
<1>7. Lasting
  BY <1>1, OnDiskSolid DEF Lasting
<1>8. WriterReady /\ TmpPrepared
  BY <1>6 DEF WriterReady, TmpPrepared
<1> QED
  BY <1>4, <1>6, <1>7, <1>8 DEF RecInv

(* A name is given to nothing but a synced temporary, and taken away whole. *)
LEMMA NextRInv == RecInv /\ [RecordsNext]_recordVars => RecInv'
<1> SUFFICES ASSUME RecInv, [RecordsNext]_recordVars PROVE RecInv'
  OBVIOUS
<1> USE DEF RecInv
<1>c. \A reply \in {"none", "ok", "error"} :
        /\ NoCall(reply) \in Call
        /\ NoCall(reply).pc = "idle" /\ NoCall(reply).by = NoWriter
  BY DEF NoCall, Call, Content, Pcs
<1>r. ASSUME NEW reply \in {"none", "ok", "error"}, Replies(reply),
             file' \in Directories, Lasting'
      PROVE  RecInv'
  <2>1. writer' \in Call /\ writer'.pc = "idle" /\ writer'.by = NoWriter
    BY <1>r, <1>c DEF Replies
  <2> QED
    BY <1>r, <2>1 DEF WriterReady, TmpPrepared
<1>l. UNCHANGED file => file' \in Directories /\ Lasting'
  BY DEF Lasting, Solid
<1>1. ASSUME NEW w \in Writers, Acquire(w) PROVE RecInv'
  <2>1. PICK op \in Ops(file.kind), v \in Values \ Malformed :
          writer' = [ by |-> w, op |-> op, reply |-> "none",
                      want |-> IF op \in Clears THEN "absent" ELSE v,
                      pc |-> CASE op \in {"write_stopped", "clear_stopped", "clear"} -> "load"
                               [] op = "forget_state_epoch" -> "remove"
                               [] OTHER -> "discard" ]
    BY <1>1 DEF Acquire
  <2>2. op \in AllOps /\ (op = "write_stopped" => file.kind = "stopped")
    BY <2>1 DEF Ops, AllOps, Directories
  <2>3. v \in Content /\ v # "absent"
    BY <2>1, RecordsAssumption DEF Content
  <2>4. op = "write_stopped" => v = Stopped
    BY <2>1, <2>2 DEF Malformed
  <2>5. writer' \in Call /\ writer'.pc \in {"load", "remove", "discard"}
        /\ writer'.op = op /\ writer'.by # NoWriter
        /\ writer'.want = IF op \in Clears THEN "absent" ELSE v
    BY <2>1, <2>2, <2>3, RecordsAssumption
       DEF Call, Pcs, AllOps, Content
  <2>6. /\ writer'.pc = "load" => op \in Clears \cup {"write_stopped"}
        /\ writer'.pc = "remove" => op \in Clears
        /\ writer'.pc = "discard" => op \notin Clears
    BY <2>1, <2>2 DEF Clears, AllOps
  <2>7. UNCHANGED file
    BY <1>1 DEF Acquire
  <2>8. WriterReady'
    BY <2>2, <2>3, <2>4, <2>5, <2>6, <2>7 DEF WriterReady, Clears, Call
  <2> QED
    BY <1>l, <2>5, <2>7, <2>8 DEF TmpPrepared
<1>2. ASSUME LoadRecord PROVE RecInv'
  <2>1. CASE Replies("error") \/ Replies("ok")
    BY <1>2, <2>1, <1>r, <1>l DEF LoadRecord
  <2>2. CASE To(IF writer.op \in Clears THEN "remove" ELSE "discard")
    BY <1>2, <2>2, <1>l DEF LoadRecord, To, Call, Pcs, WriterReady, TmpPrepared
  <2> QED
    BY <1>2, <2>1, <2>2 DEF LoadRecord
<1>3. ASSUME Discard PROVE RecInv'
  <2>1. CASE Replies("error")
    BY <1>3, <2>1, <1>r, <1>l DEF Discard, To, Replies, NoCall
  <2>2. CASE file' = [file EXCEPT !.tmp = NoTemporary] /\ To("create")
    <3>1. file' \in Directories
      BY <2>2, OnDiskSolid DEF Directories, NoTemporary, Content
    <3> QED
      BY <1>3, <2>2, <3>1 DEF Discard, To, Call, Pcs, WriterReady, TmpPrepared, Lasting, Directories, Solid
  <2> QED
    BY <1>3, <2>1, <2>2 DEF Discard
<1>4. ASSUME CreateTemporary PROVE RecInv'
  <2>1. CASE Replies("error") /\ UNCHANGED file
    BY <2>1, <1>r, <1>l
  <2>2. CASE /\ file' = [file EXCEPT !.tmp = Temporary(
                  [value |-> writer.want, whole |-> FALSE, synced |-> FALSE])]
             /\ To("write")
    <3>1. file' \in Directories /\ file'.tmp.of.value = writer.want
      BY <2>2 DEF Directories, Call, Temporary, File
    <3> QED
      BY <1>4, <2>2, <3>1
         DEF CreateTemporary, To, Call, Pcs, WriterReady, TmpPrepared, Lasting, Directories, Solid
  <2> QED
    BY <1>4, <2>1, <2>2 DEF CreateTemporary
<1>5. ASSUME WriteAll PROVE RecInv'
  <2>1. file' \in Directories /\ file'.tmp.of.value = file.tmp.of.value /\ file'.tmp.of.whole
    BY <1>5 DEF WriteAll, Directories, File
  <2> QED
    BY <1>5, <2>1
       DEF WriteAll, To, Call, Pcs, WriterReady, TmpPrepared, Lasting, Directories, Solid
<1>6. ASSUME SyncAll PROVE RecInv'
  <2>1. /\ file' \in Directories /\ file'.tmp.of.value = file.tmp.of.value
        /\ file'.tmp.of.whole = file.tmp.of.whole /\ file'.tmp.of.synced
    BY <1>6 DEF SyncAll, Directories, File
  <2> QED
    BY <1>6, <2>1
       DEF SyncAll, To, Call, Pcs, WriterReady, TmpPrepared, Lasting, Directories, Solid
<1>7. ASSUME Rename PROVE RecInv'
  <2>1. file' \in Directories /\ file'.kind = file.kind /\ file'.path = file.tmp.of
        /\ file'.durable = file.durable \cup {file.tmp.of}
    BY <1>7, OnDiskSolid DEF Rename, Directories, NoTemporary, Content
  <2>2. Solid(file.tmp.of) /\ file.tmp.of.value = writer.want
    BY <1>7 DEF Rename, TmpPrepared, Solid
  <2>3. writer' \in Call /\ writer'.pc = "sync_parent"
        /\ writer'.by = writer.by /\ writer'.op = writer.op /\ writer'.want = writer.want
    BY <1>7 DEF Rename, To, Call, Pcs
  <2>4. Lasting'
    BY <2>1, <2>2 DEF Lasting, Solid
  <2>5. WriterReady'
    BY <1>7, <2>1, <2>3 DEF WriterReady, Rename
  <2> QED
    BY <2>1, <2>2, <2>3, <2>4, <2>5 DEF TmpPrepared
<1>8. ASSUME RemoveFile PROVE RecInv'
  <2>1. CASE Replies("ok") /\ UNCHANGED file
    BY <2>1, <1>r, <1>l
  <2>2. CASE /\ file' = [file EXCEPT !.path = OnDisk("absent"),
                                     !.durable = @ \cup {OnDisk("absent")}]
             /\ To("sync_parent")
    <3>1. "absent" \in Content
      BY DEF Content
    <3>2. file' \in Directories /\ file'.kind = file.kind /\ file'.path = OnDisk("absent")
          /\ file'.durable = file.durable \cup {OnDisk("absent")}
      BY <2>2, <3>1, OnDiskSolid DEF Directories
    <3>3. Lasting'
      BY <3>1, <3>2, OnDiskSolid DEF Lasting, Solid
    <3>4. writer' \in Call /\ writer'.pc = "sync_parent"
          /\ writer'.by = writer.by /\ writer'.op = writer.op /\ writer'.want = writer.want
      BY <2>2 DEF To, Call, Pcs
    <3>5. WriterReady'
      BY <1>8, <3>2, <3>4 DEF WriterReady, RemoveFile
    <3>6. file'.path.value = writer.want
      BY <1>8, <3>1, <3>2, OnDiskSolid DEF WriterReady, RemoveFile
    <3> QED
      BY <3>2, <3>3, <3>4, <3>5, <3>6 DEF TmpPrepared
  <2> QED
    BY <1>8, <2>1, <2>2 DEF RemoveFile
<1>9. ASSUME SyncParent PROVE RecInv'
  <2>1. file' \in Directories /\ Lasting'
    BY <1>9 DEF SyncParent, Directories, Lasting, Solid
  <2> QED
    BY <1>9, <2>1, <1>r DEF SyncParent
<1>10. ASSUME Stops PROVE RecInv'
  <2>1. file.breaks + 1 \in 0 .. MaxBreaks
    BY <1>10, RecordsAssumption DEF Stops, Directories
  <2>2. file' \in Directories /\ Lasting'
    BY <1>10, <2>1 DEF Stops, Directories, Lasting, Solid
  <2> QED
    BY <1>10, <2>2, <1>r DEF Stops
<1>11. ASSUME WriteBack PROVE RecInv'
  <2>1. file' \in Directories /\ Lasting' /\ file'.path = file.path /\ file'.tmp = file.tmp
        /\ file'.kind = file.kind
    BY <1>11 DEF WriteBack, Directories, Lasting, Solid
  <2> QED
    BY <1>11, <2>1 DEF WriteBack, WriterReady, TmpPrepared
<1>12. ASSUME PowerLoss PROVE RecInv'
  <2>1. PICK f \in file.durable, tmp \in {file.tmp, NoTemporary} :
          LET left == [f EXCEPT !.whole = f.whole /\ f.synced, !.synced = TRUE] IN
          file' = [file EXCEPT !.path = left, !.durable = {left}, !.tmp = tmp,
                               !.breaks = @ + 1]
    BY <1>12 DEF PowerLoss
  <2>2. f \in File /\ Solid(f)
    BY DEF Directories, Lasting
  <2>3. file' = [file EXCEPT !.path = f, !.durable = {f}, !.tmp = tmp, !.breaks = @ + 1]
    BY <2>1, <2>2, SolidIsSeen
  <2>4. file.breaks + 1 \in 0 .. MaxBreaks
    BY <1>12, RecordsAssumption DEF PowerLoss, Directories
  <2>5. tmp \in [state : {"none", "file", "odd"}, of : File]
    BY OnDiskSolid DEF Directories, NoTemporary, Content
  <2>6. file' \in Directories /\ Lasting'
    BY <2>2, <2>3, <2>4, <2>5 DEF Directories, Lasting, Solid
  <2> QED
    BY <1>12, <2>6, <1>r DEF PowerLoss
<1>13. ASSUME UNCHANGED recordVars PROVE RecInv'
  BY <1>13 DEF recordVars, Lasting, Solid, WriterReady, TmpPrepared
<1> QED
  BY <1>1, <1>2, <1>3, <1>4, <1>5, <1>6, <1>7, <1>8, <1>9, <1>10, <1>11, <1>12, <1>13
     DEF RecordsNext

(* RecInv holds in every state.                                            *)
LEMMA Invariance == RecordsSpec => []RecInv
  BY InitRInv, NextRInv, PTL DEF RecordsSpec

-----------------------------------------------------------------------------
(* The refinement.                                                         *)

(* Nothing torn is read or left: the mapping yields values.                *)
LEMMA Mapped ==
  ASSUME RecInv
  PROVE  /\ Seen(file.path) = file.path.value /\ file.path.value \in Content
         /\ {After(f) : f \in file.durable} = {f.value : f \in file.durable}
<1>1. file.path \in File /\ Solid(file.path)
      /\ \A f \in file.durable : f \in File /\ Solid(f)
  BY DEF RecInv, Directories, Lasting
<1>2. \A f \in file.durable : After(f) = f.value
  BY <1>1, SolidIsSeen
<1>3. {After(f) : f \in file.durable} = {f.value : f \in file.durable}
  BY <1>2
<1>4. Seen(file.path) = file.path.value /\ file.path.value \in Content
  BY <1>1, SolidIsSeen DEF File
<1> QED
  BY <1>3, <1>4

(* A call under way, as the abstract record sees it.                       *)
Asked == [busy : {TRUE}, want : Content, lax : BOOLEAN, changed : BOOLEAN]

(* Two calls that differ in that the second has changed the record.        *)
LEMMA RecordChanged ==
  ASSUME NEW c \in Asked, NEW d \in Asked,
         d.want = c.want, d.lax = c.lax, d.changed
  PROVE  d = [c EXCEPT !.changed = TRUE]
  BY DEF Asked

(* The initial states map to initial states.                               *)
LEMMA InitPromised == RecordsInit => Promise!Init
<1> SUFFICES ASSUME RecordsInit PROVE Promise!Init
  OBVIOUS
<1>1. RecInv
  BY InitRInv
<1>2. file.durable = {file.path}
  BY DEF RecordsInit
<1>3. writer.by = NoWriter /\ writer.reply = "none"
  BY DEF RecordsInit, NoCall
<1> QED
  BY <1>1, <1>2, <1>3, Mapped DEF Promise!Init, Promise!Quiet

(* Every step maps to a step of the abstract record, or to none.           *)
LEMMA NextPromised ==
  RecInv /\ RecInv' /\ [RecordsNext]_recordVars
    => [Promise!Next]_(Promise!record)
<1> SUFFICES ASSUME RecInv, RecInv', [RecordsNext]_recordVars
             PROVE  [Promise!Next]_(Promise!record)
  OBVIOUS
<1> DEFINE call(w) == IF w.by = NoWriter
                        THEN [busy |-> FALSE, reply |-> w.reply]
                        ELSE [busy |-> TRUE, want |-> w.want, lax |-> Lax(w.op),
                              changed |-> w.pc = "sync_parent"]
<1> DEFINE safe == {After(f) : f \in file.durable}
<1>m. /\ Seen(file.path) = file.path.value /\ file.path.value \in Content
      /\ safe = {f.value : f \in file.durable}
  BY Mapped
<1>n. /\ Seen(file.path)' = file'.path.value
      /\ safe' = {f.value : f \in file'.durable}
  <2>1. file'.path \in File /\ Solid(file'.path)
        /\ \A f \in file'.durable : f \in File /\ Solid(f)
    BY DEF RecInv, Directories, Lasting, Solid
  <2>2. \A f \in file'.durable : After(f) = f.value
    BY <2>1, SolidIsSeen
  <2>3. Seen(file'.path) = file'.path.value
    BY <2>1, SolidIsSeen
  <2> QED
    BY <2>2, <2>3 DEF Seen
<1>w. writer \in Call /\ writer' \in Call /\ WriterReady /\ WriterReady' /\ TmpPrepared
      /\ file.path \in file.durable
  BY DEF RecInv, Lasting
<1>q. ASSUME NEW reply \in {"none", "ok", "error"}, Replies(reply)
      PROVE  call(writer)' = Promise!Quiet(reply)
  BY <1>q DEF Replies, NoCall, Promise!Quiet
<1>u. ASSUME UNCHANGED file
      PROVE  UNCHANGED <<Seen(file.path), safe>>
  BY <1>u
<1>s. ASSUME UNCHANGED <<file.path, file.durable>>, UNCHANGED call(writer)
      PROVE  UNCHANGED Promise!record
  BY <1>s DEF Promise!record
<1>t. ASSUME NEW pc \in Pcs \ {"idle", "sync_parent"}, To(pc),
             writer.pc \notin {"idle", "sync_parent"}
      PROVE  UNCHANGED call(writer)
  BY <1>t, <1>w DEF To, Call, WriterReady
<1>1. ASSUME NEW w \in Writers, Acquire(w) PROVE Promise!Ask
  <2>1. writer.by = NoWriter /\ writer'.by # NoWriter /\ UNCHANGED file
    BY <1>1, RecordsAssumption DEF Acquire
  <2>2. writer'.pc \in {"load", "remove", "discard"}
    BY <1>1 DEF Acquire
  <2>3. writer'.want \in Content /\ Lax(writer'.op) \in BOOLEAN
    BY <1>w DEF Call, Lax
  <2>4. ~call(writer).busy /\ call(writer)'.busy /\ ~call(writer)'.changed
    BY <2>1, <2>2
  <2>5. call(writer)' \in Promise!Calls
    BY <2>1, <2>2, <2>3 DEF Promise!Calls
  <2> QED
    BY <1>u, <2>1, <2>4, <2>5 DEF Promise!Ask
<1>b. ASSUME writer.by # NoWriter, UNCHANGED <<file.path, file.durable>>,
             Replies("error")
      PROVE  Promise!Break
  <2>1. UNCHANGED <<Seen(file.path), safe>>
    BY <1>b
  <2>2. call(writer).busy
    BY <1>b
  <2> QED
    BY <1>b, <1>q, <2>1, <2>2 DEF Promise!Break
<1>a. ASSUME writer.pc \notin {"idle", "sync_parent"}, UNCHANGED file,
             Replies("ok"), file.path.value = writer.want
      PROVE  Promise!Answer
  <2>1. call(writer).busy /\ ~call(writer).changed /\ Seen(file.path) = call(writer).want
    BY <1>a, <1>m, <1>w DEF WriterReady
  <2> QED
    BY <1>a, <1>q, <1>u, <2>1 DEF Promise!Answer
<1>h. ASSUME writer.pc \notin {"idle", "sync_parent"}, To("sync_parent"),
             file'.path.value = writer.want,
             {f.value : f \in file'.durable}
               = {f.value : f \in file.durable} \cup {writer.want}
      PROVE  Promise!Change
  <2>1. call(writer).busy /\ call(writer).want = writer.want
    BY <1>h, <1>w DEF WriterReady
  <2>2. call(writer)' = [call(writer) EXCEPT !.changed = TRUE]
    <3>1. writer'.by = writer.by /\ writer'.want = writer.want
          /\ writer'.op = writer.op /\ writer'.pc = "sync_parent"
      BY <1>h, <1>w DEF To, Call
    <3>2. writer.by # NoWriter
      BY <1>h, <1>w DEF WriterReady
    <3>3. call(writer) = [ busy |-> TRUE, want |-> writer.want,
                           lax |-> Lax(writer.op), changed |-> FALSE ]
      BY <1>h, <3>2
    <3>4. call(writer)' = [ busy |-> TRUE, want |-> writer.want,
                            lax |-> Lax(writer.op), changed |-> TRUE ]
      BY <3>1, <3>2
    <3>5. call(writer) \in Asked /\ call(writer)' \in Asked
      BY <1>w, <3>3, <3>4 DEF Asked, Call, Lax
    <3>6. call(writer)'.want = call(writer).want
          /\ call(writer)'.lax = call(writer).lax /\ call(writer)'.changed
      BY <3>3, <3>4
    <3> HIDE DEF call
    <3> QED
      BY <3>5, <3>6, RecordChanged
  <2> QED
    BY <1>h, <1>m, <1>n, <2>1, <2>2 DEF Promise!Change
<1>2. ASSUME LoadRecord PROVE [Promise!Next]_(Promise!record)
  <2>1. writer.pc = "load" /\ UNCHANGED file
    BY <1>2 DEF LoadRecord
  <2>2. CASE Replies("error")
    BY <1>b, <1>w, <2>1, <2>2 DEF WriterReady, Promise!Next
  <2>3. CASE /\ Replies("ok")
             /\ Seen(file.path) \notin {"odd", "torn"} \cup Malformed
             /\ (Seen(file.path) = "absent") = (writer.op \in Clears)
    <3>1. CASE writer.op \in Clears
      BY <1>a, <1>m, <1>w, <2>1, <2>3, <3>1 DEF WriterReady, Promise!Next
    <3>2. CASE writer.op = "write_stopped" /\ writer.op \notin Clears
      BY <1>a, <1>m, <1>w, <2>1, <2>3, <3>2
         DEF WriterReady, Promise!Next, Malformed, Content
    <3> QED
      BY <1>w, <2>1, <3>1, <3>2 DEF WriterReady
  <2>4. CASE To(IF writer.op \in Clears THEN "remove" ELSE "discard")
    BY <1>s, <1>t, <2>1, <2>4 DEF Pcs
  <2> QED
    BY <1>2, <2>2, <2>3, <2>4 DEF LoadRecord
<1>3. ASSUME Discard PROVE [Promise!Next]_(Promise!record)
  <2>1. CASE Replies("error") /\ UNCHANGED file
    BY <1>3, <1>b, <1>w, <2>1 DEF Discard, WriterReady, Promise!Next
  <2>2. CASE file' = [file EXCEPT !.tmp = NoTemporary] /\ To("create")
    BY <1>3, <1>s, <1>t, <2>2 DEF Discard, Pcs, RecInv, Directories
  <2> QED
    BY <1>3, <2>1, <2>2 DEF Discard
<1>4. ASSUME CreateTemporary PROVE [Promise!Next]_(Promise!record)
  <2>1. CASE Replies("error") /\ UNCHANGED file
    BY <1>4, <1>b, <1>w, <2>1 DEF CreateTemporary, WriterReady, Promise!Next
  <2>2. CASE /\ file' = [file EXCEPT !.tmp = Temporary(
                  [value |-> writer.want, whole |-> FALSE, synced |-> FALSE])]
             /\ To("write")
    BY <1>4, <1>s, <1>t, <2>2 DEF CreateTemporary, Pcs, RecInv, Directories
  <2> QED
    BY <1>4, <2>1, <2>2 DEF CreateTemporary
<1>5. ASSUME WriteAll PROVE [Promise!Next]_(Promise!record)
  BY <1>5, <1>s, <1>t DEF WriteAll, Pcs, RecInv, Directories
<1>6. ASSUME SyncAll PROVE [Promise!Next]_(Promise!record)
  BY <1>6, <1>s, <1>t DEF SyncAll, Pcs, RecInv, Directories
<1>7. ASSUME Rename PROVE Promise!Change
  <2>1. file'.path = file.tmp.of /\ file'.durable = file.durable \cup {file.tmp.of}
    BY <1>7 DEF Rename, RecInv, Directories
  <2>2. writer.pc = "rename" /\ To("sync_parent") /\ file.tmp.of.value = writer.want
    BY <1>7, <1>w DEF Rename, TmpPrepared
  <2> QED
    BY <1>h, <2>1, <2>2
<1>8. ASSUME RemoveFile PROVE [Promise!Next]_(Promise!record)
  <2>1. writer.pc = "remove" /\ writer.want = "absent"
    BY <1>8, <1>w DEF RemoveFile, WriterReady
  <2>2. CASE file.path.value = "absent" /\ Replies("ok") /\ UNCHANGED file
    BY <1>a, <2>1, <2>2 DEF Promise!Next
  <2>3. CASE /\ file' = [file EXCEPT !.path = OnDisk("absent"),
                                     !.durable = @ \cup {OnDisk("absent")}]
             /\ To("sync_parent")
    <3>1. OnDisk("absent").value = "absent"
      BY DEF OnDisk
    <3>2. file'.path = OnDisk("absent")
          /\ file'.durable = file.durable \cup {OnDisk("absent")}
      BY <2>3 DEF RecInv, Directories
    <3> QED
      BY <1>h, <2>1, <2>3, <3>1, <3>2 DEF Promise!Next
  <2> QED
    BY <1>8, <2>2, <2>3 DEF RemoveFile
<1>9. ASSUME SyncParent PROVE Promise!Answer
  <2>1. call(writer).busy /\ Seen(file.path) = call(writer).want
        /\ call(writer).lax = (writer.op = "clear_stopped")
    BY <1>9, <1>m, <1>w DEF SyncParent, WriterReady, TmpPrepared, Lax
  <2>2. call(writer)' = Promise!Quiet("ok")
    BY <1>9, <1>q DEF SyncParent
  <2>3. CASE writer.op = "clear_stopped"
    BY <1>9, <1>u, <2>1, <2>2, <2>3 DEF SyncParent, Promise!Answer
  <2>4. CASE writer.op # "clear_stopped"
    <3>1. file'.path = file.path /\ file'.durable = {file.path}
      BY <1>9, <2>4 DEF SyncParent, RecInv, Directories
    <3>2. Seen(file.path)' = Seen(file.path) /\ safe' = {Seen(file.path)}
      BY <1>m, <1>n, <3>1
    <3> QED
      BY <2>1, <2>2, <3>2 DEF Promise!Answer
  <2> QED
    BY <2>3, <2>4
<1>10. ASSUME Stops PROVE Promise!Break
  BY <1>10, <1>b DEF Stops, RecInv, Directories
<1>11. ASSUME WriteBack PROVE Promise!Harden
  <2>1. file'.path = file.path /\ file'.durable = {file.path} /\ UNCHANGED writer
    BY <1>11 DEF WriteBack, RecInv, Directories
  <2>2. Seen(file.path)' = Seen(file.path) /\ safe' = {Seen(file.path)}
    BY <1>m, <1>n, <2>1
  <2> QED
    BY <2>1, <2>2 DEF Promise!Harden
<1>12. ASSUME PowerLoss PROVE Promise!PowerLost
  <2>1. PICK f \in file.durable, tmp \in {file.tmp, NoTemporary} :
          LET left == [f EXCEPT !.whole = f.whole /\ f.synced, !.synced = TRUE] IN
          file' = [file EXCEPT !.path = left, !.durable = {left}, !.tmp = tmp,
                               !.breaks = @ + 1]
    BY <1>12 DEF PowerLoss
  <2>2. f \in File /\ Solid(f)
    BY DEF RecInv, Directories, Lasting
  <2>3. file' = [file EXCEPT !.path = f, !.durable = {f}, !.tmp = tmp, !.breaks = @ + 1]
    BY <2>1, <2>2, SolidIsSeen
  <2>4. file'.path = f /\ file'.durable = {f}
    BY <2>3 DEF RecInv, Directories
  <2>5. Seen(file.path)' \in safe /\ safe' = {Seen(file.path)'}
    BY <1>m, <1>n, <2>4
  <2>6. call(writer)' = Promise!Quiet("none")
    BY <1>12, <1>q DEF PowerLoss
  <2> QED
    BY <2>5, <2>6 DEF Promise!PowerLost
<1>13. ASSUME UNCHANGED recordVars PROVE UNCHANGED Promise!record
  BY <1>13, <1>s DEF recordVars
<1> QED
  BY <1>1, <1>2, <1>3, <1>4, <1>5, <1>6, <1>7, <1>8, <1>9, <1>10, <1>11, <1>12, <1>13
     DEF RecordsNext, Promise!Next

(* Every record is replaced atomically, and what a call changed is all that *)
(* a loss of power can leave once it is answered: the removal of the stop   *)
(* record alone is answered sooner.  Held by what is ever named was synced  *)
(* before (RecInv), for any number of breaks.                              *)
THEOREM RecordsAtomic == RecordsSpec => RecordsKept
<1>1. RecordsInit => Promise!Init
  BY InitPromised
<1>2. RecInv /\ RecInv' /\ [RecordsNext]_recordVars => [Promise!Next]_(Promise!record)
  BY NextPromised
<1> QED
  BY <1>1, <1>2, Invariance, PTL DEF RecordsSpec, RecordsKept

-----------------------------------------------------------------------------
(* StoragePool.  Two invariants.  PoolInv: each layer has what it rests on, *)
(* because what a run has left to do takes the layers in order.  ResetInv   *)
(* adds what a reset looks for, and that a discard or a reset under way     *)
(* still has the removal of everything that is there.                      *)

StorageSpec == StorageInit /\ [][StorageNext]_storageVars

-----------------------------------------------------------------------------
(* What a run has left to do.  A provision goes through one list, and how  *)
(* many steps are left tells where it is.                                  *)

Creating ==
  [r \in 1 .. 16 |->
     CASE r = 1  -> Make("security")
       [] r = 2  -> Make("marker_torn")
       [] r = 3  -> Fill("marker_tmp")
       [] r = 4  -> Place("marker")
       [] r = 5  -> Make("image")
       [] r = 6  -> Tool("install")
       [] r = 7  -> Ask
       [] r = 8  -> Tool("format")
       [] r = 9  -> Make("uuid_tmp")
       [] r = 10 -> Place("uuid")
       [] r = 11 -> Tool("open")
       [] r = 12 -> Tool("mkfs")
       [] r = 13 -> Tool("mount")
       [] r = 14 -> Tool("own")
       [] r = 15 -> Tool("volumes")
       [] r = 16 -> Check]

(* The step a provision is at.                                             *)
Progress == 17 - Len(run.todo)

Creates ==
  /\ Len(run.todo) \in 1 .. 16
  /\ \A i \in 1 .. Len(run.todo) : run.todo[i] = Creating[16 - Len(run.todo) + i]

Opening == {Ask, Tool("open"), Tool("mount"), Tool("own"), Tool("volumes"), Check}

(* The two that clear a pool away pass over what is absent; what they have *)
(* left is a set, in one order but for the mount point.                    *)
Discarding == { Tool("umount"), Tool("close"), Remove("uuid"), Remove("image"),
                Remove("marker"), Remove("mount"), Remove("security") }

Resetting == Discarding \cup {Place("marker"), Remove("uuid_tmp")}

ClearKinds == {"discard", "reset"}

Clearing(kind) == IF kind = "discard" THEN Discarding ELSE Resetting

Rank(kind) ==
  [x \in Resetting |->
     CASE x = Place("marker")   -> 1
       [] x = Tool("umount")     -> 2
       [] x = Tool("close")      -> 3
       [] x = Remove("uuid")     -> 4
       [] x = Remove("uuid_tmp") -> 5
       [] x = Remove("image")    -> 7
       [] x = Remove("marker")   -> 8
       [] x = Remove("mount")    -> IF kind = "discard" THEN 9 ELSE 6
       [] x = Remove("security") -> 10]

Elements(s) == {s[i] : i \in 1 .. Len(s)}

Sorted(kind, s) ==
  \A i, j \in 1 .. Len(s) : i < j => Rank(kind)[s[i]] < Rank(kind)[s[j]]

(* A plan: in order, and of nothing else than such a run does.             *)
Plans(kind, s) ==
  s \in Seq(Steps) /\ Elements(s) \subseteq Clearing(kind) /\ Sorted(kind, s)

Left(step) == step \in Elements(run.todo)

-----------------------------------------------------------------------------
(* The invariant. *)

PoolTypes ==
  /\ pool \in Pool
  /\ run \in [kind : {"idle", "provision", "open"} \cup ClearKinds, todo : Seq(Steps)]
  /\ run.kind = "idle" <=> run.todo = <<>>
  /\ late \in [Tools -> Nat]
  /\ faults \in 0 .. MaxFaults
  /\ verified \in BOOLEAN /\ hasty \in BOOLEAN

(* What each layer of a pool rests on.                                     *)
Layered ==
  /\ pool.files # {} => Has("security")
  /\ pool.luks => Has("image")
  /\ pool.fs => pool.luks
  /\ pool.mapped => pool.luks
  /\ pool.mounted => pool.mapped /\ pool.fs /\ Has("mount")
  /\ verified => pool.luks /\ pool.fs /\ pool.volumes /\ MetadataValid

(* No tool that builds is at work behind its caller.                       *)
Builders == Tools \ {"umount", "close"}
Quiet == \A t \in Builders : late[t] = 0

(* Who is at work, and what it may no longer find verified: a tool that     *)
(* builds is beside no run but an opening, and one mkfs goes on at most.    *)
Attended ==
  /\ ~Quiet => run.kind \in {"idle", "open"} /\ Has("security")
  /\ run.kind \in {"provision", "discard", "reset"} => ~verified
  /\ late["mkfs"] > 0 => late["mkfs"] = 1 /\ ~pool.fs

(* The pool a provision at step n has to do with; an umount or a close of   *)
(* an earlier run may still undo its last layers.                          *)
ProvisionedTo(p, n) ==
  /\ "security" \in p.files <=> n > 1
  /\ "marker_torn" \in p.files <=> n = 3
  /\ "marker_tmp" \in p.files <=> n = 4
  /\ "marker" \in p.files <=> n > 4
  /\ "image" \in p.files <=> n > 5
  /\ "mount" \in p.files <=> n > 6
  /\ p.luks <=> n > 8
  /\ "uuid_tmp" \in p.files <=> n = 10
  /\ "uuid" \in p.files <=> n > 10
  /\ p.mapped => n > 11
  /\ p.fs <=> n > 12
  /\ p.mounted => n > 13 /\ p.mapped

(* What a run has left is of its kind, and takes the upper layers first.   *)
OnPlan ==
  /\ run.kind = "provision" => Creates /\ ProvisionedTo(pool, Progress)
  /\ run.kind = "open" => run.todo \in Seq(Opening) /\ Has("security")
  /\ run.kind \in ClearKinds =>
       /\ Has("security")
       /\ Plans(run.kind, run.todo)
       /\ pool.mounted => Left(Tool("umount"))
       /\ pool.mapped => Left(Tool("close"))

PoolInv == PoolTypes /\ Layered /\ Attended /\ OnPlan

(* Until a reset was begun beside a tool that builds.                      *)
PoolAlways == PoolTypes /\ (~hasty => PoolInv)

(* A pool with everything a start needs of it.                             *)
Complete ==
  /\ {"marker", "image", "mount", "uuid"} \subseteq pool.files
  /\ ~Has("marker_torn") /\ ~Has("marker_tmp") /\ ~Has("uuid_tmp")
  /\ pool.luks

(* What is there has its removal left.                                     *)
Cleared ==
  /\ run.kind \in ClearKinds =>
       \A e \in pool.files \ {"marker_torn", "marker_tmp"} : Left(Remove(e))
  /\ run.kind = "discard" =>
       /\ ~Has("marker_torn") /\ ~Has("marker_tmp")
       /\ Left(Tool("umount")) \/ Left(Tool("close")) => Complete
  /\ run.kind = "reset" =>
       /\ ~Has("marker_torn")
       /\ Has("marker_tmp") <=> Left(Place("marker"))
       /\ Has("marker_tmp") => Left(Remove("marker"))

(* Unless a run makes or discards the pool a reset is admitted.             *)
Resettable ==
  /\ run.kind \in {"idle", "reset"} => ResetAdmits
  /\ run.kind = "open" => Complete

(* A tool that goes on behind its caller finds what it works on.           *)
Supplied ==
  /\ \A t \in {"install", "format"} :
       late[t] > 0 => {"marker", "image"} \subseteq pool.files /\ ~Has("uuid")
  /\ \A t \in {"open", "mkfs", "mount", "own", "volumes"} : late[t] > 0 => Complete

ResetInv == PoolInv /\ Cleared /\ Resettable /\ Supplied
ResetAlways == PoolTypes /\ (~hasty => ResetInv)

-----------------------------------------------------------------------------
(* Plans as sequences. *)

LEMMA RankIs ==
  ASSUME NEW kind \in ClearKinds
  PROVE  /\ Rank(kind)[Place("marker")] = 1 /\ Rank(kind)[Tool("umount")] = 2
         /\ Rank(kind)[Tool("close")] = 3 /\ Rank(kind)[Remove("uuid")] = 4
         /\ Rank(kind)[Remove("uuid_tmp")] = 5 /\ Rank(kind)[Remove("image")] = 7
         /\ Rank(kind)[Remove("marker")] = 8
         /\ Rank(kind)[Remove("mount")] = IF kind = "discard" THEN 9 ELSE 6
         /\ Rank(kind)[Remove("security")] = 10
  BY DEF Rank, Resetting, Discarding, Place, Tool, Remove

LEMMA PlannedRanks ==
  ASSUME NEW kind \in ClearKinds
  PROVE  /\ Clearing(kind) \subseteq Steps
         /\ \A x \in Clearing(kind) : Rank(kind)[x] \in Nat
<1>1. Clearing(kind) \subseteq Resetting
  BY DEF Clearing, Resetting
<1>2. Resetting \subseteq Steps
  BY DEF Resetting, Discarding, Steps, Place, Remove, Tool, Entries, Tools
<1>3. \A x \in Resetting : Rank(kind)[x] \in Nat
  <2>1. Rank(kind)[Remove("mount")] \in Nat
    <3>1. Rank(kind)[Remove("mount")] = 9 \/ Rank(kind)[Remove("mount")] = 6
      BY RankIs
    <3> QED
      BY <3>1
  <2>2. \A x \in Resetting : x # Remove("mount") => Rank(kind)[x] \in Nat
    <3>1. /\ Rank(kind)[Place("marker")] \in Nat /\ Rank(kind)[Tool("umount")] \in Nat
          /\ Rank(kind)[Tool("close")] \in Nat /\ Rank(kind)[Remove("uuid")] \in Nat
          /\ Rank(kind)[Remove("uuid_tmp")] \in Nat /\ Rank(kind)[Remove("image")] \in Nat
          /\ Rank(kind)[Remove("marker")] \in Nat /\ Rank(kind)[Remove("security")] \in Nat
      BY RankIs
    <3> QED
      BY <3>1 DEF Resetting, Discarding
  <2> QED
    BY <2>1, <2>2
<1> QED
  BY <1>1, <1>2, <1>3

(* The first step of a plan is its least, and the others are its rest.      *)
LEMMA FirstStep ==
  ASSUME NEW kind \in ClearKinds, NEW s, Plans(kind, s), s # <<>>
  PROVE  /\ Head(s) \in Elements(s) /\ Plans(kind, Tail(s))
         /\ Elements(Tail(s)) = Elements(s) \ {Head(s)}
         /\ \A x \in Elements(Tail(s)) : Rank(kind)[Head(s)] < Rank(kind)[x]
         /\ Tail(s) = <<>> <=> Elements(s) = {Head(s)}
<1>1. /\ s \in Seq(Steps) /\ Len(s) \in Nat /\ Len(s) > 0 /\ Head(s) = s[1]
      /\ Tail(s) \in Seq(Steps) /\ Len(Tail(s)) = Len(s) - 1
      /\ \A i \in 1 .. Len(Tail(s)) : Tail(s)[i] = s[i + 1]
  BY HeadTailProperties, EmptySeq, LenProperties DEF Plans
<1>2. Head(s) \in Elements(s)
  BY <1>1 DEF Elements
<1>3. \A x \in Elements(Tail(s)) : x \in Elements(s) /\ Rank(kind)[Head(s)] < Rank(kind)[x]
  <2> SUFFICES ASSUME NEW i \in 1 .. Len(Tail(s))
               PROVE  /\ Tail(s)[i] \in Elements(s)
                      /\ Rank(kind)[Head(s)] < Rank(kind)[Tail(s)[i]]
    BY DEF Elements
  <2>1. i + 1 \in 1 .. Len(s) /\ 1 \in 1 .. Len(s) /\ 1 < i + 1
    BY <1>1
  <2>2. Tail(s)[i] = s[i + 1]
    BY <1>1
  <2> QED
    BY <1>1, <2>1, <2>2 DEF Elements, Plans, Sorted
<1>4. \A x \in Elements(s) : x = Head(s) \/ x \in Elements(Tail(s))
  <2> SUFFICES ASSUME NEW i \in 1 .. Len(s), i # 1
               PROVE  s[i] \in Elements(Tail(s))
    BY <1>1 DEF Elements
  <2>1. i - 1 \in 1 .. Len(Tail(s)) /\ Tail(s)[i - 1] = s[i]
    BY <1>1
  <2> QED
    BY <2>1 DEF Elements
<1>5. Head(s) \notin Elements(Tail(s))
  <2>1. Rank(kind)[Head(s)] \in Nat
    BY <1>2, PlannedRanks DEF Plans
  <2> QED
    BY <1>3, <2>1
<1>6. Sorted(kind, Tail(s))
  <2> SUFFICES ASSUME NEW i \in 1 .. Len(Tail(s)), NEW j \in 1 .. Len(Tail(s)), i < j
               PROVE  Rank(kind)[Tail(s)[i]] < Rank(kind)[Tail(s)[j]]
    BY DEF Sorted
  <2>1. /\ i + 1 \in 1 .. Len(s) /\ j + 1 \in 1 .. Len(s) /\ i + 1 < j + 1
        /\ Tail(s)[i] = s[i + 1] /\ Tail(s)[j] = s[j + 1]
    BY <1>1
  <2> QED
    BY <2>1 DEF Plans, Sorted
<1>7. Tail(s) = <<>> <=> Elements(Tail(s)) = {}
  <2>1. Tail(s) = <<>> => Elements(Tail(s)) = {}
    BY <1>1, EmptySeq DEF Elements
  <2>2. Tail(s) # <<>> => Tail(s)[1] \in Elements(Tail(s))
    <3>1. Tail(s) # <<>> => 1 \in 1 .. Len(Tail(s))
      BY <1>1, EmptySeq
    <3> QED
      BY <3>1 DEF Elements
  <2> QED
    BY <2>1, <2>2
<1> QED
  BY <1>1, <1>2, <1>3, <1>4, <1>5, <1>6, <1>7 DEF Plans

(* One plan after another.                                                 *)
LEMMA Joined ==
  ASSUME NEW kind \in ClearKinds, NEW s, NEW t, Plans(kind, s), Plans(kind, t),
         \A x \in Elements(s), y \in Elements(t) : Rank(kind)[x] < Rank(kind)[y]
  PROVE  Plans(kind, s \o t) /\ Elements(s \o t) = Elements(s) \cup Elements(t)
<1>1. /\ s \in Seq(Steps) /\ t \in Seq(Steps) /\ Len(s) \in Nat /\ Len(t) \in Nat
      /\ s \o t \in Seq(Steps) /\ Len(s \o t) = Len(s) + Len(t)
      /\ \A i \in 1 .. Len(s) + Len(t) :
           (s \o t)[i] = IF i <= Len(s) THEN s[i] ELSE t[i - Len(s)]
  BY ConcatProperties, LenProperties DEF Plans
<1>2. Elements(s \o t) \subseteq Elements(s) \cup Elements(t)
  <2> SUFFICES ASSUME NEW i \in 1 .. Len(s) + Len(t)
               PROVE  (s \o t)[i] \in Elements(s) \cup Elements(t)
    BY <1>1 DEF Elements
  <2>1. CASE i <= Len(s)
    BY <1>1, <2>1 DEF Elements
  <2>2. CASE i > Len(s)
    <3>1. i - Len(s) \in 1 .. Len(t) /\ (s \o t)[i] = t[i - Len(s)]
      BY <1>1, <2>2
    <3> QED
      BY <3>1 DEF Elements
  <2> QED
    BY <1>1, <2>1, <2>2
<1>3. Elements(s) \subseteq Elements(s \o t)
  <2> SUFFICES ASSUME NEW i \in 1 .. Len(s)
               PROVE  s[i] \in Elements(s \o t)
    BY DEF Elements
  <2>1. i \in 1 .. Len(s \o t) /\ (s \o t)[i] = s[i]
    BY <1>1
  <2> QED
    BY <2>1 DEF Elements
<1>4. Elements(t) \subseteq Elements(s \o t)
  <2> SUFFICES ASSUME NEW i \in 1 .. Len(t)
               PROVE  t[i] \in Elements(s \o t)
    BY DEF Elements
  <2>1. i + Len(s) \in 1 .. Len(s \o t) /\ (s \o t)[i + Len(s)] = t[i]
    BY <1>1
  <2> QED
    BY <2>1 DEF Elements
<1>5. Sorted(kind, s \o t)
  <2> SUFFICES ASSUME NEW i \in 1 .. Len(s) + Len(t), NEW j \in 1 .. Len(s) + Len(t), i < j
               PROVE  Rank(kind)[(s \o t)[i]] < Rank(kind)[(s \o t)[j]]
    BY <1>1 DEF Sorted
  <2>1. CASE j <= Len(s)
    BY <1>1, <2>1 DEF Plans, Sorted
  <2>2. CASE i <= Len(s) /\ j > Len(s)
    <3>1. /\ (s \o t)[i] = s[i] /\ i \in 1 .. Len(s)
          /\ (s \o t)[j] = t[j - Len(s)] /\ j - Len(s) \in 1 .. Len(t)
      BY <1>1, <2>2
    <3> QED
      BY <3>1 DEF Elements
  <2>3. CASE i > Len(s)
    <3>1. /\ (s \o t)[i] = t[i - Len(s)] /\ i - Len(s) \in 1 .. Len(t)
          /\ (s \o t)[j] = t[j - Len(s)] /\ j - Len(s) \in 1 .. Len(t)
          /\ i - Len(s) < j - Len(s)
      BY <1>1, <2>3
    <3> QED
      BY <3>1 DEF Plans, Sorted
  <2> QED
    BY <1>1, <2>1, <2>2, <2>3
<1> QED
  BY <1>1, <1>2, <1>3, <1>4, <1>5 DEF Plans

LEMMA OneStep ==
  ASSUME NEW kind \in ClearKinds, NEW x \in Clearing(kind)
  PROVE  Plans(kind, <<x>>) /\ Elements(<<x>>) = {x}
  BY PlannedRanks DEF Plans, Elements, Sorted

LEMMA NoStep ==
  ASSUME NEW kind \in ClearKinds
  PROVE  Plans(kind, <<>>) /\ Elements(<<>>) = {}
  BY DEF Plans, Elements, Sorted

(* Building a plan: one more step at its end, if it is needed; its first;   *)
(* its last.                                                               *)
LEMMA PlanExtended ==
  ASSUME NEW kind \in ClearKinds, NEW s, Plans(kind, s), NEW r \in Nat,
         \A x \in Elements(s) : Rank(kind)[x] <= r,
         NEW y \in Clearing(kind), NEW n \in Nat, Rank(kind)[y] = n, r < n,
         NEW c \in BOOLEAN
  PROVE  /\ Plans(kind, s \o If(c, <<y>>))
         /\ Elements(s \o If(c, <<y>>)) = Elements(s) \cup (IF c THEN {y} ELSE {})
         /\ \A x \in Elements(s \o If(c, <<y>>)) : Rank(kind)[x] <= n
<1>1. /\ Plans(kind, If(c, <<y>>))
      /\ Elements(If(c, <<y>>)) = IF c THEN {y} ELSE {}
  BY OneStep, NoStep DEF If
<1>2. \A x \in Elements(s) : Rank(kind)[x] \in Nat
  BY PlannedRanks DEF Plans
<1>3. \A x \in Elements(s), z \in Elements(If(c, <<y>>)) : Rank(kind)[x] < Rank(kind)[z]
  BY <1>1, <1>2
<1>4. /\ Plans(kind, s \o If(c, <<y>>))
      /\ Elements(s \o If(c, <<y>>)) = Elements(s) \cup Elements(If(c, <<y>>))
  BY <1>1, <1>3, Joined
<1> QED
  BY <1>1, <1>2, <1>4

LEMMA PlanBegun ==
  ASSUME NEW kind \in ClearKinds, NEW y \in Clearing(kind), NEW n \in Nat, Rank(kind)[y] = n,
         NEW c \in BOOLEAN
  PROVE  /\ Plans(kind, If(c, <<y>>))
         /\ Elements(If(c, <<y>>)) = IF c THEN {y} ELSE {}
         /\ \A x \in Elements(If(c, <<y>>)) : Rank(kind)[x] <= n
<1>1. /\ Plans(kind, If(c, <<y>>))
      /\ Elements(If(c, <<y>>)) = IF c THEN {y} ELSE {}
  BY OneStep, NoStep DEF If
<1> QED
  BY <1>1

LEMMA PlanEnded ==
  ASSUME NEW kind \in ClearKinds, NEW s, Plans(kind, s), NEW r \in Nat,
         \A x \in Elements(s) : Rank(kind)[x] <= r,
         NEW y \in Clearing(kind), NEW n \in Nat, Rank(kind)[y] = n, r < n
  PROVE  /\ Plans(kind, s \o <<y>>)
         /\ Elements(s \o <<y>>) = Elements(s) \cup {y}
<1>1. Plans(kind, <<y>>) /\ Elements(<<y>>) = {y}
  BY OneStep
<1>2. \A x \in Elements(s) : Rank(kind)[x] \in Nat
  BY PlannedRanks DEF Plans
<1>3. \A x \in Elements(s), z \in Elements(<<y>>) : Rank(kind)[x] < Rank(kind)[z]
  BY <1>1, <1>2
<1> QED
  BY <1>1, <1>3, Joined

(* What discard_new and reset have before them, from what they find.        *)
LEMMA DiscardPlan ==
  ASSUME pool \in Pool
  PROVE  /\ Plans("discard", DiscardSteps)
         /\ \A x : x \in Elements(DiscardSteps) <=>
              \/ x = Tool("umount") /\ pool.mounted
              \/ x = Tool("close") /\ pool.mapped
              \/ x = Remove("uuid") /\ Has("uuid")
              \/ x = Remove("image") /\ Has("image")
              \/ x = Remove("marker") /\ Has("marker")
              \/ x = Remove("mount") /\ Has("mount")
              \/ x = Remove("security")
<1> DEFINE s1 == If(pool.mounted, <<Tool("umount")>>)
           s2 == s1 \o If(pool.mapped, <<Tool("close")>>)
           s3 == s2 \o If(Has("uuid"), <<Remove("uuid")>>)
           s4 == s3 \o If(Has("image"), <<Remove("image")>>)
           s5 == s4 \o If(Has("marker"), <<Remove("marker")>>)
           s6 == s5 \o If(Has("mount"), <<Remove("mount")>>)
           s7 == s6 \o <<Remove("security")>>
<1>1. DiscardSteps = s7
  BY DEF DiscardSteps, If
<1>2. /\ "discard" \in ClearKinds
      /\ Tool("umount") \in Clearing("discard") /\ Tool("close") \in Clearing("discard")
      /\ Remove("uuid") \in Clearing("discard") /\ Remove("image") \in Clearing("discard")
      /\ Remove("marker") \in Clearing("discard") /\ Remove("mount") \in Clearing("discard")
      /\ Remove("security") \in Clearing("discard")
  BY DEF ClearKinds, Clearing, Discarding
<1>3. /\ Rank("discard")[Tool("umount")] = 2 /\ Rank("discard")[Tool("close")] = 3
      /\ Rank("discard")[Remove("uuid")] = 4 /\ Rank("discard")[Remove("image")] = 7
      /\ Rank("discard")[Remove("marker")] = 8 /\ Rank("discard")[Remove("mount")] = 9
      /\ Rank("discard")[Remove("security")] = 10
  BY <1>2, RankIs
<1>4. /\ pool.mounted \in BOOLEAN /\ pool.mapped \in BOOLEAN /\ Has("uuid") \in BOOLEAN
      /\ Has("image") \in BOOLEAN /\ Has("marker") \in BOOLEAN /\ Has("mount") \in BOOLEAN
  BY DEF Pool, Has
<1>5. /\ Plans("discard", s1)
      /\ Elements(s1) = IF pool.mounted THEN {Tool("umount")} ELSE {}
      /\ \A x \in Elements(s1) : Rank("discard")[x] <= 2
  <2>1. /\ "discard" \in ClearKinds /\ Tool("umount") \in Clearing("discard")
        /\ Rank("discard")[Tool("umount")] = 2 /\ 2 \in Nat /\ pool.mounted \in BOOLEAN
    BY <1>2, <1>3, <1>4
  <2> QED
    BY <2>1, PlanBegun
<1> HIDE DEF s1
<1>6. /\ Plans("discard", s2)
      /\ Elements(s2) = Elements(s1) \cup (IF pool.mapped THEN {Tool("close")} ELSE {})
      /\ \A x \in Elements(s2) : Rank("discard")[x] <= 3
  BY <1>2, <1>3, <1>4, <1>5, PlanExtended
<1> HIDE DEF s2
<1>7. /\ Plans("discard", s3)
      /\ Elements(s3) = Elements(s2) \cup (IF Has("uuid") THEN {Remove("uuid")} ELSE {})
      /\ \A x \in Elements(s3) : Rank("discard")[x] <= 4
  BY <1>2, <1>3, <1>4, <1>6, PlanExtended
<1> HIDE DEF s3
<1>8. /\ Plans("discard", s4)
      /\ Elements(s4) = Elements(s3) \cup (IF Has("image") THEN {Remove("image")} ELSE {})
      /\ \A x \in Elements(s4) : Rank("discard")[x] <= 7
  BY <1>2, <1>3, <1>4, <1>7, PlanExtended
<1> HIDE DEF s4
<1>9. /\ Plans("discard", s5)
      /\ Elements(s5) = Elements(s4) \cup (IF Has("marker") THEN {Remove("marker")} ELSE {})
      /\ \A x \in Elements(s5) : Rank("discard")[x] <= 8
  BY <1>2, <1>3, <1>4, <1>8, PlanExtended
<1> HIDE DEF s5
<1>10. /\ Plans("discard", s6)
       /\ Elements(s6) = Elements(s5) \cup (IF Has("mount") THEN {Remove("mount")} ELSE {})
       /\ \A x \in Elements(s6) : Rank("discard")[x] <= 9
  BY <1>2, <1>3, <1>4, <1>9, PlanExtended
<1> HIDE DEF s6
<1>11. /\ Plans("discard", s7)
       /\ Elements(s7) = Elements(s6) \cup {Remove("security")}
  BY <1>2, <1>3, <1>10, PlanEnded
<1> HIDE DEF s7
<1> QED
  BY <1>1, <1>5, <1>6, <1>7, <1>8, <1>9, <1>10, <1>11

LEMMA ResetPlan ==
  ASSUME pool \in Pool
  PROVE  /\ Plans("reset", ResetSteps)
         /\ \A x : x \in Elements(ResetSteps) <=>
              \/ x = Place("marker") /\ Has("marker_tmp")
              \/ x = Tool("umount") /\ pool.mounted
              \/ x = Tool("close") /\ pool.mapped
              \/ x = Remove("uuid") /\ Has("uuid")
              \/ x = Remove("uuid_tmp") /\ Has("uuid_tmp")
              \/ x = Remove("mount") /\ Has("mount")
              \/ x = Remove("image") /\ Has("image")
              \/ x = Remove("marker") /\ (Has("marker") \/ Has("marker_tmp"))
              \/ x = Remove("security")
<1> DEFINE s0 == If(Has("marker_tmp"), <<Place("marker")>>)
           s1 == s0 \o If(pool.mounted, <<Tool("umount")>>)
           s2 == s1 \o If(pool.mapped, <<Tool("close")>>)
           s3 == s2 \o If(Has("uuid"), <<Remove("uuid")>>)
           s4 == s3 \o If(Has("uuid_tmp"), <<Remove("uuid_tmp")>>)
           s5 == s4 \o If(Has("mount"), <<Remove("mount")>>)
           s6 == s5 \o If(Has("image"), <<Remove("image")>>)
           m == Has("marker") \/ Has("marker_tmp")
           s7 == s6 \o If(m, <<Remove("marker")>>)
           s8 == s7 \o <<Remove("security")>>
<1>1. ResetSteps = s8
  BY DEF ResetSteps, If
<1>2. /\ "reset" \in ClearKinds /\ Place("marker") \in Clearing("reset")
      /\ Tool("umount") \in Clearing("reset") /\ Tool("close") \in Clearing("reset")
      /\ Remove("uuid") \in Clearing("reset") /\ Remove("uuid_tmp") \in Clearing("reset")
      /\ Remove("mount") \in Clearing("reset") /\ Remove("image") \in Clearing("reset")
      /\ Remove("marker") \in Clearing("reset") /\ Remove("security") \in Clearing("reset")
  BY DEF ClearKinds, Clearing, Resetting, Discarding
<1>3. /\ Rank("reset")[Place("marker")] = 1 /\ Rank("reset")[Tool("umount")] = 2
      /\ Rank("reset")[Tool("close")] = 3 /\ Rank("reset")[Remove("uuid")] = 4
      /\ Rank("reset")[Remove("uuid_tmp")] = 5 /\ Rank("reset")[Remove("mount")] = 6
      /\ Rank("reset")[Remove("image")] = 7 /\ Rank("reset")[Remove("marker")] = 8
      /\ Rank("reset")[Remove("security")] = 10
  BY <1>2, RankIs
<1>4. /\ pool.mounted \in BOOLEAN /\ pool.mapped \in BOOLEAN /\ Has("uuid") \in BOOLEAN
      /\ Has("image") \in BOOLEAN /\ Has("mount") \in BOOLEAN
      /\ Has("uuid_tmp") \in BOOLEAN /\ Has("marker_tmp") \in BOOLEAN
  BY DEF Pool, Has
<1>5. /\ Plans("reset", s0)
      /\ Elements(s0) = IF Has("marker_tmp") THEN {Place("marker")} ELSE {}
      /\ \A x \in Elements(s0) : Rank("reset")[x] <= 1
  <2>1. /\ "reset" \in ClearKinds /\ Place("marker") \in Clearing("reset")
        /\ Rank("reset")[Place("marker")] = 1 /\ 1 \in Nat /\ Has("marker_tmp") \in BOOLEAN
    BY <1>2, <1>3, <1>4
  <2> QED
    BY <2>1, PlanBegun
<1> HIDE DEF s0
<1>6. /\ Plans("reset", s1)
      /\ Elements(s1) = Elements(s0) \cup (IF pool.mounted THEN {Tool("umount")} ELSE {})
      /\ \A x \in Elements(s1) : Rank("reset")[x] <= 2
  BY <1>2, <1>3, <1>4, <1>5, PlanExtended
<1> HIDE DEF s1
<1>7. /\ Plans("reset", s2)
      /\ Elements(s2) = Elements(s1) \cup (IF pool.mapped THEN {Tool("close")} ELSE {})
      /\ \A x \in Elements(s2) : Rank("reset")[x] <= 3
  BY <1>2, <1>3, <1>4, <1>6, PlanExtended
<1> HIDE DEF s2
<1>8. /\ Plans("reset", s3)
      /\ Elements(s3) = Elements(s2) \cup (IF Has("uuid") THEN {Remove("uuid")} ELSE {})
      /\ \A x \in Elements(s3) : Rank("reset")[x] <= 4
  BY <1>2, <1>3, <1>4, <1>7, PlanExtended
<1> HIDE DEF s3
<1>9. /\ Plans("reset", s4)
      /\ Elements(s4) =
           Elements(s3) \cup (IF Has("uuid_tmp") THEN {Remove("uuid_tmp")} ELSE {})
      /\ \A x \in Elements(s4) : Rank("reset")[x] <= 5
  BY <1>2, <1>3, <1>4, <1>8, PlanExtended
<1> HIDE DEF s4
<1>10. /\ Plans("reset", s5)
       /\ Elements(s5) = Elements(s4) \cup (IF Has("mount") THEN {Remove("mount")} ELSE {})
       /\ \A x \in Elements(s5) : Rank("reset")[x] <= 6
  BY <1>2, <1>3, <1>4, <1>9, PlanExtended
<1> HIDE DEF s5
<1>11. /\ Plans("reset", s6)
       /\ Elements(s6) = Elements(s5) \cup (IF Has("image") THEN {Remove("image")} ELSE {})
       /\ \A x \in Elements(s6) : Rank("reset")[x] <= 7
  BY <1>2, <1>3, <1>4, <1>10, PlanExtended
<1> HIDE DEF s6
<1>12. /\ Plans("reset", s7)
       /\ Elements(s7) = Elements(s6) \cup (IF m THEN {Remove("marker")} ELSE {})
       /\ \A x \in Elements(s7) : Rank("reset")[x] <= 8
  <2>1. m \in BOOLEAN
    OBVIOUS
  <2> HIDE DEF m
  <2> QED
    BY <1>2, <1>3, <1>11, <2>1, PlanExtended
<1> HIDE DEF s7
<1>13. /\ Plans("reset", s8)
       /\ Elements(s8) = Elements(s7) \cup {Remove("security")}
  BY <1>2, <1>3, <1>12, PlanEnded
<1> HIDE DEF s8
<1> QED
  BY <1>1, <1>5, <1>6, <1>7, <1>8, <1>9, <1>10, <1>11, <1>12, <1>13

(* The list a provision goes through.                                      *)
LEMMA Appended ==
  ASSUME NEW s \in Seq(Steps), NEW t \in Seq(Steps),
         \A i \in 1 .. Len(s) : s[i] = Creating[i],
         \A i \in 1 .. Len(t) : t[i] = Creating[Len(s) + i]
  PROVE  /\ s \o t \in Seq(Steps) /\ Len(s \o t) = Len(s) + Len(t)
         /\ \A i \in 1 .. Len(s \o t) : (s \o t)[i] = Creating[i]
<1>1. /\ Len(s) \in Nat /\ Len(t) \in Nat
      /\ s \o t \in Seq(Steps) /\ Len(s \o t) = Len(s) + Len(t)
      /\ \A i \in 1 .. Len(s) + Len(t) :
           (s \o t)[i] = IF i <= Len(s) THEN s[i] ELSE t[i - Len(s)]
  BY ConcatProperties, LenProperties
<1>2. ASSUME NEW i \in 1 .. Len(s) + Len(t), i > Len(s)
      PROVE  t[i - Len(s)] = Creating[i]
  <2>1. i - Len(s) \in 1 .. Len(t) /\ Len(s) + (i - Len(s)) = i
    BY <1>1, <1>2
  <2> QED
    BY <2>1
<1> QED
  BY <1>1, <1>2

LEMMA ProvisionList ==
  /\ ProvisionSteps \in Seq(Steps) /\ Len(ProvisionSteps) = 16
  /\ \A i \in 1 .. 16 : ProvisionSteps[i] = Creating[i]
<1> DEFINE a == << Make("security") >>
           b == << Make("image"), Tool("install"), Ask, Tool("format") >>
           c == << Tool("open"), Tool("mkfs"), Tool("mount"), Tool("own"), Tool("volumes"),
                   Check >>
<1>1. /\ a \in Seq(Steps) /\ Len(a) = 1 /\ a[1] = Creating[1]
  BY DEF Creating, Steps, Make, Entries
<1>2. /\ WriteMarker \in Seq(Steps) /\ Len(WriteMarker) = 3
      /\ WriteMarker[1] = Creating[2] /\ WriteMarker[2] = Creating[3]
      /\ WriteMarker[3] = Creating[4]
  BY DEF WriteMarker, Creating, Steps, Make, Fill, Place, Entries
<1>3. /\ b \in Seq(Steps) /\ Len(b) = 4
      /\ b[1] = Creating[5] /\ b[2] = Creating[6] /\ b[3] = Creating[7] /\ b[4] = Creating[8]
  BY DEF Creating, Steps, Make, Tool, Ask, Entries, Tools
<1>4. /\ WriteUuid \in Seq(Steps) /\ Len(WriteUuid) = 2
      /\ WriteUuid[1] = Creating[9] /\ WriteUuid[2] = Creating[10]
  BY DEF WriteUuid, Creating, Steps, Make, Place, Entries
<1>5. /\ c \in Seq(Steps) /\ Len(c) = 6
      /\ c[1] = Creating[11] /\ c[2] = Creating[12] /\ c[3] = Creating[13]
      /\ c[4] = Creating[14] /\ c[5] = Creating[15] /\ c[6] = Creating[16]
  BY DEF Creating, Steps, Tool, Check, Tools
<1>6. ProvisionSteps = (((a \o WriteMarker) \o b) \o WriteUuid) \o c
  BY DEF ProvisionSteps
<1> HIDE DEF a, b, c
<1>7. PICK d : d = a \o WriteMarker
  OBVIOUS
<1>8. /\ d \in Seq(Steps) /\ Len(d) = 4
     /\ \A i \in 1 .. 4 : d[i] = Creating[i]
  <2>1. \A i \in 1 .. 3 : WriteMarker[i] = Creating[1 + i]
    BY <1>2
  <2>2. /\ a \in Seq(Steps) /\ Len(a) = 1
        /\ \A i \in 1 .. 1 : a[i] = Creating[i]
    BY <1>1
  <2>3. \A i \in 1 .. Len(WriteMarker) : WriteMarker[i] = Creating[Len(a) + i]
    BY <1>2, <2>1, <2>2
  <2>4. \A i \in 1 .. Len(a) : a[i] = Creating[i]
    BY <2>2
  <2>5. a \in Seq(Steps) /\ WriteMarker \in Seq(Steps)
    BY <1>2, <2>2
  <2>6. /\ a \o WriteMarker \in Seq(Steps) /\ Len(a \o WriteMarker) = Len(a) + Len(WriteMarker)
        /\ \A i \in 1 .. Len(a \o WriteMarker) : (a \o WriteMarker)[i] = Creating[i]
    BY <2>3, <2>4, <2>5, Appended
  <2>7. Len(a) + Len(WriteMarker) = 4
    BY <1>2, <2>2
  <2> QED
    BY <1>7, <2>6, <2>7
<1>9. PICK e : e = d \o b
  OBVIOUS
<1>10. /\ e \in Seq(Steps) /\ Len(e) = 8
     /\ \A i \in 1 .. 8 : e[i] = Creating[i]
  <2>1. \A i \in 1 .. 4 : b[i] = Creating[4 + i]
    BY <1>3
  <2>2. /\ d \in Seq(Steps) /\ Len(d) = 4
        /\ \A i \in 1 .. 4 : d[i] = Creating[i]
    BY <1>8
  <2>3. \A i \in 1 .. Len(b) : b[i] = Creating[Len(d) + i]
    BY <1>3, <2>1, <2>2
  <2>4. \A i \in 1 .. Len(d) : d[i] = Creating[i]
    BY <2>2
  <2>5. d \in Seq(Steps) /\ b \in Seq(Steps)
    BY <1>3, <2>2
  <2>6. /\ d \o b \in Seq(Steps) /\ Len(d \o b) = Len(d) + Len(b)
        /\ \A i \in 1 .. Len(d \o b) : (d \o b)[i] = Creating[i]
    BY <2>3, <2>4, <2>5, Appended
  <2>7. Len(d) + Len(b) = 8
    BY <1>3, <2>2
  <2> QED
    BY <1>9, <2>6, <2>7
<1>11. PICK f : f = e \o WriteUuid
  OBVIOUS
<1>12. /\ f \in Seq(Steps) /\ Len(f) = 10
     /\ \A i \in 1 .. 10 : f[i] = Creating[i]
  <2>1. \A i \in 1 .. 2 : WriteUuid[i] = Creating[8 + i]
    BY <1>4
  <2>2. /\ e \in Seq(Steps) /\ Len(e) = 8
        /\ \A i \in 1 .. 8 : e[i] = Creating[i]
    BY <1>10
  <2>3. \A i \in 1 .. Len(WriteUuid) : WriteUuid[i] = Creating[Len(e) + i]
    BY <1>4, <2>1, <2>2
  <2>4. \A i \in 1 .. Len(e) : e[i] = Creating[i]
    BY <2>2
  <2>5. e \in Seq(Steps) /\ WriteUuid \in Seq(Steps)
    BY <1>4, <2>2
  <2>6. /\ e \o WriteUuid \in Seq(Steps) /\ Len(e \o WriteUuid) = Len(e) + Len(WriteUuid)
        /\ \A i \in 1 .. Len(e \o WriteUuid) : (e \o WriteUuid)[i] = Creating[i]
    BY <2>3, <2>4, <2>5, Appended
  <2>7. Len(e) + Len(WriteUuid) = 10
    BY <1>4, <2>2
  <2> QED
    BY <1>11, <2>6, <2>7
<1>13. PICK g : g = f \o c
  OBVIOUS
<1>14. /\ g \in Seq(Steps) /\ Len(g) = 16
     /\ \A i \in 1 .. 16 : g[i] = Creating[i]
  <2>1. \A i \in 1 .. 6 : c[i] = Creating[10 + i]
    BY <1>5
  <2>2. /\ f \in Seq(Steps) /\ Len(f) = 10
        /\ \A i \in 1 .. 10 : f[i] = Creating[i]
    BY <1>12
  <2>3. \A i \in 1 .. Len(c) : c[i] = Creating[Len(f) + i]
    BY <1>5, <2>1, <2>2
  <2>4. \A i \in 1 .. Len(f) : f[i] = Creating[i]
    BY <2>2
  <2>5. f \in Seq(Steps) /\ c \in Seq(Steps)
    BY <1>5, <2>2
  <2>6. /\ f \o c \in Seq(Steps) /\ Len(f \o c) = Len(f) + Len(c)
        /\ \A i \in 1 .. Len(f \o c) : (f \o c)[i] = Creating[i]
    BY <2>3, <2>4, <2>5, Appended
  <2>7. Len(f) + Len(c) = 16
    BY <1>5, <2>2
  <2> QED
    BY <1>13, <2>6, <2>7
<1> QED
  BY <1>6, <1>7, <1>9, <1>11, <1>13, <1>14

LEMMA OpenList ==
  OpenSteps \in Seq(Opening) /\ OpenSteps # <<>>
<1> DEFINE a == If(~pool.mapped, <<Ask, Tool("open")>>)
           b == If(~pool.mounted, <<Tool("mount"), Tool("own")>>)
           c == <<Tool("volumes"), Check>>
<1>1. a \in Seq(Opening) /\ b \in Seq(Opening) /\ c \in Seq(Opening) /\ Len(c) = 2
  <2>1. /\ <<Ask, Tool("open")>> \in Seq(Opening)
        /\ <<Tool("mount"), Tool("own")>> \in Seq(Opening)
        /\ c \in Seq(Opening) /\ Len(c) = 2
    BY DEF Opening
  <2>2. <<>> \in Seq(Opening)
    OBVIOUS
  <2>3. a = <<Ask, Tool("open")>> \/ a = <<>>
    BY Zenon DEF If
  <2>4. b = <<Tool("mount"), Tool("own")>> \/ b = <<>>
    BY Zenon DEF If
  <2> QED
    BY <2>1, <2>2, <2>3, <2>4
<1>2. OpenSteps = (a \o b) \o c
  BY DEF OpenSteps
<1> HIDE DEF a, b, c
<1>3. PICK d : d = a \o b
  OBVIOUS
<1>4. d \in Seq(Opening) /\ Len(d) \in Nat
  BY <1>1, <1>3, ConcatProperties, LenProperties
<1>5. d \o c \in Seq(Opening) /\ Len(d \o c) = Len(d) + 2
  <2>1. d \o c \in Seq(Opening) /\ Len(d \o c) = Len(d) + Len(c)
    BY <1>1, <1>4, ConcatProperties
  <2> QED
    BY <1>1, <2>1
<1>6. d \o c # <<>>
  BY <1>4, <1>5, EmptySeq
<1> QED
  BY <1>2, <1>3, <1>5, <1>6

-----------------------------------------------------------------------------
(* What the calls do, field by field. *)

LEMMA AbleIs ==
  /\ Able(Tool("open")) <=> pool.luks /\ ~pool.mapped
  /\ Able(Tool("mkfs")) <=> pool.mapped
  /\ Able(Tool("mount")) <=> pool.mapped /\ pool.fs /\ Has("mount")
  /\ Able(Tool("own")) <=> pool.mounted
  /\ Able(Tool("volumes")) <=> pool.mounted
  /\ Able(Tool("umount")) <=> pool.mounted
  /\ Able(Tool("close")) <=> pool.mapped /\ ~pool.mounted
  /\ Able(Tool("format")) <=> Has("image")
  /\ Able(Tool("install")) <=> Has("security")
  /\ Able(Remove("mount")) <=> ~pool.mounted
  /\ Able(Remove("security")) <=> pool.files = {"security"}
  /\ Able(Check) <=> MountedValid
  /\ Able(Remove("uuid")) /\ Able(Remove("uuid_tmp"))
  /\ Able(Remove("image")) /\ Able(Remove("marker"))
<1>1. /\ Able(Tool("open")) <=> pool.luks /\ ~pool.mapped
      /\ Able(Tool("mkfs")) <=> pool.mapped
      /\ Able(Tool("mount")) <=> pool.mapped /\ pool.fs /\ Has("mount")
  BY DEF Able, Tool, Remove, Check
<1>2. /\ Able(Tool("own")) <=> pool.mounted
      /\ Able(Tool("volumes")) <=> pool.mounted
      /\ Able(Tool("umount")) <=> pool.mounted
      /\ Able(Tool("close")) <=> pool.mapped /\ ~pool.mounted
  BY DEF Able, Tool, Remove, Check
<1>3. /\ Able(Tool("format")) <=> Has("image")
      /\ Able(Tool("install")) <=> Has("security")
      /\ Able(Remove("mount")) <=> ~pool.mounted
      /\ Able(Remove("security")) <=> pool.files = {"security"}
  BY DEF Able, Tool, Remove, Check
<1>4. /\ Able(Remove("uuid")) /\ Able(Remove("uuid_tmp"))
      /\ Able(Remove("image")) /\ Able(Remove("marker"))
      /\ Able(Check) <=> MountedValid
  BY DEF Able, Tool, Remove, Check
<1> QED
  BY <1>1, <1>2, <1>3, <1>4

LEMMA WithoutIs ==
  ASSUME pool \in Pool, NEW e, NEW q, q = Without(e)
  PROVE  /\ q \in Pool /\ q.files = pool.files \ {e}
         /\ q.mapped = pool.mapped /\ q.mounted = pool.mounted
         /\ e = "image" => ~q.luks /\ ~q.fs /\ ~q.owned /\ ~q.volumes
         /\ e # "image" => /\ q.luks = pool.luks /\ q.fs = pool.fs
                           /\ q.owned = pool.owned /\ q.volumes = pool.volumes
<1>1. CASE e = "image"
  <2>1. q = [pool EXCEPT !.files = @ \ {e}, !.luks = FALSE, !.fs = FALSE,
                         !.owned = FALSE, !.volumes = FALSE]
    BY <1>1 DEF Without
  <2>2. PICK p : p = [pool EXCEPT !.files = @ \ {e}, !.luks = FALSE]
    OBVIOUS
  <2>3. /\ p \in Pool /\ p.files = pool.files \ {e} /\ p.luks = FALSE
        /\ p.mapped = pool.mapped /\ p.mounted = pool.mounted
    BY <2>2 DEF Pool
  <2>4. PICK r : r = [p EXCEPT !.fs = FALSE, !.owned = FALSE]
    OBVIOUS
  <2>5. /\ r \in Pool /\ r.files = pool.files \ {e} /\ r.luks = FALSE /\ r.fs = FALSE
        /\ r.owned = FALSE /\ r.mapped = pool.mapped /\ r.mounted = pool.mounted
    BY <2>3, <2>4 DEF Pool
  <2>6. q = [r EXCEPT !.volumes = FALSE]
    BY <2>1, <2>2, <2>4
  <2> QED
    BY <1>1, <2>5, <2>6 DEF Pool
<1>2. CASE e # "image"
  <2>1. q = [pool EXCEPT !.files = @ \ {e}]
    BY <1>2 DEF Without
  <2> QED
    BY <1>2, <2>1 DEF Pool
<1> QED
  BY <1>1, <1>2

LEMMA RanIs ==
  ASSUME pool \in Pool, NEW t \in Tools, NEW q, q = Ran(t)
  PROVE  /\ q \in Pool
         /\ q.files = IF t = "install" THEN pool.files \cup {"mount"} ELSE pool.files
         /\ q.luks <=> pool.luks \/ t = "format"
         /\ q.fs <=> pool.fs \/ t = "mkfs"
         /\ q.owned <=> (pool.owned \/ t = "own") /\ t # "mkfs"
         /\ q.volumes <=> (pool.volumes \/ t = "volumes") /\ t # "mkfs"
         /\ q.mapped <=> (pool.mapped \/ t = "open") /\ t # "close"
         /\ q.mounted <=> (pool.mounted \/ t = "mount") /\ t # "umount"
<1>1. CASE t = "mkfs"
  <2>1. q = [pool EXCEPT !.fs = TRUE, !.owned = FALSE, !.volumes = FALSE]
    BY <1>1 DEF Ran
  <2>2. PICK p : p = [pool EXCEPT !.fs = TRUE, !.owned = FALSE]
    OBVIOUS
  <2>3. /\ p \in Pool /\ p.files = pool.files /\ p.luks = pool.luks /\ p.fs = TRUE
        /\ p.owned = FALSE /\ p.mapped = pool.mapped /\ p.mounted = pool.mounted
    BY <2>2 DEF Pool
  <2>4. q = [p EXCEPT !.volumes = FALSE]
    BY <2>1, <2>2
  <2> QED
    BY <1>1, <2>3, <2>4 DEF Pool
<1>2. CASE t = "install"
  <2>1. q = [pool EXCEPT !.files = @ \cup {"mount"}]
    BY <1>2 DEF Ran
  <2> QED
    BY <1>2, <2>1 DEF Pool, Entries
<1>3. CASE t = "format"
  <2>1. q = [pool EXCEPT !.luks = TRUE]
    BY <1>3 DEF Ran
  <2> QED
    BY <1>3, <2>1 DEF Pool
<1>4. CASE t = "open"
  <2>1. q = [pool EXCEPT !.mapped = TRUE]
    BY <1>4 DEF Ran
  <2> QED
    BY <1>4, <2>1 DEF Pool
<1>5. CASE t = "mount"
  <2>1. q = [pool EXCEPT !.mounted = TRUE]
    BY <1>5 DEF Ran
  <2> QED
    BY <1>5, <2>1 DEF Pool
<1>6. CASE t = "own"
  <2>1. q = [pool EXCEPT !.owned = TRUE]
    BY <1>6 DEF Ran
  <2> QED
    BY <1>6, <2>1 DEF Pool
<1>7. CASE t = "volumes"
  <2>1. q = [pool EXCEPT !.volumes = TRUE]
    BY <1>7 DEF Ran
  <2> QED
    BY <1>7, <2>1 DEF Pool
<1>8. CASE t = "umount"
  <2>1. q = [pool EXCEPT !.mounted = FALSE]
    BY <1>8 DEF Ran
  <2> QED
    BY <1>8, <2>1 DEF Pool
<1>9. CASE t = "close"
  <2>1. q = [pool EXCEPT !.mapped = FALSE]
    BY <1>9 DEF Ran
  <2> QED
    BY <1>9, <2>1 DEF Pool
<1> QED
  BY <1>1, <1>2, <1>3, <1>4, <1>5, <1>6, <1>7, <1>8, <1>9 DEF Tools

(* A layout with other files, everything else as it is.                    *)
Refiled(q, files) ==
  /\ q \in Pool /\ q.files = files
  /\ q.luks = pool.luks /\ q.fs = pool.fs /\ q.owned = pool.owned
  /\ q.volumes = pool.volumes /\ q.mapped = pool.mapped /\ q.mounted = pool.mounted

LEMMA DoneIs ==
  ASSUME pool \in Pool
  PROVE  /\ \A e \in Entries : Refiled(Done(Make(e)), pool.files \cup {e})
         /\ Refiled(Done(Fill("marker_tmp")),
                    (pool.files \ {"marker_torn"}) \cup {"marker_tmp"})
         /\ Refiled(Done(Place("marker")), (pool.files \ {"marker_tmp"}) \cup {"marker"})
         /\ Refiled(Done(Place("uuid")), (pool.files \ {"uuid_tmp"}) \cup {"uuid"})
         /\ \A e : Done(Remove(e)) = Without(e)
         /\ \A t : Done(Tool(t)) = Ran(t)
         /\ Done(Ask) = pool /\ Done(Check) = pool
<1>1. ASSUME NEW e \in Entries
      PROVE  Refiled(Done(Make(e)), pool.files \cup {e})
  <2>1. Done(Make(e)) = [pool EXCEPT !.files = @ \cup {e}]
    BY DEF Done, Make
  <2> QED
    BY <2>1 DEF Refiled, Pool
<1>2. Refiled(Done(Fill("marker_tmp")), (pool.files \ {"marker_torn"}) \cup {"marker_tmp"})
  <2>1. Done(Fill("marker_tmp")) =
          [pool EXCEPT !.files = (@ \ {"marker_torn"}) \cup {"marker_tmp"}]
    BY DEF Done, Fill
  <2> QED
    BY <2>1 DEF Refiled, Pool, Entries
<1>3. Refiled(Done(Place("marker")), (pool.files \ {"marker_tmp"}) \cup {"marker"})
  <2>1. Done(Place("marker")) = [pool EXCEPT !.files = (@ \ {"marker_tmp"}) \cup {"marker"}]
    BY DEF Done, Place, Draft
  <2> QED
    BY <2>1 DEF Refiled, Pool, Entries
<1>4. Refiled(Done(Place("uuid")), (pool.files \ {"uuid_tmp"}) \cup {"uuid"})
  <2>1. Done(Place("uuid")) = [pool EXCEPT !.files = (@ \ {"uuid_tmp"}) \cup {"uuid"}]
    BY DEF Done, Place, Draft
  <2> QED
    BY <2>1 DEF Refiled, Pool, Entries
<1>5. /\ \A e : Done(Remove(e)) = Without(e)
      /\ \A t : Done(Tool(t)) = Ran(t)
  BY DEF Done, Remove, Tool
<1>6. Done(Ask) = pool /\ Done(Check) = pool
  BY DEF Done, Ask, Check
<1> QED
  BY <1>1, <1>2, <1>3, <1>4, <1>5, <1>6

Runs == [kind : {"idle", "provision", "open"} \cup ClearKinds, todo : Seq(Steps)]

LEMMA DoneTyped ==
  ASSUME pool \in Pool, NEW h \in Steps
  PROVE  Done(h) \in Pool
<1>1. CASE h.verb = "make"
  <2>1. h.of \in Entries /\ Done(h) = [pool EXCEPT !.files = @ \cup {h.of}]
    BY <1>1 DEF Done, Steps
  <2> QED
    BY <2>1 DEF Pool
<1>2. CASE h.verb = "write"
  <2>1. Done(h) = [pool EXCEPT !.files = (@ \ {"marker_torn"}) \cup {"marker_tmp"}]
    BY <1>2 DEF Done
  <2> QED
    BY <2>1 DEF Pool, Entries
<1>3. CASE h.verb = "rename"
  <2>1. /\ h.of \in Entries
        /\ Done(h) = [pool EXCEPT !.files = (@ \ {Draft(h.of)}) \cup {h.of}]
    BY <1>3 DEF Done, Steps
  <2> QED
    BY <2>1 DEF Pool
<1>4. CASE h.verb = "remove"
  <2>1. Done(h) = Without(h.of)
    BY <1>4 DEF Done
  <2> QED
    BY <2>1, WithoutIs
<1>5. CASE h.verb = "tool"
  <2>1. h.of \in Tools /\ Done(h) = Ran(h.of)
    BY <1>5 DEF Done, Steps
  <2> QED
    BY <2>1, RanIs
<1>6. CASE h.verb \in {"ask", "check"}
  BY <1>6 DEF Done
<1> QED
  BY <1>1, <1>2, <1>3, <1>4, <1>5, <1>6 DEF Steps

LEMMA Stepped ==
  ASSUME PoolTypes, StepDone
  PROVE  /\ run.kind # "idle" /\ run.todo # <<>>
         /\ Head(run.todo) \in Steps /\ Tail(run.todo) \in Seq(Steps)
         /\ Able(Head(run.todo)) /\ pool' = Done(Head(run.todo)) /\ pool' \in Pool
         /\ \/ Tail(run.todo) = <<>> /\ run' = NoRun
            \/ /\ Tail(run.todo) # <<>> /\ run' \in Runs
               /\ run'.kind = run.kind /\ run'.todo = Tail(run.todo)
         /\ verified' = (verified \/ Head(run.todo) = Check)
         /\ late' = late /\ faults' = faults
<1>1. /\ pool \in Pool /\ run \in Runs /\ run.kind # "idle" /\ run.todo # <<>>
      /\ run.todo \in Seq(Steps)
  BY DEF PoolTypes, StepDone, Runs
<1>2. Head(run.todo) \in Steps /\ Tail(run.todo) \in Seq(Steps)
  BY <1>1, HeadTailProperties
<1>3. pool' = Done(Head(run.todo)) /\ pool' \in Pool
  BY <1>1, <1>2, DoneTyped DEF StepDone
<1>4. CASE Tail(run.todo) = <<>>
  BY <1>1, <1>2, <1>3, <1>4 DEF StepDone
<1>5. CASE Tail(run.todo) # <<>>
  <2>1. run' = [run EXCEPT !.todo = Tail(@)]
    BY <1>5 DEF StepDone
  <2>2. run' \in Runs /\ run'.kind = run.kind /\ run'.todo = Tail(run.todo)
    BY <1>1, <1>2, <2>1 DEF Runs
  <2> QED
    BY <1>1, <1>2, <1>3, <1>5, <2>2 DEF StepDone
<1> QED
  BY <1>4, <1>5

LEMMA GaveUp ==
  ASSUME PoolTypes, run.kind # "idle", NEW u \in BOOLEAN, GiveUp(u)
  PROVE  \/ run' = NoRun
         \/ /\ run.kind = "provision" /\ ~u /\ Has("security")
            /\ run' \in Runs /\ run'.kind = "discard" /\ run'.todo = DiscardSteps
<1>1. pool \in Pool /\ run \in Runs
  BY DEF PoolTypes, Runs
<1>2. DiscardSteps \in Seq(Steps)
  BY <1>1, DiscardPlan DEF Plans
<1>3. CASE run.kind = "provision" /\ ~u /\ Has("security")
  <2>1. PICK r : r = [run EXCEPT !.kind = "discard"]
    OBVIOUS
  <2>2. r \in Runs /\ r.kind = "discard" /\ run' = [r EXCEPT !.todo = DiscardSteps]
    BY <1>1, <1>3, <2>1 DEF GiveUp, Runs, ClearKinds
  <2> QED
    BY <1>2, <1>3, <2>2 DEF Runs
<1>4. CASE ~(run.kind = "provision" /\ ~u /\ Has("security"))
  BY <1>4 DEF GiveUp
<1> QED
  BY <1>3, <1>4

LEMMA NoRunIs ==
  NoRun \in Runs /\ NoRun.kind = "idle" /\ NoRun.todo = <<>>
  BY EmptySeq DEF NoRun, Runs

LEMMA NotEmpty ==
  ASSUME pool \in Pool
  PROVE  /\ DiscardSteps # <<>> /\ ResetSteps # <<>> /\ ProvisionSteps # <<>>
         /\ DiscardSteps \in Seq(Steps) /\ ResetSteps \in Seq(Steps)
         /\ OpenSteps \in Seq(Steps)
<1>1. /\ Remove("security") \in Elements(DiscardSteps)
      /\ Remove("security") \in Elements(ResetSteps)
      /\ DiscardSteps \in Seq(Steps) /\ ResetSteps \in Seq(Steps)
  BY DiscardPlan, ResetPlan DEF Plans
<1>2. Elements(<<>>) = {}
  BY DEF Elements
<1>3. ProvisionSteps # <<>>
  <2>1. Len(ProvisionSteps) = 16 /\ ProvisionSteps \in Seq(Steps)
    BY ProvisionList
  <2> QED
    BY <2>1, EmptySeq, SMTT(20)
<1>4. OpenSteps \in Seq(Steps)
  <2>1. Opening \subseteq Steps
    BY DEF Opening, Steps, Ask, Check, Tool, Tools
  <2> QED
    BY <2>1, OpenList, SeqMonotonic
<1> QED
  BY <1>1, <1>2, <1>3, <1>4

(* The steps of the next-state relation, and the types. *)

LEMMA RunBegins ==
  ASSUME PoolTypes, NEW kind \in {"provision", "open", "reset"}, NEW todo \in Seq(Steps),
         todo # <<>>, Begin(kind, todo)
  PROVE  /\ run.kind = "idle"
         /\ run' \in Runs /\ run'.kind = kind /\ run'.todo = todo
         /\ verified' = (verified /\ kind # "reset")
         /\ hasty' = (hasty \/ (kind = "reset" /\ Building # {}))
         /\ pool' = pool /\ late' = late /\ faults' = faults
<1>1. run' = [kind |-> kind, todo |-> todo]
  BY DEF Begin
<1>2. run' \in Runs /\ run'.kind = kind /\ run'.todo = todo
  BY <1>1 DEF Runs, ClearKinds
<1> QED
  BY <1>2 DEF Begin

(* What a run that begins starts from.                                     *)
LEMMA BeginsAs ==
  ASSUME PoolTypes, Provision \/ Open \/ Reset
  PROVE  /\ run.kind = "idle" /\ run' \in Runs /\ run'.todo # <<>>
         /\ pool' = pool /\ late' = late /\ faults' = faults
         /\ hasty' \in BOOLEAN /\ (hasty => hasty')
         /\ \/ /\ Provision /\ run'.kind = "provision" /\ run'.todo = ProvisionSteps
               /\ verified' = verified
            \/ Open /\ run'.kind = "open" /\ run'.todo = OpenSteps /\ verified' = verified
            \/ /\ Reset /\ run'.kind = "reset" /\ run'.todo = ResetSteps
               /\ verified' = FALSE /\ (~hasty' => Quiet)
<1>0. /\ pool \in Pool /\ verified \in BOOLEAN /\ hasty \in BOOLEAN
      /\ Building = {} => Quiet
  BY DEF PoolTypes, Building, Quiet, Builders
<1>1. CASE Provision
  <2>1. Begin("provision", ProvisionSteps)
    BY <1>1 DEF Provision
  <2>2. ProvisionSteps \in Seq(Steps) /\ ProvisionSteps # <<>>
    BY <1>0, ProvisionList, NotEmpty
  <2> QED
    BY <1>0, <1>1, <2>1, <2>2, RunBegins
<1>2. CASE Open
  <2>1. Begin("open", OpenSteps)
    BY <1>2 DEF Open
  <2>2. OpenSteps \in Seq(Steps) /\ OpenSteps # <<>>
    BY <1>0, OpenList, NotEmpty
  <2> QED
    BY <1>0, <1>2, <2>1, <2>2, RunBegins
<1>3. CASE Reset
  <2>1. Begin("reset", ResetSteps)
    BY <1>3 DEF Reset
  <2>2. ResetSteps \in Seq(Steps) /\ ResetSteps # <<>>
    BY <1>0, NotEmpty
  <2> QED
    BY <1>0, <1>3, <2>1, <2>2, RunBegins
<1> QED
  BY <1>1, <1>2, <1>3

LEMMA LateEnds ==
  ASSUME PoolTypes, NEW t \in Tools, LateToolEnds(t)
  PROVE  /\ late[t] > 0 /\ late' \in [Tools -> Nat] /\ late'[t] = late[t] - 1
         /\ \A u \in Tools : u # t => late'[u] = late[u]
         /\ pool' \in Pool
         /\ run' = run /\ faults' = faults /\ verified' = verified /\ hasty' = hasty
         /\ \/ pool' = pool
            \/ Able(Tool(t)) /\ pool' = Ran(t)
<1>1. pool \in Pool /\ late \in [Tools -> Nat] /\ late[t] \in Nat /\ late[t] > 0
  BY DEF PoolTypes, LateToolEnds
<1>2. \/ pool' = pool
      \/ Able(Tool(t)) /\ pool' = Ran(t)
  BY DEF LateToolEnds
<1>3. late' = [late EXCEPT ![t] = late[t] - 1]
  BY DEF LateToolEnds
<1> QED
  BY <1>1, <1>2, <1>3, RanIs DEF LateToolEnds

LEMMA Reboots ==
  ASSUME PoolTypes, Reboot
  PROVE  /\ pool' \in Pool /\ pool'.files = pool.files /\ pool'.luks = pool.luks
         /\ pool'.fs = pool.fs /\ pool'.owned = pool.owned /\ pool'.volumes = pool.volumes
         /\ ~pool'.mapped /\ ~pool'.mounted
         /\ run' = NoRun /\ late' = NoTool /\ verified' = verified /\ hasty' = hasty
         /\ faults' \in 0 .. MaxFaults
<1>1. pool \in Pool /\ pool' = [pool EXCEPT !.mapped = FALSE, !.mounted = FALSE]
  BY DEF PoolTypes, Reboot
<1>2. PICK p : p = [pool EXCEPT !.mapped = FALSE]
  OBVIOUS
<1>3. /\ p \in Pool /\ p.files = pool.files /\ p.luks = pool.luks /\ p.fs = pool.fs
      /\ p.owned = pool.owned /\ p.volumes = pool.volumes /\ ~p.mapped
  BY <1>1, <1>2 DEF Pool
<1>4. pool' = [p EXCEPT !.mounted = FALSE]
  BY <1>1, <1>2
<1>5. faults' \in 0 .. MaxFaults
  <2>1. faults \in 0 .. MaxFaults /\ faults < MaxFaults /\ faults' = faults + 1
    BY DEF PoolTypes, Reboot
  <2>2. MaxFaults \in Nat
    BY Zenon, StorageAssumption
  <2> QED
    BY <2>1, <2>2
<1> QED
  BY <1>3, <1>4, <1>5 DEF Pool, Reboot

(* A tool whose run no longer waits: the one at the head of what is left.  *)
LEMMA Outlives ==
  ASSUME PoolTypes, ToolOutlives \/ Killed
  PROVE  /\ run.kind # "idle" /\ run' = NoRun /\ pool' = pool /\ verified' = verified
         /\ hasty' = hasty /\ faults' \in 0 .. MaxFaults /\ late' \in [Tools -> Nat]
         /\ \/ late' = late
            \/ \E t \in Tools :
                 /\ Head(run.todo) = Tool(t) /\ late'[t] = late[t] + 1
                 /\ \A u \in Tools : u # t => late'[u] = late[u]
<1>1. /\ run.kind # "idle" /\ run.todo # <<>> /\ run.todo \in Seq(Steps)
      /\ late \in [Tools -> Nat]
  BY DEF PoolTypes, ToolOutlives, Killed
<1>2. Head(run.todo) \in Steps
  BY <1>1, HeadTailProperties
<1>3. run' = NoRun
  BY DEF ToolOutlives, Killed, GiveUp
<1>4. faults' \in 0 .. MaxFaults
  <2>1. faults \in 0 .. MaxFaults /\ faults < MaxFaults /\ faults' = faults + 1
    BY DEF PoolTypes, ToolOutlives, Killed
  <2>2. MaxFaults \in Nat
    BY Zenon, StorageAssumption
  <2> QED
    BY <2>1, <2>2
<1>5. Head(run.todo).verb = "tool" =>
        Head(run.todo).of \in Tools /\ Head(run.todo) = Tool(Head(run.todo).of)
  BY <1>2 DEF Steps, Tool
<1>6. \/ late' = late
      \/ Head(run.todo).verb = "tool" /\ late' = Outlived
  BY DEF ToolOutlives, Killed
<1>7. CASE Head(run.todo).verb = "tool" /\ late' = Outlived
  <2>1. PICK t \in Tools : t = Head(run.todo).of /\ Head(run.todo) = Tool(t)
    BY <1>5, <1>7
  <2>2. late' = [late EXCEPT ![t] = late[t] + 1] /\ late[t] \in Nat
    BY <1>1, <1>7, <2>1 DEF Outlived
  <2>3. /\ late' \in [Tools -> Nat] /\ late'[t] = late[t] + 1
        /\ \A u \in Tools : u # t => late'[u] = late[u]
    BY <1>1, <2>2
  <2> QED
    BY <1>1, <1>3, <1>4, <2>1, <2>3 DEF ToolOutlives, Killed
<1> QED
  BY <1>1, <1>3, <1>4, <1>6, <1>7 DEF ToolOutlives, Killed

LEMMA TypesKept ==
  PoolTypes /\ [StorageNext]_storageVars => PoolTypes' /\ (hasty => hasty')
<1> SUFFICES ASSUME PoolTypes, [StorageNext]_storageVars
             PROVE  PoolTypes' /\ (hasty => hasty')
  OBVIOUS
<1>0. /\ pool \in Pool /\ run \in Runs /\ late \in [Tools -> Nat]
      /\ faults \in 0 .. MaxFaults /\ verified \in BOOLEAN /\ hasty \in BOOLEAN
      /\ run.kind = "idle" <=> run.todo = <<>>
  BY DEF PoolTypes, Runs
<1>1. CASE Provision \/ Open \/ Reset
  BY <1>0, <1>1, BeginsAs DEF PoolTypes, Runs
<1>2. CASE StepDone
  <2>1. hasty' = hasty
    BY <1>2 DEF StepDone
  <2> QED
    BY <1>0, <1>2, <2>1, Stepped, NoRunIs DEF PoolTypes, Runs
<1>3. CASE StepFails
  <2>1. run.kind # "idle" /\ GiveUp(FALSE)
    BY <1>3 DEF StepFails
  <2>2. /\ run' \in Runs
        /\ run'.kind = "idle" <=> run'.todo = <<>>
    BY <1>0, <2>1, GaveUp, NoRunIs, NotEmpty
  <2>3. faults' \in 0 .. MaxFaults
    <3>1. MaxFaults \in Nat
      BY Zenon, StorageAssumption
    <3>2. faults' = faults \/ (faults < MaxFaults /\ faults' = faults + 1)
      BY <1>3 DEF StepFails
    <3> QED
      BY <1>0, <3>1, <3>2
  <2>4. pool' = pool /\ late' = late /\ verified' = verified /\ hasty' = hasty
    BY <1>3 DEF StepFails
  <2> QED
    BY <1>0, <2>2, <2>3, <2>4 DEF PoolTypes, Runs
<1>4. CASE ToolOutlives \/ Killed
  BY <1>0, <1>4, Outlives, NoRunIs DEF PoolTypes, Runs
<1>5. ASSUME NEW t \in Tools, LateToolEnds(t)
      PROVE  PoolTypes' /\ (hasty => hasty')
  BY <1>0, <1>5, LateEnds DEF PoolTypes, Runs
<1>6. CASE Reboot
  BY <1>0, <1>6, Reboots, NoRunIs DEF PoolTypes, Runs, NoTool
<1>7. CASE UNCHANGED storageVars
  BY <1>0, <1>7 DEF storageVars, PoolTypes, Runs
<1> QED
  BY <1>1, <1>2, <1>3, <1>4, <1>5, <1>6, <1>7 DEF StorageNext, PoolRefused

(* A provision goes on to the next of its list.                            *)
LEMMA CreatesNext ==
  ASSUME PoolTypes, run.kind = "provision", Creates
  PROVE  /\ Progress \in 1 .. 16 /\ Head(run.todo) = Creating[Progress]
         /\ Tail(run.todo) = <<>> <=> Progress = 16
         /\ Len(Tail(run.todo)) = 16 - Progress
         /\ \A i \in 1 .. Len(Tail(run.todo)) :
              Tail(run.todo)[i] = Creating[16 - Len(Tail(run.todo)) + i]
<1>1. PICK s, k : s = run.todo /\ k = Len(s)
  OBVIOUS
<1>2. PICK t : t = Tail(s)
  OBVIOUS
<1>3. s \in Seq(Steps) /\ s # <<>> /\ k \in 1 .. 16
  BY <1>1 DEF PoolTypes, Creates, Runs
<1>4. \A i \in 1 .. k : s[i] = Creating[16 - k + i]
  BY <1>1 DEF Creates
<1>5. /\ Head(s) = s[1] /\ t \in Seq(Steps) /\ Len(t) = k - 1
      /\ \A i \in 1 .. k - 1 : t[i] = s[i + 1]
  BY <1>1, <1>2, <1>3, HeadTailProperties
<1>6. Progress = 17 - k
  BY <1>1 DEF Progress
<1>7. PICK p : p = Progress
  OBVIOUS
<1>8. p \in 1 .. 16 /\ p = 16 - k + 1 /\ Len(t) = 16 - p
  BY <1>3, <1>5, <1>6, <1>7
<1>9. Head(s) = Creating[p]
  BY <1>3, <1>4, <1>5, <1>8
<1>10. ASSUME NEW i \in 1 .. Len(t)
       PROVE  t[i] = Creating[16 - Len(t) + i]
  <2>1. i + 1 \in 1 .. k /\ 16 - k + (i + 1) = 16 - Len(t) + i /\ t[i] = s[i + 1]
    BY <1>3, <1>5, <1>10
  <2>2. s[i + 1] = Creating[16 - k + (i + 1)]
    BY <1>4, <2>1
  <2> QED
    BY <2>1, <2>2
<1>11. t = <<>> <=> p = 16
  <2>1. t = <<>> <=> Len(t) = 0
    BY <1>5, EmptySeq
  <2>2. Len(t) = 0 <=> p = 16
    BY <1>8
  <2> QED
    BY Zenon, <2>1, <2>2
<1> QED
  BY <1>1, <1>2, <1>7, <1>8, <1>9, <1>10, <1>11

(* What the steps of a provision are.                                      *)
LEMMA CreatingIs ==
  /\ Creating[1] = Make("security")
  /\ Creating[2] = Make("marker_torn")
  /\ Creating[3] = Fill("marker_tmp")
  /\ Creating[4] = Place("marker")
  /\ Creating[5] = Make("image")
  /\ Creating[6] = Tool("install")
  /\ Creating[7] = Ask
  /\ Creating[8] = Tool("format")
  /\ Creating[9] = Make("uuid_tmp")
  /\ Creating[10] = Place("uuid")
  /\ Creating[11] = Tool("open")
  /\ Creating[12] = Tool("mkfs")
  /\ Creating[13] = Tool("mount")
  /\ Creating[14] = Tool("own")
  /\ Creating[15] = Tool("volumes")
  /\ Creating[16] = Check
  BY DEF Creating

LEMMA ProvisionStep ==
  ASSUME pool \in Pool, NEW n \in 1 .. 16, ProvisionedTo(pool, n),
         Able(Creating[n]), NEW q, q = Done(Creating[n])
  PROVE  q \in Pool /\ ProvisionedTo(q, n + 1)
<1>1. CASE n = 1
  <2>1. Refiled(q, pool.files \cup {"security"})
    BY <1>1, CreatingIs, DoneIs DEF Entries
  <2> QED
    BY <1>1, <2>1 DEF Refiled, ProvisionedTo
<1>2. CASE n = 2
  <2>1. Refiled(q, pool.files \cup {"marker_torn"})
    BY <1>2, CreatingIs, DoneIs DEF Entries
  <2> QED
    BY <1>2, <2>1 DEF Refiled, ProvisionedTo
<1>3. CASE n = 3
  <2>1. Refiled(q, (pool.files \ {"marker_torn"}) \cup {"marker_tmp"})
    BY <1>3, CreatingIs, DoneIs
  <2> QED
    BY <1>3, <2>1 DEF Refiled, ProvisionedTo
<1>4. CASE n = 4
  <2>1. Refiled(q, (pool.files \ {"marker_tmp"}) \cup {"marker"})
    BY <1>4, CreatingIs, DoneIs
  <2> QED
    BY <1>4, <2>1 DEF Refiled, ProvisionedTo
<1>5. CASE n = 5
  <2>1. Refiled(q, pool.files \cup {"image"})
    BY <1>5, CreatingIs, DoneIs DEF Entries
  <2> QED
    BY <1>5, <2>1 DEF Refiled, ProvisionedTo
<1>6. CASE n = 6
  <2>1. q = Ran("install") /\ "install" \in Tools
    BY <1>6, CreatingIs, DoneIs DEF Tools
  <2> QED
    BY <1>6, <2>1, RanIs DEF ProvisionedTo
<1>7. CASE n = 7
  <2>1. q = pool
    BY <1>7, CreatingIs, DoneIs
  <2> QED
    BY <1>7, <2>1 DEF ProvisionedTo
<1>8. CASE n = 8
  <2>1. q = Ran("format") /\ "format" \in Tools
    BY <1>8, CreatingIs, DoneIs DEF Tools
  <2> QED
    BY <1>8, <2>1, RanIs DEF ProvisionedTo
<1>9. CASE n = 9
  <2>1. Refiled(q, pool.files \cup {"uuid_tmp"})
    BY <1>9, CreatingIs, DoneIs DEF Entries
  <2> QED
    BY <1>9, <2>1 DEF Refiled, ProvisionedTo
<1>10. CASE n = 10
  <2>1. Refiled(q, (pool.files \ {"uuid_tmp"}) \cup {"uuid"})
    BY <1>10, CreatingIs, DoneIs
  <2> QED
    BY <1>10, <2>1 DEF Refiled, ProvisionedTo
<1>11. CASE n = 11
  <2>1. q = Ran("open") /\ "open" \in Tools
    BY <1>11, CreatingIs, DoneIs DEF Tools
  <2> QED
    BY <1>11, <2>1, RanIs DEF ProvisionedTo
<1>12. CASE n = 12
  <2>1. q = Ran("mkfs") /\ "mkfs" \in Tools
    BY <1>12, CreatingIs, DoneIs DEF Tools
  <2> QED
    BY <1>12, <2>1, RanIs DEF ProvisionedTo
<1>13. CASE n = 13
  <2>1. q = Ran("mount") /\ "mount" \in Tools /\ pool.mapped
    BY <1>13, CreatingIs, DoneIs, AbleIs DEF Tools
  <2> QED
    BY <1>13, <2>1, RanIs DEF ProvisionedTo
<1>14. CASE n = 14
  <2>1. q = Ran("own") /\ "own" \in Tools
    BY <1>14, CreatingIs, DoneIs DEF Tools
  <2> QED
    BY <1>14, <2>1, RanIs DEF ProvisionedTo
<1>15. CASE n = 15
  <2>1. q = Ran("volumes") /\ "volumes" \in Tools
    BY <1>15, CreatingIs, DoneIs DEF Tools
  <2> QED
    BY <1>15, <2>1, RanIs DEF ProvisionedTo
<1>16. CASE n = 16
  <2>1. q = pool
    BY <1>16, CreatingIs, DoneIs
  <2> QED
    BY <1>16, <2>1 DEF ProvisionedTo
<1> QED
  BY <1>1, <1>2, <1>3, <1>4, <1>5, <1>6, <1>7, <1>8, <1>9, <1>10, <1>11, <1>12, <1>13, <1>14, <1>15, <1>16

LEMMA InitIsLayered ==
  StorageInit => PoolInv
<1> SUFFICES ASSUME StorageInit
             PROVE  PoolInv
  OBVIOUS
<1>1. /\ pool = NoPool /\ run = NoRun /\ late = NoTool /\ faults = 0 /\ verified = FALSE
      /\ hasty = FALSE /\ late \in [Tools -> Nat] /\ \A t \in Tools : late[t] = 0
  BY DEF StorageInit, NoTool
<1>2. /\ pool \in Pool /\ pool.files = {} /\ ~pool.luks /\ ~pool.fs /\ ~pool.mapped /\ ~pool.mounted
  BY <1>1 DEF NoPool, Pool
<1>3. faults \in 0 .. MaxFaults
  <2>1. MaxFaults \in Nat
    BY Zenon, StorageAssumption
  <2> QED
    BY <1>1, <2>1
<1>4. PoolTypes
  BY <1>1, <1>2, <1>3, NoRunIs DEF PoolTypes, Runs
<1>5. Layered
  BY <1>1, <1>2 DEF Layered, Has
<1>6. Attended /\ OnPlan
  BY <1>1, NoRunIs DEF Attended, OnPlan, Quiet, Builders, Tools, ClearKinds
<1> QED
  BY <1>4, <1>5, <1>6 DEF PoolInv

LEMMA BeginKeeps ==
  ASSUME PoolInv, Provision \/ Open \/ Reset, ~hasty'
  PROVE  Layered' /\ Attended' /\ OnPlan'
<1>0. /\ PoolTypes /\ Layered /\ Attended /\ OnPlan /\ pool \in Pool
      /\ run.kind = "idle" /\ run' \in Runs
      /\ pool' = pool /\ late' = late
  BY BeginsAs DEF PoolInv, PoolTypes
<1>1. CASE /\ Provision /\ run'.kind = "provision" /\ run'.todo = ProvisionSteps
           /\ verified' = verified
  <2>1. pool.files = {} /\ ~pool.mapped /\ ~verified
    BY <1>0, <1>1 DEF Provision, Layered, MetadataValid, Has
  <2>2. Creates'
    BY <1>1, ProvisionList DEF Creates
  <2>3. Progress' = 1
    BY <1>1, ProvisionList DEF Progress
  <2>4. ProvisionedTo(pool, 1)
    BY <1>0, <2>1 DEF ProvisionedTo, Layered, Has
  <2>5. Quiet
    BY <1>0, <2>1 DEF Attended, Has
  <2> QED
    BY <1>0, <1>1, <2>1, <2>2, <2>3, <2>4, <2>5
       DEF Layered, Attended, Quiet, OnPlan, Has, MetadataValid, ClearKinds
<1>2. CASE Open /\ run'.kind = "open" /\ run'.todo = OpenSteps /\ verified' = verified
  <2>1. run'.todo \in Seq(Opening) /\ Has("security")
    BY <1>2, OpenList DEF Open
  <2> QED
    BY <1>0, <1>2, <2>1 DEF Layered, Attended, Quiet, OnPlan, Has, MetadataValid, ClearKinds
<1>3. CASE /\ Reset /\ run'.kind = "reset" /\ run'.todo = ResetSteps
           /\ verified' = FALSE /\ (~hasty' => Quiet)
  <2>1. Has("security")
    BY <1>3 DEF Reset
  <2>2. /\ Plans("reset", ResetSteps)
        /\ pool.mounted => Tool("umount") \in Elements(ResetSteps)
        /\ pool.mapped => Tool("close") \in Elements(ResetSteps)
    BY <1>0, ResetPlan
  <2> QED
    BY <1>0, <1>3, <2>1, <2>2 DEF Layered, Attended, Quiet, OnPlan, Has, ClearKinds, Left
<1> QED
  BY <1>0, <1>1, <1>2, <1>3, BeginsAs

LEMMA NotYetChecked ==
  ASSUME NEW n \in 1 .. 15
  PROVE  Creating[n] # Check
<1>1. /\ Make("security") # Check /\ Make("marker_torn") # Check /\ Fill("marker_tmp") # Check
      /\ Place("marker") # Check /\ Make("image") # Check /\ Tool("install") # Check
      /\ Ask # Check /\ Tool("format") # Check /\ Make("uuid_tmp") # Check
      /\ Place("uuid") # Check /\ Tool("open") # Check /\ Tool("mkfs") # Check
      /\ Tool("mount") # Check /\ Tool("own") # Check /\ Tool("volumes") # Check
  BY DEF Make, Fill, Place, Tool, Ask, Check
<1>2. \/ n = 1 \/ n = 2 \/ n = 3 \/ n = 4 \/ n = 5
      \/ n = 6 \/ n = 7 \/ n = 8 \/ n = 9 \/ n = 10
      \/ n = 11 \/ n = 12 \/ n = 13 \/ n = 14 \/ n = 15
  OBVIOUS
<1> QED
  BY <1>1, <1>2, CreatingIs

(* A step whose run goes on: what a provision's, an opening's, a clearing's *)
(* does.                                                                   *)
LEMMA ProvisionKeeps ==
  ASSUME PoolInv, StepDone, run.kind = "provision"
  PROVE  Layered' /\ Attended' /\ OnPlan'
<1>0. /\ PoolTypes /\ Layered /\ Attended /\ Creates /\ ProvisionedTo(pool, Progress)
      /\ pool \in Pool /\ Quiet /\ "mkfs" \in Builders /\ ~verified
  BY DEF PoolInv, PoolTypes, OnPlan, Attended, Builders, Tools
<1>1. PICK n \in 1 .. 16 : n = Progress
  BY <1>0, CreatesNext
<1>2. /\ Head(run.todo) = Creating[n] /\ Able(Creating[n]) /\ pool' = Done(Creating[n])
      /\ verified' = (verified \/ Creating[n] = Check) /\ late' = late
  BY <1>0, <1>1, Stepped, CreatesNext
<1>3. pool' \in Pool /\ ProvisionedTo(pool', n + 1)
  BY <1>0, <1>1, <1>2, ProvisionStep
<1>4. verified' => pool' = pool /\ MountedValid
  BY <1>0, <1>2, AbleIs, DoneIs
<1>5. Layered'
  <2>1. pool'.files # {} => "security" \in pool'.files
    BY <1>3 DEF ProvisionedTo, Pool, Entries
  <2>2. /\ pool'.luks => "image" \in pool'.files
        /\ pool'.fs => pool'.luks
        /\ pool'.mapped => pool'.luks
        /\ pool'.mounted => pool'.mapped /\ pool'.fs /\ "mount" \in pool'.files
    BY <1>3 DEF ProvisionedTo
  <2>3. verified' => pool'.luks /\ pool'.fs /\ pool'.volumes /\ MetadataValid'
    BY <1>0, <1>4 DEF MountedValid, MetadataValid, Layered
  <2> QED
    BY <2>1, <2>2, <2>3 DEF Layered, Has
<1>6. CASE run' = NoRun
  BY <1>0, <1>2, <1>5, <1>6, NoRunIs DEF Attended, Quiet, OnPlan, ClearKinds
<1>7. CASE /\ Tail(run.todo) # <<>> /\ run'.kind = "provision" /\ run'.todo = Tail(run.todo)
  <2>0. PICK t : t = Tail(run.todo)
    OBVIOUS
  <2>1. n \in 1 .. 15
    BY <1>0, <1>1, <1>7, CreatesNext
  <2>2. ~verified'
    BY <1>0, <1>2, <2>1, NotYetChecked
  <2>3. /\ Len(t) = 16 - n /\ run'.todo = t
        /\ \A i \in 1 .. Len(t) : t[i] = Creating[16 - Len(t) + i]
    BY <1>0, <1>1, <1>7, <2>0, CreatesNext
  <2>4. PICK k : k = Len(t)
    OBVIOUS
  <2>5. k \in 1 .. 16 /\ 17 - k = n + 1
    BY <2>1, <2>3, <2>4
  <2>6. Creates' /\ Progress' = n + 1
    BY <2>3, <2>4, <2>5 DEF Creates, Progress
  <2> QED
    BY <1>0, <1>2, <1>3, <1>5, <1>7, <2>2, <2>6 DEF Attended, Quiet, OnPlan, ClearKinds
<1> QED
  BY <1>0, <1>6, <1>7, Stepped

LEMMA OpenKeeps ==
  ASSUME PoolInv, StepDone, run.kind = "open"
  PROVE  Layered' /\ Attended' /\ OnPlan'
<1>0. /\ PoolTypes /\ Layered /\ Attended /\ run.todo \in Seq(Opening) /\ Has("security")
      /\ pool \in Pool /\ run.todo # <<>> /\ verified \in BOOLEAN
  BY DEF PoolInv, PoolTypes, OnPlan, Attended
<1>1. PICK h : h = Head(run.todo)
  OBVIOUS
<1>2. h \in Opening /\ Tail(run.todo) \in Seq(Opening)
  BY <1>0, <1>1, HeadTailProperties
<1>3. /\ Able(h) /\ pool' = Done(h) /\ pool' \in Pool /\ late' = late
      /\ verified' = (verified \/ h = Check)
  BY <1>0, <1>1, Stepped
<1>4. ASSUME h = Ask \/ h = Check
      PROVE  Layered' /\ pool'.files = pool.files /\ pool'.fs = pool.fs
  <2>1. pool' = pool
    BY <1>0, <1>3, <1>4, DoneIs
  <2>2. h = Check => MountedValid
    BY <1>3, AbleIs
  <2>3. verified' => verified \/ MountedValid
    BY <1>0, <1>3, <2>2
  <2>4. MountedValid => pool.luks /\ pool.fs /\ pool.volumes /\ MetadataValid
    BY <1>0 DEF MountedValid, MetadataValid, Layered
  <2>5. verified' => pool.luks /\ pool.fs /\ pool.volumes /\ MetadataValid
    BY <1>0, <2>3, <2>4 DEF Layered
  <2> QED
    BY <1>0, <2>1, <2>5 DEF Layered, Has, MetadataValid
<1>5. ASSUME h \in {Tool("open"), Tool("mount"), Tool("own"), Tool("volumes")}
      PROVE  Layered' /\ pool'.files = pool.files /\ pool'.fs = pool.fs
  <2>1. PICK t \in {"open", "mount", "own", "volumes"} : h = Tool(t)
    BY <1>5
  <2>2. h # Check
    BY <2>1 DEF Tool, Check
  <2>3. pool' = Ran(t) /\ t \in Tools
    BY <1>0, <1>3, <2>1, DoneIs DEF Tools
  <2>4. verified' = verified
    BY <1>0, <1>3, <2>2
  <2>5. /\ t = "open" => pool.luks
        /\ t = "mount" => pool.mapped /\ pool.fs /\ Has("mount")
    BY <1>3, <2>1, AbleIs
  <2>6. /\ pool'.files = pool.files
        /\ pool'.luks <=> pool.luks
        /\ pool'.fs <=> pool.fs
        /\ pool'.fs = pool.fs
        /\ pool.volumes => pool'.volumes
        /\ pool'.mapped <=> pool.mapped \/ t = "open"
        /\ pool'.mounted <=> pool.mounted \/ t = "mount"
    BY <1>0, <2>3, RanIs DEF Pool
  <2>7. verified' => pool'.luks /\ pool'.fs /\ pool'.volumes /\ MetadataValid'
    BY <1>0, <2>4, <2>6 DEF Layered, MetadataValid
  <2> QED
    BY <1>0, <2>5, <2>6, <2>7 DEF Layered, Has
<1>8. Layered' /\ pool'.files = pool.files /\ pool'.fs = pool.fs
  BY <1>2, <1>4, <1>5 DEF Opening
<1>9. /\ run'.kind \in {"idle", "open"}
      /\ run'.kind = "open" => run'.todo \in Seq(Opening)
  BY <1>0, <1>2, <1>3, Stepped, NoRunIs
<1> QED
  BY <1>0, <1>3, <1>8, <1>9 DEF Attended, Quiet, OnPlan, ClearKinds, Has

(* Where a clearing is, and what its next step leaves.                     *)
LEMMA ClearHead ==
  ASSUME PoolInv, run.kind \in ClearKinds, NEW h, h = Head(run.todo)
  PROVE  /\ run.todo # <<>> /\ Plans(run.kind, run.todo)
         /\ h \in Clearing(run.kind) /\ Left(h) /\ h # Check
         /\ \A x : x \in Elements(Tail(run.todo)) <=> Left(x) /\ x # h
         /\ \A x \in Elements(Tail(run.todo)) : Rank(run.kind)[h] < Rank(run.kind)[x]
         /\ Plans(run.kind, Tail(run.todo))
         /\ Tail(run.todo) = <<>> <=> Elements(Tail(run.todo)) = {}
<1>1. Plans(run.kind, run.todo) /\ run.todo # <<>>
  BY DEF PoolInv, PoolTypes, OnPlan, ClearKinds
<1>2. /\ Left(h) /\ h \in Clearing(run.kind)
      /\ Plans(run.kind, Tail(run.todo))
      /\ Elements(Tail(run.todo)) = Elements(run.todo) \ {h}
      /\ Tail(run.todo) = <<>> <=> Elements(Tail(run.todo)) = {}
      /\ \A x \in Elements(Tail(run.todo)) : Rank(run.kind)[h] < Rank(run.kind)[x]
  BY <1>1, FirstStep DEF Left, Plans
<1>3. h # Check
  <2>1. h \in Resetting
    BY <1>2 DEF Clearing, Resetting
  <2>2. /\ Place("marker") # Check /\ Tool("umount") # Check /\ Tool("close") # Check
        /\ \A e : Remove(e) # Check
    BY DEF Place, Tool, Remove, Check
  <2> QED
    BY <2>1, <2>2 DEF Resetting, Discarding
<1> QED
  BY <1>1, <1>2, <1>3 DEF Left

LEMMA ClearsNext ==
  ASSUME PoolInv, StepDone, run.kind \in ClearKinds, NEW h, h = Head(run.todo)
  PROVE  /\ Able(h) /\ pool' = Done(h) /\ pool' \in Pool /\ late' = late
         /\ verified' = verified /\ ~verified
         /\ \/ Tail(run.todo) = <<>> /\ run' = NoRun
            \/ /\ Tail(run.todo) # <<>> /\ run'.kind = run.kind
               /\ run'.todo = Tail(run.todo)
<1>1. PoolTypes /\ ~verified /\ verified \in BOOLEAN
  BY DEF PoolInv, PoolTypes, Attended, ClearKinds
<1>2. /\ Able(h) /\ pool' = Done(h) /\ pool' \in Pool /\ late' = late
      /\ verified' = (verified \/ h = Check)
      /\ \/ Tail(run.todo) = <<>> /\ run' = NoRun
         \/ /\ Tail(run.todo) # <<>> /\ run'.kind = run.kind
            /\ run'.todo = Tail(run.todo)
  BY <1>1, Stepped
<1>3. h # Check
  BY ClearHead
<1> QED
  BY <1>1, <1>2, <1>3

(* The order of what is left.                                              *)
LEMMA ClearOrder ==
  ASSUME PoolInv, run.kind \in ClearKinds, NEW h, h = Head(run.todo),
         NEW E, E = Elements(Tail(run.todo))
  PROVE  /\ h = Tool("close") => Tool("umount") \notin E
         /\ \A e : h = Remove(e) =>
              Tool("umount") \notin E /\ Tool("close") \notin E /\ Place("marker") \notin E
         /\ h = Remove("uuid_tmp") => Remove("uuid") \notin E
         /\ h = Remove("image") => Remove("uuid") \notin E /\ Remove("uuid_tmp") \notin E
         /\ h = Remove("image") /\ run.kind = "reset" => Remove("mount") \notin E
         /\ h = Remove("mount") => Remove("uuid") \notin E /\ Remove("uuid_tmp") \notin E
         /\ h = Remove("marker") => /\ Remove("uuid") \notin E /\ Remove("uuid_tmp") \notin E
                                    /\ Remove("image") \notin E
         /\ h = Remove("marker") /\ run.kind = "reset" => Remove("mount") \notin E
         /\ h = Remove("security") => E = {}
<1> DEFINE R == Rank(run.kind)
<1>1. /\ \A x \in E : R[h] < R[x]
      /\ Plans(run.kind, Tail(run.todo)) /\ h \in Clearing(run.kind)
  BY ClearHead
<1>2. /\ \A x \in E : R[h] < R[x]
      /\ E \subseteq Clearing(run.kind) /\ h \in Clearing(run.kind)
  BY <1>1 DEF Plans
<1>3. /\ R[Place("marker")] = 1 /\ R[Tool("umount")] = 2 /\ R[Tool("close")] = 3
      /\ R[Remove("uuid")] = 4 /\ R[Remove("uuid_tmp")] = 5 /\ R[Remove("image")] = 7
      /\ R[Remove("marker")] = 8
      /\ R[Remove("mount")] = IF run.kind = "discard" THEN 9 ELSE 6
      /\ R[Remove("security")] = 10
  BY RankIs
<1> HIDE DEF R
<1>4. \A x \in Resetting : R[x] <= 10
  <2>1. R[Remove("mount")] <= 10
    BY <1>3
  <2> QED
    BY <1>3, <2>1 DEF Resetting, Discarding
<1>5. h = Tool("close") => Tool("umount") \notin E
  BY <1>2, <1>3
<1>6. ASSUME NEW e, h = Remove(e)
      PROVE  Tool("umount") \notin E /\ Tool("close") \notin E /\ Place("marker") \notin E
  <2>1. h \in Resetting
    BY <1>2 DEF Clearing, Resetting
  <2>2. R[h] > 3
    <3>1. h \in {Remove("uuid"), Remove("uuid_tmp"), Remove("image"), Remove("marker"),
                 Remove("mount"), Remove("security")}
      BY <1>6, <2>1 DEF Resetting, Discarding, Remove, Tool, Place
    <3>2. R[Remove("mount")] > 3
      BY <1>3
    <3> QED
      BY <1>3, <3>1, <3>2
  <2>3. R[h] \in Nat
    BY <1>2, PlannedRanks DEF R
  <2> QED
    BY <1>2, <1>3, <2>2, <2>3
<1>7. h = Remove("uuid_tmp") => Remove("uuid") \notin E
  BY <1>2, <1>3
<1>8. h = Remove("image") => Remove("uuid") \notin E /\ Remove("uuid_tmp") \notin E
  BY <1>2, <1>3
<1>9. h = Remove("image") /\ run.kind = "reset" => Remove("mount") \notin E
  BY <1>2, <1>3
<1>10. h = Remove("mount") => Remove("uuid") \notin E /\ Remove("uuid_tmp") \notin E
  <2>1. R[Remove("mount")] = 9 \/ R[Remove("mount")] = 6
    BY <1>3
  <2> QED
    BY <1>2, <1>3, <2>1
<1>11. h = Remove("marker") => /\ Remove("uuid") \notin E /\ Remove("uuid_tmp") \notin E
                               /\ Remove("image") \notin E
  BY <1>2, <1>3
<1>12. h = Remove("marker") /\ run.kind = "reset" => Remove("mount") \notin E
  BY <1>2, <1>3
<1>13. h = Remove("security") => E = {}
  <2> SUFFICES ASSUME h = Remove("security"), NEW x \in E
               PROVE  FALSE
    OBVIOUS
  <2>1. x \in Resetting /\ R[x] > 10
    BY <1>2, <1>3 DEF Clearing, Resetting
  <2>2. R[x] \in Nat /\ R[x] <= 10
    BY <1>2, <1>4, <2>1, PlannedRanks DEF R
  <2> QED
    BY <2>1, <2>2
<1> QED
  BY <1>5, <1>6, <1>7, <1>8, <1>9, <1>10, <1>11, <1>12, <1>13

LEMMA ClearKeeps ==
  ASSUME PoolInv, StepDone, run.kind \in ClearKinds
  PROVE  Layered' /\ Attended' /\ OnPlan'
<1>1. PICK h, E : h = Head(run.todo) /\ E = Elements(Tail(run.todo))
  OBVIOUS
<1>2. /\ h \in Clearing(run.kind) /\ Left(h) /\ \A x : x \in E <=> Left(x) /\ x # h
      /\ Plans(run.kind, Tail(run.todo)) /\ Tail(run.todo) = <<>> <=> E = {}
      /\ Able(h) /\ pool' = Done(h) /\ pool' \in Pool /\ late' = late
      /\ verified' = verified /\ ~verified
      /\ \/ Tail(run.todo) = <<>> /\ run' = NoRun
         \/ /\ Tail(run.todo) # <<>> /\ run'.kind = run.kind
            /\ run'.todo = Tail(run.todo)
  BY <1>1, ClearsNext, ClearHead
<1>3. /\ Layered /\ pool \in Pool /\ Quiet /\ "mkfs" \in Builders /\ Has("security")
      /\ pool.mounted => Left(Tool("umount"))
      /\ pool.mapped => Left(Tool("close"))
  BY DEF PoolInv, PoolTypes, OnPlan, Attended, ClearKinds, Builders, Tools
<1> DEFINE Goes == /\ Layered'
                   /\ pool'.mounted => Tool("umount") \in E
                   /\ pool'.mapped => Tool("close") \in E
                   /\ "security" \in pool'.files \/ E = {}
<1>4. ASSUME h = Place("marker")
      PROVE  Goes
  <2>1. Refiled(pool', (pool.files \ {"marker_tmp"}) \cup {"marker"})
    BY <1>2, <1>3, <1>4, DoneIs
  <2>2. h # Tool("umount") /\ h # Tool("close")
    BY <1>4 DEF Place, Tool
  <2> QED
    BY <1>2, <1>3, <2>1, <2>2 DEF Refiled, Layered, Has
<1>5. ASSUME h = Tool("umount")
      PROVE  Goes
  <2>1. pool' = Ran("umount") /\ "umount" \in Tools /\ h # Tool("close")
    BY <1>2, <1>3, <1>5, DoneIs DEF Tools, Tool
  <2>2. /\ pool'.files = pool.files /\ ~pool'.mounted
        /\ pool'.luks <=> pool.luks
        /\ pool'.fs <=> pool.fs
        /\ pool'.mapped <=> pool.mapped
    BY <1>3, <2>1, RanIs
  <2> QED
    BY <1>2, <1>3, <2>1, <2>2 DEF Layered, Has
<1>6. ASSUME h = Tool("close")
      PROVE  Goes
  <2>1. pool' = Ran("close") /\ "close" \in Tools /\ ~pool.mounted
    BY <1>2, <1>3, <1>6, DoneIs, AbleIs DEF Tools
  <2>2. /\ pool'.files = pool.files /\ ~pool'.mapped
        /\ pool'.luks <=> pool.luks
        /\ pool'.fs <=> pool.fs
        /\ pool'.mounted <=> pool.mounted
    BY <1>3, <2>1, RanIs
  <2> QED
    BY <1>2, <1>3, <2>1, <2>2 DEF Layered, Has
<1>7. ASSUME NEW e, h = Remove(e), h # Remove("security") \/ E = {}
      PROVE  Goes
  <2>1. ~pool.mounted /\ ~pool.mapped
    <3>1. h # Tool("umount") /\ h # Tool("close")
      BY <1>7 DEF Tool, Remove
    <3>2. Tool("umount") \notin E /\ Tool("close") \notin E
      BY <1>1, <1>7, ClearOrder
    <3> QED
      BY <1>2, <1>3, <3>1, <3>2
  <2>2. pool' = Without(e)
    BY <1>2, <1>3, <1>7, DoneIs
  <2>3. /\ pool'.files = pool.files \ {e} /\ ~pool'.mounted /\ ~pool'.mapped
        /\ pool'.luks => pool.luks /\ e # "image"
        /\ pool'.fs => pool.fs /\ e # "image"
        /\ e # "image" => (pool'.luks <=> pool.luks)
    BY <1>3, <2>1, <2>2, WithoutIs
  <2>4. pool'.files # {} => "security" \in pool'.files
    <3>1. CASE e = "security"
      <4>1. pool.files = {"security"}
        BY <1>2, <1>7, <3>1, AbleIs
      <4> QED
        BY <2>3, <3>1, <4>1
    <3> QED
      BY <1>3, <2>3, <3>1 DEF Has
  <2>5. e = "security" => E = {}
    BY <1>7
  <2> QED
    BY <1>2, <1>3, <2>3, <2>4, <2>5 DEF Layered, Has
<1>8. Goes
  <2>1. h \in Resetting
    BY <1>2 DEF Clearing, Resetting
  <2>2. h # Remove("security") \/ E = {}
    BY <1>1, ClearOrder
  <2> HIDE DEF Goes
  <2> QED
    BY <1>4, <1>5, <1>6, <1>7, <2>1, <2>2 DEF Resetting, Discarding
<1>9. CASE run' = NoRun
  BY <1>2, <1>3, <1>8, <1>9, NoRunIs DEF Attended, Quiet, OnPlan, ClearKinds
<1>10. CASE /\ Tail(run.todo) # <<>> /\ run'.kind = run.kind /\ run'.todo = Tail(run.todo)
  <2>1. OnPlan'
    <3>1. E # {} /\ E = Elements(run'.todo) /\ Plans(run'.kind, run'.todo)
      <4>1. E # {}
        BY <1>2, <1>10
      <4>2. E = Elements(run'.todo)
        BY Zenon, <1>1, <1>10
      <4>3. Plans(run'.kind, run'.todo)
        <5>1. PICK k, t : k = run.kind /\ t = Tail(run.todo)
          OBVIOUS
        <5>2. Plans(run.kind, Tail(run.todo))
          BY <1>1, ClearHead
        <5>3. Plans(k, t)
          BY Zenon, <5>1, <5>2
        <5>4. run'.kind = k /\ run'.todo = t
          BY <1>10, <5>1
        <5> QED
          BY Zenon, <5>3, <5>4
      <4> QED
        BY Zenon, <4>1, <4>2, <4>3
    <3>2. Has("security")'
      BY <1>8, <3>1 DEF Has
    <3>3. run'.kind # "provision" /\ run'.kind # "open"
      BY <1>10 DEF ClearKinds
    <3> QED
      BY <1>8, <3>1, <3>2, <3>3 DEF OnPlan, Left
  <2>2. Attended'
    BY <1>2, <1>3, <1>10 DEF Attended, Quiet
  <2> QED
    BY <1>8, <2>1, <2>2
<1> QED
  BY <1>2, <1>9, <1>10

LEMMA GiveUpKeeps ==
  ASSUME PoolInv, run.kind # "idle", NEW u \in BOOLEAN, GiveUp(u), pool' = pool,
         verified' = verified, late' = late
  PROVE  Layered' /\ Attended' /\ OnPlan'
<1>0. PoolTypes /\ Layered /\ Attended /\ OnPlan /\ pool \in Pool
  BY DEF PoolInv, PoolTypes
<1>1. Layered'
  BY <1>0 DEF Layered, Has, MetadataValid
<1>4. run.kind \notin {"idle", "open"} => Quiet
  BY <1>0 DEF Attended
<1>2. CASE run' = NoRun
  BY <1>0, <1>1, <1>2, <1>4, NoRunIs DEF Attended, Quiet, OnPlan, ClearKinds, Has
<1>3. CASE /\ run.kind = "provision" /\ Has("security")
           /\ run'.kind = "discard" /\ run'.todo = DiscardSteps
  <2>1. /\ Plans("discard", DiscardSteps)
        /\ pool.mounted => Tool("umount") \in Elements(DiscardSteps)
        /\ pool.mapped => Tool("close") \in Elements(DiscardSteps)
    BY <1>0, DiscardPlan
  <2> QED
    BY <1>0, <1>1, <1>3, <1>4, <2>1 DEF Attended, Quiet, OnPlan, ClearKinds, Left, Has
<1> QED
  BY <1>0, <1>2, <1>3, GaveUp

(* A run that waits for a tool has the directory; for mkfs it provisions,   *)
(* and there is no file system yet.                                        *)
LEMMA ToolHead ==
  ASSUME PoolInv, run.kind # "idle", NEW t \in Tools, Head(run.todo) = Tool(t)
  PROVE  Has("security") /\ (t = "mkfs" => Quiet /\ ~pool.fs)
<1>0. PoolTypes /\ Attended /\ OnPlan
  BY DEF PoolInv
<1>1. (\A u : Tool(u).verb = "tool") /\ \A u, v : Tool(u) = Tool(v) => u = v
  BY DEF Tool
<1>2. CASE run.kind = "provision"
  <2>1. PICK n \in 1 .. 16 : n = Progress /\ Head(run.todo) = Creating[n]
    BY <1>0, <1>2, CreatesNext DEF OnPlan
  <2>2. ProvisionedTo(pool, n) /\ Quiet
    BY <1>0, <1>2, <2>1 DEF OnPlan, Attended
  <2>3. n # 1
    <3>1. Make("security").verb # "tool"
      BY DEF Make
    <3> QED
      BY <1>1, <2>1, <3>1, CreatingIs
  <2>4. t = "mkfs" => n <= 12
    <3>1. /\ Tool("mount") # Tool("mkfs") /\ Tool("own") # Tool("mkfs")
          /\ Tool("volumes") # Tool("mkfs") /\ Check # Tool("mkfs")
      BY DEF Tool, Check
    <3>2. n \in 13 .. 16 => Creating[n] # Tool("mkfs")
      BY <3>1, CreatingIs
    <3> QED
      BY <2>1, <3>2
  <2> QED
    BY <2>2, <2>3, <2>4 DEF ProvisionedTo, Has
<1>3. CASE run.kind = "open"
  <2>1. run.todo \in Seq(Opening) /\ run.todo # <<>> /\ Has("security")
    BY <1>0, <1>3 DEF OnPlan, PoolTypes
  <2>2. Tool(t) \in Opening
    BY <2>1, HeadTailProperties
  <2> QED
    BY <2>1, <2>2 DEF Opening, Tool, Ask, Check
<1>4. CASE run.kind \in ClearKinds
  <2>1. Has("security")
    BY <1>0, <1>4 DEF OnPlan
  <2>2. Tool(t) \in Clearing(run.kind)
    BY <1>4, ClearHead
  <2> QED
    BY <2>1, <2>2 DEF Clearing, Resetting, Discarding, Tool, Place, Remove
<1> QED
  BY <1>0, <1>2, <1>3, <1>4 DEF PoolTypes

(* The invariant behind PoolSound.                                         *)
LEMMA PoolStep ==
  ASSUME PoolInv, [StorageNext]_storageVars, ~hasty'
  PROVE  PoolInv'
<1>0. /\ PoolTypes /\ Layered /\ Attended /\ OnPlan /\ PoolTypes' /\ pool \in Pool
      /\ late \in [Tools -> Nat] /\ "mkfs" \in Builders /\ "mkfs" \in Tools
  BY TypesKept DEF PoolInv, PoolTypes, Builders, Tools
<1>1. CASE Provision \/ Open \/ Reset
  BY <1>0, <1>1, BeginKeeps DEF PoolInv
<1>2. CASE StepDone
  <2>1. run.kind \in {"provision", "open"} \cup ClearKinds
    BY <1>0, <1>2, Stepped DEF PoolTypes
  <2> QED
    BY <1>0, <1>2, <2>1, ProvisionKeeps, OpenKeeps, ClearKeeps DEF PoolInv
<1>3. CASE StepFails
  <2>1. /\ run.kind # "idle" /\ GiveUp(FALSE) /\ pool' = pool /\ late' = late
        /\ verified' = verified
    BY <1>3 DEF StepFails
  <2> QED
    BY <1>0, <2>1, GiveUpKeeps DEF PoolInv
<1>4. CASE ToolOutlives \/ Killed
  <2>1. /\ run.kind # "idle" /\ run' = NoRun /\ pool' = pool /\ verified' = verified
        /\ \/ late' = late
           \/ \E t \in Tools :
                /\ Head(run.todo) = Tool(t) /\ late'[t] = late[t] + 1
                /\ \A u \in Tools : u # t => late'[u] = late[u]
    BY <1>0, <1>4, Outlives
  <2>2. Layered'
    BY <1>0, <2>1 DEF Layered, Has, MetadataValid
  <2>3. OnPlan'
    BY <2>1, NoRunIs DEF OnPlan, ClearKinds
  <2>4. CASE late' = late
    BY <1>0, <2>1, <2>2, <2>3, <2>4, NoRunIs DEF PoolInv, Attended, Quiet, Has, OnPlan
  <2>5. ASSUME NEW t \in Tools, Head(run.todo) = Tool(t), late'[t] = late[t] + 1,
               \A u \in Tools : u # t => late'[u] = late[u]
        PROVE  Attended'
    <3>1. Has("security") /\ (t = "mkfs" => Quiet /\ ~pool.fs)
      BY <1>0, <2>1, <2>5, ToolHead
    <3>2. Has("security")' /\ pool'.fs = pool.fs /\ run'.kind = "idle"
      BY <2>1, <3>1, NoRunIs DEF Has
    <3>3. late'["mkfs"] > 0 => late'["mkfs"] = 1 /\ ~pool.fs
      <4>1. CASE t = "mkfs"
        BY <1>0, <2>5, <3>1, <4>1 DEF Quiet
      <4>2. CASE t # "mkfs"
        BY <1>0, <2>5, <4>2 DEF Attended
      <4> QED
        BY <4>1, <4>2
    <3> QED
      BY <3>2, <3>3 DEF Attended
  <2> QED
    BY <1>0, <2>1, <2>2, <2>3, <2>4, <2>5 DEF PoolInv
<1>5. ASSUME NEW t \in Tools, LateToolEnds(t)
      PROVE  PoolInv'
  <2>1. /\ late[t] > 0 /\ late' \in [Tools -> Nat] /\ late'[t] = late[t] - 1
        /\ \A u \in Tools : u # t => late'[u] = late[u]
        /\ pool' \in Pool /\ run' = run /\ verified' = verified
        /\ \/ pool' = pool
           \/ Able(Tool(t)) /\ pool' = Ran(t)
    BY <1>0, <1>5, LateEnds
  <2>2. ~Quiet' => ~Quiet
    <3>1. \A u \in Builders : u \in Tools /\ late[u] \in Nat /\ late'[u] \in Nat
      BY <1>0, <2>1 DEF Builders
    <3>2. \A u \in Builders : late[u] = 0 => late'[u] = 0
      BY <2>1, <3>1
    <3> QED
      BY <3>2 DEF Quiet
  <2>3. t \in Builders => ~Quiet
    BY <2>1 DEF Quiet
  <2>4. CASE pool' = pool
    <3>1. Attended'
      <4>1. late'["mkfs"] > 0 => late["mkfs"] > 0 /\ late'["mkfs"] = late["mkfs"]
        <5>1. t = "mkfs" => late["mkfs"] = 1
          BY <1>0, <2>1 DEF Attended
        <5> QED
          BY <1>0, <2>1, <5>1
      <4> QED
        BY <1>0, <2>1, <2>2, <2>4, <4>1 DEF Attended, Has
    <3>2. OnPlan' /\ Layered'
      BY <1>0, <2>1, <2>4 DEF OnPlan, Layered, Has, MetadataValid, Left, Creates, Progress
    <3> QED
      BY <1>0, <3>1, <3>2 DEF PoolInv
  <2>5. CASE Able(Tool(t)) /\ pool' = Ran(t)
    <3>1. /\ pool'.files = IF t = "install" THEN pool.files \cup {"mount"} ELSE pool.files
          /\ pool'.luks <=> pool.luks \/ t = "format"
          /\ pool'.fs <=> pool.fs \/ t = "mkfs"
          /\ pool'.volumes <=> (pool.volumes \/ t = "volumes") /\ t # "mkfs"
          /\ pool'.mapped <=> (pool.mapped \/ t = "open") /\ t # "close"
          /\ pool'.mounted <=> (pool.mounted \/ t = "mount") /\ t # "umount"
      BY <1>0, <2>1, <2>5, RanIs
    <3>2. /\ t = "install" => Has("security")
          /\ t = "format" => Has("image")
          /\ t = "open" => pool.luks
          /\ t = "mkfs" => pool.mapped /\ ~verified
          /\ t = "mount" => pool.mapped /\ pool.fs /\ Has("mount")
          /\ t = "close" => ~pool.mounted
      <4>1. t = "mkfs" => ~verified
        BY <1>0, <2>1 DEF Attended, Layered
      <4> QED
        BY <1>0, <2>5, <4>1, AbleIs
    <3>3. Layered'
      BY <1>0, <2>1, <3>1, <3>2 DEF Layered, Has, MetadataValid
    <3>4. Attended'
      <4>1. late'["mkfs"] > 0 => t # "mkfs" /\ late["mkfs"] > 0 /\ late'["mkfs"] = late["mkfs"]
        <5>1. t = "mkfs" => late["mkfs"] = 1
          BY <1>0, <2>1 DEF Attended
        <5> QED
          BY <1>0, <2>1, <5>1
      <4>2. Has("security") => Has("security")'
        BY <3>1 DEF Has
      <4>3. late'["mkfs"] > 0 => late'["mkfs"] = 1 /\ ~pool'.fs
        BY <1>0, <3>1, <4>1 DEF Attended
      <4>4. /\ ~Quiet' => run'.kind \in {"idle", "open"} /\ Has("security")'
            /\ run'.kind \in {"provision", "discard", "reset"} => ~verified'
        BY <1>0, <2>1, <2>2, <4>2 DEF Attended
      <4> QED
        BY <4>3, <4>4 DEF Attended
    <3>5. OnPlan'
      <4>1. CASE t \in Builders
        <5>1. run.kind \in {"idle", "open"} /\ Has("security")
          BY <1>0, <2>3, <4>1 DEF Attended
        <5>2. Has("security")'
          BY <3>1, <5>1 DEF Has
        <5> QED
          BY <1>0, <2>1, <5>1, <5>2 DEF OnPlan, ClearKinds
      <4>2. CASE t \in {"umount", "close"}
        <5>1. /\ pool'.files = pool.files
              /\ pool'.luks <=> pool.luks
              /\ pool'.fs <=> pool.fs
              /\ pool'.mapped => pool.mapped
              /\ pool'.mounted => pool.mounted /\ (pool.mapped => pool'.mapped)
          BY <3>1, <3>2, <4>2
        <5>2. ASSUME NEW n, ProvisionedTo(pool, n)
              PROVE  ProvisionedTo(pool', n)
          BY <5>1, <5>2 DEF ProvisionedTo
        <5>3. Creates => Creates' /\ Progress' = Progress
          BY <2>1 DEF Creates, Progress
        <5>4. run.kind = "provision" => ProvisionedTo(pool', Progress)
          BY <1>0, <5>2 DEF OnPlan
        <5>5. run.kind = "provision" => Creates' /\ ProvisionedTo(pool', Progress')
          BY <1>0, <5>3, <5>4 DEF OnPlan
        <5>6. Has("security") => Has("security")'
          BY <5>1 DEF Has
        <5>7. \A x : Left(x) => Left(x)'
          BY <2>1 DEF Left
        <5>8. run'.kind \in ClearKinds =>
                /\ Has("security")'
                /\ Plans(run'.kind, run'.todo)
                /\ pool'.mounted => Left(Tool("umount"))'
                /\ pool'.mapped => Left(Tool("close"))'
          BY <1>0, <2>1, <5>1, <5>6, <5>7 DEF OnPlan
        <5> QED
          BY <1>0, <2>1, <5>5, <5>6, <5>8 DEF OnPlan
      <4> QED
        BY <4>1, <4>2 DEF Builders
    <3> QED
      BY <1>0, <3>3, <3>4, <3>5 DEF PoolInv
  <2> QED
    BY <2>1, <2>4, <2>5
<1>6. CASE Reboot
  <2>1. /\ pool'.files = pool.files /\ pool'.luks = pool.luks /\ pool'.fs = pool.fs
        /\ pool'.volumes = pool.volumes /\ ~pool'.mapped /\ ~pool'.mounted
        /\ run' = NoRun /\ late' = NoTool /\ verified' = verified
    BY <1>0, <1>6, Reboots
  <2>2. Layered'
    BY <1>0, <2>1 DEF Layered, Has, MetadataValid
  <2>3. Quiet' /\ late'["mkfs"] = 0
    BY <1>0, <2>1 DEF Quiet, NoTool, Builders
  <2> QED
    BY <1>0, <2>1, <2>2, <2>3, NoRunIs DEF PoolInv, Attended, OnPlan, ClearKinds
<1>7. CASE UNCHANGED storageVars
  BY <1>0, <1>7 DEF storageVars, PoolInv, Layered, Attended, Quiet, OnPlan, Has, MetadataValid,
     Left, Creates, Progress
<1> QED
  BY <1>1, <1>2, <1>3, <1>4, <1>5, <1>6, <1>7 DEF StorageNext, PoolRefused

LEMMA PoolInvariant == StorageSpec => []PoolAlways
<1>1. StorageInit => PoolAlways
  BY InitIsLayered DEF PoolAlways, PoolInv
<1>2. PoolAlways /\ [StorageNext]_storageVars => PoolAlways'
  BY TypesKept, PoolStep DEF PoolAlways
<1> QED
  BY <1>1, <1>2, PTL DEF StorageSpec

(* With any faults: whatever a start, its compensation or a tool behind     *)
(* them or behind later runs leaves, each layer of the pool has what it    *)
(* rests on, and a pool a start returned as verified stays whole until it  *)
(* is reset; unless a reset was begun beside a tool that builds, which     *)
(* require_settled keeps only the process it outlived from (PoolInv).      *)
THEOREM EachLayerRests ==
  StorageSpec => []PoolSound
<1>1. PoolAlways => PoolSound
  BY DEF PoolAlways, PoolInv, Layered, PoolSound
<1> QED
  BY <1>1, PoolInvariant, PTL

-----------------------------------------------------------------------------

(* ResetAdmitted.  The two layouts with a security directory that a reset   *)
(* admits, and the steps of ResetInv.                                      *)
Whole == Complete /\ (pool.mounted => pool.mapped)

Part ==
  /\ ~Has("marker_torn") /\ ~(Has("marker") /\ Has("marker_tmp"))
  /\ \/ ~Has("image") /\ ~Has("mount") /\ ~Has("uuid")
     \/ (Has("marker") \/ Has("marker_tmp")) /\ Has("image") /\ ~Has("uuid")
  /\ IF Has("marker") \/ Has("marker_tmp")
     THEN ~pool.mapped /\ ~pool.mounted
     ELSE pool.files = {"security"}

LEMMA AdmitsIs ==
  /\ ResetAdmits <=> ~Has("security") \/ Whole \/ Part
  /\ ResetAdmits' <=> ~Has("security")' \/ Whole' \/ Part'
<1>1. ResetAdmits <=> ~Has("security") \/ Whole \/ Part
  BY DEF ResetAdmits, Whole, Part, Complete, Layout, MarkerValid, MetadataValid, Has
<1>2. ResetAdmits' <=> ~Has("security")' \/ Whole' \/ Part'
  BY DEF ResetAdmits, Whole, Part, Complete, Layout, MarkerValid, MetadataValid, Has
<1> QED
  BY <1>1, <1>2

(* A provision is cut where what it made is admitted, but for a torn       *)
(* record.                                                                 *)
LEMMA ProvisionedAdmits ==
  ASSUME pool \in Pool, NEW n \in 1 .. 17, ProvisionedTo(pool, n), n # 3
  PROVE  /\ ResetAdmits
         /\ n > 10 => Complete
         /\ n \in {6, 8} => {"marker", "image"} \subseteq pool.files /\ ~Has("uuid")
<1>1. /\ n > 10 => Complete /\ (pool.mounted => pool.mapped)
      /\ n \in {6, 8} => {"marker", "image"} \subseteq pool.files /\ ~Has("uuid")
  BY DEF ProvisionedTo, Complete, Has
<1>2. n = 2 => pool.files = {"security"}
  BY DEF ProvisionedTo, Pool, Entries
<1>3. CASE n = 1
  BY <1>3, AdmitsIs DEF ProvisionedTo, Has
<1>4. CASE n = 2
  BY <1>2, <1>4, AdmitsIs DEF Part, Has
<1>5. CASE n \in 4 .. 5
  <2>1. Part
    BY <1>5 DEF ProvisionedTo, Part, Has
  <2> QED
    BY <1>1, <1>5, <2>1, AdmitsIs
<1>6. CASE n \in 6 .. 10
  <2>1. Part
    BY <1>6 DEF ProvisionedTo, Part, Has
  <2> QED
    BY <1>1, <1>6, <2>1, AdmitsIs
<1>7. CASE n > 10
  BY <1>1, <1>7, AdmitsIs DEF Whole
<1> QED
  BY <1>3, <1>4, <1>5, <1>6, <1>7

LEMMA AbleElse ==
  Able(Fill("marker_tmp")) /\ Able(Place("marker")) /\ Able(Place("uuid"))
  BY DEF Able, Fill, Place, Tool, Remove, Check

LEMMA BeginAdmits ==
  ASSUME ResetInv, Provision \/ Open \/ Reset
  PROVE  Cleared' /\ Resettable'
<1>0. /\ PoolTypes /\ pool \in Pool /\ run.kind = "idle" /\ ResetAdmits
      /\ pool' = pool
  BY BeginsAs DEF ResetInv, PoolInv, PoolTypes, Resettable
<1>1. CASE Provision /\ run'.kind = "provision"
  BY <1>0, <1>1 DEF Cleared, Resettable, ClearKinds
<1>2. CASE Open /\ run'.kind = "open"
  <2>1. Has("security") /\ MetadataValid
    BY <1>2 DEF Open
  <2>2. Complete
    BY <1>0, <2>1, AdmitsIs DEF Whole, Part, Complete, MetadataValid, Has
  <2>3. Complete'
    BY <1>0, <2>2 DEF Complete, Has
  <2> QED
    BY <1>0, <1>2, <2>3 DEF Cleared, Resettable, ClearKinds
<1>3. CASE Reset /\ run'.kind = "reset" /\ run'.todo = ResetSteps
  <2>1. Has("security")
    BY <1>3 DEF Reset
  <2>2. ~Has("marker_torn")
    BY <1>0, <2>1, AdmitsIs DEF Whole, Part, Complete
  <2>3. \A e \in pool.files \ {"marker_torn", "marker_tmp"} : Remove(e) \in Elements(ResetSteps)
    <3>1. pool.files \subseteq Entries
      BY <1>0 DEF Pool
    <3> QED
      BY <1>0, <3>1, ResetPlan DEF Entries, Has
  <2>4. /\ Has("marker_tmp") <=> Place("marker") \in Elements(ResetSteps)
        /\ Has("marker_tmp") => Remove("marker") \in Elements(ResetSteps)
    BY <1>0, ResetPlan DEF Place, Tool, Remove
  <2>5. ResetAdmits'
    BY <1>0, AdmitsIs DEF Whole, Part, Complete, Has
  <2> QED
    BY <1>0, <1>3, <2>2, <2>3, <2>4, <2>5 DEF Cleared, Resettable, Has, Left, ClearKinds
<1> QED
  BY <1>0, <1>1, <1>2, <1>3, BeginsAs

LEMMA ProvisionAdmits ==
  ASSUME ResetInv, StepDone, run.kind = "provision"
  PROVE  Cleared' /\ Resettable'
<1>0. /\ PoolTypes /\ pool \in Pool /\ Creates /\ ProvisionedTo(pool, Progress)
  BY DEF ResetInv, PoolInv, PoolTypes, OnPlan
<1>1. CASE Tail(run.todo) = <<>> /\ run' = NoRun
  <2>1. Progress = 16 /\ Head(run.todo) = Creating[16]
    BY <1>0, <1>1, CreatesNext
  <2>2. pool' = pool
    BY <1>0, <2>1, Stepped, CreatingIs, DoneIs
  <2>3. ProvisionedTo(pool', 16)
    BY <1>0, <2>1, <2>2
  <2>4. ResetAdmits'
    BY <2>3, AdmitsIs DEF ProvisionedTo, Whole, Complete, Has
  <2> QED
    BY <1>1, <2>2, <2>4, NoRunIs DEF Cleared, Resettable, ClearKinds
<1>2. CASE run'.kind = run.kind
  BY <1>0, <1>2, Stepped DEF Cleared, Resettable, ClearKinds
<1> QED
  BY <1>0, <1>1, <1>2, Stepped

LEMMA OpenAdmits ==
  ASSUME ResetInv, StepDone, run.kind = "open", Layered'
  PROVE  Cleared' /\ Resettable' /\ Complete /\ Complete'
<1>0. /\ PoolTypes /\ run.todo \in Seq(Opening) /\ run.todo # <<>>
      /\ pool \in Pool /\ Complete
  BY DEF ResetInv, Resettable, PoolInv, PoolTypes, OnPlan, Attended
<1>1. PICK h : h = Head(run.todo)
  OBVIOUS
<1>2. h \in Opening
  BY <1>0, <1>1, HeadTailProperties
<1>3. pool' = Done(h)
  BY <1>0, <1>1, Stepped
<1>4. ASSUME h = Ask \/ h = Check
      PROVE  Complete'
  BY <1>0, <1>3, <1>4, DoneIs DEF Complete, Has
<1>5. ASSUME NEW t \in {"open", "mount", "own", "volumes"}, h = Tool(t)
      PROVE  Complete'
  <2>1. pool' = Ran(t) /\ t \in Tools
    BY <1>0, <1>3, <1>5, DoneIs DEF Tools
  <2>2. /\ pool'.files = pool.files
        /\ pool'.luks <=> pool.luks
    BY <1>0, <2>1, RanIs
  <2> QED
    BY <1>0, <2>2 DEF Complete, Has
<1>6. Complete'
  BY <1>2, <1>4, <1>5 DEF Opening
<1>7. ResetAdmits'
  BY <1>6, AdmitsIs DEF Whole, Layered
<1>8. run'.kind \in {"idle", "open"}
  BY <1>0, Stepped, NoRunIs
<1> QED
  BY <1>0, <1>3, <1>6, <1>7, <1>8 DEF Cleared, Resettable, ClearKinds

(* What a discard leaves is still to be removed, and once it is at the     *)
(* removals nothing is open.                                               *)
LEMMA DiscardAdmits ==
  ASSUME ResetInv, StepDone, run.kind = "discard"
  PROVE  Cleared' /\ Resettable'
<1>0. PoolInv /\ run.kind \in ClearKinds
  BY DEF ResetInv, ClearKinds
<1>1. PICK h, E : h = Head(run.todo) /\ E = Elements(Tail(run.todo))
  OBVIOUS
<1>2. /\ h \in Discarding /\ Left(h) /\ \A x : x \in E <=> Left(x) /\ x # h
      /\ Tail(run.todo) = <<>> <=> E = {}
      /\ pool' = Done(h)
      /\ \/ Tail(run.todo) = <<>> /\ run' = NoRun
         \/ run'.kind = "discard" /\ run'.todo = Tail(run.todo)
  BY <1>0, <1>1, ClearsNext, ClearHead DEF Clearing
<1>3. /\ pool \in Pool
      /\ \A e \in pool.files : Left(Remove(e))
      /\ ~Has("marker_torn") /\ ~Has("marker_tmp")
      /\ Left(Tool("umount")) \/ Left(Tool("close")) => Complete
  BY DEF ResetInv, PoolInv, PoolTypes, Attended, Cleared, ClearKinds, Has
<1> DEFINE Goes == /\ \A e \in pool'.files : e \in pool.files /\ Remove(e) \in E
                   /\ Tool("umount") \in E \/ Tool("close") \in E => Complete'
<1>4. ASSUME NEW t \in {"umount", "close"}, h = Tool(t)
      PROVE  Goes
  <2>1. pool' = Ran(t) /\ t \in Tools /\ \A e : Remove(e) # h
    BY <1>2, <1>3, <1>4, DoneIs DEF Tools, Tool, Remove
  <2>2. /\ pool'.files = pool.files
        /\ pool'.luks <=> pool.luks
    BY <1>3, <2>1, RanIs
  <2>3. Complete'
    BY <1>2, <1>3, <1>4, <2>2 DEF Complete, Has
  <2> QED
    BY <1>2, <1>3, <2>1, <2>2, <2>3
<1>5. ASSUME NEW e, h = Remove(e)
      PROVE  Goes
  <2>1. Tool("umount") \notin E /\ Tool("close") \notin E
    BY <1>0, <1>1, <1>5, ClearOrder
  <2>2. pool' = Without(e)
    BY <1>2, <1>3, <1>5, DoneIs
  <2>3. pool'.files = pool.files \ {e}
    BY <1>3, <2>2, WithoutIs
  <2>4. \A f : Remove(f) = Remove(e) => f = e
    BY DEF Remove
  <2> QED
    BY <1>2, <1>3, <1>5, <2>1, <2>3, <2>4
<1>6. Goes
  <2> HIDE DEF Goes
  <2> QED
    BY <1>2, <1>4, <1>5 DEF Discarding
<1>7. CASE Tail(run.todo) = <<>> /\ run' = NoRun
  <2>1. ~Has("security")'
    BY <1>2, <1>6, <1>7 DEF Has
  <2> QED
    BY <1>2, <1>3, <1>7, <2>1, NoRunIs, AdmitsIs DEF Cleared, Resettable, ClearKinds
<1>8. CASE run'.kind = "discard" /\ run'.todo = Tail(run.todo)
  <2>1. E = Elements(run'.todo)
    BY Zenon, <1>1, <1>8
  <2> QED
    BY <1>2, <1>3, <1>6, <1>8, <2>1 DEF Cleared, Resettable, ClearKinds, Left, Has
<1> QED
  BY <1>2, <1>7, <1>8
(* What a reset leaves is admitted by another one after each of its steps. *)
LEMMA ResetAdmitsStill ==
  ASSUME ResetInv, StepDone, run.kind = "reset", Layered'
  PROVE  Cleared' /\ Resettable'
<1>0. PoolInv /\ run.kind \in ClearKinds
  BY DEF ResetInv, ClearKinds
<1>1. PICK h, E : h = Head(run.todo) /\ E = Elements(Tail(run.todo))
  OBVIOUS
<1>2. /\ h \in Resetting /\ Left(h) /\ \A x : x \in E <=> Left(x) /\ x # h
      /\ Tail(run.todo) = <<>> <=> E = {}
      /\ pool' = Done(h) /\ Able(h)
      /\ \/ Tail(run.todo) = <<>> /\ run' = NoRun
         \/ run'.kind = "reset" /\ run'.todo = Tail(run.todo)
  BY <1>0, <1>1, ClearsNext, ClearHead DEF Clearing, Resetting
<1>3. /\ pool \in Pool
      /\ \A e \in pool.files \ {"marker_torn", "marker_tmp"} : Left(Remove(e))
      /\ ~Has("marker_torn") /\ Has("security")
      /\ Has("marker_tmp") <=> Left(Place("marker"))
      /\ Has("marker_tmp") => Left(Remove("marker"))
      /\ pool.mounted => Left(Tool("umount"))
      /\ pool.mapped => Left(Tool("close"))
  BY DEF ResetInv, PoolInv, PoolTypes, Attended, OnPlan, Cleared, ClearKinds
<1>4. Whole \/ Part
  BY <1>3, AdmitsIs DEF ResetInv, Resettable
<1> DEFINE Goes == /\ \A e \in pool'.files \ {"marker_tmp"} : Remove(e) \in E
                   /\ "marker_torn" \notin pool'.files
                   /\ "marker_tmp" \in pool'.files <=> Place("marker") \in E
                   /\ "marker_tmp" \in pool'.files => Remove("marker") \in E
                   /\ ~Has("security")' \/ Whole' \/ Part'
<1>5. ASSUME h = Place("marker")
      PROVE  Goes
  <2>1. Refiled(pool', (pool.files \ {"marker_tmp"}) \cup {"marker"})
    BY <1>2, <1>3, <1>5, DoneIs
  <2>2. \A e : Remove(e) # h
    BY <1>5 DEF Place, Remove
  <2>3. Has("marker_tmp") /\ ~Has("marker") /\ Part
    BY <1>2, <1>3, <1>4, <1>5 DEF Whole, Complete, Part
  <2>4. Part'
    BY <2>1, <2>3 DEF Refiled, Part, Has
  <2>5. \A e \in pool'.files \ {"marker_tmp"} : Remove(e) \in E
    BY <1>2, <1>3, <2>1, <2>2, <2>3 DEF Refiled, Has
  <2> QED
    BY <1>2, <1>3, <1>5, <2>1, <2>4, <2>5 DEF Refiled, Has
<1>6. ASSUME NEW t \in {"umount", "close"}, h = Tool(t)
      PROVE  Goes
  <2>1. pool' = Ran(t) /\ t \in Tools /\ h # Place("marker") /\ \A e : Remove(e) # h
    BY <1>2, <1>3, <1>6, DoneIs DEF Tools, Tool, Place, Remove
  <2>2. /\ pool'.files = pool.files
        /\ pool'.luks <=> pool.luks
        /\ pool'.mapped => pool.mapped
        /\ pool'.mounted => pool.mounted
    BY <1>3, <2>1, RanIs
  <2>3. Whole' \/ Part'
    BY <1>4, <2>2 DEF Whole, Complete, Part, Has, Layered
  <2> QED
    BY <1>2, <1>3, <2>1, <2>2, <2>3 DEF Has
<1>7. ASSUME NEW e, h = Remove(e)
      PROVE  Goes
  <2>1. /\ e \in {"uuid", "uuid_tmp", "image", "marker", "mount", "security"}
        /\ h # Tool("umount") /\ h # Tool("close") /\ h # Place("marker")
    BY <1>2, <1>7 DEF Resetting, Discarding, Remove, Tool, Place
  <2>2. /\ Tool("umount") \notin E /\ Tool("close") \notin E /\ Place("marker") \notin E
    BY <1>0, <1>1, <1>7, ClearOrder
  <2>3. ~pool.mounted /\ ~pool.mapped /\ ~Has("marker_tmp")
    BY <1>2, <1>3, <2>1, <2>2
  <2>4. \A f : f # e => Remove(f) # h
    BY <1>7 DEF Remove
  <2>5. \A f \in pool.files \ {"marker_torn", "marker_tmp", e} : Remove(f) \in E
    BY <1>2, <1>3, <2>4
  <2>6. pool' = Without(e)
    BY <1>2, <1>3, <1>7, DoneIs
  <2>7. /\ pool'.files = pool.files \ {e} /\ ~pool'.mounted /\ ~pool'.mapped
    BY <1>3, <2>3, <2>6, WithoutIs
  <2>8. /\ e \in {"uuid_tmp", "image", "marker", "mount"} => ~Has("uuid")
        /\ e \in {"image", "marker", "mount"} => ~Has("uuid_tmp")
        /\ e \in {"image", "marker"} => ~Has("mount")
        /\ e = "marker" => ~Has("image")
        /\ e = "security" => E = {}
    <3>1. /\ h = Remove("uuid_tmp") => Remove("uuid") \notin E
          /\ h = Remove("image") => Remove("uuid") \notin E /\ Remove("uuid_tmp") \notin E
          /\ h = Remove("image") => Remove("mount") \notin E
          /\ h = Remove("mount") => Remove("uuid") \notin E /\ Remove("uuid_tmp") \notin E
          /\ h = Remove("marker") => /\ Remove("uuid") \notin E /\ Remove("uuid_tmp") \notin E
                                     /\ Remove("image") \notin E
          /\ h = Remove("marker") => Remove("mount") \notin E
          /\ h = Remove("security") => E = {}
      BY <1>0, <1>1, ClearOrder
    <3> QED
      BY <1>7, <2>5, <3>1 DEF Has
  <2>9. CASE e = "uuid"
    <3>1. Whole => Part'
      BY <2>3, <2>7, <2>9 DEF Whole, Complete, Part, Has
    <3>2. Part => Part'
      BY <2>3, <2>7, <2>9 DEF Part, Has
    <3>3. Part'
      BY <1>4, <3>1, <3>2
    <3> QED
      BY <1>3, <2>2, <2>3, <2>5, <2>7, <3>3 DEF Has
  <2>10. CASE e \in {"uuid_tmp", "mount"}
    <3>1. Part
      BY <1>4, <2>8, <2>10 DEF Whole, Complete, Has
    <3>2. Part'
      BY <2>3, <2>7, <2>10, <3>1 DEF Part, Has
    <3> QED
      BY <1>3, <2>2, <2>3, <2>5, <2>7, <3>2 DEF Has
  <2>11. CASE e = "image"
    <3>1. Part
      BY <1>4, <2>8, <2>11 DEF Whole, Complete, Has
    <3>2. Part'
      BY <2>3, <2>7, <2>8, <2>11, <3>1 DEF Part, Has
    <3> QED
      BY <1>3, <2>2, <2>3, <2>5, <2>7, <3>2 DEF Has
  <2>12. CASE e = "marker"
    <3>1. pool.files \subseteq {"security", "marker"}
      BY <1>3, <2>3, <2>8, <2>12 DEF Pool, Entries, Has
    <3>2. pool'.files = {"security"}
      BY <1>3, <2>7, <2>12, <3>1 DEF Has
    <3>3. Part'
      BY <2>7, <3>2 DEF Part, Has
    <3> QED
      BY <1>3, <2>2, <2>3, <2>5, <2>7, <3>3 DEF Has
  <2>13. CASE e = "security"
    <3>1. pool'.files = {}
      BY <1>3, <2>3, <2>5, <2>7, <2>8, <2>13 DEF Has
    <3> QED
      BY <2>2, <3>1 DEF Has
  <2> QED
    BY <2>1, <2>9, <2>10, <2>11, <2>12, <2>13
<1>8. Goes
  <2> HIDE DEF Goes
  <2> QED
    BY <1>2, <1>5, <1>6, <1>7 DEF Resetting, Discarding
<1>9. ResetAdmits'
  BY <1>8, AdmitsIs
<1>10. CASE run' = NoRun
  BY <1>2, <1>3, <1>9, <1>10, NoRunIs DEF Cleared, Resettable, ClearKinds
<1>11. CASE run'.kind = "reset" /\ run'.todo = Tail(run.todo)
  <2>1. E = Elements(run'.todo)
    BY Zenon, <1>1, <1>11
  <2> QED
    BY <1>2, <1>3, <1>8, <1>9, <1>11, <2>1 DEF Cleared, Resettable, ClearKinds, Left, Has
<1> QED
  BY <1>2, <1>10, <1>11
(* A failed call: what a provision leaves is discarded whole, and nothing  *)
(* fails in between that would keep the directory.                         *)
LEMMA FailAdmits ==
  ASSUME ResetInv, StepFails, Wedges = {}
  PROVE  Cleared' /\ Resettable'
<1>0. /\ PoolInv /\ PoolTypes /\ Layered /\ pool \in Pool /\ run.kind # "idle"
      /\ GiveUp(FALSE) /\ pool' = pool
      /\ run.kind \in {"provision", "open", "discard", "reset"}
  BY DEF ResetInv, PoolInv, PoolTypes, Attended, StepFails, ClearKinds
<1>1. PICK h : h = Head(run.todo)
  OBVIOUS
<1>2. ~Able(h) \/ ~Wedging(h)
  BY <1>1 DEF StepFails
<1>3. ASSUME ResetAdmits, run' = NoRun
      PROVE  Cleared' /\ Resettable'
  <2>1. ResetAdmits'
    BY <1>0, <1>3, AdmitsIs DEF Whole, Part, Complete, Has
  <2> QED
    BY <1>0, <1>3, <2>1, NoRunIs DEF Cleared, Resettable, ClearKinds
<1>4. run.kind # "provision" => run' = NoRun
  BY <1>0, GaveUp
<1>5. Complete => ResetAdmits
  BY <1>0, AdmitsIs DEF Whole, Layered
<1>6. CASE run.kind = "provision"
  <2>1. /\ Progress \in 1 .. 16 /\ h = Creating[Progress] /\ ProvisionedTo(pool, Progress)
    BY <1>0, <1>1, <1>6, CreatesNext DEF PoolInv, OnPlan
  <2>2. PICK n \in 1 .. 16 : n = Progress
    BY <2>1
  <2>3. n # 3 /\ n # 4 /\ n # 10
    <3>1. ASSUME n = 3 \/ n = 4 \/ n = 10
          PROVE  FALSE
      <4>1. h = Fill("marker_tmp") \/ h = Place("marker") \/ h = Place("uuid")
        BY <2>1, <2>2, <3>1, CreatingIs
      <4>2. Able(h)
        BY <4>1, AbleElse
      <4>3. Wedging(h)
        BY <1>6, <4>1 DEF Wedging, Fill, Place
      <4> QED
        BY <1>2, <4>2, <4>3
    <3> QED
      BY <3>1
  <2>4. ProvisionedTo(pool, n) /\ n \in 1 .. 17
    BY <2>1, <2>2
  <2>5. CASE run' = NoRun
    BY <1>0, <1>3, <2>3, <2>4, <2>5, ProvisionedAdmits
  <2>6. CASE run'.kind = "discard" /\ run'.todo = DiscardSteps
    <3>1. /\ ~Has("marker_torn") /\ ~Has("marker_tmp") /\ ~Has("uuid_tmp")
          /\ pool.mapped \/ pool.mounted => n > 10
      BY <2>3, <2>4 DEF ProvisionedTo, Has
    <3>2. \A e \in pool.files : Remove(e) \in Elements(DiscardSteps)
      <4>1. pool.files \subseteq {"security", "marker", "image", "uuid", "mount"}
        BY <1>0, <3>1 DEF Pool, Entries, Has
      <4> QED
        BY <1>0, <4>1, DiscardPlan DEF Has
    <3>3. \/ Tool("umount") \in Elements(DiscardSteps)
          \/ Tool("close") \in Elements(DiscardSteps)
          => Complete
      <4>1. /\ Tool("umount") \in Elements(DiscardSteps) => pool.mounted
            /\ Tool("close") \in Elements(DiscardSteps) => pool.mapped
        BY <1>0, DiscardPlan DEF Tool, Remove
      <4> QED
        BY <1>0, <2>3, <2>4, <3>1, <4>1, ProvisionedAdmits
    <3>4. Complete => Complete'
      BY <1>0 DEF Complete, Has
    <3> QED
      BY <1>0, <2>6, <3>1, <3>2, <3>3, <3>4 DEF Cleared, Resettable, ClearKinds, Left, Has
  <2> QED
    BY <1>0, <2>5, <2>6, GaveUp
<1>7. CASE run.kind \in {"open", "reset"}
  BY <1>3, <1>4, <1>5, <1>7 DEF ResetInv, Resettable
<1>8. CASE run.kind = "discard"
  <2>0. run.kind \in ClearKinds
    BY <1>8 DEF ClearKinds
  <2>1. /\ h \in Discarding /\ Left(h)
        /\ Left(Tool("umount")) \/ Left(Tool("close")) => Complete
        /\ Has("security") /\ ~Has("marker_torn") /\ ~Has("marker_tmp")
        /\ \A e \in pool.files : Left(Remove(e))
    BY <1>0, <1>1, <1>8, <2>0, ClearHead DEF Clearing, ResetInv, PoolInv, OnPlan, Cleared, Has
  <2>2. CASE h \in {Tool("umount"), Tool("close")}
    BY <1>3, <1>4, <1>5, <1>8, <2>1, <2>2
  <2>3. ASSUME NEW e, h = Remove(e)
        PROVE  FALSE
    <3>1. PICK E : E = Elements(Tail(run.todo))
      OBVIOUS
    <3>2. \A x : x \in E <=> Left(x) /\ x # h
      BY <1>0, <1>1, <2>0, <3>1, ClearHead
    <3>3. ~Able(h)
      BY <1>2, <1>8, <2>3 DEF Wedging, Remove
    <3>4. h = Remove("mount") \/ h = Remove("security")
      BY <2>1, <2>3, <3>3, AbleIs DEF Discarding, Remove, Tool
    <3>5. h # Remove("mount")
      <4>1. Tool("umount") \notin E /\ h # Tool("umount")
        BY <1>0, <1>1, <2>0, <2>3, <3>1, ClearOrder DEF Remove, Tool
      <4>2. pool.mounted => Left(Tool("umount"))
        BY <1>0, <2>0 DEF PoolInv, OnPlan
      <4>3. ~pool.mounted
        BY <3>2, <4>1, <4>2
      <4> QED
        BY <3>3, <4>3, AbleIs
    <3>6. h # Remove("security")
      <4> SUFFICES ASSUME h = Remove("security")
                   PROVE  FALSE
        OBVIOUS
      <4>1. E = {}
        BY <1>0, <1>1, <2>0, <3>1, ClearOrder
      <4>2. \A f : Remove(f) = Remove("security") => f = "security"
        BY DEF Remove
      <4>3. \A f \in pool.files : f = "security"
        BY <2>1, <3>2, <4>1, <4>2
      <4>4. pool.files = {"security"}
        BY <2>1, <4>3 DEF Has
      <4> QED
        BY <3>3, <4>4, AbleIs
    <3> QED
      BY <3>4, <3>5, <3>6
  <2> QED
    BY <2>1, <2>2, <2>3 DEF Discarding
<1> QED
  BY <1>0, <1>6, <1>7, <1>8

(* A run cut short: where it is, and what the tool it waited for may still *)
(* come to do.                                                             *)
LEMMA CutAdmits ==
  ASSUME ResetInv, Wedges = {}, run.kind # "idle", NEW h, h = Head(run.todo), ~Tearing(h)
  PROVE  /\ ResetAdmits
         /\ \A t \in {"install", "format"} :
              h = Tool(t) => {"marker", "image"} \subseteq pool.files /\ ~Has("uuid")
         /\ \A t \in {"open", "mkfs", "mount", "own", "volumes"} : h = Tool(t) => Complete
<1>0. /\ PoolInv /\ PoolTypes /\ Layered /\ pool \in Pool
      /\ run.kind \in {"provision", "open", "discard", "reset"}
  BY DEF ResetInv, PoolInv, PoolTypes, ClearKinds
<1>1. Complete => ResetAdmits
  BY <1>0, AdmitsIs DEF Whole, Layered
<1>2. CASE run.kind = "provision"
  <2>1. /\ Progress \in 1 .. 16 /\ h = Creating[Progress] /\ ProvisionedTo(pool, Progress)
    BY <1>0, <1>2, CreatesNext DEF PoolInv, OnPlan
  <2>2. PICK n \in 1 .. 16 : n = Progress
    BY <2>1
  <2>3. n # 3
    <3>1. n = 3 => h = Fill("marker_tmp")
      BY <2>1, <2>2, CreatingIs
    <3>2. Tearing(Fill("marker_tmp"))
      BY DEF Tearing, Fill
    <3> QED
      BY <3>1, <3>2
  <2>4. n \in 1 .. 17 /\ ProvisionedTo(pool, n)
    BY <2>1, <2>2
  <2>5. /\ h = Tool("install") => n = 6
        /\ h = Tool("format") => n = 8
        /\ \A t \in {"open", "mkfs", "mount", "own", "volumes"} : h = Tool(t) => n > 10
    <3>1. h = Creating[n]
      BY <2>1, <2>2
    <3>2. CASE n \in 1 .. 10
      <4>1. n = 6 => h = Tool("install")
        BY <3>1, CreatingIs
      <4>2. n = 8 => h = Tool("format")
        BY <3>1, CreatingIs
      <4>3. n # 6 /\ n # 8 =>
              \/ h \in {Make("security"), Make("marker_torn"), Make("image"), Make("uuid_tmp")}
              \/ h \in {Fill("marker_tmp"), Place("marker"), Place("uuid"), Ask}
        BY <3>1, <3>2, CreatingIs
      <4>4. n # 6 /\ n # 8 => h.verb # "tool"
        <5>1. /\ \A e : /\ Make(e).verb # "tool" /\ Fill(e).verb # "tool"
                        /\ Place(e).verb # "tool"
              /\ Ask.verb # "tool"
          BY DEF Make, Fill, Place, Ask
        <5> QED
          BY <4>3, <5>1
      <4>5. \A t : Tool(t).verb = "tool" /\ Tool(t).of = t
        BY DEF Tool
      <4>6. CASE n = 6
        BY <4>1, <4>5, <4>6
      <4>7. CASE n = 8
        BY <4>2, <4>5, <4>7
      <4>8. CASE n # 6 /\ n # 8
        BY <4>4, <4>5, <4>8
      <4> QED
        BY <4>6, <4>7, <4>8
    <3>3. CASE n \in 11 .. 16
      <4>1. h \in {Tool("open"), Tool("mkfs"), Tool("mount"), Tool("own"), Tool("volumes"), Check}
        BY <3>1, <3>3, CreatingIs
      <4>2. h # Tool("install") /\ h # Tool("format")
        <5>1. (\A t : Tool(t).of = t) /\ Check.of = ""
          BY DEF Tool, Check
        <5> QED
          BY <4>1, <5>1
      <4> QED
        BY <3>3, <4>2
    <3> QED
      BY <3>2, <3>3
  <2> QED
    BY <1>0, <2>3, <2>4, <2>5, ProvisionedAdmits
<1>3. CASE run.kind = "open"
  <2>1. Complete /\ h \in Opening
    BY <1>0, <1>3, HeadTailProperties DEF ResetInv, Resettable, PoolInv, PoolTypes, OnPlan
  <2>2. h # Tool("install") /\ h # Tool("format")
    <3>1. (\A t : Tool(t).of = t) /\ Ask.of = "" /\ Check.of = ""
      BY DEF Tool, Ask, Check
    <3> QED
      BY <2>1, <3>1 DEF Opening
  <2> QED
    BY <1>1, <2>1, <2>2
<1>4. CASE run.kind \in ClearKinds
  <2>1. h \in Resetting /\ Left(h) /\ h \in Clearing(run.kind)
    BY <1>0, <1>4, ClearHead DEF Clearing, Resetting
  <2>2. \A t \in {"install", "format", "open", "mkfs", "mount", "own", "volumes"} : h # Tool(t)
    BY <2>1 DEF Resetting, Discarding, Tool, Remove, Place
  <2>3. ResetAdmits
    <3>1. CASE run.kind = "reset"
      BY <3>1 DEF ResetInv, Resettable
    <3>2. CASE run.kind = "discard"
      <4>1. \A e : h # Remove(e)
        BY <3>2 DEF Tearing, Remove
      <4>2. h \in {Tool("umount"), Tool("close")}
        BY <2>1, <3>2, <4>1 DEF Clearing, Discarding
      <4>3. Complete
        BY <2>1, <3>2, <4>2 DEF ResetInv, Cleared
      <4> QED
        BY <1>1, <4>3
    <3> QED
      BY <1>4, <3>1, <3>2 DEF ClearKinds
  <2> QED
    BY <2>2, <2>3
<1> QED
  BY <1>0, <1>2, <1>3, <1>4 DEF ClearKinds

(* A tool that ends after its run: it had been started on a pool its       *)
(* effect still leaves for a reset.                                        *)
LEMMA LateAdmits ==
  ASSUME ResetInv, NEW t \in Tools, LateToolEnds(t), Layered'
  PROVE  Cleared' /\ Resettable' /\ Supplied'
<1>0. /\ PoolTypes /\ Layered /\ Attended /\ Supplied /\ Cleared /\ Resettable
      /\ pool \in Pool /\ late \in [Tools -> Nat] /\ late' \in [Tools -> Nat]
      /\ late[t] > 0 /\ run' = run
      /\ late'[t] = late[t] - 1 /\ \A u \in Tools : u # t => late'[u] = late[u]
      /\ pool' = pool \/ pool' = Ran(t)
  BY LateEnds DEF ResetInv, PoolInv, PoolTypes
<1>1. \A u \in Tools : late'[u] > 0 => late[u] > 0
  <2> SUFFICES ASSUME NEW u \in Tools, late'[u] > 0
               PROVE  late[u] > 0
    OBVIOUS
  <2> QED
    BY <1>0
<1>2. \A x : Left(x) <=> Left(x)'
  BY <1>0 DEF Left
<1>3. ASSUME pool'.files = pool.files, Complete => Complete', ResetAdmits => ResetAdmits'
      PROVE  Cleared' /\ Resettable' /\ Supplied'
  <2>1. Supplied'
    BY <1>0, <1>1, <1>3 DEF Supplied, Has, Tools
  <2>2. Cleared'
    BY <1>0, <1>2, <1>3 DEF Cleared, Has
  <2> QED
    BY <1>0, <1>3, <2>1, <2>2 DEF Resettable
<1>4. CASE pool' = pool
  <2>1. (Complete => Complete') /\ (ResetAdmits => ResetAdmits')
    BY <1>4, AdmitsIs DEF Whole, Part, Complete, Has
  <2> QED
    BY <1>3, <1>4, <2>1
<1>5. CASE pool' = Ran(t)
  <2>1. /\ pool'.files = IF t = "install" THEN pool.files \cup {"mount"} ELSE pool.files
        /\ pool'.luks <=> pool.luks \/ t = "format"
        /\ pool'.mapped <=> (pool.mapped \/ t = "open") /\ t # "close"
        /\ pool'.mounted <=> (pool.mounted \/ t = "mount") /\ t # "umount"
    BY <1>0, <1>5, RanIs
  <2>2. Complete' => ResetAdmits'
    BY AdmitsIs DEF Whole, Layered
  <2>3. t \in Builders => run.kind \in {"idle", "open"}
    BY <1>0 DEF Attended, Quiet
  <2>4. CASE t \in {"install", "format"}
    <3>1. {"marker", "image"} \subseteq pool.files /\ ~Has("uuid")
      BY <1>0, <2>4 DEF Supplied
    <3>2. Has("security") /\ ~Whole /\ ~Complete
      BY <1>0, <3>1 DEF Layered, Whole, Complete, Has
    <3>3. run.kind = "idle"
      BY <1>0, <2>3, <2>4, <3>2 DEF Resettable, Builders
    <3>4. Part
      BY <1>0, <3>2, <3>3, AdmitsIs DEF Resettable
    <3>5. Part'
      BY <2>1, <2>4, <3>1, <3>4 DEF Part, Has
    <3>6. {"marker", "image"} \subseteq pool'.files /\ ~Has("uuid")'
      BY <2>1, <3>1 DEF Has
    <3>7. Supplied'
      BY <1>0, <1>1, <3>2, <3>6 DEF Supplied, Tools
    <3>8. ResetAdmits' /\ run'.kind = "idle"
      BY <1>0, <3>3, <3>5, AdmitsIs
    <3> QED
      BY <3>7, <3>8 DEF Cleared, Resettable, ClearKinds
  <2>5. CASE t \in {"open", "mkfs", "mount", "own", "volumes"}
    <3>1. Complete
      BY <1>0, <2>5 DEF Supplied
    <3>2. Complete'
      BY <2>1, <2>5, <3>1 DEF Complete, Has
    <3> QED
      BY <1>3, <2>1, <2>2, <2>5, <3>2
  <2>6. CASE t \in {"umount", "close"}
    <3>1. /\ pool'.files = pool.files
          /\ pool'.luks <=> pool.luks
          /\ pool'.mapped => pool.mapped
          /\ pool'.mounted => pool.mounted
      BY <2>1, <2>6
    <3>2. /\ ~Has("security") => ~Has("security")'
          /\ Complete => Complete'
          /\ Part => Part'
      BY <3>1 DEF Complete, Part, Has
    <3>3. ResetAdmits => ResetAdmits'
      BY <2>2, <3>2, AdmitsIs DEF Whole
    <3> QED
      BY <1>3, <3>1, <3>2, <3>3
  <2> QED
    BY <2>4, <2>5, <2>6 DEF Tools
<1> QED
  BY <1>0, <1>4, <1>5

(* The invariant behind ResetAdmitted.                                     *)
LEMMA ResetKept ==
  ASSUME Wedges = {}, ResetInv, [StorageNext]_storageVars, ~hasty'
  PROVE  ResetInv'
<1>0. /\ PoolInv /\ PoolInv' /\ Layered' /\ PoolTypes /\ Cleared /\ Resettable
      /\ Supplied /\ Attended /\ late \in [Tools -> Nat]
  BY PoolStep DEF ResetInv, PoolInv, PoolTypes
<1> SUFFICES Cleared' /\ Resettable' /\ Supplied'
  BY <1>0 DEF ResetInv
<1>8. ASSUME late' = late, Quiet \/ pool' = pool \/ (Complete /\ Complete')
      PROVE  Supplied'
  <2>1. CASE Quiet
    BY <1>8, <2>1 DEF Supplied, Quiet, Builders, Tools
  <2>2. CASE pool' = pool
    BY <1>0, <1>8, <2>2 DEF Supplied, Complete, Has
  <2>3. CASE Complete /\ Complete'
    BY <1>0, <1>8, <2>3 DEF Supplied, Complete, Has
  <2> QED
    BY <1>8, <2>1, <2>2, <2>3
<1>1. CASE Provision \/ Open \/ Reset
  <2>1. pool' = pool /\ late' = late
    BY <1>0, <1>1, BeginsAs
  <2> QED
    BY <1>1, <1>8, <2>1, BeginAdmits
<1>2. CASE StepDone
  <2>1. run.kind \in {"provision", "open", "discard", "reset"} /\ late' = late
    BY <1>0, <1>2, Stepped DEF PoolTypes, ClearKinds
  <2>2. run.kind # "open" => Quiet
    BY <1>0, <2>1 DEF Attended
  <2> QED
    BY <1>0, <1>2, <1>8, <2>1, <2>2, ProvisionAdmits, OpenAdmits, DiscardAdmits,
       ResetAdmitsStill
<1>3. CASE StepFails
  <2>1. pool' = pool /\ late' = late
    BY <1>3 DEF StepFails
  <2> QED
    BY <1>3, <1>8, <2>1, FailAdmits
<1>4. CASE ToolOutlives \/ Killed
  <2>1. PICK h : h = Head(run.todo)
    OBVIOUS
  <2>2. /\ run.kind # "idle" /\ run' = NoRun /\ pool' = pool
        /\ \/ late' = late
           \/ \E t \in Tools : /\ h = Tool(t) /\ late'[t] = late[t] + 1
                              /\ \A u \in Tools : u # t => late'[u] = late[u]
    BY <1>0, <1>4, <2>1, Outlives
  <2>3. ~Tearing(h)
    BY <1>4, <2>1 DEF ToolOutlives, Killed, Tearing
  <2>4. /\ ResetAdmits
        /\ \A t \in {"install", "format"} :
             h = Tool(t) => {"marker", "image"} \subseteq pool.files /\ ~Has("uuid")
        /\ \A t \in {"open", "mkfs", "mount", "own", "volumes"} : h = Tool(t) => Complete
    BY <2>1, <2>2, <2>3, CutAdmits
  <2>5. /\ ResetAdmits'
        /\ Complete <=> Complete'
        /\ pool'.files = pool.files
    BY <2>2, <2>4, AdmitsIs DEF Whole, Part, Complete, Has
  <2>6. Supplied'
    <3>1. \A u \in Tools : late'[u] > 0 => late[u] > 0 \/ h = Tool(u)
      BY <2>2
    <3> QED
      BY <1>0, <2>4, <2>5, <3>1 DEF Supplied, Has, Tools
  <2> QED
    BY <2>2, <2>5, <2>6, NoRunIs DEF Cleared, Resettable, ClearKinds
<1>5. ASSUME NEW t \in Tools, LateToolEnds(t)
      PROVE  Cleared' /\ Resettable' /\ Supplied'
  BY <1>0, <1>5, LateAdmits
<1>6. CASE Reboot
  <2>1. /\ pool'.files = pool.files /\ pool'.luks = pool.luks
        /\ ~pool'.mapped /\ ~pool'.mounted
        /\ run' = NoRun /\ late' = NoTool
    BY <1>0, <1>6, Reboots
  <2>2. ResetAdmits
    <3>1. CASE run.kind = "idle"
      BY <1>0, <3>1 DEF Resettable
    <3>2. CASE run.kind # "idle"
      BY <1>6, <3>2, CutAdmits DEF Reboot
    <3> QED
      BY <3>1, <3>2
  <2>3. ResetAdmits'
    BY <2>1, <2>2, AdmitsIs DEF Whole, Part, Complete, Has
  <2>4. Supplied'
    BY <2>1 DEF Supplied, NoTool, Tools
  <2> QED
    BY <2>1, <2>3, <2>4, NoRunIs DEF Cleared, Resettable, ClearKinds
<1>7. CASE UNCHANGED storageVars
  <2>1. pool' = pool /\ run' = run /\ late' = late
    BY <1>7 DEF storageVars
  <2>2. ResetAdmits <=> ResetAdmits'
    BY <2>1, AdmitsIs DEF Whole, Part, Complete, Has
  <2> QED
    BY <1>0, <1>8, <2>1, <2>2 DEF Cleared, Resettable, Complete, Left, Has
<1> QED
  BY <1>1, <1>2, <1>3, <1>4, <1>5, <1>6, <1>7 DEF StorageNext, PoolRefused

(* Unless a record's write fails or is cut, or a discard is cut short, for  *)
(* which the code has no answer (Wedges): whatever a start, its             *)
(* compensation, a reset or the tools that outlive them leave, the reset    *)
(* the user is told to run is not refused, until one is begun beside a tool *)
(* that builds.  Held by what is left to remove and the order it is removed *)
(* in, and by what a tool that goes on finds (ResetInv).                   *)
THEOREM ResetIsAdmitted ==
  ASSUME Wedges = {}
  PROVE  StorageSpec => []ResetAdmitted
<1>1. StorageInit => ResetAlways
  <2> SUFFICES ASSUME StorageInit
               PROVE  PoolTypes /\ Cleared /\ Resettable /\ Supplied
    BY InitIsLayered DEF ResetInv, ResetAlways
  <2>1. pool.files = {} /\ run = NoRun /\ late = NoTool
    BY DEF StorageInit, NoPool
  <2> QED
    BY <2>1, NoRunIs, AdmitsIs, InitIsLayered
       DEF Cleared, Resettable, Supplied, ClearKinds, NoTool, Tools, Has, PoolInv
<1>2. ResetAlways /\ [StorageNext]_storageVars => ResetAlways'
  BY TypesKept, ResetKept DEF ResetAlways
<1>3. ResetAlways => ResetAdmitted
  BY DEF ResetAlways, ResetInv, Resettable, ResetAdmitted
<1> QED
  BY <1>1, <1>2, <1>3, PTL DEF StorageSpec
================================================================================
