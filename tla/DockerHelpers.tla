----------------------------- MODULE DockerHelpers -----------------------------
(***************************************************************************)
(* The one-shot helper containers of a Space: those that write a release    *)
(* status, or a reset capability, into a volume of Admin's, and the one of  *)
(* a fixed name that empties Team's volumes.  The CLI holds only a Docker   *)
(* client; stopping it never stops its container, which may still write     *)
(* later.  A helper is therefore swept, or removed by its name and proved   *)
(* gone, before what it would write may change hands.                       *)
(***************************************************************************)
EXTENDS FiniteSets, Naturals

CONSTANTS
  MaxHelpers,    \* bound: helpers started
  HelperFaults,  \* bound: Docker calls that fail and processes killed
  FailedLooks    \* bound: failed inspections of the fixed name

ASSUME HelperAssumption ==
  MaxHelpers \in Nat \ {0} /\ HelperFaults \in Nat /\ FailedLooks \in Nat

VARIABLES
  helper,  \* the writing helpers, in the order they were started
  volume,  \* the last document written, by its helper; 0 for none
  cli,     \* the CLI's projection at work
  wipe,    \* clear_volumes, and the container of its name
  spent    \* the faults so far

helperVars == <<helper, volume, cli, wipe, spent>>

Helpers == 1 .. MaxHelpers

(* input: what the CLI put into the client's standard input; wrote: the     *)
(* container did its work and has not been reaped by its client.            *)
Helper == [ box : {"none", "waiting", "fed", "wrote", "ended"},
            client : {"none", "running", "ok", "failed", "stopped", "stuck"},
            input : {"open", "document", "closed"},
            answer : {"none", "projected", "refused", "unused", "unreaped"} ]

NoHelper == [ box |-> "none", client |-> "none", input |-> "open",
              answer |-> "none" ]

Cli == [ pc : { "idle", "list", "sweep", "prove", "start", "pending", "wait",
                "remove", "gone" },
         at : 0 .. MaxHelpers, left : SUBSET Helpers,
         cause : {"", "refused", "unused", "unreaped"} ]

AtRest(n) == [pc |-> "idle", at |-> n, left |-> {}, cause |-> ""]

(* box: whose container has the fixed name; busy: it deletes.               *)
Wipe == [ pc : {"idle", "inspect", "clear", "run", "wait", "remove", "gone"},
          box : {"none", "ours", "foreign"}, busy : BOOLEAN,
          answer : {"none", "cleared", "refused", "remains"} ]

HelperInit ==
  /\ helper = [n \in Helpers |-> NoHelper]
  /\ volume = 0
  /\ cli = AtRest(0)
  /\ wipe \in { [pc |-> "idle", box |-> b, busy |-> FALSE, answer |-> "none"] :
                b \in {"none", "foreign"} }
  /\ spent = [faults |-> 0, looks |-> 0]

-----------------------------------------------------------------------------
(* Helpers. *)

Alive(n) == helper[n].box \in {"waiting", "fed", "wrote"}

Living == {n \in Helpers : Alive(n)}

Continue(pc) == cli' = [cli EXCEPT !.pc = pc]

Fault == /\ spent.faults < HelperFaults
         /\ spent' = [spent EXCEPT !.faults = @ + 1]

Reply(n, what) ==
  /\ helper' = [helper EXCEPT ![n].answer = what]
  /\ cli' = AtRest(n)

(* docker rm --force: some of the containers go; all of them, unless it     *)
(* failed.                                                                  *)
RemovedOf(set) ==
  [n \in Helpers |-> IF n \in set /\ Alive(n)
                     THEN [helper[n] EXCEPT !.box = "ended"] ELSE helper[n]]

-----------------------------------------------------------------------------
(* begin_release_status, reset_capability_helper: sweep, prove, start.  Runs *)
(* hold the lock of the Space: one works at a time.                         *)

BeginHelper ==
  /\ cli.pc = "idle" /\ cli.at < MaxHelpers /\ wipe.pc = "idle"
  /\ cli' = [AtRest(cli.at) EXCEPT !.pc = "list"]
  /\ UNCHANGED <<helper, volume, wipe, spent>>

ListHelpers ==
  /\ cli.pc = "list"
  /\ cli' = [cli EXCEPT !.pc = IF Living = {} THEN "start" ELSE "sweep",
                        !.left = Living]
  /\ UNCHANGED <<helper, volume, wipe, spent>>

(* Mutant: a removal is not proved. *)
RemovalUnproved ==
  /\ cli.pc = "prove"
  /\ Continue("start")
  /\ UNCHANGED <<helper, volume, wipe, spent>>

(* Mutant: the client that was stopped is taken for its container. *)
StoppedIsGone ==
  /\ cli.pc = "wait" /\ helper[cli.at].client = "running"
  /\ helper' = [helper EXCEPT ![cli.at].client = "stopped",
                              ![cli.at].answer = cli.cause]
  /\ cli' = AtRest(cli.at)
  /\ UNCHANGED <<volume, wipe, spent>>

SweepHelpers ==
  /\ cli.pc = "sweep"
  /\ \/ helper' = RemovedOf(cli.left) /\ UNCHANGED spent
     \/ Fault /\ UNCHANGED helper
  /\ cli' = [cli EXCEPT !.pc = "prove", !.left = {}]
  /\ UNCHANGED <<volume, wipe>>

ProveSwept ==
  /\ cli.pc = "prove"
  /\ Continue(IF Living = {} THEN "start" ELSE "idle")
  /\ UNCHANGED <<helper, volume, wipe, spent>>

LookFails ==
  /\ cli.pc \in {"list", "prove"}
  /\ Fault
  /\ Continue("idle")
  /\ UNCHANGED <<helper, volume, wipe>>

StartHelper ==
  /\ cli.pc = "start"
  /\ cli' = [cli EXCEPT !.pc = "pending", !.at = @ + 1]
  /\ helper' = [helper EXCEPT ![cli.at + 1].client = "running"]
  /\ UNCHANGED <<volume, wipe, spent>>

(* commit sends the document; abandon, or a failed send, closes the input   *)
(* without one.  Either way the CLI then waits until the deadline.          *)
Send(what) ==
  /\ cli.pc = "pending"
  /\ helper' = [helper EXCEPT ![cli.at].input =
                 IF @ = "open" THEN what ELSE @]
  /\ cli' = [cli EXCEPT !.pc = "wait",
              !.cause = IF what = "document" THEN "refused" ELSE "unused"]
  /\ UNCHANGED <<volume, wipe, spent>>

(* The client ended by itself.  One that was to write and failed does not   *)
(* prove that its container ended.                                          *)
Reaped ==
  /\ cli.pc = "wait"
  /\ LET n == cli.at IN
       CASE helper[n].client = "ok" /\ cli.cause = "refused" ->
              Reply(n, "projected")
         [] helper[n].client \in {"ok", "failed"} /\ cli.cause = "unused" ->
              Reply(n, "unused")
         [] helper[n].client = "failed" /\ cli.cause = "refused" ->
              Continue("remove") /\ UNCHANGED helper
         [] OTHER -> FALSE
  /\ UNCHANGED <<volume, wipe, spent>>

(* capture::wait and stop: past the deadline the client is terminated, then *)
(* killed; one that is not reaped either way may remain.  An abandoned one  *)
(* that remains is reported without a removal.                              *)
PastDeadline ==
  /\ cli.pc = "wait"
  /\ LET n == cli.at IN
       /\ helper[n].client = "running"
       /\ \/ /\ helper' = [helper EXCEPT ![n].client = "stopped"]
             /\ Continue("remove")
          \/ /\ cli.cause = "refused"
             /\ helper' = [helper EXCEPT ![n].client = "stuck"]
             /\ cli' = [cli EXCEPT !.pc = "remove", !.cause = "unreaped"]
          \/ /\ cli.cause = "unused"
             /\ helper' = [helper EXCEPT ![n].client = "stuck",
                                         ![n].answer = "unreaped"]
             /\ cli' = AtRest(n)
  /\ UNCHANGED <<volume, wipe, spent>>

(* remove_helper: by its exact name, then proved absent. *)
RemoveHelper ==
  /\ cli.pc = "remove"
  /\ \/ helper' = RemovedOf({cli.at}) /\ UNCHANGED spent
     \/ Fault /\ UNCHANGED helper
  /\ Continue("gone")
  /\ UNCHANGED <<volume, wipe>>

ProveGone ==
  /\ cli.pc = "gone"
  /\ \/ Reply(cli.at, IF Alive(cli.at) THEN "unreaped" ELSE cli.cause)
        /\ UNCHANGED spent
     \/ Fault /\ Reply(cli.at, "unreaped")
  /\ UNCHANGED <<volume, wipe>>

(* A killed run takes its client with it: the terminal's interrupt, and the *)
(* scheduled unit's control group, reach both.                              *)
CliKilled ==
  /\ cli.pc # "idle"
  /\ Fault
  /\ helper' = [n \in Helpers |->
                 IF n = cli.at /\ helper[n].client = "running"
                 THEN [helper[n] EXCEPT !.client = "stopped"] ELSE helper[n]]
  /\ cli' = AtRest(cli.at)
  /\ UNCHANGED <<volume, wipe>>

-----------------------------------------------------------------------------
(* Docker and the helper's own program. *)

CreateBox(n) ==
  /\ helper[n].client = "running" /\ helper[n].box = "none"
  /\ helper' = [helper EXCEPT ![n].box = "waiting"]
  /\ UNCHANGED <<volume, cli, wipe, spent>>

(* An empty input is refused before any file is opened. *)
FeedBox(n) ==
  /\ helper[n].box = "waiting"
  /\ \/ /\ helper[n].client = "running" /\ helper[n].input = "document"
        /\ helper' = [helper EXCEPT ![n].box = "fed"]
     \/ /\ helper[n].client # "running" \/ helper[n].input = "closed"
        /\ helper' = [helper EXCEPT ![n].box = "ended", ![n].client =
                       IF @ = "running" THEN "failed" ELSE @]
  /\ UNCHANGED <<volume, cli, wipe, spent>>

WriteDocument(n) ==
  /\ helper[n].box = "fed"
  /\ helper' = [helper EXCEPT ![n].box = "wrote"]
  /\ volume' = n
  /\ UNCHANGED <<cli, wipe, spent>>

BoxExits(n) ==
  /\ helper[n].box \in {"fed", "wrote"}
  /\ helper' = [helper EXCEPT ![n].box = "ended", ![n].client =
                 IF @ # "running" THEN @
                 ELSE IF helper[n].box = "wrote" THEN "ok" ELSE "failed"]
  /\ UNCHANGED <<volume, cli, wipe, spent>>

(* The daemon, or the connection to it, fails the client alone. *)
ClientFails(n) ==
  /\ helper[n].client = "running"
  /\ Fault
  /\ helper' = [helper EXCEPT ![n].client = "failed"]
  /\ UNCHANGED <<volume, cli, wipe>>

-----------------------------------------------------------------------------
(* clear_volumes. *)

WipeTo(pc) == wipe' = [wipe EXCEPT !.pc = pc]

WipeReply(what) == wipe' = [wipe EXCEPT !.pc = "idle", !.answer = what]

ClearVolumes ==
  /\ wipe.pc = "idle" /\ cli.pc = "idle"
  /\ wipe' = [wipe EXCEPT !.pc = "inspect", !.answer = "none"]
  /\ UNCHANGED <<helper, volume, cli, spent>>

(* Whoever else has the name keeps it; an inspection that fails is taken    *)
(* for a name that is free.                                                 *)
InspectName ==
  /\ wipe.pc = "inspect"
  /\ \/ /\ CASE wipe.box = "none"    -> WipeTo("run")
             [] wipe.box = "ours"    -> WipeTo("clear")
             [] wipe.box = "foreign" -> WipeReply("refused")
        /\ UNCHANGED spent
     \/ /\ spent.looks < FailedLooks
        /\ spent' = [spent EXCEPT !.looks = @ + 1]
        /\ WipeTo("run")
  /\ UNCHANGED <<helper, volume, cli>>

(* A leftover that is not proved removed may still delete: nothing starts.  *)
ClearLeftover ==
  /\ wipe.pc = "clear"
  /\ \/ /\ wipe' = [wipe EXCEPT !.pc = "run", !.box = "none", !.busy = FALSE]
        /\ UNCHANGED spent
     \/ Fault /\ WipeReply("remains")
  /\ UNCHANGED <<helper, volume, cli>>

(* docker run refuses a name that is taken. *)
RunWipe ==
  /\ wipe.pc = "run"
  /\ IF wipe.box = "none"
     THEN wipe' = [wipe EXCEPT !.pc = "wait", !.box = "ours", !.busy = TRUE]
     ELSE WipeTo("remove")
  /\ UNCHANGED <<helper, volume, cli, spent>>

WipeDone ==
  /\ wipe.box = "ours" /\ wipe.busy
  /\ wipe' = [wipe EXCEPT !.box = "none", !.busy = FALSE,
                          !.pc = IF @ = "wait" THEN "idle" ELSE @,
                          !.answer = IF wipe.pc = "wait" THEN "cleared" ELSE @]
  /\ UNCHANGED <<helper, volume, cli, spent>>

(* The client failed or passed its deadline; its container goes on. *)
WipeClientEnds ==
  /\ wipe.pc = "wait"
  /\ WipeTo("remove")
  /\ UNCHANGED <<helper, volume, cli, spent>>

(* rm --force takes whatever has the name. *)
RemoveWipe ==
  /\ wipe.pc = "remove"
  /\ \/ /\ wipe' = [wipe EXCEPT !.pc = "gone", !.box = "none", !.busy = FALSE]
        /\ UNCHANGED spent
     \/ Fault /\ WipeTo("gone")
  /\ UNCHANGED <<helper, volume, cli>>

ProveWiped ==
  /\ wipe.pc = "gone"
  /\ \/ /\ WipeReply(IF wipe.box = "none" THEN "refused" ELSE "remains")
        /\ UNCHANGED spent
     \/ Fault /\ WipeReply("remains")
  /\ UNCHANGED <<helper, volume, cli>>

WipeKilled ==
  /\ wipe.pc # "idle"
  /\ Fault
  /\ WipeReply("none")
  /\ UNCHANGED <<helper, volume, cli>>

CliStep == \/ ListHelpers \/ SweepHelpers \/ ProveSwept \/ StartHelper
           \/ Send("document") \/ Send("closed")
           \/ Reaped \/ PastDeadline \/ RemoveHelper \/ ProveGone

HelperNext ==
  \/ BeginHelper \/ CliStep \/ LookFails \/ CliKilled
  \/ \E n \in Helpers : \/ CreateBox(n) \/ FeedBox(n) \/ WriteDocument(n)
                        \/ BoxExits(n) \/ ClientFails(n)
  \/ ClearVolumes \/ InspectName \/ ClearLeftover \/ RunWipe
  \/ WipeDone \/ WipeClientEnds \/ RemoveWipe \/ ProveWiped \/ WipeKilled

-----------------------------------------------------------------------------
(* Properties. *)

(* The type invariant: helpers, projection and deletion are what helper.rs  *)
(* and docker.rs tell apart.                                                *)
HelperTypeOK ==
  /\ helper \in [Helpers -> Helper]
  /\ volume \in 0 .. MaxHelpers
  /\ cli \in Cli
  /\ wipe \in Wipe

(* Admin never sees an older document replace a newer one: whatever an      *)
(* earlier projection left behind, killed or given up, it no longer writes  *)
(* once a later helper was started (sweep_helpers, remove_helper).  And what *)
(* the CLI answered stands: a projected document was written; one not       *)
(* projected, or a helper not used, writes nothing any more, and a deletion *)
(* that is over deletes nothing any more.  Only an answer that says the     *)
(* helper may remain leaves one at work (ProjectionFailure, clear_volumes). *)
AnswersAreFinal ==
  /\ [][volume' >= volume]_helperVars
  /\ [][\A n \in Helpers :
          helper[n].answer \in {"projected", "refused", "unused"}
          /\ volume # n => volume' # n]_helperVars
  /\ [](\A n \in Helpers : helper[n].answer = "projected" => volume >= n)
  /\ [](wipe.answer \in {"cleared", "refused"} => ~wipe.busy)

(* A container of the deletion's name that is not this CLI's own is kept,    *)
(* and refuses the deletion (the comment at docker.rs:214).                 *)
OccupantKept == [][wipe.box = "foreign" => wipe'.box = "foreign"]_helperVars
================================================================================
