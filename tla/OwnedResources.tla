--------------------------- MODULE OwnedResources ---------------------------
(***************************************************************************)
(* What of a Docker engine belongs to the Space (src/space/resources.rs),  *)
(* and the three commands that act on all of it: stop, the recreation of    *)
(* the runtime state, and hard reset (src/space/lifecycle.rs, reset.rs).    *)
(*                                                                         *)
(* An inventory is several Docker calls that run at once, while Team, until *)
(* it is stopped, creates and removes Assistants and their network.        *)
(***************************************************************************)
EXTENDS Naturals, FiniteSets

CONSTANTS Assistants   \* the Assistants Team may be asked to run

VARIABLES
  docker,   \* what exists, what runs, and the Space the environment file names
  owner     \* the command that acts on the owned resources

resourceVars == <<docker, owner>>

Members == {"team", "admin", "proxy"}

(* A container of another project under a reserved name, an unknown one in *)
(* this project, an Assistant of another Space.                            *)
Strays     == {"squatter", "stranger", "visitor"}
Containers == Members \cup Assistants \cup Strays
Networks   == {"control", "teamnet"}
Objects    == Containers \cup Networks \cup {"data"}
OfThisSpace      == Objects \ Strays

(* What each call of an inspection selects.  A proxy is a member of the    *)
(* project and a managed container.                                        *)
Selected ==
  [ reserved          |-> {"squatter"},
    controller        |-> {"team"},
    projectContainers |-> Members \cup {"stranger"},
    projectVolumes    |-> {"data"},
    projectNetworks   |-> {"control"},
    localContainers   |-> {"proxy", "visitor"} \cup Assistants,
    localNetworks     |-> {"teamnet"} ]

Observations == DOMAIN Selected
Local == Selected.localContainers \cup Selected.localNetworks

(* The Space a managed object is labelled with.                            *)
SpaceOf(o) == IF o = "visitor" THEN "other" ELSE "this"

Spaces == {"none", "this", "other"}
Kinds  == {"stop", "recreate", "hardReset"}
NoInventory == [space_id |-> "none", of |-> {}]

ResourceTypeOK ==
  /\ docker.present \subseteq Objects
  /\ docker.running \subseteq docker.present \cap Containers
  /\ docker.env \in Spaces
  /\ DOMAIN owner.seen \subseteq Observations
  /\ \A l \in DOMAIN owner.seen : owner.seen[l] \subseteq Selected[l]
  /\ \A i \in {owner.inventory, owner.stopped} :
       i.space_id \in Spaces /\ i.of \subseteq Objects
  /\ owner.todo \subseteq owner.stopped.of
  /\ owner.kind \in Kinds \cup {"none"} /\ owner.round \in 0 .. 3
  /\ owner.end \in {"none", "done", "failed"}
  /\ owner.pc \in {"idle", "inspect", "ask", "stopTeam", "stopRest",
                   "snapshot", "clear", "remove"}

NoOwner ==
  [ kind |-> "none", pc |-> "idle", round |-> 0, seen |-> <<>>,
    inventory |-> NoInventory, stopped |-> NoInventory,
    todo |-> {}, end |-> "none" ]

(* A Space that runs, whole or left by a removal that failed half way, and *)
(* whatever else the engine holds.                                         *)
ResourceInit ==
  /\ \E strays \in {{}} \cup {{o} : o \in Strays}, env \in Spaces,
        gone \in SUBSET {"admin", "proxy"} :
       /\ "squatter" \in strays => "admin" \in gone
       /\ docker = [ present |-> (Members \ gone) \cup {"control", "data"} \cup strays,
                     running |-> (Members \ gone) \cup strays, env |-> env ]
  /\ owner = NoOwner

----------------------------------------------------------------------------
(* Team, and the next start of the Space.                                  *)

TeamRuns == "team" \in docker.running

TeamConnects ==
  /\ TeamRuns
  /\ docker' = [docker EXCEPT !.present = @ \cup {"teamnet"}]

TeamStarts(a) ==
  /\ TeamRuns /\ "teamnet" \in docker.present
  /\ docker' = [docker EXCEPT !.present = @ \cup {a}, !.running = @ \cup {a}]

TeamRemoves(a) ==
  /\ TeamRuns
  /\ docker' = [docker EXCEPT !.present = @ \ {a}, !.running = @ \ {a}]

StartSpace ==
  /\ owner.pc = "idle" /\ "team" \in docker.present /\ ~TeamRuns
  /\ docker' = [docker EXCEPT !.running = @ \cup (Members \cap docker.present)]
  /\ owner' = NoOwner

----------------------------------------------------------------------------
(* Inventory::inspect.                                                     *)

OwnerTo(c) == owner' = c /\ UNCHANGED docker

OwnerEnds(how) == [NoOwner EXCEPT !.kind = owner.kind, !.end = how]

Inspecting(c) == [c EXCEPT !.pc = "inspect", !.round = @ + 1, !.seen = <<>>]

BeginOwned(kind) ==
  /\ owner.pc = "idle"
  /\ OwnerTo(Inspecting([NoOwner EXCEPT !.kind = kind]))

Answered(l) == Selected[l] \cap docker.present

(* The calls run at once: each answers for a moment of its own.  Only what *)
(* Team makes changes meanwhile, so the other calls answer together.  A    *)
(* look at a fixed name that fails is taken for a free name.               *)
Observed(ls, failing) ==
  /\ owner.pc = "inspect" /\ ls \cap DOMAIN owner.seen = {}
  /\ OwnerTo([owner EXCEPT !.seen =
       [l \in DOMAIN owner.seen \cup ls |->
          IF l \in DOMAIN owner.seen THEN owner.seen[l]
          ELSE IF l \in failing THEN {} ELSE Answered(l)]])

Observe(l) == l \in {"localContainers", "localNetworks"} /\ Observed({l}, {})

ObserveFixed ==
  \E failing \in SUBSET {"reserved", "controller"} :
    Observed(Observations \ {"localContainers", "localNetworks"}, failing)

ListedObjects == UNION {owner.seen[l] : l \in Observations}

SpaceId ==
  IF docker.env # "none" THEN docker.env
  ELSE IF owner.seen.controller # {} THEN "this" ELSE "none"

(* Every listed object answers its inspection, and is this Space's.        *)
Admitted ==
  /\ owner.seen.reserved = {}
  /\ docker.env # "none" /\ owner.seen.controller # {} => docker.env = "this"
  /\ ListedObjects \subseteq docker.present
  /\ "stranger" \notin ListedObjects
  /\ SpaceId = "none" => ListedObjects \cap Local = {}
  /\ \A o \in ListedObjects \cap Local : SpaceOf(o) = SpaceId

(* The engine may change between the question and the removal, so that the *)
(* scope is compared again.                                                *)
SameSpace(inv)    == inv.space_id = owner.inventory.space_id
same_targets(inv) == inv = owner.inventory

(* What follows the inventory of each round.                               *)
AfterInventory(inv) ==
  LET first  == [owner EXCEPT !.inventory = inv, !.stopped = inv, !.seen = <<>>]
      second == [owner EXCEPT !.stopped = inv, !.seen = <<>>]
  IN CASE owner.round = 1 ->
            [first EXCEPT !.pc = IF owner.kind = "hardReset" THEN "ask" ELSE "stopTeam"]
       [] owner.round > 1 /\ owner.kind = "stop" -> [second EXCEPT !.pc = "snapshot"]
       [] owner.round > 1 /\ owner.kind = "recreate" ->
            [second EXCEPT !.pc = IF owner.round = 2 THEN "stopTeam" ELSE "snapshot"]
       [] owner.round = 2 /\ owner.kind = "hardReset" ->
            IF same_targets(inv)
              THEN [second EXCEPT !.pc = "remove", !.todo = inv.of]
              ELSE OwnerEnds("failed")
       [] OTHER -> OwnerEnds(IF inv.of = {} THEN "done" ELSE "failed")

Judge ==
  /\ owner.pc = "inspect" /\ DOMAIN owner.seen = Observations
  /\ OwnerTo(IF Admitted THEN AfterInventory([space_id |-> SpaceId, of |-> ListedObjects])
                         ELSE OwnerEnds("failed"))

----------------------------------------------------------------------------
(* stop_owned_containers: Team first, so that it creates nothing more, and *)
(* then the rest at once.                                                  *)

OwnedIds == owner.stopped.of \cap Containers

StopTeam ==
  /\ owner.pc = "stopTeam" /\ owner.stopped.of \cap Members \subseteq docker.present
  /\ owner' = [owner EXCEPT !.pc = "stopRest"]
  /\ docker' = [docker EXCEPT !.running = @ \ (owner.stopped.of \cap {"team"})]

StopRest ==
  /\ owner.pc = "stopRest" /\ OwnedIds \subseteq docker.present
  /\ owner' = Inspecting(owner)
  /\ docker' = [docker EXCEPT !.running = @ \ OwnedIds]

(* docker stop ends some of what it was given and fails on another.        *)
StopBreaks ==
  /\ owner.pc \in {"stopTeam", "stopRest"}
  /\ \E some \in SUBSET (IF owner.pc = "stopTeam" THEN {"team"} ELSE OwnedIds) :
       docker' = [docker EXCEPT !.running = @ \ some]
  /\ owner' = OwnerEnds("failed")

(* runtime_snapshot and fully_stopped: all of the last inventory rests,    *)
(* and not only what was told to stop.                                     *)
FirstStopped  == owner.inventory.of \cap docker.running = {}
fully_stopped == owner.stopped.of \cap docker.running = {}

Snapshot ==
  /\ owner.pc = "snapshot"
  /\ OwnerTo(IF ~fully_stopped THEN OwnerEnds("failed")
             ELSE IF owner.kind = "stop" THEN OwnerEnds("done")
             ELSE [owner EXCEPT !.pc = "clear"])

(* clear_volumes, while nothing may hold them.                             *)
ClearRuntime == owner.pc = "clear" /\ OwnerTo(OwnerEnds("done"))

----------------------------------------------------------------------------
(* hard_reset: the scope is named and confirmed, and must still be the     *)
(* same when everything rests.                                             *)

Confirm ==
  /\ owner.pc = "ask"
  /\ OwnerTo(IF OwnedIds \subseteq docker.present
               THEN [owner EXCEPT !.pc = "stopTeam"] ELSE OwnerEnds("failed"))

(* hard_reset_prompt: any answer but yes, or no terminal to ask on.         *)
Decline == owner.pc = "ask" /\ OwnerTo(OwnerEnds("failed"))

(* Inventory::remove: containers before networks before volumes, and what  *)
(* only Team made before the members of the project.                       *)
RemovalOrder ==
  << (Assistants \cup {"visitor"}), Members, {"teamnet"}, {"control"}, {"data"} >>

Removable ==
  { o \in owner.todo : \A i, j \in DOMAIN RemovalOrder :
      o \in RemovalOrder[j] /\ i < j => owner.todo \cap RemovalOrder[i] = {} }

(* Docker keeps a network an attached container runs in, and a volume a    *)
(* container has.                                                          *)
InUse(o) ==
  \/ o = "teamnet" /\ docker.running \cap Assistants # {}
  \/ o = "control" /\ docker.running \cap Members # {}
  \/ o = "data"    /\ docker.present \cap {"team", "admin"} # {}

RemoveOwned(o) ==
  /\ owner.pc = "remove" /\ o \in Removable /\ o \in docker.present /\ ~InUse(o)
  /\ owner' = [owner EXCEPT !.todo = @ \ {o}]
  /\ docker' = [docker EXCEPT !.present = @ \ {o}, !.running = @ \ {o}]

Removed == owner.pc = "remove" /\ owner.todo = {} /\ OwnerTo(Inspecting(owner))

(* Any call of a command may fail: what was done so far stays.             *)
OwnerFails == owner.pc \notin {"idle", "ask"} /\ OwnerTo(OwnerEnds("failed"))

OwnerStep ==
  \/ \E kind \in Kinds : BeginOwned(kind)
  \/ ObserveFixed \/ \E l \in Observations : Observe(l)
  \/ Judge \/ Confirm \/ Decline \/ StopTeam \/ StopRest \/ StopBreaks \/ Snapshot \/ ClearRuntime
  \/ \E o \in OfThisSpace \cup {"visitor"} : RemoveOwned(o)
  \/ Removed \/ OwnerFails

TeamStep ==
  /\ UNCHANGED owner
  /\ TeamConnects \/ \E a \in Assistants : TeamStarts(a) \/ TeamRemoves(a)

ResourceNext == OwnerStep \/ TeamStep \/ StartSpace
ResourceSpec == ResourceInit /\ [][ResourceNext]_resourceVars

----------------------------------------------------------------------------

(* A stop that is reported, and an emptying of the runtime volumes, finds  *)
(* nothing of the Space running, and after a hard reset that is reported   *)
(* nothing of it exists, although Team made Assistants until it was        *)
(* stopped (stop_owned_containers, fully_stopped, hard_reset).             *)
DoneIsTrue ==
  /\ owner.end = "done" /\ owner.kind = "hardReset" => docker.present \cap OfThisSpace = {}
  /\ owner.pc = "clear" \/ (owner.end = "done" /\ owner.kind = "stop") =>
       docker.running \cap OfThisSpace = {}

(* A hard reset removes nothing that was not in the scope the person       *)
(* confirmed, nothing of another project and nothing labelled for another  *)
(* Space than the one this home names (same_targets, Inventory::inspect).  *)
OnlyConfirmedRemoved ==
  [][ owner.pc = "remove" =>
        \A o \in docker.present \ docker'.present :
          /\ o \in owner.inventory.of \ {"squatter", "stranger"}
          /\ docker.env = "none" \/ o \notin Local \/ SpaceOf(o) = docker.env ]_resourceVars
=============================================================================
