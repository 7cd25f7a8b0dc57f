--------------------------- MODULE SchedulerEntries ---------------------------
(***************************************************************************)
(* The user's scheduler entries that run `shimpz start --scheduled`: two   *)
(* systemd units, or one LaunchAgent.  The files and what the service      *)
(* manager holds of them are separate: each changes by a call of its own,  *)
(* any of which may fail or be the last one of a killed process, and the   *)
(* user edits the one and drives the other in between.                     *)
(***************************************************************************)
EXTENDS FiniteSets, Naturals

CONSTANTS
  SchedFaults,  \* bound: calls that fail and processes killed
  SchedMeddles  \* bound: files edited and jobs started or stopped by the user

ASSUME SchedulerAssumption == SchedFaults \in Nat /\ SchedMeddles \in Nat

VARIABLES
  entries,  \* the scheduler files
  manager,  \* what the service manager holds
  job,      \* the installation or removal at work
  told      \* observer: what the last one answered, and whether the user
            \* kept off since it began; the faults so far

schedulerVars == <<entries, manager, job, told>>

(* "unsafe" is foreign as well, and not removable: a directory.  Whether   *)
(* systemd was booted is asked of the host; launchd always is there.       *)
EntryState == {"absent", "current", "corrupt", "foreign", "unsafe"}

Profiles == {"systemd", "launchd"}

Units == IF entries.profile = "launchd" THEN {"agent"}
                                        ELSE {"service", "timer"}

(* The entry the manager runs by itself. *)
Main == IF entries.profile = "launchd" THEN "agent" ELSE "timer"

AllUnits == {"agent", "service", "timer"}

SchedulerFiles == [ profile : Profiles, booted : BOOLEAN,
             at : [AllUnits -> EntryState],
             tmp : [AllUnits -> {"none", "safe", "unsafe"}] ]

(* loaded: the file as the manager last read it. *)
Manager == [ loaded : [AllUnits -> EntryState],
             active : BOOLEAN, enabled : BOOLEAN ]

Job == [ kind : {"idle", "install", "remove"}, scheduled : BOOLEAN,
         pc : { "idle", "inspect", "foreign", "replace", "reinspect", "probe",
                "write", "reload", "enable", "unload", "delete", "sweep",
                "refresh" },
         saw : [AllUnits -> EntryState], left : SUBSET AllUnits ]

Idle == [ kind |-> "idle", scheduled |-> FALSE, pc |-> "idle",
          saw |-> [u \in AllUnits |-> "absent"], left |-> {} ]

Unanswered == "nothing"

(* Nothing of ours yet, beside at most one entry of the user's; or what an  *)
(* earlier version of the CLI installed, still running.                     *)
Fresh ==
  /\ \E p \in Profiles, b \in BOOLEAN, v \in AllUnits,
        f \in {"absent", "foreign", "unsafe"} :
       entries = [ profile |-> p, booted |-> b,
                   at |-> [[u \in AllUnits |-> "absent"] EXCEPT ![v] = f],
                   tmp |-> [u \in AllUnits |-> "none"] ]
  /\ manager = [ loaded |-> [u \in AllUnits |-> "absent"],
                 active |-> FALSE, enabled |-> FALSE ]

Outdated ==
  /\ \E p \in Profiles :
       entries = [ profile |-> p, booted |-> TRUE,
                   at |-> [u \in AllUnits |-> "corrupt"],
                   tmp |-> [u \in AllUnits |-> "none"] ]
  /\ manager = [ loaded |-> [u \in AllUnits |-> "corrupt"],
                 active |-> TRUE, enabled |-> TRUE ]

SchedulerInit ==
  /\ Fresh \/ Outdated
  /\ job = Idle
  /\ told = [answer |-> Unanswered, alone |-> TRUE,
             faults |-> 0, meddles |-> 0]

-----------------------------------------------------------------------------
(* Helpers. *)

SawIn(states) == {u \in Units : job.saw[u] \in states}

(* Entries this CLI does not own, and entries it does. *)
ForeignStates == {"foreign", "unsafe"}
OwnedStates   == {"current", "corrupt"}

Goto(pc, left) == job' = [job EXCEPT !.pc = pc, !.left = left]

(* Mutant: the job keeps what it saw. *)
AnswerAndRemember(what) ==
  /\ job' = [job EXCEPT !.kind = "idle", !.pc = "idle"]
  /\ told' = [told EXCEPT !.answer = what]

Answer(what) ==
  /\ job' = Idle
  /\ told' = [told EXCEPT !.answer = what]

Look == job' = [job EXCEPT !.saw = entries.at,
                           !.pc = IF job.kind = "remove" THEN "unload"
                                  ELSE IF job.pc = "inspect" THEN "foreign"
                                  ELSE "probe"]

(* The manager reads every file again. *)
Reloaded == [manager EXCEPT !.loaded = entries.at]

Unloaded == [manager EXCEPT !.active = FALSE, !.enabled = FALSE]

(* systemd_schedule_is_running: the files on disk are those it holds. *)
(* Mutant: the units are taken for running without a look at their files. *)
RunningOldFiles == manager.active /\ manager.enabled

Running ==
  /\ manager.active /\ manager.enabled
  /\ \A u \in Units : manager.loaded[u] = entries.at[u]

(* The file is the handle by which a running job is found again. *)
HasHandle == manager.active => entries.at[Main] # "absent"

Started == told' = [told EXCEPT !.answer = Unanswered, !.alone = HasHandle]

-----------------------------------------------------------------------------
(* install. *)

Install(scheduled) ==
  /\ job.kind = "idle"
  /\ job' = [Idle EXCEPT !.kind = "install", !.scheduled = scheduled,
                         !.pc = "inspect"]
  /\ Started
  /\ UNCHANGED <<entries, manager>>

Inspect ==
  /\ job.pc = "inspect"
  /\ Look
  /\ UNCHANGED <<entries, manager, told>>

NothingForeign ==
  /\ job.pc = "foreign" /\ SawIn(ForeignStates) = {}
  /\ Goto("reinspect", {})
  /\ UNCHANGED <<entries, manager, told>>

(* A scheduled run never asks; without a terminal the answer is no. *)
Declined ==
  /\ job.pc = "foreign" /\ SawIn(ForeignStates) # {}
  /\ Answer("preserved")
  /\ UNCHANGED <<entries, manager>>

(* The unloading before a replacement is best effort. *)
Consented ==
  /\ job.pc = "foreign" /\ SawIn(ForeignStates) # {} /\ ~job.scheduled
  /\ IF SawIn({"unsafe"}) # {}
     THEN Answer("error") /\ UNCHANGED manager
     ELSE /\ Goto("replace", SawIn(ForeignStates))
          /\ manager' \in {manager, Unloaded}
          /\ UNCHANGED told
  /\ UNCHANGED entries

Replace(u) ==
  /\ job.pc = "replace" /\ u \in job.left
  /\ entries' = [entries EXCEPT !.at[u] = "absent"]
  /\ Goto(IF job.left = {u} THEN "reinspect" ELSE "replace", job.left \ {u})
  /\ UNCHANGED <<manager, told>>

Reinspect ==
  /\ job.pc = "reinspect"
  /\ IF \E u \in Units : entries.at[u] \in ForeignStates
     THEN Answer("error")
     ELSE Look /\ UNCHANGED told
  /\ UNCHANGED <<entries, manager>>

(* Current files the manager already runs need nothing. *)
Probe ==
  /\ job.pc = "probe"
  /\ IF SawIn({"current"}) = Units /\ entries.profile = "systemd" /\ Running
     THEN Answer("enabled")
     ELSE Goto("write", Units) /\ UNCHANGED told
  /\ UNCHANGED <<entries, manager>>

(* The service before the timer that starts it. *)
NextEntry == IF "service" \in job.left THEN "service" ELSE Main

(* write_atomic: an unsafe temporary refuses, a safe one is discarded. *)
WriteEntry ==
  /\ job.pc = "write" /\ entries.tmp[NextEntry] # "unsafe"
  /\ entries.at[NextEntry] # "unsafe"
  /\ entries' = [entries EXCEPT !.at[NextEntry] = "current",
                                !.tmp[NextEntry] = "none"]
  /\ Goto(IF job.left = {NextEntry} THEN "reload" ELSE "write",
          job.left \ {NextEntry})
  /\ UNCHANGED <<manager, told>>

WriteRefused ==
  /\ job.pc = "write"
  /\ entries.tmp[NextEntry] = "unsafe" \/ entries.at[NextEntry] = "unsafe"
  /\ Answer("error")
  /\ UNCHANGED <<entries, manager>>

(* daemon-reload; or bootout, whose failure is ignored: only of an agent    *)
(* that is not loaded does bootstrap succeed.                              *)
Reload ==
  /\ job.pc = "reload"
  /\ IF entries.profile = "systemd"
     THEN entries.booted /\ manager' = Reloaded
     ELSE manager' \in {manager, Unloaded}
  /\ Goto("enable", {})
  /\ UNCHANGED <<entries, told>>

(* enable --now, or bootstrap: both refuse a file that is not there. *)
Enableable ==
  /\ entries.at[Main] \notin {"absent", "unsafe"}
  /\ entries.profile = "launchd" => ~manager.active

Enable ==
  /\ job.pc = "enable" /\ Enableable
  /\ manager' = [manager EXCEPT !.active = TRUE, !.enabled = TRUE,
                                !.loaded[Main] = entries.at[Main]]
  /\ Answer("enabled")
  /\ UNCHANGED entries

-----------------------------------------------------------------------------
(* remove. *)

RemoveEntries ==
  /\ job.kind = "idle"
  /\ job' = [Idle EXCEPT !.kind = "remove", !.pc = "inspect"]
  /\ Started
  /\ UNCHANGED <<entries, manager>>

NothingOwned ==
  /\ job.pc = "unload" /\ SawIn(OwnedStates) = {}
  /\ Goto("sweep", {})
  /\ UNCHANGED <<entries, manager, told>>

(* Unloading fails, or does half of it; what the manager then shows decides: *)
(* a unit without its file shows no state, however it was enabled.          *)
ProvedUnloaded(m) ==
  ~m.active /\ (m.enabled => entries.at[Main] = "absent")

(* Mutant: the unloading is tried, and not proved. *)
UnloadUnproved ==
  /\ job.pc = "unload" /\ SawIn(OwnedStates) # {}
  /\ manager' \in {manager, Unloaded}
  /\ Goto("delete", SawIn(OwnedStates))
  /\ UNCHANGED <<entries, told>>

Unload ==
  /\ job.pc = "unload" /\ SawIn(OwnedStates) # {}
  /\ manager' \in (IF entries.booted \/ entries.profile = "launchd"
                   THEN { manager, [manager EXCEPT !.active = FALSE],
                          Unloaded }
                   ELSE {manager})
  /\ IF ProvedUnloaded(manager')
     THEN Goto("delete", SawIn(OwnedStates)) /\ UNCHANGED told
     ELSE Answer("error")
  /\ UNCHANGED entries

Delete(u) ==
  /\ job.pc = "delete" /\ u \in job.left
  /\ u = "timer" => job.left = {u}
  /\ entries.at[u] # "unsafe"
  /\ entries' = [entries EXCEPT !.at[u] = "absent"]
  /\ Goto(IF job.left = {u} THEN "sweep" ELSE "delete", job.left \ {u})
  /\ UNCHANGED <<manager, told>>

(* Safe temporaries go as well; unsafe ones are reported. *)
Sweep ==
  /\ job.pc = "sweep"
  /\ entries' = [entries EXCEPT !.tmp =
                  [u \in AllUnits |-> IF u \in Units /\ @[u] = "safe"
                                      THEN "none" ELSE @[u]]]
  /\ Goto("refresh", {})
  /\ UNCHANGED <<manager, told>>

Refresh ==
  /\ job.pc = "refresh"
  /\ manager' \in (IF /\ SawIn(OwnedStates) # {}
                      /\ entries.profile = "systemd" /\ entries.booted
                   THEN {Reloaded} ELSE {manager})
  /\ Answer(IF SawIn(ForeignStates) # {} THEN "unverified" ELSE "removed")
  /\ UNCHANGED entries

-----------------------------------------------------------------------------
(* Failures, and the user. *)

(* A failed write discards its temporary; the unloading answers for itself. *)
CallFails ==
  /\ job.kind # "idle"
  /\ \/ told.faults < SchedFaults
     \/ job.pc = "reload" /\ entries.profile = "systemd" /\ ~entries.booted
     \/ job.pc = "enable" /\ ~Enableable
     \/ job.pc = "delete" /\ \E u \in job.left : entries.at[u] = "unsafe"
  /\ job' = Idle
  /\ told' = [told EXCEPT !.answer = "error",
                          !.faults = IF @ < SchedFaults THEN @ + 1 ELSE @]
  /\ UNCHANGED <<entries, manager>>

JobKilled ==
  /\ job.kind # "idle"
  /\ told.faults < SchedFaults
  /\ told' = [told EXCEPT !.answer = "error", !.faults = @ + 1]
  /\ entries' \in { entries } \cup
       (IF job.pc = "write" /\ entries.tmp[NextEntry] = "none"
        THEN {[entries EXCEPT !.tmp[NextEntry] = "safe"]} ELSE {})
  /\ job' = Idle
  /\ UNCHANGED manager

(* The user edits a file or a temporary, or drives the manager.             *)
UserMeddles ==
  /\ told.meddles < SchedMeddles
  /\ told' = [told EXCEPT !.alone = FALSE, !.meddles = @ + 1]
  /\ \/ \E u \in Units, f \in EntryState \ {"current"} :
          /\ entries' = [entries EXCEPT !.at[u] = f]
          /\ UNCHANGED manager
     \/ \E u \in Units :
          /\ entries' = [entries EXCEPT !.tmp[u] = "unsafe"]
          /\ UNCHANGED manager
     \/ /\ manager' \in { Unloaded, [manager EXCEPT !.active = FALSE],
                          [Reloaded EXCEPT !.active = TRUE] }
        /\ entries.booted \/ entries.profile = "launchd"
        /\ UNCHANGED entries
  /\ UNCHANGED job

SchedulerNext ==
  \/ \E s \in BOOLEAN : Install(s)
  \/ Inspect \/ NothingForeign \/ Declined \/ Consented
  \/ \E u \in AllUnits : Replace(u)
  \/ Reinspect \/ Probe \/ WriteEntry \/ WriteRefused \/ Reload \/ Enable
  \/ RemoveEntries \/ NothingOwned \/ Unload
  \/ \E u \in AllUnits : Delete(u)
  \/ Sweep \/ Refresh
  \/ CallFails \/ JobKilled \/ UserMeddles

-----------------------------------------------------------------------------
(* Properties. *)

(* The type invariant: files, manager and job are what scheduler.rs tells   *)
(* apart, and a job at rest remembers nothing.                             *)
SchedulerTypeOK ==
  /\ entries \in SchedulerFiles
  /\ manager \in Manager
  /\ job \in Job
  /\ job.kind = "idle" => job = Idle
  /\ told.answer \in { Unanswered, "enabled", "preserved", "removed",
                       "unverified", "error" }
  /\ told.alone \in BOOLEAN
  /\ told.faults \in 0 .. SchedFaults /\ told.meddles \in 0 .. SchedMeddles

(* What the answer says of the job holds in the manager: after an answer    *)
(* that updates are automatic it runs, from the files on disk, and after   *)
(* one that they are removed none runs, whatever an earlier command that   *)
(* was cut or failed had written or loaded; and nothing takes from a job   *)
(* that runs the file by which a later removal would find and unload it    *)
(* (install_with_authorizer, remove_with, require_unloaded).               *)
AnswersMatchManager ==
  /\ told.answer = "enabled" /\ told.alone =>
       /\ manager.active /\ manager.enabled
       /\ \A u \in Units : entries.at[u] = "current" /\ manager.loaded[u] = "current"
  /\ told.answer = "removed" /\ told.alone => ~manager.active
  /\ told.meddles = 0 => HasHandle
================================================================================
