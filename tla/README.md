# Verification of the Shimpz CLI

TLA+ models of the `shimpz` command line tool, their TLC configurations, and
TLAPS proofs. The models are written from the sources under `src/src/`; paths
below are relative to that directory unless they start with `src/`.

| file | what it is |
|---|---|
| `SpaceLifecycle.tla` | the lifecycle of one Local Space: install, start, update, stop, rollback, resets |
| `AtomicApply.tla` | what that lifecycle promises to everything outside it |
| `ReleasePoll.tla` | the gate that paces scheduled runs, and the bounded deferral of updates |
| `CliHandoff.tla` | which executable runs the Space, and the answer to deploy requests |
| `ReleaseResolution.tla` | which release set a command applies, and what of it is checked |
| `MemberStart.tla` | how the containers of a release are admitted, brought up and judged |
| `OwnedResources.tla` | the inventory of what belongs to the Space, and what acts on all of it |
| `StatusReport.tla` | what `stop` and `status` tell and advise |
| `StoragePool.tla` | the encrypted pool, layer by layer |
| `SchedulerEntries.tla` | scheduler files against what the service manager holds |
| `DockerHelpers.tla` | the one-shot containers that write into volumes or empty them |
| `BrowserRuntime.tla` | the Browser's installation and network |
| `PrivateRecords.tla` | how one record is replaced, removed and read |
| `AtomicRecord.tla` | what a record promises to its readers |
| `Account.tla` | the Developers session of several processes, and publishing |
| `LocalSnapshots.tla` | `stage` and `unstage` of an Assistant |
| `Translation.tla` | language packs, their threads and their memory |
| `Conversation.tla` | the process of an invocation and its pipes |
| `Invocation.tla` | rounds of an Action and the admission of its provider calls |
| `BoundedCall.tla` | a host command with bounded output and time |
| `MCSpaceLifecycle.tla`, `MCSpace*.cfg` | instances of `SpaceLifecycle` for TLC |
| `MCReleasePoll.tla`, `.cfg` | an instance of `ReleasePoll` |
| `MCCliHandoff.tla`, `MCCli*.cfg` | instances of `CliHandoff` |
| `MCHost.tla`, `MCHost*.cfg` | instances of the ten modules from `ReleaseResolution` to `Account` |
| `MCWorkstation.tla`, `.cfg` | instances of the last five modules, and of `SpaceLifecycle` with a pool |
| `SpaceLifecycleProofs.tla` | proofs: types and control flow of `SpaceLifecycle`; runtime state is readable by the release that runs, its record true; it implements `AtomicApply`; its other safety properties |
| `ReleasePollProofs.tla` | proofs: the five properties of `ReleasePoll` |
| `CliHandoffProofs.tla` | proofs: the five properties of `CliHandoff` |
| `HostProofs.tla` | proofs about `MemberStart`, `OwnedResources`, `SchedulerEntries`, `Account` |
| `CommandProofs.tla` | proofs about `BrowserRuntime`, `DockerHelpers`, `ReleaseResolution`, `StatusReport` |
| `StorageProofs.tla` | proofs: `PrivateRecords` implements `AtomicRecord`; the two properties of `StoragePool` |
| `HostTypeProofs.tla` | proof: the ten host modules together keep their types |
| `WorkstationProofs.tla` | proofs about `BoundedCall`, `Conversation`, `Invocation`, `Translation`, `LocalSnapshots`, and the five together |

`tlc -config MCSpaceLifecycle.cfg MCSpaceLifecycle` checks a model,
`tlapm SpaceLifecycleProofs.tla` a proof.

## Inventory

`shimpz` is two programs in one. `space/` keeps a *Local Space* on the
user's machine: a compose graph of containers, their volumes, an encrypted
storage pool on native Linux, scheduler entries for automatic updates, and a
directory of small records. The rest builds, stages, translates, invokes and
publishes *Assistants*. Nothing runs as a daemon: state lives in files, in
Docker, in the kernel and in the scheduler, and every command is one process
that reads it, changes it step by step, and ends.

### The Local Space

| component | state | operations | hard because |
|---|---|---|---|
| lifecycle (`space/lifecycle.rs`, `home.rs`, `outcome.rs`) | the records below, containers, volumes | `install`, `start`, `update`, `stop` | an apply is some twenty durable steps, each may fail, the process may die between two, and the scheduler, a deploy request and a user start it |
| rollback (`lifecycle/rollback.rs`) | backups of graph and environment, failed-release memory, release status | `backup_current`, `rollback`, `disable_automatic_updates` | runs when something has already failed, and may fail itself |
| reset and recovery (`lifecycle/reset.rs`, `admin.rs`) | removes everything | `reset`, `hard_reset`, `recover_corrupt_after` | removal is not atomic; authorization starts containers |
| records and lock (`state.rs`, `paths.rs`, `private_file.rs`) | marker, environment, graph, status, failed release, stop record, stored-format record, lock | atomic replace, read, forget | each record is atomic, no two are together |
| commit evidence (`lifecycle/cli_binary.rs`) | reads environment and status | `commit_evidence` | two files written at different times |
| release poll (`poll.rs`) | `release-poll.json` | `scheduled_gate`, `defer_for_activity` | wall clock, failures remembered across crashes |
| CLI handoff (`lifecycle/handoff.rs`, `cli_binary.rs`) | managed, previous and candidate executables | `handoff_admitted_release`, `handoff_result`, `reconcile_previous_cli` | a parent judges its child by evidence; either may be killed |
| deploy requests (`deploy.rs`) | request and result | `claim`, `finish` | two files, a crash between |
| storage pool (`storage/linux.rs`, `evidence.rs`) | security directory, marker, image, header, mapping, mount, volumes | `ensure`, `discard_new`, `reset` | layers made and unmade one at a time by tools that may outlive their deadline |
| scheduler entries (`scheduler.rs`) | unit files, loaded units, launchd job | `install`, `disable`, `remove` | files and what is loaded can differ |
| helper containers (`docker.rs`, `docker/helper.rs`) | containers of its own, the volumes they write | project a status or a capability, `clear_volumes` | stopping the client stops no container |
| owned resources (`resources.rs`, `graph.rs`) | containers, volumes, networks by label | inventory, admission, comparison, removal | several calls at once, while Team goes on |
| members (`docker.rs`, `members.rs`, `attachment.rs`, `admin.rs`) | containers, their images, ports, capability | `up`, `converge`, `attest`, recovery of Admin | probes beside downloads; a start that succeeds detached |
| release resolution (`docker/release.rs`, `release.rs`) | image store, copied metadata and CLI | select, pull, copy, admit, decide, extract | the channel and the tag move |
| Browser runtime (`easi.rs`) | a checkout, two files, an admin container, a marker, a network | `ensure_network`, `install`, `uninstall` | an installer of somebody else; one that outlives its budget |
| status (`status.rs`) | none between runs | `status`, the report of `stop` | two inventories and two inspections of something that changes |
| host (`host.rs`), confirmation (`confirm.rs`) | none | read and report | data |
| bounded children (`capture.rs`, `docker/exec.rs`) | a child, its descendants and pipes, a deadline | `run_bounded`, `wait`, `stop` | threads against deadlines |

How they interact: all lifecycle commands take one file lock (`state::Lock`)
and hold it to their end, so there is at most one run; the exception is the
release-bound CLI a run hands over to, which works under its parent's lock.
The scheduler starts `start --scheduled`, which first looks for a deploy
request, then asks the release poll, and only then connects to Docker. The
poll never hears from the lifecycle directly: it reads the status record.
Neither does the handoff or the deploy request: they read the commit evidence.
So the records are the interface, and a run that dies leaves them to the
next one.

What makes each part correct: no run leaves a Space that is half one release
and half another; no release runs on volumes in a stored format it does not
read; evidence of a commit exists only for releases that proved healthy; a
release that failed is not retried unattended; a stopped Space stays stopped
until the user says otherwise; a reset can always be finished by another one;
the poll neither hammers nor forgets; a deferral is bounded and free; every
run ends; there is always a CLI to start; a deploy request gets one true answer.
Below them: a removal that is reported left nothing and removed only what was
confirmed; an answer about a call that outlived its deadline stays true; what a
command applies is one signed release set, whatever the channel did meanwhile;
what is reported as running runs as declared; a record is whole, and lasts once
its write is answered.

### Assistants

| component | state | hard because |
|---|---|---|
| staging (`stage.rs`, `unstage.rs`, `snapshot_*.rs`) | the current tag and the built images of an Assistant, a workstation lock | tag, build and cleanup are separate Docker calls, and others use the daemon |
| translation (`translation/*.rs`, `language_pack.rs`) | the memory of answers, threads in flight | retries, partial answers, one failure that stops all |
| authentication (`auth.rs`, `credentials.rs`, `developers_client.rs`) | stored credentials under a lock, sessions at Developers | refresh spends the stored token; several processes; kills |
| publishing (`publish.rs`, `source_package.rs`, `ustar.rs`) | a publication at Developers | a build may outlast the token |
| invocation (`invoke.rs`, `provider.rs`, `human_request.rs`, `route.rs`) | the transcript of one run | an Action runs again from its start for every answer; two parsers of one query |
| conversation (`python.rs`) | a process and its pipes | each side may fill a pipe the other does not read |
| project tools (`manifest.rs`, `toolchain.rs`, `develop.rs`, `new_assistant.rs`, `upgrade.rs`) | the project's own files | external tools |
| command line (`main.rs`, `args.rs`, `help.rs`, `output.rs`) | none | wording |

What makes each part correct: a staged snapshot was compared, or the former one
is back; a pack is complete and verified before anything of it is remembered; a
credential goes only to reviewed endpoints, and no call is repeated; a live
session always has a holder; whatever is begun ends.

## SpaceLifecycle

**State.** `disk` is the Space's directory, a field per record: `marker`,
`env` (the installed release), `graph` (the compose file's release), their two
backups, `status`, `failed` (the failed-release memory), `stopped`, `epoch`
(the stored-format record). `host` is everything else that lasts: `made` and
`up` (the release whose containers exist, and run), `data` (the stored format
of the runtime-state volumes), `owned` (whether any Docker resource exists),
`pool`, `scheduler`. `pc` and `run` are the program counter and the memory of
the one run; the lock is held exactly while `pc # "idle"`. `hist` observes
what properties need and no guard reads.

**Actions.** One per step of the code that changes something lasting. A
command action (`InstallOver`, `StartSelected`, `BeginStop`, ...) takes the lock
and makes every decision the code makes from what it reads, down to the first
write; reads under the lock belong to the action that acts on them, since
nobody else writes what they read. An apply then goes

    mark > admit > backupGraph > backupEnv > reconcile (> stopOld > clear > record)
         > writeEnv > writeGraph > clearStopped > up > prove > commit
         > dropBackup > forgetFailed > schedule

and a failure at or after `writeEnv` goes

    down > remember > restoreGraph > restoreEnv > restoreStorage
         > reconcile (> stopOld > clear > record) > startPrevious > rollbackStatus > disable

or, for a fresh install, through the removal that the resets share. Every step
has its failing twin (`AdmitFails`, `ReconcileFails`, `StartFails`,
`AfterCommitFails`, ...); `Crash` kills the run anywhere, `Reboot` also takes
down the containers, and `PoolClosed` shuts the pool.

**Abstractions.** A release is a model value with an ordinal, a stored format
and a kind (published or developer). Starting containers is one step: they are
up, or they are not. Files are replaced by rename, so each record is old or
new, never torn. A corrupt installation arises only from a run that was
interrupted (`Corrupt`). Attestation, image pulls and the parsing of anything
are the choice between a step and its failing twin. Which executable runs the
steps is the business of `CliHandoff`.

**Properties.** `TypeOK`; `EpochRecordTruthful` (the stored-format record never
lies about the volumes); `StateReadable` (no containers up on volumes their
release does not read); `SettledAtRest` (graph and environment agree on a
release that once proved healthy, unless a run died in its critical window);
`EvidenceSound` (commit evidence implies proved health);
`MarkerOutlivesRecords` (what a removal leaves is still known as a Space);
`NoUnattendedRetry`; `StopIntentHolds`; and `ImplementsAtomicApply`. That every
run ends is a part of `CommandsEnd` (`LifecycleRuns`). `EvidenceSound` is about releases
that never proved healthy: a status left from an earlier commit of a release that is
being applied once more agrees with the environment before health is proved again, and
neither the code nor the property tells it from a fresh one.

**Refinement.** `AtomicApply` knows a release, the set of releases proved, and
whether the Space is whole. It may prove a release, replace the installed one
by a proved one in a single step, lose wholeness when a run dies, withdraw and
forget. The mapping takes the installed release to be the one an apply
replaces for as long as that apply can still roll back
(`release <- IF Replacing THEN run.prev ELSE disk.env`): all of backup, write,
start, rollback and restore is then stuttering or one step.

## ReleasePoll

**State.** `poll` is the record, field by field; `status` the status record;
`env` and `stable` the installed release and the one the channel offers; `now`
the wall clock; `pc`/`run` the run the gate let through.

**Actions.** The outcomes of `scheduled_gate` (`GateWaits`, `GateProbeFails`,
`GateEnds`, `GatePasses`), a run that no gate sees (`StartUngated`: interactive
or by deploy request), the deferral (`Defer`, `GoAhead`, `NoDeferral`), and the
apply as far as the gate can tell (`Replace`, `Commit`, `RollBack`, `RunEnds`).
The channel moves (`Publish`), time passes (`Tick`) and is set back
(`ClockSetBack`). Time passes only where the code reads the clock again before
it writes a time, and the channel moves only while the run may still look at
it; steps between commute with both.

**Properties.** `CurrentIsProved`: when the gate answers that the installed
release is current, that release did commit last and was proved no longer ago
than the repair interval. `DeferralBounded`: no update is held back for longer than the
busy limit, counted from the first deferral, through crashes and restarts of the
count, and a deferral costs no backoff.
`PollNeverWedges`: no stored time keeps the gate shut for longer than the
longest wait the code knows, although the clock was set back in between.
`NoHotLoop`: a release is not let through twice in a row sooner than its
backoff.

## CliHandoff

**State.** `bin` is the managed and the previous executable, each known by
the release it is bound to (`Other` for one built by Cargo); `space`
the records the commit evidence is read from, with marker, stop record and
failed-release memory; `deploy` the request and its result; `run` the run that
holds the lock, with the CLI it runs under (`exe`) and whether that is the
managed file (`inside`); `work` the applies in progress. A worker belongs to the
run itself, to the child it handed over to, or to nobody: the child of a killed
run goes on as an *orphan*, beside the next run, for it holds no lock.

**Actions.** A command (`BeginInstall`, `BeginStart`, `BeginResume`,
`BeginUpdate`, `BeginDeploy`) fixes the release. A run under another CLI goes

    reconcile > renameOut > renameIn > spawn > wait > judge (> restore)

and one under the CLI of the release

    (reconcile >) (stage > drop >) verify > wait

A worker goes `begin > admit > prove > committed` and ends by `WorkEnds`,
`ScheduleFails`, `AfterCommitFails`, `WorkRefuses`, or a rollback. These are the
steps of `SpaceLifecycle` at which what the evidence reads changes; the module
does not refine it formally. A run with a claimed request ends in

    look > confirm > record > consume

for `deploy_committed` reads the environment and then the status, and `deploy::finish`
writes only afterwards; an orphan may step between any two. `Crash` kills a run with or without its child, `ChildDies` a
child or an orphan. Files that cannot be moved or read are failing twins. The candidate
executable is not kept as state: every run stages its own before it renames it.

**Properties.** `KeepsACli`: whatever step a run under the managed CLI takes or
dies at, the managed or the previous executable exists. `CliMatchesSpace`: at
rest the managed CLI is the one bound to the installed release and no other is
kept, unless something died, a file could not be moved or read, or a CLI from
outside the managed directory worked on the Space since the last complete handoff
or activation beside no orphan (`hist.settled` says so). The exact install that the
run `resume` is about is the last of these: it activates the CLI of a release that
then fails. `AppliedIsTrue`: a request answered as applied names a release whose commit
was recorded, and when no orphan was at work as the run looked, it is still the
installed one, with its status, at the step that writes the answer. Beside an orphan
only the first holds: between the looks and the write it may replace either record, so that
"the named release is installed" (`deploy.rs:28`) may be out of date.
`ConsumedIsAnswered`: a request goes only after its result is recorded.

## Below and beside the lifecycle

`SpaceLifecycle` takes a Docker call, a pool or a scheduler as one step or its
failing twin. These modules open those steps. They share no variable with it or
with each other; the value each answers with is the outcome the lifecycle
chooses.

**ReleaseResolution.** `images` is Docker's image store, the tag of the channel
and the files copied out; `pick` the command and what it has read. The actions
are the calls of `resolve_release`: selector, pull, the digest of the local
image, the container that never runs, copy, removal, reading and cleaning,
labels, then the decision of install, start or update, the extraction of the
CLI or the pull of the members. `OtherPulls` moves the tag between any two and
`ImageRemoved` takes images away. `ReleaseAdmitted`: metadata, epoch and CLI
come from the one digest that was decided for; it is signed, moves forward, is
within its window where it changes something; a remembered failure comes back
by name only; no copy and no container is left unless the answer says so, or the
copy itself failed: its error stands in the answer for that of the removal
(`docker/release.rs:118-121`).

**MemberStart.** `members` are the containers, with image, networks and port;
`ground` what they stand on: the port's occupant, the installed files, the
Account capability, what the candidate's image can do; `start` the command.
Pulls run beside the probes of Admin and of the socket and are judged later,
removals beside the look at the initializer; Compose starts; what runs is judged
and recreated once. `StartedAsDeclared`: what is reported as started, or asked
for a reset, is attached, and its capability belongs to its configuration.
`AdmittedBeforeTouched`: no member is created from an image whose probe failed.
Undoing a failed start is the rollback of `SpaceLifecycle`.

**OwnedResources.** `docker` is what exists and runs, `owner` the command: stop,
the recreation of the runtime state, or hard reset. The inventory is one action
per call, in any order, while `TeamStarts`, `TeamRemoves` and `TeamConnects` go
on. `DoneIsTrue`: a reported stop left nothing running, a reported hard reset
left nothing, also of what Team made between the inventory and its stop.
`OnlyConfirmedRemoved`: a hard reset removes only what the person was shown,
nothing of another project or Space.

**StatusReport.** `space` is what runs and what is recorded, `report` the
command and what it told. `List`, `ObserveStatic`, `ObserveApps` and
`ObserveAttachment` are apart, and Docker and others change containers between
them. `ReportsHelp`: undisturbed, the report is true, and the stop that is advised
after an incomplete one completes it. It names its two exceptions. Docker may still be removing a
container. And a service or an Assistant may have been created and never started: `docker
stop` leaves it alone, `fully_stopped` does not take it for stopped, and
`stop_requires_reconciliation` (`status.rs:340`) has no case for it, so the same advice
is given again, and would be for as long as nobody runs `shimpz install`.

**StoragePool.** `pool` is the layers, `run` the steps still to do. `Provision`,
`Open` and `Reset` decide from what they find, as `ensure` and `reset` do, or
refuse (`PoolRefused`); a step is done (`StepDone`), fails (`StepFails`, with the
compensation the code has), or outlives its deadline (`ToolOutlives`). `late` counts the
tools whose callers no longer wait. That one may be at work is known to the process it
outlived alone (`PRIVILEGED_UNSETTLED`, `command.rs:51`; `require_settled`,
`storage/linux.rs:1034`): that process compensates nothing, but the next one begins beside
the tool, which may end (`LateToolEnds`) before, between or after any of its steps. Kills and
reboots come anywhere. `ResetAdmitted`: whatever is left, the reset the user is told to run
admits it. `PoolSound`: no layer is orphaned and what a start returned as verified is kept
until a reset. Both stop short of one case, which the code warns of but does not
prevent: a reset that is begun while a tool that makes, maps or mounts is still at work
(`hasty`) may have its removals undone behind its back. A late `umount` or `luksClose` does no such
harm, and starts and stops may be begun beside any tool.

**SchedulerEntries.** `entries` are the files, `manager` what systemd or launchd
loaded, `job` the installation or removal. Look, consent, replacement, reload,
enabling, unloading with its proof, and deletion are single calls; a user
edits files and starts or stops jobs in between. `AnswersMatchManager`:
"enabled" means the loaded job runs from the files on disk, "removed" that none
runs, and a job that runs keeps the file by which a removal finds it.

**DockerHelpers.** `helper` are the writing containers in order, `volume` the
last document, `cli` the client, `wipe` the container of the fixed name that
empties the volumes. A client past its deadline leaves its container at work.
`AnswersAreFinal`: documents only become newer, and what was answered stays
true.

**BrowserRuntime.** `browser` is checkout, configuration, admin, marker, network
and an installer nobody waits for, `visit` the start or reset at work. Every look at
the owner may fail and is then taken for nobody's (`AdminOwner`). `BrowserSound`: an admin of
somebody else is ended only if it came after the last look or that look failed
(`unseen`); "ready" means the pinned checkout is configured, unless an installation broke off
under the marker of an earlier one, which none takes back first (`broke`); a reset
that ended left nothing of ours. That a foreign admin is never ended, as the source says, is
`ForeignStays`, and the run `foreign` refutes it.

**PrivateRecords** implements **AtomicRecord**. `file` is the record, its
temporary, and the set of files a loss of power may leave (`durable`); `writer`
the holder of the lock at its step: temporary, write, sync, rename or removal, sync of the
directory. The abstract record has a value, the values a loss of power may
leave (`safe`) and a call; a call that changed something answers when only its
value can be left. The mapping reads `value` from the path and `safe` from
`durable`. `RecordsKept` is that refinement. It holds for every record but one:
the removal of the stop record is not synced, and the abstract call is `lax`.

**Account.** `server` holds sessions as families of token pairs, `stored` the
pair in the file, `lock` the credential lock, `proc` the processes. `auth`,
`auth status`, `auth logout` and `publish` go call by call; a rotation spends the
old pair at Developers before the new one is stored. `NoSessionLost`: with the
lock free, every live session is the stored one in its newest pair, unless a
death or failed call fell between answer and store.

## Assistants

**LocalSnapshots.** `daemon` is the images and the tag, `cmd` the commands, each
under the lock of its own configuration directory. `stage` resolves, reuses or
builds, validates, compares exported files, reads the tag again and answers, or undoes
its tag; `unstage` lists, inspects and removes in batches until nothing is left
or a batch made no progress. `Meddle` moves the tag, `Collect` is the Space's
collection of superseded images. `StagedOrRestored`: success means compared and
current; an undisturbed failure means the former tag is back.

**Translation.** `job` is the stage, `thread` its workers with the shared cursor
and stop flag, `memory` a file per message. `PackProved`: a pack is assembled
only with every text, and only a verified one is remembered.

**Conversation.** `conv`, `writer` and `script` are the reading thread, the
writing thread and the Action; `pipes` hold `PipeSize` lines. The Action may
write before it reads, ask ahead and stop reading; a kill of `uv` may leave
it. It is about endings only (`CommandsEnd`).

**Invocation.** `round` is the run of the Action in progress, `transcript` what the next
round is given, `provider` what a provider received. The manifest's hosts, routes,
Stored Inputs and Integration are constants; a query is a sequence of parts,
each with the ways a provider may read it. `CallsAllowed`: a credential travels only to a reviewed
endpoint under every reading, and no provider is called in two rounds.

**BoundedCall.** `call` is the caller, `proc` the command and what it left behind,
`stream` its outputs with their readers. `AnswersTellTheEnd`: an output is all that
was written, of a command that was reaped; "stopped" means the group is gone.

`CommandsEnd` joins the endings of unstage, translation, conversation and
bounded calls with that of every run of the lifecycle.

## Runs

| run | instance | question | states |
|---|---|---|---|
| lifecycle | releases `a`, `b` of different formats, a pool | all safety properties and the refinement | 3.6 million |
| poll | two published, one developer release, the clock set back once | the five properties of `ReleasePoll` | 4.3 million |
| handoff | one published, one developer release, one request, two deaths, two workers | the five properties of `CliHandoff` | 0.73 million |
| host | the ten modules from `ReleaseResolution` to `Account` | `HostTypeOK` and their thirteen properties | 1.4 million |
| workstation | the five modules of Assistants; `SpaceLifecycle` with one release, a pool and all commands; fair | `WorkTypeOK`, their safety properties, `CommandsEnd` | 461 thousand |
| restored, reset, resume, storage, publish, occupant, foreign | as named in the `.cfg` | the disagreements below | until found |

`host` and `workstation` hold several components that share nothing. Each is
explored in its own part of the state graph: the initial state chooses a `part`
that alone moves, so that states are added, not multiplied, and nothing is said
of an interaction that the code does not have.

**Bounds.** `SpaceLifecycle` has no counter: its state space is finite and
explored in full for the given releases. Two releases of different format give
every pair of candidate and previous, upgrade and return, format change and
none (re-applying a release); a third only adds more of the same pairs, except
for the memory of failed releases, which holds one. A host without a pool takes
the same steps less one, the closing of the pool. One release is enough in
`workstation`, whose question of the lifecycle is whether its runs end.

In `ReleasePoll` the constants keep the order of the code's durations (base
below cap, cap at most the longest Retry-After, repair longer than base) at a
scale of one to two; `MaxTime` is beyond the longest wait by one;
`CountBound` stops counting where the backoff reaches its cap (the assumption
of the module says so); one clock jump is enough for a stored time to be in
the future, which is what the code guards against. The constraint
`ClockOrDeveloper` does not combine the jump with the developer release: what
is done with either never reads the other.

In `CliHandoff` one published and one developer release give every direction a
handoff can take, and two workers are an orphan beside the run. Deaths
multiply the states: `SecondDeathAlone` has the second where nothing was
requested and no worker was left, which is where a recovery of the executables is alone;
`OrphanBesideManaged` keeps CLIs from elsewhere from running beside an orphan.
Both constraints stop the exploration behind such states, not the steps into them.

In `host` every module has a bound on its faults (one to three: a fault, one
in the compensation, one in what cleans up after both) and on what others do
(one move each: `MaxChanges`, `MaxPulls`, `SchedMeddles`); two helpers are an old one
beside a new one; two Assistants one that an inventory saw and one it did not;
three pairs a session, its rotation and another session; the sets of
`ReleaseResolution` are two published, one whose document is not the signed
one, and a developer one, at times before, in and after their windows. Two
switches are off in it because a violation run shows what they do: `Wedges` (on in
`storage`) and `FailedLooks` (on in `occupant`).

In `workstation` two commands with two builds and one meddler are a stage beside
an unstage of the same images; three messages for two threads leave one
thread a second message; a pipe holds one line, the hardest case; a
stream may be one byte over its limit.

Deadlock is checked but in `poll`, whose bounded clock stops, and in
`workstation`, where the work ends.

**Fairness.** All of it is that of `workstation`. For the lifecycle it is
`WF_spaceVars` of `RunStep`: a run that can take a step takes one. Every host command has a deadline (`capture.rs`,
`command.rs`, `docker.rs`) after which the call fails, which is a step too, and
systemd ends a scheduled run after three hours (`scheduler.rs`). Nothing is
assumed of users, the scheduler, or the success of any step. Beside it an
unstage, the threads of a translation and the threads of an invocation go on when
they can; the Action of a conversation keeps to the protocol and does not stop by
itself (`python.rs` sets it no deadline); of a bounded command nothing is
assumed but that the deadline comes (`BoundedCall`).

**Disagreements.** Each violation run checks a sentence of the sources.

* `restored`: after a crash past the write of the environment, the next run
  backs up the unproved candidate and may later report it restored as "the
  previous healthy release" (`lifecycle/rollback.rs:94`).
* `reset`: the scoped reset of a Space that is stopped, or half started, starts
  containers for its authorization without reconciling the runtime state
  (`lifecycle/reset.rs:221`).
* `resume`: a remembered failure never keeps the installed release from resuming
  (`lifecycle.rs:576`), but the resumption hands nothing over; after an exact
  install whose apply failed, the managed CLI is bound to the failed release and
  is refused.
* `storage`: a record that fails to be written, on a full disk for instance,
  leaves a temporary that `discard_new` does not remove and that every reset
  then refuses (`storage/linux.rs:656`).
* `publish`: the wait of thirty minutes uses a token of fifteen; a longer build
  ends in a refused status instead of the result or the timeout
  (`publish.rs:65`), although a test is called
  `only_installability_or_safe_failure_ends_the_wait` (`publish.rs:711`).
* `occupant`: "any other occupant of the name is kept" (`docker.rs:214`), but a
  failed inspection is taken for a free name, and the failed run is then cleaned up by
  force.
* `foreign`: "an installation this Space did not make is never touched"
  (`easi.rs:6-7`, again at 279), but a failed inspection of the admin is taken for its absence
  (`easi.rs:108`), and with an old checkout of its own a reset then runs the
  uninstaller against the admin of somebody else.

Because of `reset` the run `lifecycle` sets `ScopedReset` to `FALSE`: a scoped
reset is then begun only where nothing is owned, or where what answers it runs
already (`Answers`), so that asking Admin starts nothing. The theorems
`RuntimeStateReadable` and `EpochRecordNeverLies` assume it; everything else is
proved of every scoped reset.

## Proofs

A run explores one instance; a theorem holds for every value of the constants:
any releases and order of them, any number of processes, workers, requests,
faults and deaths, any durations. All are proved the same way: an inductive
invariant holds initially, each action preserves it (a step per action, a
conjunct at a time, the types before the rest), it implies the property, and
PTL closes the temporal step. Each inductive invariant was a TLC invariant
of an instance before it was proved. What it adds to the property, and why that is needed:

**SpaceLifecycle** (`SpaceLifecycleProofs`).

* `TypeCorrect`. `TypeOK` alone is not inductive: whether a step's memory is a
  release or `None` depends on where the run is. `TInv` is `Stores` (the types, and
  what the records hold relative to each other), `Control` (which kinds of run
  reach which steps) and `Reliance` (what each step takes for granted: that a
  rollback's backups exist when it renames them, for instance).
* `RuntimeStateReadable`, `EpochRecordNeverLies` (from `~ScopedReset`, as in
  the run). `EInv` says of a reset that whatever it asks runs already, of
  the records at rest that recorded data is in the recorded format and that
  containers that are up read it (`EStores`), and of the steps of a reconcile
  that containers are down before volumes are emptied, that the record is absent
  while they are, and that whatever starts next starts on its own format (`ESteps`).
* `RemovalResumable`, `EvidenceIsProof`, `Settles`, `NotRetriedUnattended`,
  `StopIntentKept` and the refinement `SpaceIsAtomic`, from `AInv`, which is `TInv` with
  `Marked` (who writes to a home that bears no marker), `Proven` (a release
  is about to be reported only once proved), `Configured` (of which release
  the environment, the graph and the backup are at each step, with the direction
  of the run: an apply on its way back has restored the environment first),
  `Untorn` (what the records hold as long as no run died in its critical window:
  outside it they name one proved release, inside it the backups do) and `GivenUp`
  (a release given up on is on record, or nothing is left that would try it). A proof of health is the
  abstract `Prove`, the end of an apply or of a rollback `Replace`, a death in the window
  `Tear`; most steps change nothing the abstract Space shows.

**ReleasePoll** (`ReleasePollProofs`): `PollTypes`, `CurrentWasProved`,
`PollIsNeverWedged`, `DeferralIsBounded`, `NeverHot`. `GInv` relates the stored
record to what did happen: a success on record is the last one (`Recorded`); from the gate's first
look under a setting of the clock its times are bounded by
the longest waits (`Bounded`; before that look they may be anything, which is what
`Plausible` is for); the record remembers the deferred release since its first
deferral (`HeldBack`); an attempt to no avail is on record with its backoff
(`Counted`); and what a run knows of its attempt (`Running`). The lemma
`BackoffGrows` is the arithmetic.

**CliHandoff** (`CliHandoffProofs`): `HandoffTypes`, `ManagedCliMatches`,
`ACliIsKept`, `AppliedWasTrue`, `ConsumedWasAnswered`, for any number of workers,
requests and deaths. `HInv` says that the waiting run has one worker (`Alone`),
what the run knows of itself and its claim (`Known`), where it has put the executables
step by step (`Placed`), that they match the Space when nobody is at
work (`Settled`), and which answer belongs to a claim (`Answered`). The orphan of a
dead run is what makes the last two hard: it goes on beside the next run. `Seen` says
what a run that looked beside no orphan still knows until it writes its answer.

**The host** (`HostProofs`), one invariant per component.

* `StartsAsDeclared`, `AdmittedFirst`: `StInv` has `Admission` (what was found out
  about the images up to each step, so that nothing of a release that was not
  probed is installed) and `Capable` and `Attachment`: who holds the
  capability that an attested Admin needs, through a recreation of members and a recovery.
* `DoneMeansDone`, `RemovesTheConfirmed`: `RInv` has `Rounds` (which
  looks a removal has taken), `Listed` (a listing is of what was there when it was taken)
  and `Confirmed`: between two equal looks nothing was added that was not seen.
* `SchedulerAnswersTrue`: `ScInv` adds to the property that what a command saw was
  so and can only have been changed from outside since (`SawTruly`), what is
  written when (`Written`), how it is between commands (`Resting`), and that what
  runs by this program's doing is found by its file (`OwnRuns`).
* `SessionsAreKept`: `AcInv` says that one process works under the credential
  lock (`OneWorks`) and which pair the server still honours at each of its steps
  (`Guarded`).

**Commands** (`CommandProofs`), one invariant per component.

* `BrowserIsSound`: `BrInv` says what a start has prepared at each
  step (`Prepared`), what belongs to an admin of ours unless an installation broke off
  since or an installer goes on unheard (`Belongs`), what a reset has
  taken away so far (`TakenAway`), and what the last look at the owner, if it did not
  fail, says of the admin a program is about to meet (`Looked`).
* `HelpersAnswerFinally`: `HlInv` says that only the latest helper may still have a
  container that writes (`OneLives`), what an end of its client proves of the container
  (`ClientKnown`), what it was sent (`InputTold`), what an answer rests on
  (`AnswerStands`), and which deletions a wipe has accounted for (`WipeKnown`).
* `OnlyTheAdmitted`: `RlInv` says which set each step may resolve (`Named`), that what
  was copied and read is of that set although tag and store move (`Faithful`), what
  holds of it from the decision on (`DecidedWell`), and what is left of the copies and
  their container (`TidiedUp`).
* `AdviceIsGood`: `RpInv` says which command reaches which step
  (`OnTheWay`), that what was listed and seen is there while nobody else changes
  anything (`SeenIsThere`), and that a Space whose stop was advised can be stopped, its
  containers at rest as far as the stop has come (`AdviceHelps`).

**Disk** (`StorageProofs`).

* `RecordsAtomic`, the refinement of `AtomicRecord`. `RecInv` says that whatever the
  directory may be left with was written whole and synced before it got its name
  (`Lasting`), what the writer relies on at each step (`WriterReady`), and that the
  temporary holds what will be the record (`TmpPrepared`); then each step is one of the
  abstract record, or none.
* `EachLayerRests`: that a mapping has its image is not inductive, since a discard may
  begin with either and is cut anywhere. `PoolInv` adds what the rest of the layers stand on
  (`Layered`), beside whom a tool may be at work and what of the pool it may no longer find
  verified (`Attended`): one that builds is beside no run but an opening, since a provision needs a
  host without a pool and a reset would be hasty. And what each run
  has left to do (`OnPlan`): a provision the rest of one list, whose length says
  exactly what the pool holds (`ProvisionedTo`); a discard or a reset a set of
  removals, sorted by a rank (`Plans`), in which whatever is still open has its closing.
  The lemmas on `Plans` say what appending a step to it and taking its first leaves, and
  so need no induction. All of it is claimed up to the first hasty reset (`PoolAlways`, and
  `ResetAlways` below); the types hold beyond.
* `ResetIsAdmitted` (from `Wedges = {}`). `ResetInv` adds that what a discard or a reset finds
  has its removal left (`Cleared`), what a reset admits whenever nobody
  makes or discards the pool (`Resettable`), and that each tool behind its caller still finds
  what it was started on (`Supplied`), beside whichever run. A discard that failed where the code allows it has
  not begun to remove; after each step of a reset the layout is one of those it admits.
  With one of the wedges it is false: the run `storage` is the counterexample for a
  write that fails.

**Assistants** (`WorkstationProofs`): `AnswersTellTheTruth` (a reader that reached the end
of its stream has all of it and nobody is left to write more);
`OnlyAllowedCalls` (what a round has admitted and carried out so far);
`PackIsProved` (the cursor the threads share hands out the messages by
their rank: every message it has passed is translated or with a thread, unless a thread stopped them
all, which leaves a reason); `StageProvesOrUndoes` (`SnInv`: of every command, what its image is and what its
snapshot of the former tag can restore, although another command, another
builder or a prune works between its steps).

**Types of the compositions.** `WorkstationTyped` and `HostTyped` hold of `MCWorkstation` and
`MCHost` with all their faults, and assume nothing beyond the constants' own assumptions: a step of
the composition is a step of one component, so each component's invariant is
carried over, and from it its types. Two types needed more than was proved before.

* `Conversation`: that the queue of replies stays within its bound depends on the
  pipe. `CoInv` counts the calls that wait there (`Asking`): what the writer has queued and
  what waits is at most the invocation and one reply for each call the Action has sent
  (`RepliesOwed`). `AskingCounts` and its neighbours say how writing and
  reading one line changes that count, for pipes of any size.
* `OwnedResources`: a listing holds only what its filter selects, and what is left to remove
  was in the stopped inventory (`Selects`); this holds through whatever
  Team creates between two listings.

**Assumptions.** Each module that has constants names what it assumes of them, and
TLC evaluates it in every run. Beyond ranges they say: releases and values are none of
the words the models use for absence (`None`, `NoImage`, `"absent"`), sets none of those
for a torn copy and a link, Assistants none of the static components; a
translation has a thread and a stage an image; the durations of `ReleasePoll` keep the
order the code's constants have (`PollAssumption`); and two facts of
arithmetic about `2 ^ n` (`PowerAssumption`), for which the provers have no rule.

**Only model-checked.** Liveness under fairness (`CommandsEnd`) is
beyond the prover, and the seven properties the code does not have are refuted by
their runs. Every other property a run checks is a theorem.

## Plan

The components are modelled, and every safety property that holds is proved, the types included. What may be added follows the
code: a new step of a lifecycle command is an action of `SpaceLifecycle` and a case of
`AInv`, a new layer of the pool an entry of `ProvisionSteps` and of `ProvisionedTo`.

## Not modelled

* Parsing, wording, layouts and the HTTP formats: command line, help, output,
  manifest, project tools, source packages, the text of units, environment and
  graph. They keep no state, and unit tests and vectors reach them.
* Host profile and preflight measures, Docker's endpoint, context and version:
  read once, they decide whether a command begins. The one difference the
  lifecycle sees is the constant `Encrypted`.
* The plain reset and the recovery compare no second inventory with a first;
  only the hard reset does, and is modelled with it (`OwnedResources`).
* Requests that Team has in flight at Docker when it is stopped.
* The query parameter an Integration injects, the search of a response for
  echoed credentials, and the one-shot exchange with the SDK bridge.
* A malformed deploy request, which is discarded, and a poll record that cannot
  be written.
* macOS storage: it has no pool.
