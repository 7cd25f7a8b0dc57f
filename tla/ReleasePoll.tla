----------------------------- MODULE ReleasePoll -----------------------------
(***************************************************************************)
(* The pacing of scheduled runs.  The scheduler fires every half minute;   *)
(* before any Docker work a gate asks the registry for the digest of the   *)
(* `stable` release and lets the run through only for a new digest or a    *)
(* due repair, backing off from failures of the registry and of the run.   *)
(* An admitted update may then wait, bounded, for busy Team work.          *)
(*                                                                         *)
(* All the memory of the gate is one private record; the evidence of the   *)
(* last success is the status record, which the lifecycle writes.  What    *)
(* the apply itself does is the business of SpaceLifecycle: here it either *)
(* commits, rolls back or dies.  Time is the wall clock, which may be set  *)
(* back; the constants keep the order of the code's durations.             *)
(***************************************************************************)
EXTENDS Integers

CONSTANTS
  Published,      \* releases of the channel
  Developer,      \* releases built on this host
  None,
  RepairEvery,    \* FULL_REPAIR_SECONDS
  BackoffBase,    \* BACKOFF_BASE_SECONDS
  BackoffCap,     \* BACKOFF_CAP_SECONDS
  RetryAfterCap,  \* RETRY_AFTER_CAP_SECONDS
  BusyDefer,      \* BUSY_DEFER_SECONDS
  CountBound,     \* bound: failures and attempts count no further
  MaxTime,        \* bound: the clock shows no later time
  MaxJumps        \* bound: how often the clock is set back

Releases == Published \cup Developer

ASSUME PollAssumption ==
  /\ Published \cap Developer = {}
  /\ Published # {}
  /\ None \notin Releases
  /\ None \notin Int
  /\ RepairEvery \in Nat \ {0}
  /\ BackoffBase \in Nat \ {0}
  /\ BackoffCap \in Nat \ {0}
  /\ RetryAfterCap \in Nat
  /\ BackoffCap <= RetryAfterCap
  /\ BusyDefer \in Nat
  /\ CountBound \in Nat
  /\ BackoffBase * 2 ^ CountBound >= BackoffCap
  /\ MaxTime \in Nat
  /\ MaxJumps \in Nat

(* Arithmetic, for the proofs: the provers have no rule for powers.        *)
ASSUME PowerAssumption ==
  \A n \in 0 .. CountBound :
    2 ^ n \in Nat /\ \A m \in 0 .. n : 2 ^ m <= 2 ^ n

VARIABLES
  now,     \* the wall clock
  stable,  \* the release the channel offers
  env,     \* the installed release
  poll,    \* release-poll.json
  status,  \* release-status.json
  pc,      \* the next step of the run, "idle" if none
  run,     \* what that run has in memory
  hist     \* observer, never read by a guard but to bound the clock's jumps

vars == <<now, stable, env, poll, status, pc, run, hist>>

Time == 0 .. MaxTime
Ref  == Releases \cup {None}

Poll == [ probeFailures : 0 .. CountBound, probeRetryAt : Nat,
          attempted : Ref, attemptedAt : Time,
          attempts : 0 .. CountBound, retryAt : Nat,
          deferred : Ref, deferredSince : Time ]

DefaultPoll ==
  [ probeFailures |-> 0, probeRetryAt |-> 0,
    attempted |-> None, attemptedAt |-> 0, attempts |-> 0, retryAt |-> 0,
    deferred |-> None, deferredSince |-> 0 ]

Status ==
  [release : Releases, outcome : {"reconciled", "rollback"}, at : Time]

Run == [ cand : Ref, prev : Ref, gated : BOOLEAN ]

NoRun == [ cand |-> None, prev |-> None, gated |-> FALSE ]

(* since: when the gate last let a run through, saw the registry fail or   *)
(* was first asked on this setting of the clock, or when a release last    *)
(* committed; attempt: the digest last let through, when, and how often in *)
(* a row to no avail; deferred, from: the release whose update waits for   *)
(* busy work, and since when; held: that release as long as no run began   *)
(* since it was held back; proved, provedAt: the release that committed    *)
(* last and when it was proved; jumps: bounds the clock's jumps.           *)
Attempt == [digest : Ref, at : Time, streak : 0 .. CountBound]

NoAttempt == [digest |-> None, at |-> 0, streak |-> 0]

Hist == [ since : Time \cup {None}, attempt : Attempt,
          deferred : Ref, from : Time, held : Ref,
          proved : Ref, provedAt : Time, jumps : 0 .. MaxJumps ]

Init ==
  /\ now = 0
  /\ stable \in Published
  /\ env \in Releases
  /\ poll = DefaultPoll
  /\ status = [release |-> env, outcome |-> "reconciled", at |-> 0]
  /\ pc = "idle"
  /\ run = NoRun
  /\ hist = [ since |-> 0, attempt |-> NoAttempt,
              deferred |-> None, from |-> 0, held |-> None,
              proved |-> env, provedAt |-> 0, jumps |-> 0 ]

-----------------------------------------------------------------------------
(* The record and the durations. *)

AtMost(x, y) == IF x <= y THEN x ELSE y
AtLeast(x, y) == IF x >= y THEN x ELSE y

(* backoff_seconds, without and with the registry's bounded Retry-After.   *)
Backoff(n) == AtMost(BackoffBase * 2 ^ n, BackoffCap)

RegistryBackoff(n, retryAfter) ==
  AtLeast(Backoff(n), AtMost(retryAfter, RetryAfterCap))

More(n) == AtMost(n + 1, CountBound)

(* Mutant of Plausible: a wait longer than any the code sets is believed.  *)
PlausibleWaits(p) == p.attemptedAt <= now /\ p.deferredSince <= now

(* A record from the future, or one that waits longer than the code ever   *)
(* does, was written under another setting of the clock.                   *)
Plausible(p) ==
  /\ p.attemptedAt <= now
  /\ p.deferredSince <= now
  /\ p.probeRetryAt <= now + RetryAfterCap
  /\ p.retryAt <= now + BackoffCap

ReadPoll == IF Plausible(poll) THEN poll ELSE DefaultPoll

(* Mutant of LastRepair: any record of the installed release counts.       *)
LastRecord ==
  IF status.release = env /\ status.at <= now THEN status.at ELSE None

LastRepair ==
  IF status.release = env /\ status.outcome = "reconciled" /\ status.at <= now
  THEN status.at ELSE None

RepairDue == LastRepair = None \/ now - LastRepair >= RepairEvery

(* What the gate holds after the registry answered: a success since the    *)
(* last attempt ends the backoff.                                          *)
Probed(p) ==
  LET q == IF env \in Developer THEN p
           ELSE [p EXCEPT !.probeFailures = 0, !.probeRetryAt = 0]
  IN  IF LastRepair # None /\ LastRepair >= q.attemptedAt
      THEN [q EXCEPT !.attempts = 0, !.retryAt = 0]
      ELSE q

(* Mutant of Attempting: the backoff is left for the end of the run.       *)
AttemptingLater(p, digest) ==
  [p EXCEPT !.attempted = digest, !.attemptedAt = now]

(* Mutant of Attempting: when it was made and when to retry are swapped.   *)
AttemptingSwapped(p, digest) ==
  LET n == IF digest = p.attempted THEN p.attempts ELSE 0
  IN  [p EXCEPT !.attempted = digest, !.attemptedAt = now + Backoff(n),
                !.attempts = More(n), !.retryAt = now]

Attempting(p, digest) ==
  LET n == IF digest = p.attempted THEN p.attempts ELSE 0
  IN  [p EXCEPT !.attempted = digest, !.attemptedAt = now,
                !.attempts = More(n), !.retryAt = now + Backoff(n)]

-----------------------------------------------------------------------------
(* The gate of a scheduled run. *)

(* An installed developer release never follows the channel: its own       *)
(* digest is the answer, and no registry is asked.                         *)
Digest == IF env \in Developer THEN env ELSE stable

Waiting == env \in Published /\ now < ReadPoll.probeRetryAt

(* A status dated later than now belongs to another setting of the clock.  *)
Seen  == IF status.at > now THEN None ELSE now
Asked == IF hist.since = None THEN Seen ELSE hist.since

GateWaits ==
  /\ pc = "idle"
  /\ Waiting
  /\ hist' = [hist EXCEPT !.since = Asked]
  /\ UNCHANGED <<now, stable, env, poll, status, pc, run>>

(* What a throttling registry asks for: nothing that can be read, which is *)
(* 0 here, or a delay, be it written in seconds or as a date.              *)
RetryAfter == 0 .. RetryAfterCap + 1

(* Throttled, with a Retry-After or none, or not available.                *)
GateProbeFails(retryAfter) ==
  /\ pc = "idle"
  /\ env \in Published /\ ~Waiting
  /\ LET p == ReadPoll
     IN  poll' = [p EXCEPT
                    !.probeRetryAt =
                      now + RegistryBackoff(p.probeFailures, retryAfter),
                    !.probeFailures = More(p.probeFailures)]
  /\ hist' = [hist EXCEPT !.since = Seen]
  /\ UNCHANGED <<now, stable, env, status, pc, run>>

UpToDate == Digest = env /\ ~RepairDue

BackingOff ==
  LET p == Probed(ReadPoll) IN Digest = p.attempted /\ now < p.retryAt

GateEnds ==
  /\ pc = "idle"
  /\ ~Waiting
  /\ UpToDate \/ BackingOff
  /\ poll' = Probed(ReadPoll)
  /\ hist' = [hist EXCEPT !.since = Asked]
  /\ UNCHANGED <<now, stable, env, status, pc, run>>

(* The same digest again, to no avail so far: a success dated as late as   *)
(* the attempt, or later by another setting of the clock, is taken for its *)
(* own.                                                                    *)
Retried ==
  Digest = hist.attempt.digest /\ hist.provedAt < hist.attempt.at

(* The attempt is recorded before it is made.                              *)
GatePasses ==
  /\ pc = "idle" /\ pc' = "resolve"
  /\ ~Waiting
  /\ ~UpToDate /\ ~BackingOff
  /\ poll' = Attempting(Probed(ReadPoll), Digest)
  /\ run' = [NoRun EXCEPT !.gated = TRUE]
  /\ hist' = [hist EXCEPT
                !.since = Seen, !.held = None,
                !.attempt = [digest |-> Digest, at |-> now,
                             streak |-> IF Retried THEN More(@.streak) ELSE 0]]
  /\ UNCHANGED <<now, stable, env, status>>

(* A run by hand or for a deploy request passes no gate.  A request is     *)
(* applied as a scheduled run, but of a developer release, which never     *)
(* waits for busy work: for this module the two are one.                   *)
StartUngated ==
  /\ pc = "idle" /\ pc' = "resolve"
  /\ run' = NoRun
  /\ hist' = [hist EXCEPT !.held = None]
  /\ UNCHANGED <<now, stable, env, poll, status>>

-----------------------------------------------------------------------------
(* The run that was let through. *)

(* The channel is resolved anew: it may have moved since the gate asked.   *)
Resolve(r) ==
  /\ pc = "resolve" /\ pc' = "defer"
  /\ r = Digest \/ (~run.gated /\ r \in Developer \cup {stable})
  /\ run' = [run EXCEPT !.cand = r]
  /\ UNCHANGED <<now, stable, env, poll, status, hist>>

MayDefer == run.gated /\ run.cand # env /\ run.cand \in Published

(* Mutant of Since: the wait starts over with every deferral.              *)
SinceNow == now

Since ==
  IF ReadPoll.deferred = run.cand THEN ReadPoll.deferredSince ELSE now

Limit(activity) == IF activity = "busy" THEN BusyDefer ELSE 0

(* Mutant of Deferring: the deferred attempt is left to back off.          *)
DeferringAttempted ==
  [ReadPoll EXCEPT !.deferred = run.cand, !.deferredSince = Since]

Deferring ==
  LET p == [ReadPoll EXCEPT !.deferred = run.cand, !.deferredSince = Since]
  IN  IF p.attempted = run.cand
      THEN [p EXCEPT !.attempts = 0, !.retryAt = 0] ELSE p

Defer(activity) ==
  /\ pc = "defer" /\ pc' = "idle"
  /\ MayDefer
  /\ now - Since < Limit(activity)
  /\ poll' = Deferring
  /\ run' = NoRun
  /\ hist' = [hist EXCEPT
                !.deferred = run.cand, !.held = run.cand,
                !.from = IF hist.deferred = run.cand THEN @ ELSE now,
                !.attempt = IF @.digest = run.cand THEN NoAttempt ELSE @]
  /\ UNCHANGED <<now, stable, env, status>>

GoAhead(activity) ==
  /\ pc = "defer" /\ pc' = "replace"
  /\ MayDefer
  /\ now - Since >= Limit(activity)
  /\ poll' = [ReadPoll EXCEPT !.deferred = None, !.deferredSince = 0]
  /\ hist' = [hist EXCEPT !.deferred = None, !.from = 0]
  /\ UNCHANGED <<now, stable, env, status, run>>

(* A repair, a developer release and a run by hand never wait.             *)
NoDeferral ==
  /\ pc = "defer" /\ pc' = "replace"
  /\ ~MayDefer
  /\ UNCHANGED <<now, stable, env, poll, status, run, hist>>

Replace ==
  /\ pc = "replace" /\ pc' = "commit"
  /\ env' = run.cand
  /\ run' = [run EXCEPT !.prev = env]
  /\ UNCHANGED <<now, stable, poll, status, hist>>

(* The candidate is proved, and the success is dated and recorded.         *)
Commit ==
  /\ pc = "commit" /\ pc' = "idle"
  /\ status' = [release |-> run.cand, outcome |-> "reconciled", at |-> now]
  /\ run' = NoRun
  /\ hist' = [hist EXCEPT !.since = IF @ = None THEN None ELSE now,
                          !.attempt = NoAttempt,
                          !.proved = run.cand, !.provedAt = now]
  /\ UNCHANGED <<now, stable, env, poll>>

(* The rollback's status record is written with its best effort only.      *)
RollBack ==
  /\ pc = "commit" /\ pc' = "idle"
  /\ env' = run.prev
  /\ status' \in {status, [release |-> run.cand, outcome |-> "rollback",
                           at |-> now]}
  /\ run' = NoRun
  /\ UNCHANGED <<now, stable, poll, hist>>

(* The run fails before it replaced anything, keeps the current Space, or  *)
(* its process dies wherever it is.                                        *)
RunEnds ==
  /\ pc # "idle" /\ pc' = "idle"
  /\ run' = NoRun
  /\ UNCHANGED <<now, stable, env, poll, status, hist>>

-----------------------------------------------------------------------------
(* What no run controls. *)

(* No step reads the clock between the gate and the deferral, or between   *)
(* the deferral and the end of the run: one place for time to pass is      *)
(* enough for each.                                                        *)
Tick ==
  /\ pc \in {"idle", "defer", "commit"}
  /\ now < MaxTime
  /\ now' = now + 1
  /\ UNCHANGED <<stable, env, poll, status, pc, run, hist>>

(* The clock is set back between runs; what an earlier setting promised is *)
(* void until the gate is asked again.                                     *)
ClockSetBack ==
  /\ pc = "idle"
  /\ hist.jumps < MaxJumps
  /\ \E t \in 0 .. now - 1 : now' = t
  /\ hist' = [hist EXCEPT !.since = None, !.attempt = NoAttempt,
                          !.deferred = None, !.from = 0, !.held = None,
                          !.jumps = @ + 1]
  /\ UNCHANGED <<stable, env, poll, status, pc, run>>

(* The channel is read by the gate and by the resolution only.             *)
Publish(r) ==
  /\ pc \in {"idle", "resolve"}
  /\ stable' = r
  /\ UNCHANGED <<now, env, poll, status, pc, run, hist>>

Gate ==
  \/ GateWaits
  \/ \E retryAfter \in RetryAfter : GateProbeFails(retryAfter)
  \/ GateEnds
  \/ GatePasses

(* What Team says of its work when it is asked inside its container; any   *)
(* failure to ask, and any other word, is unknown.                         *)
Activities == {"idle", "busy", "unknown"}

FullRun ==
  \/ \E r \in Releases : Resolve(r)
  \/ \E activity \in Activities : Defer(activity) \/ GoAhead(activity)
  \/ NoDeferral
  \/ Replace
  \/ Commit
  \/ RollBack
  \/ RunEnds

Next ==
  \/ Gate
  \/ StartUngated
  \/ FullRun
  \/ Tick
  \/ ClockSetBack
  \/ \E r \in Published : Publish(r)

Spec == Init /\ [][Next]_vars

-----------------------------------------------------------------------------
(* Properties. *)

(* Every variable keeps its shape. *)
TypeOK ==
  /\ now \in Time
  /\ stable \in Published
  /\ env \in Releases
  /\ poll \in Poll
  /\ status \in Status
  /\ pc \in {"idle", "resolve", "defer", "replace", "commit"}
  /\ run \in Run
  /\ hist \in Hist

(* Whatever failed, died or was dated by another clock, the gate ends runs *)
(* early for no longer than its longest wait: then it asks the registry    *)
(* again or lets a full run through (scheduled_gate, parse_state).         *)
LongestWait == AtLeast(RepairEvery, RetryAfterCap)

PollNeverWedges ==
  pc = "idle" /\ (Waiting \/ UpToDate \/ BackingOff) /\ hist.since # None
    => now - hist.since < LongestWait

(* A digest whose runs keep failing, or dying, is tried again only after   *)
(* the backoff of its attempts so far, never with every poll               *)
(* (scheduled_gate, which writes before the run).                          *)
NoHotLoop ==
  [][ pc = "idle" /\ pc' = "resolve" /\ run'.gated /\ Retried
        => now - hist.attempt.at >= Backoff(hist.attempt.streak) ]_vars

(* When the gate answers that there is no new release, the installed one   *)
(* is what committed last, proved within the repair period: never a        *)
(* release that was left half applied or rolled back (last_repair).        *)
CurrentIsProved ==
  pc = "idle" /\ ~Waiting /\ UpToDate
    => env = hist.proved /\ now - hist.provedAt < RepairEvery

(* Busy work holds one update back for a bounded time in all, however many *)
(* runs the wait takes; and while it does, the next poll tries it again at *)
(* once, instead of backing off as after a failure (defer_for_activity).   *)
DeferralBounded ==
  /\ pc = "defer" /\ MayDefer /\ hist.deferred = run.cand
        /\ now - hist.from >= BusyDefer
      => \A activity \in Activities : now - Since >= Limit(activity)
  /\ pc = "idle" /\ hist.held # None /\ Digest = hist.held => ~BackingOff
=============================================================================
