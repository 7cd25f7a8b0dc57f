-------------------------- MODULE ReleasePollProofs --------------------------
(***************************************************************************)
(* The pacing of scheduled runs, for any releases, durations and settings  *)
(* of the clock: the gate is never wedged and never hot, believes only     *)
(* what a run proved, and busy work delays an update for a bounded time.   *)
(***************************************************************************)
EXTENDS ReleasePoll, TLAPS

(* A success on record is the one that committed last.                     *)
Recorded ==
  status.outcome = "reconciled" =>
    status.release = hist.proved /\ status.at = hist.provedAt

(* On a setting of the clock the gate has seen, the record is believed and *)
(* waits no longer than it may from the gate's last look at the registry.  *)
Bounded ==
  hist.since # None =>
    /\ Plausible(poll)
    /\ hist.since <= now
    /\ poll.probeRetryAt <= hist.since + RetryAfterCap
    /\ poll.retryAt <= hist.since + BackoffCap
    /\ status.outcome = "reconciled" => status.at <= hist.since

(* The record remembers the deferred release from the first deferral on,   *)
(* and holds no attempt against it.                                        *)
HeldBack ==
  /\ hist.deferred # None =>
       /\ Plausible(poll)
       /\ poll.deferred = hist.deferred
       /\ poll.deferredSince <= hist.from
  /\ hist.held # None =>
       pc = "idle" /\ (poll.attempted # hist.held \/ poll.retryAt = 0)

(* An attempt to no avail so far is on record with its backoff.            *)
Counted ==
  hist.attempt.digest # None =>
    \/ hist.provedAt >= hist.attempt.at
    \/ /\ Plausible(poll)
       /\ poll.attempted = hist.attempt.digest
       /\ poll.attemptedAt = hist.attempt.at
       /\ poll.attempts >= More(hist.attempt.streak)
       /\ poll.retryAt >= hist.attempt.at + Backoff(hist.attempt.streak)

Running ==
  /\ pc \notin {"idle", "resolve"} => run.cand # None
  /\ pc = "commit" => run.prev # None

GInv == TypeOK /\ Recorded /\ Bounded /\ HeldBack /\ Counted /\ Running

-----------------------------------------------------------------------------
(* The durations.                                                          *)

LEMMA BackoffType ==
  ASSUME NEW n \in 0 .. CountBound PROVE Backoff(n) \in 0 .. BackoffCap
  <1>1. BackoffBase \in Nat /\ 2 ^ n \in Nat /\ BackoffCap \in Nat
    BY PollAssumption, PowerAssumption
  <1>2. BackoffBase * 2 ^ n \in Nat
    BY <1>1
  <1>3. QED BY <1>1, <1>2 DEF Backoff, AtMost

LEMMA BackoffGrows ==
  ASSUME NEW n \in 0 .. CountBound, NEW m \in 0 .. n
  PROVE  Backoff(m) <= Backoff(n)
  <1>1. CountBound \in Nat /\ m \in 0 .. CountBound /\ m \in Nat /\ n \in Nat
    BY PollAssumption
  <1>2. 2 ^ m \in Nat /\ 2 ^ n \in Nat /\ 2 ^ m <= 2 ^ n
    BY <1>1, PowerAssumption
  <1>3. ASSUME NEW b \in Nat, NEW x \in Nat, NEW y \in Nat, x <= y
        PROVE  b * x <= b * y
    BY <1>3
  <1>4. BackoffBase * 2 ^ m <= BackoffBase * 2 ^ n
    BY <1>2, <1>3, PollAssumption
  <1>5. BackoffBase * 2 ^ m \in Nat /\ BackoffBase * 2 ^ n \in Nat
    BY <1>2, PollAssumption
  <1>6. QED BY <1>4, <1>5, PollAssumption DEF Backoff, AtMost

LEMMA RegistryBackoffType ==
  ASSUME NEW n \in 0 .. CountBound, NEW retryAfter \in RetryAfter
  PROVE  RegistryBackoff(n, retryAfter) \in 0 .. RetryAfterCap
  <1>1. Backoff(n) \in 0 .. BackoffCap
    BY BackoffType
  <1>2. QED
    BY <1>1, PollAssumption DEF RegistryBackoff, AtLeast, AtMost, RetryAfter

LEMMA MoreType ==
  ASSUME NEW n \in 0 .. CountBound
  PROVE  More(n) \in 0 .. CountBound /\ More(n) >= n
  BY PollAssumption DEF More, AtMost

-----------------------------------------------------------------------------
(* The record.                                                             *)

LEMMA DefaultType ==
  ASSUME now \in Time
  PROVE  DefaultPoll \in Poll /\ Plausible(DefaultPoll)
  BY PollAssumption DEF DefaultPoll, Poll, Plausible, Time, Ref

LEMMA ReadType ==
  ASSUME TypeOK
  PROVE  /\ ReadPoll \in Poll /\ Plausible(ReadPoll)
         /\ Plausible(poll) => ReadPoll = poll
         /\ ReadPoll \in {poll, DefaultPoll}
  BY DefaultType DEF TypeOK, ReadPoll

(* Ending the backoff of the registry, or of the run, leaves the rest.     *)
LEMMA RegistryCleared ==
  ASSUME NEW p \in Poll,
         NEW c, c = [p EXCEPT !.probeFailures = 0, !.probeRetryAt = 0]
  PROVE  /\ c \in Poll /\ c.attempted = p.attempted
         /\ c.attemptedAt = p.attemptedAt /\ c.deferred = p.deferred
         /\ c.deferredSince = p.deferredSince
         /\ c.attempts = p.attempts /\ c.retryAt = p.retryAt
         /\ c.probeRetryAt = 0
  <1>1. 0 \in 0 .. CountBound /\ 0 \in Nat
    BY PollAssumption
  <1>2. QED BY <1>1 DEF Poll

LEMMA BackoffCleared ==
  ASSUME NEW p \in Poll,
         NEW c, c = [p EXCEPT !.attempts = 0, !.retryAt = 0]
  PROVE  /\ c \in Poll /\ c.attempted = p.attempted
         /\ c.attemptedAt = p.attemptedAt /\ c.deferred = p.deferred
         /\ c.deferredSince = p.deferredSince
         /\ c.attempts = 0 /\ c.retryAt = 0
         /\ c.probeRetryAt = p.probeRetryAt
  <1>1. 0 \in 0 .. CountBound /\ 0 \in Nat
    BY PollAssumption
  <1>2. QED BY <1>1 DEF Poll

LEMMA ProbedType ==
  ASSUME TypeOK, NEW p \in Poll, Plausible(p)
  PROVE  /\ Probed(p) \in Poll /\ Plausible(Probed(p))
         /\ Probed(p).attempted = p.attempted
         /\ Probed(p).attemptedAt = p.attemptedAt
         /\ Probed(p).deferred = p.deferred
         /\ Probed(p).deferredSince = p.deferredSince
         /\ Probed(p).probeRetryAt \in {0, p.probeRetryAt}
         /\ \/ Probed(p).attempts = p.attempts /\ Probed(p).retryAt = p.retryAt
            \/ /\ Probed(p).attempts = 0 /\ Probed(p).retryAt = 0
               /\ LastRepair # None /\ LastRepair >= p.attemptedAt
  <1> DEFINE q == IF env \in Developer THEN p
                  ELSE [p EXCEPT !.probeFailures = 0, !.probeRetryAt = 0]
             z == [q EXCEPT !.attempts = 0, !.retryAt = 0]
  <1>1. /\ q \in Poll /\ q.attempted = p.attempted
        /\ q.attemptedAt = p.attemptedAt /\ q.deferred = p.deferred
        /\ q.deferredSince = p.deferredSince /\ q.attempts = p.attempts
        /\ q.retryAt = p.retryAt /\ q.probeRetryAt \in {0, p.probeRetryAt}
    <2>1. CASE env \in Developer
      BY <2>1
    <2>2. CASE env \notin Developer
      <3>1. q = [p EXCEPT !.probeFailures = 0, !.probeRetryAt = 0]
        BY <2>2
      <3> HIDE DEF q
      <3>2. QED BY <3>1, RegistryCleared
    <2>3. QED BY <2>1, <2>2
  <1>2. /\ z \in Poll /\ z.attempted = q.attempted
        /\ z.attemptedAt = q.attemptedAt /\ z.deferred = q.deferred
        /\ z.deferredSince = q.deferredSince /\ z.attempts = 0
        /\ z.retryAt = 0 /\ z.probeRetryAt = q.probeRetryAt
    <2>1. z = [q EXCEPT !.attempts = 0, !.retryAt = 0]
      OBVIOUS
    <2> HIDE DEF q, z
    <2>2. QED BY <1>1, <2>1, BackoffCleared
  <1>3. Probed(p) = IF LastRepair # None /\ LastRepair >= q.attemptedAt
                    THEN z ELSE q
    BY DEF Probed
  <1> HIDE DEF q, z
  <1>4. now \in Time /\ RetryAfterCap \in Nat /\ BackoffCap \in Nat
    BY PollAssumption DEF TypeOK
  <1>5. QED
    BY <1>1, <1>2, <1>3, <1>4 DEF Plausible, Poll, Time

LEMMA AttemptingType ==
  ASSUME TypeOK, NEW p \in Poll, Plausible(p), NEW d \in Releases
  PROVE  LET a == Attempting(p, d)
             n == IF d = p.attempted THEN p.attempts ELSE 0
         IN  /\ a \in Poll /\ Plausible(a)
             /\ a.attempted = d /\ a.attemptedAt = now
             /\ a.attempts = More(n) /\ a.retryAt = now + Backoff(n)
             /\ a.deferred = p.deferred /\ a.deferredSince = p.deferredSince
             /\ a.probeRetryAt = p.probeRetryAt
  <1> DEFINE n == IF d = p.attempted THEN p.attempts ELSE 0
  <1>1. n \in 0 .. CountBound
    BY PollAssumption DEF Poll
  <1>2. Backoff(n) \in 0 .. BackoffCap /\ More(n) \in 0 .. CountBound
    BY <1>1, BackoffType, MoreType
  <1>3. Attempting(p, d) =
          [p EXCEPT !.attempted = d, !.attemptedAt = now,
                    !.attempts = More(n), !.retryAt = now + Backoff(n)]
    BY DEF Attempting
  <1> HIDE DEF n
  <1>4. /\ now \in Time /\ now \in Nat /\ d \in Ref
        /\ now + Backoff(n) \in Nat /\ now + Backoff(n) <= now + BackoffCap
    BY <1>2, PollAssumption DEF TypeOK, Ref, Time
  <1> DEFINE a == Attempting(p, d)
  <1>5. /\ a \in Poll
        /\ a.attempted = d /\ a.attemptedAt = now
        /\ a.attempts = More(n) /\ a.retryAt = now + Backoff(n)
        /\ a.deferred = p.deferred /\ a.deferredSince = p.deferredSince
        /\ a.probeRetryAt = p.probeRetryAt
    BY <1>2, <1>3, <1>4 DEF Poll
  <1>6. Plausible(a)
    <2> HIDE DEF a
    <2> QED BY <1>4, <1>5 DEF Plausible
  <1>7. QED BY <1>5, <1>6 DEF n

LEMMA LastRepairType ==
  ASSUME TypeOK
  PROVE  LastRepair # None =>
           /\ status.outcome = "reconciled" /\ status.release = env
           /\ LastRepair = status.at /\ status.at \in Time /\ status.at <= now
  BY DEF TypeOK, Status, LastRepair

-----------------------------------------------------------------------------
(* The invariant.                                                          *)

LEMMA Nothing == 0 \in Time /\ None \in Ref /\ NoAttempt \in Attempt
  BY PollAssumption DEF Time, Ref, NoAttempt, Attempt

LEMMA GInvInit == Init => GInv
  <1> SUFFICES ASSUME Init PROVE GInv
    OBVIOUS
  <1>1. TypeOK
    BY PollAssumption
    DEF Init, TypeOK, DefaultPoll, Poll, Status, NoRun, Run, Hist, NoAttempt,
        Attempt, Time, Ref, Releases
  <1>2. Recorded /\ Bounded
    BY PollAssumption
    DEF Init, Recorded, Bounded, Plausible, DefaultPoll, Time
  <1>3. HeldBack /\ Counted /\ Running
    BY DEF Init, HeldBack, Counted, Running, NoAttempt
  <1>4. QED BY <1>1, <1>2, <1>3 DEF GInv

(* What the gate may note of its own last look.                            *)
LEMMA Looked ==
  ASSUME GInv
  PROVE  /\ Seen \in Time \cup {None} /\ Asked \in Time \cup {None}
         /\ Seen # None => Seen = now
         /\ Asked # None => Asked <= now
         /\ Asked # None /\ hist.since # None => Asked = hist.since
         /\ Asked # None /\ hist.since = None => Asked = now
         /\ status.at <= now => Seen = now
         /\ Seen = None => status.at > now
  BY PollAssumption
  DEF GInv, TypeOK, Bounded, Seen, Asked, Hist, Status, Time

(* The gate waits for the registry, fails to ask it or ends the run early. *)
LEMMA GInvGateWaits ==
  ASSUME GInv, GateWaits PROVE GInv'
  <1>1. hist' = [hist EXCEPT !.since = Asked]
    BY DEF GateWaits
  <1>2. UNCHANGED <<now, stable, env, poll, status, pc, run>>
    BY DEF GateWaits
  <1>3. Plausible(poll)
    BY <1>2, PollAssumption
    DEF GateWaits, Waiting, ReadPoll, DefaultPoll, GInv, TypeOK, Time
  <1>4. poll.probeRetryAt > now
    BY <1>3 DEF GateWaits, Waiting, ReadPoll
  <1>5. TypeOK'
    BY <1>1, <1>2, Looked DEF GInv, TypeOK, Hist
  <1>6. Recorded' /\ HeldBack' /\ Counted' /\ Running'
    BY <1>1, <1>2
    DEF GInv, TypeOK, Hist, Recorded, HeldBack, Counted, Running, Plausible
  <1>7. Bounded'
    <2>1. hist'.since = Asked /\ Plausible(poll)'
      BY <1>1, <1>2, <1>3 DEF GInv, TypeOK, Hist, Plausible
    <2>2. CASE hist.since # None
      BY <1>2, <2>1, <2>2, Looked DEF GInv, Bounded
    <2>3. CASE hist.since = None
      <3>1. Asked # None => Asked = now /\ status.at <= now
        BY <2>3, Looked, PollAssumption
        DEF GInv, TypeOK, Seen, Asked, Status, Time
      <3>2. now \in Nat
        BY PollAssumption DEF GInv, TypeOK, Time
      <3>3. QED
        BY <1>2, <1>3, <2>1, <3>1, <3>2 DEF Bounded, Plausible
    <2>4. QED BY <2>2, <2>3
  <1>8. QED BY <1>5, <1>6, <1>7 DEF GInv

LEMMA GInvGateProbeFails ==
  ASSUME GInv, NEW retryAfter \in RetryAfter, GateProbeFails(retryAfter)
  PROVE  GInv'
  <1> DEFINE p == ReadPoll
             b == RegistryBackoff(p.probeFailures, retryAfter)
             m == More(p.probeFailures)
  <1>1. /\ p \in Poll /\ Plausible(p) /\ (Plausible(poll) => p = poll)
        /\ p.probeFailures \in 0 .. CountBound
        /\ (p = poll \/ p = DefaultPoll)
    BY ReadType DEF GInv, Poll
  <1>2. b \in 0 .. RetryAfterCap /\ m \in 0 .. CountBound
    BY <1>1, RegistryBackoffType, MoreType
  <1>3. /\ hist' = [hist EXCEPT !.since = Seen]
        /\ UNCHANGED <<now, stable, env, status, pc, run>>
        /\ poll' = [p EXCEPT !.probeRetryAt = now + b, !.probeFailures = m]
    BY DEF GateProbeFails
  <1> HIDE DEF p, b, m
  <1>4. /\ now \in Nat /\ now + b \in Nat /\ now + b <= now + RetryAfterCap
    BY <1>2, PollAssumption DEF GInv, TypeOK, Time
  <1>5. /\ poll' \in Poll /\ poll'.probeRetryAt = now + b
        /\ poll'.attempted = p.attempted /\ poll'.attemptedAt = p.attemptedAt
        /\ poll'.attempts = p.attempts /\ poll'.retryAt = p.retryAt
        /\ poll'.deferred = p.deferred
        /\ poll'.deferredSince = p.deferredSince
    BY <1>1, <1>2, <1>3, <1>4 DEF Poll
  <1>6. Plausible(poll)'
    BY <1>1, <1>3, <1>4, <1>5 DEF Plausible
  <1>7. TypeOK'
    BY <1>3, <1>5, Looked DEF GInv, TypeOK, Hist
  <1>8. Recorded' /\ HeldBack' /\ Counted' /\ Running'
    <2>1. hist.held # None =>
            poll'.attempted # hist.held \/ poll'.retryAt = 0
      <3>1. CASE p = poll
        BY <1>5, <3>1 DEF GInv, HeldBack
      <3>2. CASE p = DefaultPoll
        BY <1>5, <3>2 DEF DefaultPoll
      <3>3. QED BY <1>1, <3>1, <3>2
    <2>2. HeldBack'
      BY <1>1, <1>3, <1>5, <1>6, <2>1 DEF GInv, TypeOK, Hist, HeldBack
    <2>3. Recorded' /\ Running'
      BY <1>3 DEF GInv, TypeOK, Hist, Recorded, Running
    <2>4. Counted'
      BY <1>1, <1>3, <1>5, <1>6 DEF GInv, TypeOK, Hist, Counted
    <2>5. QED BY <2>2, <2>3, <2>4
  <1>9. Bounded'
    <2>1. hist'.since # None => hist'.since = now /\ status.at <= now
      BY <1>3, Looked, PollAssumption
      DEF GInv, TypeOK, Hist, Seen, Status, Time
    <2>2. p.retryAt <= now + BackoffCap
      BY <1>1 DEF Plausible
    <2>3. QED
      BY <1>3, <1>4, <1>5, <1>6, <2>1, <2>2 DEF Bounded
  <1>10. QED BY <1>7, <1>8, <1>9 DEF GInv

LEMMA GInvGateEnds ==
  ASSUME GInv, GateEnds PROVE GInv'
  <1> DEFINE p == ReadPoll
  <1>1. /\ p \in Poll /\ Plausible(p) /\ (Plausible(poll) => p = poll)
        /\ (p = poll \/ p = DefaultPoll)
    BY ReadType DEF GInv
  <1>2. /\ hist' = [hist EXCEPT !.since = Asked]
        /\ UNCHANGED <<now, stable, env, status, pc, run>>
        /\ poll' = Probed(p)
    BY DEF GateEnds
  <1> HIDE DEF p
  <1>3. /\ poll' \in Poll /\ Plausible(poll')
        /\ poll'.attempted = p.attempted /\ poll'.attemptedAt = p.attemptedAt
        /\ poll'.deferred = p.deferred
        /\ poll'.deferredSince = p.deferredSince
        /\ poll'.probeRetryAt \in {0, p.probeRetryAt}
        /\ \/ poll'.attempts = p.attempts /\ poll'.retryAt = p.retryAt
           \/ /\ poll'.attempts = 0 /\ poll'.retryAt = 0
              /\ LastRepair # None /\ LastRepair >= p.attemptedAt
    BY <1>1, <1>2, ProbedType DEF GInv
  <1>4. Plausible(poll)'
    BY <1>2, <1>3 DEF Plausible
  <1>5. TypeOK'
    BY <1>2, <1>3, Looked DEF GInv, TypeOK, Hist
  <1>6. Recorded' /\ HeldBack' /\ Running'
    <2>1. hist.held # None =>
            poll'.attempted # hist.held \/ poll'.retryAt = 0
      <3>1. CASE p = poll
        BY <1>3, <3>1 DEF GInv, HeldBack
      <3>2. CASE p = DefaultPoll
        BY <1>3, <3>2 DEF DefaultPoll
      <3>3. QED BY <1>1, <3>1, <3>2
    <2>2. HeldBack'
      BY <1>1, <1>2, <1>3, <1>4, <2>1 DEF GInv, TypeOK, Hist, HeldBack
    <2>3. QED
      BY <1>2, <2>2 DEF GInv, TypeOK, Hist, Recorded, Running
  <1>7. Bounded'
    <2>1. poll'.retryAt \in {0, p.retryAt} /\ poll'.retryAt \in Nat
      BY <1>3, PollAssumption DEF Poll
    <2>2. CASE hist.since # None
      BY <1>1, <1>2, <1>3, <1>4, <2>1, <2>2, Looked, PollAssumption
      DEF GInv, TypeOK, Hist, Poll, Status, Time, Bounded
    <2>3. CASE hist.since = None
      <3>1. hist'.since # None => hist'.since = now /\ status.at <= now
        BY <1>2, <2>3, Looked, PollAssumption
        DEF GInv, TypeOK, Hist, Seen, Asked, Status, Time
      <3>2. /\ p.retryAt <= now + BackoffCap /\ p.retryAt \in Nat
            /\ p.probeRetryAt <= now + RetryAfterCap /\ p.probeRetryAt \in Nat
            /\ now \in Nat
        BY <1>1 DEF Plausible, Poll, GInv, TypeOK, Time
      <3>3. QED
        BY <1>2, <1>3, <1>4, <2>1, <3>1, <3>2, PollAssumption DEF Bounded
    <2>4. QED BY <2>2, <2>3
  <1>8. Counted'
    <2>1. CASE poll'.attempts = p.attempts /\ poll'.retryAt = p.retryAt
      BY <1>1, <1>2, <1>3, <1>4, <2>1 DEF GInv, TypeOK, Hist, Counted
    <2>2. CASE LastRepair # None /\ LastRepair >= p.attemptedAt
      <3>1. hist.provedAt >= p.attemptedAt
        BY <2>2, LastRepairType DEF GInv, Recorded
      <3>2. QED
        BY <1>1, <1>2, <1>3, <3>1 DEF GInv, TypeOK, Hist, Counted
    <2>3. QED BY <1>3, <2>1, <2>2
  <1>9. QED BY <1>5, <1>6, <1>7, <1>8 DEF GInv

(* The gate lets a run through.                                            *)
LEMMA GInvGatePasses ==
  ASSUME GInv, GatePasses PROVE GInv'
  <1> DEFINE p == ReadPoll
             q == Probed(p)
             n == IF Digest = q.attempted THEN q.attempts ELSE 0
             streak == IF Retried THEN More(hist.attempt.streak) ELSE 0
             attempt == [digest |-> Digest, at |-> now, streak |-> streak]
  <1>1. Digest \in Releases
    BY DEF Digest, GInv, TypeOK, Releases
  <1>2. /\ p \in Poll /\ Plausible(p) /\ (Plausible(poll) => p = poll)
        /\ (p = poll \/ p = DefaultPoll)
    BY ReadType DEF GInv
  <1>3. /\ q \in Poll /\ Plausible(q)
        /\ q.attempted = p.attempted /\ q.attemptedAt = p.attemptedAt
        /\ q.deferred = p.deferred
        /\ q.deferredSince = p.deferredSince
        /\ q.probeRetryAt \in {0, p.probeRetryAt}
        /\ \/ q.attempts = p.attempts /\ q.retryAt = p.retryAt
           \/ /\ q.attempts = 0 /\ q.retryAt = 0
              /\ LastRepair # None /\ LastRepair >= p.attemptedAt
    <2> HIDE DEF p
    <2> QED BY <1>2, ProbedType DEF GInv
  <1>4. /\ poll' = Attempting(q, Digest)
        /\ run' = [NoRun EXCEPT !.gated = TRUE] /\ pc' = "resolve"
        /\ hist' = [hist EXCEPT !.since = Seen, !.held = None,
                                !.attempt = attempt]
        /\ UNCHANGED <<now, stable, env, status>>
    BY DEF GatePasses
  <1> HIDE DEF p, q
  <1>5. /\ poll' \in Poll /\ Plausible(poll')
        /\ poll'.attempted = Digest /\ poll'.attemptedAt = now
        /\ poll'.attempts = More(n) /\ poll'.retryAt = now + Backoff(n)
        /\ poll'.deferred = q.deferred
        /\ poll'.deferredSince = q.deferredSince
        /\ poll'.probeRetryAt = q.probeRetryAt
    BY <1>1, <1>3, <1>4, AttemptingType DEF GInv
  <1>6. Plausible(poll)'
    BY <1>4, <1>5 DEF Plausible
  <1>7. n \in 0 .. CountBound /\ Backoff(n) \in 0 .. BackoffCap
    BY <1>3, BackoffType, PollAssumption DEF Poll
  <1>8. streak \in 0 .. CountBound /\ attempt \in Attempt
    <2>1. hist.attempt.streak \in 0 .. CountBound
      BY DEF GInv, TypeOK, Hist, Attempt
    <2>2. streak \in 0 .. CountBound
      BY <2>1, MoreType, PollAssumption
    <2> HIDE DEF streak
    <2>3. QED BY <1>1, <2>2 DEF Attempt, Ref, GInv, TypeOK
  <1>9. /\ hist'.since = Seen /\ hist'.held = None
        /\ hist'.attempt = attempt /\ hist'.deferred = hist.deferred
        /\ hist'.from = hist.from /\ hist'.proved = hist.proved
        /\ hist'.provedAt = hist.provedAt /\ hist' \in Hist
    <2> HIDE DEF attempt
    <2> QED BY <1>4, <1>8, Looked DEF GInv, TypeOK, Hist, Ref
  <1>10. TypeOK'
    BY <1>4, <1>5, <1>9 DEF GInv, TypeOK, NoRun, Run, Ref
  <1>11. Recorded' /\ HeldBack' /\ Running'
    BY <1>2, <1>3, <1>4, <1>5, <1>6, <1>9
    DEF GInv, Recorded, HeldBack, Running, DefaultPoll
  <1>12. Bounded'
    <2>1. hist'.since # None => hist'.since = now /\ status.at <= now
      BY <1>9, Looked, PollAssumption DEF GInv, TypeOK, Seen, Status, Time
    <2>2. /\ p.probeRetryAt <= now + RetryAfterCap /\ p.probeRetryAt \in Nat
          /\ now \in Nat
      BY <1>2 DEF Plausible, Poll, GInv, TypeOK, Time
    <2>3. QED
      BY <1>3, <1>4, <1>5, <1>6, <1>7, <2>1, <2>2, PollAssumption DEF Bounded
  <1>13. Counted'
    <2>1. streak <= n
      <3>1. CASE ~Retried
        BY <1>7, <3>1
      <3>2. CASE Retried
        <4>1. /\ Plausible(poll) /\ poll.attempted = Digest
              /\ poll.attemptedAt = hist.attempt.at
              /\ poll.attempts >= More(hist.attempt.streak)
          BY <1>1, <3>2, PollAssumption
          DEF Retried, GInv, TypeOK, Hist, Attempt, Time, Counted
        <4>2. LastRepair # None => LastRepair < hist.attempt.at
          BY <3>2, LastRepairType, PollAssumption
          DEF Retried, GInv, Recorded, TypeOK, Hist, Attempt, Time
        <4>3. q.attempts = poll.attempts /\ Digest = q.attempted
          BY <1>2, <1>3, <4>1, <4>2, LastRepairType, PollAssumption
          DEF GInv, TypeOK, Hist, Attempt, Time
        <4>4. QED BY <3>2, <4>1, <4>3
      <3>3. QED BY <3>1, <3>2
    <2>2. More(streak) <= More(n) /\ Backoff(streak) <= Backoff(n)
      <3>1. streak \in 0 .. n
        BY <1>7, <1>8, <2>1
      <3>2. Backoff(streak) <= Backoff(n)
        <4> HIDE DEF streak, n
        <4> QED BY <1>7, <3>1, BackoffGrows
      <3>3. QED
        BY <1>7, <1>8, <3>1, <3>2, PollAssumption DEF More, AtMost
    <2>3. /\ hist'.attempt.digest = Digest /\ hist'.attempt.at = now
          /\ hist'.attempt.streak = streak
      BY <1>9
    <2>4. /\ Backoff(streak) \in Nat /\ Backoff(n) \in Nat /\ now \in Nat
      BY <1>7, <1>8, BackoffType, PollAssumption DEF GInv, TypeOK, Time
    <2> HIDE DEF streak, n, attempt
    <2>5. QED
      BY <1>5, <1>6, <2>2, <2>3, <2>4 DEF Counted
  <1>14. QED BY <1>10, <1>11, <1>12, <1>13 DEF GInv

(* A run that passed no gate. *)
LEMMA GInvStart ==
  ASSUME GInv, StartUngated PROVE GInv'
  <1>1. /\ pc' = "resolve" /\ run' = NoRun
        /\ hist' = [hist EXCEPT !.held = None]
        /\ UNCHANGED <<now, stable, env, poll, status>>
    BY DEF StartUngated
  <1>2. TypeOK'
    BY <1>1 DEF GInv, TypeOK, NoRun, Run, Ref, Hist
  <1>3. Recorded' /\ Bounded' /\ HeldBack' /\ Counted' /\ Running'
    BY <1>1
    DEF GInv, TypeOK, Hist, Recorded, Bounded, HeldBack, Counted, Running,
        Plausible
  <1>4. QED BY <1>2, <1>3 DEF GInv

-----------------------------------------------------------------------------
(* The run. *)

LEMMA GInvResolve ==
  ASSUME GInv, NEW r \in Releases, Resolve(r) PROVE GInv'
  <1>1. /\ pc = "resolve" /\ pc' = "defer" /\ run' = [run EXCEPT !.cand = r]
        /\ UNCHANGED <<now, stable, env, poll, status, hist>>
    BY DEF Resolve
  <1>2. run' \in Run /\ run'.cand = r /\ r # None
    BY <1>1, PollAssumption DEF GInv, TypeOK, Run, Ref
  <1>3. TypeOK'
    BY <1>1, <1>2 DEF GInv, TypeOK
  <1>4. Recorded' /\ Bounded' /\ HeldBack' /\ Counted' /\ Running'
    BY <1>1, <1>2
    DEF GInv, Recorded, Bounded, HeldBack, Counted, Running, Plausible
  <1>5. QED BY <1>3, <1>4 DEF GInv

(* The record a deferral leaves: one deferral and no attempt of it.        *)
LEMMA DeferringType ==
  ASSUME TypeOK, run.cand # None
  PROVE  /\ Deferring \in Poll /\ Plausible(Deferring)
         /\ Deferring.deferred = run.cand
         /\ Deferring.deferredSince = Since
         /\ Deferring.attempted = ReadPoll.attempted
         /\ Deferring.attemptedAt = ReadPoll.attemptedAt
         /\ Deferring.probeRetryAt = ReadPoll.probeRetryAt
         /\ Deferring.attempted = run.cand => Deferring.retryAt = 0
         /\ Deferring.attempted # run.cand =>
              /\ Deferring.attempts = ReadPoll.attempts
              /\ Deferring.retryAt = ReadPoll.retryAt
         /\ Deferring.retryAt \in {0, ReadPoll.retryAt}
         /\ Since \in Time /\ Since <= now
  <1> DEFINE p == ReadPoll
             q == [p EXCEPT !.deferred = run.cand, !.deferredSince = Since]
             z == [q EXCEPT !.attempts = 0, !.retryAt = 0]
  <1>1. p \in Poll /\ Plausible(p)
    BY ReadType
  <1>2. Since \in Time /\ Since <= now
    <2>1. Since = IF p.deferred = run.cand THEN p.deferredSince ELSE now
      BY DEF Since
    <2> HIDE DEF p
    <2>2. QED
      BY <1>1, <2>1, PollAssumption DEF Plausible, Poll, TypeOK, Time
  <1>3. Deferring = IF q.attempted = run.cand THEN z ELSE q
    BY DEF Deferring
  <1> HIDE DEF p
  <1>4. /\ q \in Poll /\ q.deferred = run.cand /\ q.deferredSince = Since
        /\ q.attempted = p.attempted /\ q.attemptedAt = p.attemptedAt
        /\ q.attempts = p.attempts /\ q.retryAt = p.retryAt
        /\ q.probeRetryAt = p.probeRetryAt
    BY <1>1, <1>2 DEF Poll, TypeOK, Run
  <1> HIDE DEF q
  <1>5. /\ z \in Poll /\ z.attempted = q.attempted
        /\ z.attemptedAt = q.attemptedAt /\ z.deferred = q.deferred
        /\ z.deferredSince = q.deferredSince /\ z.attempts = 0
        /\ z.retryAt = 0 /\ z.probeRetryAt = q.probeRetryAt
    <2>1. z = [q EXCEPT !.attempts = 0, !.retryAt = 0]
      OBVIOUS
    <2> HIDE DEF z
    <2>2. QED BY <1>4, <2>1, BackoffCleared
  <1> HIDE DEF z
  <1> DEFINE d == Deferring
  <1>6. /\ d \in Poll
        /\ d.deferred = run.cand /\ d.deferredSince = Since
        /\ d.attempted = p.attempted /\ d.attemptedAt = p.attemptedAt
        /\ d.probeRetryAt = p.probeRetryAt
        /\ d.attempted = run.cand => d.retryAt = 0
        /\ d.attempted # run.cand =>
              d.attempts = p.attempts /\ d.retryAt = p.retryAt
        /\ d.retryAt \in {0, p.retryAt}
    <2>1. CASE q.attempted = run.cand
      BY <1>3, <1>4, <1>5, <2>1
    <2>2. CASE q.attempted # run.cand
      BY <1>3, <1>4, <2>2
    <2>3. QED BY <2>1, <2>2
  <1>7. Plausible(d)
    <2>1. now \in Nat /\ RetryAfterCap \in Nat /\ BackoffCap \in Nat
      BY PollAssumption DEF TypeOK, Time
    <2> HIDE DEF d
    <2>2. QED BY <1>1, <1>2, <1>6, <2>1 DEF Plausible
  <1>8. QED BY <1>2, <1>6, <1>7 DEF p

LEMMA GInvDefer ==
  ASSUME GInv, NEW activity \in Activities, Defer(activity) PROVE GInv'
  <1> DEFINE p == ReadPoll
             d == Deferring
             from == IF hist.deferred = run.cand THEN hist.from ELSE now
             attempt == IF hist.attempt.digest = run.cand THEN NoAttempt
                        ELSE hist.attempt
  <1>1. run.cand # None /\ run.cand \in Releases
    BY DEF Defer, GInv, TypeOK, Run, Ref, Running
  <1>2. /\ p \in Poll /\ Plausible(p) /\ (Plausible(poll) => p = poll)
        /\ (p = poll \/ p = DefaultPoll)
    BY ReadType DEF GInv
  <1>3. /\ pc' = "idle" /\ poll' = d /\ run' = NoRun
        /\ hist' = [hist EXCEPT !.deferred = run.cand, !.held = run.cand,
                                !.from = from, !.attempt = attempt]
        /\ UNCHANGED <<now, stable, env, status>>
    BY DEF Defer
  <1>4. Since = IF p.deferred = run.cand THEN p.deferredSince ELSE now
    BY DEF Since
  <1> HIDE DEF p
  <1>5. /\ d \in Poll /\ Plausible(d)
        /\ d.deferred = run.cand /\ d.deferredSince = Since
        /\ d.attempted = p.attempted /\ d.attemptedAt = p.attemptedAt
        /\ d.probeRetryAt = p.probeRetryAt
        /\ d.attempted = run.cand => d.retryAt = 0
        /\ d.attempted # run.cand =>
              d.attempts = p.attempts /\ d.retryAt = p.retryAt
        /\ d.retryAt \in {0, p.retryAt}
        /\ Since \in Time /\ Since <= now
    BY <1>1, DeferringType DEF GInv, p
  <1> HIDE DEF d
  <1>6. from \in Time /\ attempt \in Attempt
    BY PollAssumption DEF GInv, TypeOK, Hist, NoAttempt, Attempt, Time, Ref
  <1> HIDE DEF from, attempt
  <1>7. /\ hist' \in Hist /\ hist'.since = hist.since
        /\ hist'.deferred = run.cand /\ hist'.held = run.cand
        /\ hist'.from = from /\ hist'.attempt = attempt
        /\ hist'.proved = hist.proved /\ hist'.provedAt = hist.provedAt
    BY <1>1, <1>3, <1>6 DEF GInv, TypeOK, Hist, Ref
  <1>8. Plausible(poll)'
    BY <1>3, <1>5 DEF Plausible
  <1>9. TypeOK'
    BY <1>3, <1>5, <1>7 DEF GInv, TypeOK, NoRun, Run, Ref
  <1>10. Recorded' /\ Running'
    BY <1>3, <1>7 DEF GInv, Recorded, Running
  <1>11. Bounded'
    BY <1>2, <1>3, <1>5, <1>7, <1>8, PollAssumption
    DEF GInv, TypeOK, Bounded, Hist, Poll, Time
  <1>12. HeldBack'
    <2>1. Since <= from
      BY <1>1, <1>2, <1>4, <1>5, PollAssumption
      DEF GInv, HeldBack, TypeOK, Hist, Time, from
    <2>2. QED BY <1>3, <1>5, <1>7, <1>8, <2>1 DEF HeldBack
  <1>13. Counted'
    <2>1. CASE attempt.digest = None
      BY <1>7, <2>1 DEF Counted
    <2>2. CASE attempt = hist.attempt /\ hist.attempt.digest # run.cand
      BY <1>2, <1>3, <1>5, <1>7, <1>8, <2>2 DEF GInv, Counted
    <2>3. QED BY <2>1, <2>2 DEF attempt, NoAttempt
  <1>14. QED BY <1>9, <1>10, <1>11, <1>12, <1>13 DEF GInv

LEMMA GInvGoAhead ==
  ASSUME GInv, NEW activity \in Activities, GoAhead(activity) PROVE GInv'
  <1> DEFINE p == ReadPoll
  <1>1. /\ p \in Poll /\ Plausible(p) /\ (Plausible(poll) => p = poll)
        /\ (p = poll \/ p = DefaultPoll)
    BY ReadType DEF GInv
  <1>2. /\ pc = "defer" /\ pc' = "replace"
        /\ poll' = [p EXCEPT !.deferred = None, !.deferredSince = 0]
        /\ hist' = [hist EXCEPT !.deferred = None, !.from = 0]
        /\ UNCHANGED <<now, stable, env, status, run>>
    BY DEF GoAhead
  <1> HIDE DEF p
  <1>3. /\ hist' \in Hist /\ hist'.since = hist.since
        /\ hist'.deferred = None /\ hist'.held = hist.held
        /\ hist'.attempt = hist.attempt
        /\ hist'.proved = hist.proved /\ hist'.provedAt = hist.provedAt
    BY <1>2, Nothing DEF GInv, TypeOK, Hist
  <1>4. /\ poll' \in Poll
        /\ poll'.attempted = p.attempted /\ poll'.attemptedAt = p.attemptedAt
        /\ poll'.attempts = p.attempts /\ poll'.retryAt = p.retryAt
        /\ poll'.probeRetryAt = p.probeRetryAt /\ poll'.deferredSince = 0
    BY <1>1, <1>2, Nothing DEF Poll
  <1>5. now \in Nat
    BY PollAssumption DEF GInv, TypeOK, Time
  <1>6. Plausible(poll)'
    BY <1>1, <1>2, <1>4, <1>5 DEF Plausible
  <1>7. TypeOK'
    BY <1>2, <1>3, <1>4 DEF GInv, TypeOK
  <1>8. Recorded' /\ HeldBack' /\ Running'
    BY <1>2, <1>3 DEF GInv, Recorded, HeldBack, Running
  <1>9. Bounded' /\ Counted'
    BY <1>1, <1>2, <1>3, <1>4, <1>6 DEF GInv, Bounded, Counted
  <1>10. QED BY <1>7, <1>8, <1>9 DEF GInv

LEMMA GInvRest ==
  ASSUME GInv, NoDeferral \/ Replace \/ Commit \/ RollBack \/ RunEnds
  PROVE  GInv'
  <1>1. CASE NoDeferral
    BY <1>1
    DEF NoDeferral, GInv, TypeOK, Recorded, Bounded, HeldBack, Counted,
        Running, Plausible
  <1>2. CASE Replace
    <2>1. run' \in Run /\ run'.prev = env /\ run'.cand = run.cand
      BY <1>2 DEF Replace, GInv, TypeOK, Run, Ref
    <2>2. run.cand \in Releases /\ env # None
      BY <1>2, PollAssumption DEF Replace, GInv, TypeOK, Run, Ref, Running
    <2>3. QED
      BY <1>2, <2>1, <2>2
      DEF Replace, GInv, TypeOK, Recorded, Bounded, HeldBack, Counted,
          Running, Plausible
  <1>3. CASE Commit
    <2>1. /\ pc = "commit" /\ pc' = "idle" /\ run' = NoRun
          /\ status' = [release |-> run.cand, outcome |-> "reconciled",
                        at |-> now]
          /\ UNCHANGED <<now, stable, env, poll>>
      BY <1>3 DEF Commit
    <2>2. run.cand \in Releases
      BY <2>1, PollAssumption DEF GInv, TypeOK, Run, Ref, Running
    <2>3. /\ hist' \in Hist /\ hist'.proved = run.cand
          /\ hist'.provedAt = now /\ hist'.attempt = NoAttempt
          /\ hist'.since = IF hist.since = None THEN None ELSE now
          /\ hist'.deferred = hist.deferred /\ hist'.from = hist.from
          /\ hist'.held = hist.held
      <3>1. /\ run.cand \in Ref /\ now \in Time
            /\ (IF hist.since = None THEN None ELSE now) \in Time \cup {None}
        BY <2>2 DEF GInv, TypeOK, Ref
      <3>2. hist' = [hist EXCEPT
                       !.since = IF hist.since = None THEN None ELSE now,
                       !.attempt = NoAttempt,
                       !.proved = run.cand, !.provedAt = now]
        BY <1>3 DEF Commit
      <3>3. QED BY <3>1, <3>2, Nothing DEF GInv, TypeOK, Hist
    <2>4. TypeOK'
      BY <2>1, <2>2, <2>3 DEF GInv, TypeOK, NoRun, Run, Ref, Status
    <2>5. Recorded' /\ Counted' /\ Running'
      BY <2>1, <2>3 DEF Recorded, Counted, Running, NoAttempt
    <2>6. HeldBack'
      BY <2>1, <2>3 DEF GInv, HeldBack, Plausible
    <2>7. Bounded'
      <3>1. now \in Nat /\ hist.since \in Nat \cup {None}
        BY PollAssumption DEF GInv, TypeOK, Hist, Time
      <3>2. QED
        BY <2>1, <2>3, <3>1, PollAssumption
        DEF GInv, TypeOK, Poll, Bounded, Plausible
    <2>8. QED BY <2>4, <2>5, <2>6, <2>7 DEF GInv
  <1>4. CASE RollBack
    <2>1. run.prev \in Releases /\ run.cand \in Releases
      BY <1>4, PollAssumption DEF RollBack, GInv, TypeOK, Run, Ref, Running
    <2>2. status' \in Status /\ (status' = status
                                \/ status'.outcome = "rollback")
      BY <1>4, <2>1 DEF RollBack, GInv, TypeOK, Status
    <2>3. TypeOK'
      BY <1>4, <2>1, <2>2 DEF RollBack, GInv, TypeOK, NoRun, Run, Ref
    <2>4. QED
      BY <1>4, <2>2, <2>3
      DEF RollBack, GInv, Recorded, Bounded, HeldBack, Counted, Running,
          Plausible
  <1>5. CASE RunEnds
    BY <1>5
    DEF RunEnds, GInv, TypeOK, NoRun, Run, Ref, Recorded, Bounded, HeldBack,
        Counted, Running, Plausible
  <1>6. QED BY <1>1, <1>2, <1>3, <1>4, <1>5

-----------------------------------------------------------------------------
(* What no run controls. *)

LEMMA GInvEnvironment ==
  ASSUME GInv, Tick \/ ClockSetBack \/ \E r \in Published : Publish(r)
  PROVE  GInv'
  <1>1. CASE Tick
    <2>1. /\ now \in Nat /\ now' = now + 1 /\ now' \in Time
          /\ UNCHANGED <<stable, env, poll, status, pc, run, hist>>
      BY <1>1, PollAssumption DEF Tick, GInv, TypeOK, Time
    <2>2. Plausible(poll) => Plausible(poll)'
      BY <2>1, PollAssumption DEF GInv, TypeOK, Poll, Time, Plausible
    <2>3. Bounded'
      BY <2>1, <2>2, PollAssumption DEF GInv, TypeOK, Hist, Time, Bounded
    <2>4. QED
      BY <2>1, <2>2, <2>3
      DEF GInv, TypeOK, Recorded, HeldBack, Counted, Running
  <1>2. CASE ClockSetBack
    <2>1. /\ now' \in Time /\ UNCHANGED <<stable, env, poll, status, pc, run>>
          /\ pc = "idle"
      BY <1>2, PollAssumption DEF ClockSetBack, GInv, TypeOK, Time
    <2>2. /\ hist' \in Hist /\ hist'.since = None
          /\ hist'.attempt = NoAttempt /\ hist'.deferred = None
          /\ hist'.held = None /\ hist'.proved = hist.proved
          /\ hist'.provedAt = hist.provedAt
      <3>1. hist.jumps + 1 \in 0 .. MaxJumps
        BY <1>2, PollAssumption DEF ClockSetBack, GInv, TypeOK, Hist
      <3>2. hist' = [hist EXCEPT !.since = None, !.attempt = NoAttempt,
                                 !.deferred = None, !.from = 0, !.held = None,
                                 !.jumps = hist.jumps + 1]
        BY <1>2 DEF ClockSetBack
      <3>3. QED BY <3>1, <3>2, Nothing DEF GInv, TypeOK, Hist
    <2>3. QED
      BY <2>1, <2>2
      DEF GInv, TypeOK, Recorded, Bounded, HeldBack, Counted, Running,
          NoAttempt
  <1>3. CASE \E r \in Published : Publish(r)
    BY <1>3
    DEF Publish, GInv, TypeOK, Recorded, Bounded, HeldBack, Counted, Running,
        Plausible
  <1>4. QED BY <1>1, <1>2, <1>3

LEMMA GInvInductive == GInv /\ [Next]_vars => GInv'
  <1> SUFFICES ASSUME GInv, [Next]_vars PROVE GInv'
    OBVIOUS
  <1>1. CASE UNCHANGED vars
    BY <1>1
    DEF vars, GInv, TypeOK, Recorded, Bounded, HeldBack, Counted, Running,
        Plausible
  <1>2. CASE Gate
    BY <1>2, GInvGateWaits, GInvGateProbeFails, GInvGateEnds, GInvGatePasses
    DEF Gate
  <1>3. CASE FullRun
    BY <1>3, GInvResolve, GInvDefer, GInvGoAhead, GInvRest DEF FullRun
  <1>4. QED
    BY <1>1, <1>2, <1>3, GInvStart, GInvEnvironment DEF Next

LEMMA GInvAlways == Spec => []GInv
  BY GInvInit, GInvInductive, PTL DEF Spec

-----------------------------------------------------------------------------
(* What it says. *)

(* Every variable keeps its shape, whatever the clock is set to: the       *)
(* counters stay within the code's cap and no time is negative             *)
(* (backoff_seconds, parse_state).                                         *)
THEOREM PollTypes == Spec => []TypeOK
  <1>1. GInv => TypeOK
    BY DEF GInv
  <1>2. QED BY <1>1, GInvAlways, PTL

(* The gate answers that there is no new release only of the release that  *)
(* committed last and was proved within the repair period (last_repair).   *)
THEOREM CurrentWasProved == Spec => []CurrentIsProved
  <1>1. GInv => CurrentIsProved
    <2> SUFFICES ASSUME GInv, UpToDate
                 PROVE  env = hist.proved /\ now - hist.provedAt < RepairEvery
      BY DEF CurrentIsProved
    <2>1. LastRepair # None /\ now - LastRepair < RepairEvery
      BY LastRepairType, PollAssumption
      DEF GInv, TypeOK, Time, UpToDate, RepairDue
    <2>2. QED BY <2>1, LastRepairType DEF GInv, Recorded
  <1>2. QED BY <1>1, GInvAlways, PTL

(* The gate never ends runs early for longer than its longest wait,        *)
(* whatever failed, died or was dated by another clock (scheduled_gate).   *)
THEOREM PollIsNeverWedged == Spec => []PollNeverWedges
  <1>1. GInv => PollNeverWedges
    <2> SUFFICES ASSUME GInv, Waiting \/ UpToDate \/ BackingOff,
                        hist.since # None
                 PROVE  now - hist.since < LongestWait
      BY DEF PollNeverWedges
    <2>1. /\ Plausible(poll) /\ hist.since <= now
          /\ poll.probeRetryAt <= hist.since + RetryAfterCap
          /\ poll.retryAt <= hist.since + BackoffCap
          /\ status.outcome = "reconciled" => status.at <= hist.since
      BY DEF GInv, Bounded
    <2>2. /\ now \in Nat /\ hist.since \in Nat /\ poll \in Poll
          /\ poll.probeRetryAt \in Nat /\ poll.retryAt \in Nat
          /\ LongestWait \in Nat /\ LongestWait >= RepairEvery
          /\ LongestWait >= RetryAfterCap /\ LongestWait >= BackoffCap
      BY PollAssumption
      DEF GInv, TypeOK, Hist, Time, Poll, LongestWait, AtLeast
    <2>3. ReadPoll = poll
      BY <2>1 DEF ReadPoll
    <2>4. CASE Waiting
      BY <2>1, <2>2, <2>3, <2>4, PollAssumption DEF Waiting
    <2>5. CASE UpToDate
      <3>1. /\ LastRepair # None /\ now - LastRepair < RepairEvery
        BY <2>5, LastRepairType, PollAssumption
        DEF GInv, TypeOK, Time, UpToDate, RepairDue
      <3>2. LastRepair \in Nat /\ LastRepair <= hist.since
        BY <2>1, <3>1, LastRepairType, PollAssumption DEF GInv, Time
      <3>3. QED BY <2>2, <3>1, <3>2, PollAssumption
    <2>6. CASE BackingOff
      <3>1. now < Probed(poll).retryAt
        BY <2>3, <2>6 DEF BackingOff
      <3>2. Probed(poll).retryAt \in {0, poll.retryAt}
        BY <2>1, <2>2, ProbedType DEF GInv
      <3>3. QED BY <2>1, <2>2, <3>1, <3>2, PollAssumption
    <2>7. QED BY <2>4, <2>5, <2>6
  <1>2. QED BY <1>1, GInvAlways, PTL

(* Busy work holds one update back for no longer than it may, however many *)
(* runs the wait takes, and leaves it no backoff (defer_for_activity).     *)
THEOREM DeferralIsBounded == Spec => []DeferralBounded
  <1>1. GInv => DeferralBounded
    <2> SUFFICES ASSUME GInv PROVE DeferralBounded
      OBVIOUS
    <2>1. ASSUME pc = "defer", hist.deferred = run.cand,
                 now - hist.from >= BusyDefer, NEW activity \in Activities
          PROVE  now - Since >= Limit(activity)
      <3>1. run.cand # None
        BY <2>1 DEF GInv, Running
      <3>2. /\ Plausible(poll) /\ poll.deferred = run.cand
            /\ poll.deferredSince <= hist.from
        BY <2>1, <3>1 DEF GInv, HeldBack
      <3>3. Since = poll.deferredSince
        BY <3>2 DEF Since, ReadPoll
      <3>4. /\ Since \in Nat /\ now \in Nat /\ hist.from \in Nat
            /\ Since <= hist.from
        BY <3>2, <3>3, PollAssumption DEF GInv, TypeOK, Poll, Hist, Time
      <3>5. Limit(activity) \in {0, BusyDefer}
        BY DEF Limit
      <3>6. QED BY <2>1, <3>4, <3>5, PollAssumption
    <2>2. ASSUME hist.held # None, Digest = hist.held PROVE ~BackingOff
      <3>1. /\ ReadPoll \in Poll /\ Plausible(ReadPoll)
            /\ ReadPoll = poll \/ ReadPoll = DefaultPoll
        BY ReadType DEF GInv
      <3>2. /\ Probed(ReadPoll).attempted = ReadPoll.attempted
            /\ Probed(ReadPoll).retryAt \in {0, ReadPoll.retryAt}
        BY <3>1, ProbedType DEF GInv
      <3>3. ReadPoll.attempted # hist.held \/ ReadPoll.retryAt = 0
        <4>1. CASE ReadPoll = poll
          BY <2>2, <4>1 DEF GInv, HeldBack
        <4>2. CASE ReadPoll = DefaultPoll
          BY <4>2 DEF DefaultPoll
        <4>3. QED BY <3>1, <4>1, <4>2
      <3>4. now \in Nat
        BY PollAssumption DEF GInv, TypeOK, Time
      <3>5. QED BY <2>2, <3>2, <3>3, <3>4 DEF BackingOff
    <2>3. QED BY <2>1, <2>2, Zenon DEF DeferralBounded
  <1>2. QED BY <1>1, GInvAlways, PTL

(* A digest whose runs keep failing or dying is let through again only     *)
(* after the backoff of its attempts so far (scheduled_gate, which writes  *)
(* the attempt before it is made).                                         *)
THEOREM NeverHot == Spec => NoHotLoop
  <1>1. ASSUME GInv, [Next]_vars,
               pc = "idle", pc' = "resolve", run'.gated, Retried
        PROVE  now - hist.attempt.at >= Backoff(hist.attempt.streak)
    <2>1. GatePasses
      BY <1>1
      DEF Next, Gate, GateWaits, GateProbeFails, GateEnds, StartUngated,
          NoRun, FullRun, Resolve, Defer, GoAhead, NoDeferral, Replace,
          Commit, RollBack, RunEnds, Tick, ClockSetBack, Publish, vars
    <2>2. /\ Digest = hist.attempt.digest /\ hist.provedAt < hist.attempt.at
          /\ hist.attempt.at \in Nat /\ hist.provedAt \in Nat
          /\ hist.attempt.streak \in 0 .. CountBound
          /\ hist.attempt.digest # None
      BY <1>1, PollAssumption
      DEF Retried, Digest, GInv, TypeOK, Hist, Attempt, Time, Releases
    <2>3. /\ Plausible(poll) /\ poll.attempted = Digest
          /\ poll.attemptedAt = hist.attempt.at
          /\ poll.retryAt >= hist.attempt.at + Backoff(hist.attempt.streak)
      BY <1>1, <2>2 DEF GInv, Counted
    <2>4. ReadPoll = poll /\ poll \in Poll
      BY <1>1, <2>3 DEF ReadPoll, GInv, TypeOK
    <2>5. LastRepair # None => LastRepair < hist.attempt.at
      BY <1>1, <2>2, LastRepairType DEF GInv, Recorded
    <2>6. /\ Probed(poll).attempted = Digest
          /\ Probed(poll).retryAt = poll.retryAt
      <3>1. ~(LastRepair # None /\ LastRepair >= poll.attemptedAt)
        <4>1. LastRepair # None => LastRepair \in Nat
          BY <1>1, LastRepairType, PollAssumption DEF GInv, Time
        <4>2. QED BY <2>2, <2>3, <2>5, <4>1
      <3>2. QED BY <1>1, <2>3, <2>4, <3>1, ProbedType DEF GInv
    <2>7. ~(now < poll.retryAt)
      BY <2>1, <2>4, <2>6 DEF GatePasses, BackingOff
    <2>8. /\ Backoff(hist.attempt.streak) \in Nat /\ now \in Nat
          /\ poll.retryAt \in Nat
      BY <1>1, <2>2, <2>4, BackoffType, PollAssumption
      DEF GInv, TypeOK, Time, Poll
    <2>9. QED BY <2>2, <2>3, <2>7, <2>8
  <1>2. QED
    BY <1>1, GInvAlways, PTL DEF Spec, NoHotLoop

=============================================================================
