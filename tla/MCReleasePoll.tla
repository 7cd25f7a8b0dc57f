---------------------------- MODULE MCReleasePoll ----------------------------
(* A small instance of ReleasePoll for TLC. *)
EXTENDS ReleasePoll, TLC

CONSTANTS a, b, d

MCPublished == {a, b}
MCDeveloper == {d}
MCSymmetry  == Permutations(MCPublished)

(* Bound on what is combined.  Once the clock was set back nothing runs, or *)
(* is remembered, of the developer release: it is in the model for the      *)
(* order of the channel, a clock that jumps for the stored times, and       *)
(* neither reads the other.  With either, the clock stays short of MaxTime. *)
DeveloperInvolved ==
  Developer \cap { env, run.cand, run.prev, status.release, poll.attempted,
                   poll.deferred, hist.attempt.digest, hist.deferred,
                   hist.held, hist.proved } # {}

ClockOrDeveloper ==
  /\ hist.jumps = 0 \/ ~ DeveloperInvolved
  /\ hist.jumps > 0 \/ DeveloperInvolved => now < MaxTime
=============================================================================
