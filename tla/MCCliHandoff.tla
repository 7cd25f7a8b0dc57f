----------------------------- MODULE MCCliHandoff -----------------------------
(***************************************************************************)
(* Small instances of CliHandoff: the published release a, the developer   *)
(* release d, and room for one orphan beside the run; or two published     *)
(* releases, a before b.                                                   *)
(***************************************************************************)
EXTENDS CliHandoff, TLC

CONSTANTS a, b, d, w1, w2

MCReleases  == {a, d}
MCDeveloper == {d}
MCPublished == {a, b}
MCNone      == {}
MCOrdinal   == [r \in Releases |-> IF r = b THEN 2 ELSE 1]
MCOneWorker == {w1}
MCWorkers   == {w1, w2}
MCOther     == {Other}

Symmetry == Permutations(MCWorkers)

(* Bound: beside an orphan only the managed CLI runs.  A run of any other   *)
(* clears hist.settled, and meets an orphan as the managed one does.        *)
OrphanBesideManaged ==
  (\E w \in Workers : work[w].owner = "orphan")
    => run.inside \/ run.pc = "idle"

(* Bound: a second death where nothing was requested and no worker was      *)
(* left an orphan, which is where the recoveries of the CLI are alone.      *)
SecondDeathAlone ==
  hist.deaths = 2 =>
    deploy.issued = 0 /\ \A w \in Workers : work[w].owner # "orphan"
=============================================================================
