-------------------------- MODULE MCSpaceLifecycle --------------------------
(***************************************************************************)
(* Small instances of SpaceLifecycle.  The published releases a and b are  *)
(* a step forward of the channel that also changes the stored format of    *)
(* the runtime state; the developer release d has the format of a.         *)
(***************************************************************************)
EXTENDS SpaceLifecycle

CONSTANTS a, b, d

MCPublished == {a, b}
MCReturn    == {a, d}
MCDeveloper == {d}
MCNobody    == {}
MCOrdinal   == [r \in Releases |-> IF r = a THEN 1 ELSE IF r = b THEN 2 ELSE 0]
MCEpoch     == [r \in Releases |-> IF r = b THEN 2 ELSE 1]
=============================================================================
