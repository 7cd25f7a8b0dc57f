---------------------------- MODULE AtomicApply -----------------------------
(***************************************************************************)
(* What the lifecycle promises of the release of a Space: it is replaced   *)
(* whole, by a release that proved healthy here, or not at all.  The one   *)
(* exception is torn: a run that dies while it writes the live records     *)
(* leaves whichever release it was writing, and says nothing of it.        *)
(***************************************************************************)
CONSTANTS Releases, None

VARIABLES
  release,   \* the release the Space is configured for
  proved,    \* the releases that proved healthy in this Space
  whole      \* whether the live records are known to be of one apply

vars == <<release, proved, whole>>

Init == release = None /\ proved = {} /\ whole = TRUE

Prove(r) ==
  /\ proved' = proved \cup {r}
  /\ UNCHANGED <<release, whole>>

Replace(r) ==
  /\ r \in proved
  /\ release' = r
  /\ whole' = TRUE
  /\ UNCHANGED proved

Tear ==
  /\ release' \in Releases \cup {None}
  /\ whole' = FALSE
  /\ UNCHANGED proved

(* A removal takes the release away first and forgets the Space last.      *)
Withdraw ==
  /\ release' = None
  /\ UNCHANGED <<proved, whole>>

Forget ==
  /\ release' = None
  /\ proved' = {}
  /\ whole' = TRUE

Next ==
  \/ \E r \in Releases : Prove(r) \/ Replace(r)
  \/ Tear
  \/ Withdraw
  \/ Forget

Spec == Init /\ [][Next]_vars
=============================================================================
