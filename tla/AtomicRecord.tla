---------------------------- MODULE AtomicRecord ----------------------------
(***************************************************************************)
(* What a private record promises (src/private_file.rs): one call at a time *)
(* gives it a value.  Whoever reads it, and whatever a loss of power leaves, *)
(* sees a value that some call gave it and never a part of one; and a call   *)
(* that changed it and is answered has made its value the only one that a    *)
(* loss of power can leave, unless it is a lax one.                         *)
(***************************************************************************)
EXTENDS FiniteSets

CONSTANT Contents \* what the record may hold, its absence included

VARIABLES
  value, \* what is read
  safe,  \* what a loss of power may leave
  call   \* the call, or the reply to the last one

record == <<value, safe, call>>

Quiet(reply) == [busy |-> FALSE, reply |-> reply]
Calls == [busy : {TRUE}, want : Contents, lax : BOOLEAN, changed : BOOLEAN]
           \cup {Quiet(reply) : reply \in {"none", "ok", "error"}}

Init ==
  /\ value \in Contents /\ safe = {value}
  /\ call = Quiet("none")

Ask ==
  /\ ~call.busy /\ call'.busy /\ ~call'.changed /\ call' \in Calls
  /\ UNCHANGED <<value, safe>>

Change ==
  /\ call.busy
  /\ value' = call.want /\ safe' = safe \cup {call.want}
  /\ call' = [call EXCEPT !.changed = TRUE]

(* What is read reached the disk.                                          *)
Harden ==
  /\ safe' = {value}
  /\ UNCHANGED <<value, call>>

Answer ==
  /\ call.busy /\ value = call.want
  /\ safe' = {value} \/ (safe' = safe /\ (call.lax \/ ~call.changed))
  /\ call' = Quiet("ok")
  /\ UNCHANGED value

Break ==
  /\ call.busy /\ call' = Quiet("error")
  /\ UNCHANGED <<value, safe>>

PowerLost ==
  /\ value' \in safe /\ safe' = {value'}
  /\ call' = Quiet("none")

Next == Harden \/ Ask \/ Change \/ Answer \/ Break \/ PowerLost

Spec == Init /\ [][Next]_record
=============================================================================
