------------------------------ MODULE Translation ------------------------------
(***************************************************************************)
(* The language pack of a Local snapshot.  Without a key the pack shows    *)
(* the English templates; with one, every message the memory cannot supply *)
(* is translated by a pool of workers that share a cursor and a stop flag. *)
(* A message gets a bounded number of answers and keeps each locale that   *)
(* an earlier answer already fit; the first refusal or failure stops new   *)
(* requests.  What was learned is remembered, one file per message, only   *)
(* after the complete pack was verified.                                   *)
(***************************************************************************)
EXTENDS FiniteSets, Naturals

CONSTANTS
  Messages,   \* the messages of the catalog are 1 .. Messages, in its order
  Locales,    \* LOCALES
  Threads,    \* the worker threads, WORKERS of them
  Attempts,   \* ATTEMPTS
  MaxStages   \* bound: stages made

Ids18n == 1 .. Messages

ASSUME TranslationAssumption ==
  /\ Messages \in Nat \ {0} /\ Attempts \in Nat \ {0}
  /\ Locales # {} /\ Threads # {}
  /\ MaxStages \in Nat

VARIABLES
  memory,  \* per message: the file of the translation memory
  job,     \* the stage in progress
  thread   \* its worker threads

translationVars == <<memory, job, thread>>

(* A file holds admissible texts, or one that is corrupt or no longer fits *)
(* the declaration of its message, or is missing.                          *)
Remembered == {"fit", "unfit", "none"}

(* texts: the messages with a text in every locale; refused: those no      *)
(* attempt translated; next: how many pending messages were claimed.       *)
Job == [ phase : {"idle", "work", "assemble", "verify", "remember"},
         stages : 0 .. MaxStages, pending : SUBSET Ids18n,
         next : 0 .. Messages, stop : BOOLEAN, texts : SUBSET Ids18n,
         learned : SUBSET Ids18n, refused : SUBSET Ids18n, failed : BOOLEAN,
         proved : BOOLEAN ]

Rest(stages) ==
  [ phase |-> "idle", stages |-> stages, pending |-> {}, next |-> 0,
    stop |-> FALSE, texts |-> {}, learned |-> {}, refused |-> {},
    failed |-> FALSE, proved |-> FALSE ]

Thread == [ pc : {"claim", "ask", "wait", "ended"}, message : 0 .. Messages,
            attempt : 0 .. Attempts, admitted : SUBSET Locales ]

Ended18n == [pc |-> "ended", message |-> 0, attempt |-> 0, admitted |-> {}]

TranslationInit ==
  /\ memory \in [Ids18n -> Remembered]
  /\ job = Rest(0)
  /\ thread = [t \in Threads |-> Ended18n]

-----------------------------------------------------------------------------
(* pack: with a key, or without. *)

(* The key file is missing: English everywhere.  One that is unsafe or     *)
(* malformed fails the stage instead.                                      *)
StageWithoutKey ==
  /\ job.phase = "idle" /\ job.stages < MaxStages
  /\ job' = Rest(job.stages + 1)
  /\ UNCHANGED <<memory, thread>>

Admissible(m) == memory[m] = "fit"

StageWithKey ==
  /\ job.phase = "idle" /\ job.stages < MaxStages
  /\ LET pending == {m \in Ids18n : ~Admissible(m)}
     IN  job' = [Rest(job.stages + 1) EXCEPT
                   !.phase = "work", !.pending = pending,
                   !.texts = Ids18n \ pending]
  /\ thread' = [t \in Threads |-> [Ended18n EXCEPT !.pc = "claim"]]
  /\ UNCHANGED memory

-----------------------------------------------------------------------------
(* The workers. *)

Becomes(t, record) == thread' = [thread EXCEPT ![t] = record]

(* The n-th pending message in the order of the catalog. *)
IsPending(m, n) ==
  m \in job.pending /\ Cardinality({k \in job.pending : k <= m}) = n

(* The flag is read before a message is claimed ... *)
Claim(t) ==
  /\ thread[t].pc = "claim" /\ ~job.stop
  /\ \E m \in Ids18n :
       /\ IsPending(m, job.next + 1)
       /\ job' = [job EXCEPT !.next = @ + 1]
       /\ Becomes(t, [Ended18n EXCEPT !.pc = "ask", !.message = m])
  /\ UNCHANGED memory

(* Mutant of ThreadEnds: what is not there is counted as claimed. *)
ThreadEndsCounting(t) ==
  /\ thread[t].pc = "claim"
  /\ \A m \in Ids18n : ~IsPending(m, job.next + 1)
  /\ Becomes(t, Ended18n)
  /\ job' = [job EXCEPT !.next = @ + 1]
  /\ UNCHANGED memory

ThreadEnds(t) ==
  /\ thread[t].pc = "claim"
  /\ job.stop \/ \A m \in Ids18n : ~IsPending(m, job.next + 1)
  /\ Becomes(t, Ended18n)
  /\ UNCHANGED <<memory, job>>

(* ... and before each attempt; what runs by then is not recalled. *)
Ask(t) ==
  /\ thread[t].pc = "ask"
  /\ IF job.stop THEN Becomes(t, Ended18n)
                 ELSE Becomes(t, [thread[t] EXCEPT !.pc = "wait"])
  /\ UNCHANGED <<memory, job>>

Kept(t, fits) == thread[t].admitted \cup fits

(* Mutant of Translated: the message is remembered before the pack is verified. *)
TranslatedForGood(t, fits) ==
  /\ thread[t].pc = "wait"
  /\ Kept(t, fits) = Locales
  /\ job' = [job EXCEPT !.learned = @ \cup {thread[t].message}]
  /\ Becomes(t, [Ended18n EXCEPT !.pc = "claim"])
  /\ memory' = [memory EXCEPT ![thread[t].message] = "fit"]

(* A message whose every locale fits is translated and the next is claimed.*)
Translated(t, fits) ==
  /\ thread[t].pc = "wait"
  /\ Kept(t, fits) = Locales
  /\ job' = [job EXCEPT !.learned = @ \cup {thread[t].message}]
  /\ Becomes(t, [Ended18n EXCEPT !.pc = "claim"])
  /\ UNCHANGED memory

(* Mutant of Retry: such an answer does not count as an attempt. *)
RetryUncounted(t, fits) ==
  /\ thread[t].pc = "wait"
  /\ Kept(t, fits) # Locales
  /\ Becomes(t, [thread[t] EXCEPT !.pc = "ask", !.admitted = Kept(t, fits)])
  /\ UNCHANGED <<memory, job>>

(* A complete answer with some locale still refused, or a malformed one,   *)
(* which fits none: the next attempt asks a tighter budget.                *)
Retry(t, fits) ==
  /\ thread[t].pc = "wait"
  /\ Kept(t, fits) # Locales
  /\ thread[t].attempt + 1 < Attempts
  /\ Becomes(t, [thread[t] EXCEPT !.pc = "ask", !.attempt = @ + 1,
                                  !.admitted = Kept(t, fits)])
  /\ UNCHANGED <<memory, job>>

(* Mutant of GivenUp: the workers stop, and the message is forgotten. *)
GivenUpSilently(m) == [job EXCEPT !.stop = TRUE]

GivenUp(m) == [job EXCEPT !.stop = TRUE, !.refused = @ \cup {m}]

Refused(t, fits) ==
  /\ thread[t].pc = "wait"
  /\ Kept(t, fits) # Locales
  /\ thread[t].attempt + 1 = Attempts
  /\ job' = GivenUp(thread[t].message)
  /\ Becomes(t, [Ended18n EXCEPT !.pc = "claim"])
  /\ UNCHANGED memory

(* The key is refused, requests are limited or the provider is away. *)
ProviderFails(t) ==
  /\ thread[t].pc = "wait"
  /\ job' = [job EXCEPT !.stop = TRUE, !.failed = TRUE]
  /\ Becomes(t, [Ended18n EXCEPT !.pc = "claim"])
  /\ UNCHANGED memory

-----------------------------------------------------------------------------
(* The pack and the memory. *)

AllEnded == \A t \in Threads : thread[t].pc = "ended"

Stops == job' = Rest(job.stages)

Join ==
  /\ job.phase = "work" /\ AllEnded
  /\ IF job.failed \/ job.refused # {}
     THEN Stops
     ELSE job' = [job EXCEPT !.phase = "assemble",
                             !.texts = @ \cup job.learned]
  /\ UNCHANGED <<memory, thread>>

(* A pack that lacks a text of a message is invalid. *)
Assemble ==
  /\ job.phase = "assemble"
  /\ IF job.texts = Ids18n THEN job' = [job EXCEPT !.phase = "verify"]
                         ELSE Stops
  /\ UNCHANGED <<memory, thread>>

(* The reference validator of the pinned SDK has the last word. *)
VerifyPack ==
  /\ job.phase = "verify"
  /\ job' = [job EXCEPT !.phase = "remember", !.proved = TRUE]
  /\ UNCHANGED <<memory, thread>>

VerifyFails ==
  /\ job.phase = "verify"
  /\ Stops
  /\ UNCHANGED <<memory, thread>>

(* Each file is replaced atomically; the pack is staged after the last.    *)
Put(m) ==
  /\ job.phase = "remember" /\ m \in job.learned
  /\ \A n \in job.learned : m <= n
  /\ memory' = [memory EXCEPT ![m] = "fit"]
  /\ job' = [job EXCEPT !.learned = @ \ {m}]
  /\ UNCHANGED thread

PutFails ==
  /\ job.phase = "remember" /\ job.learned # {}
  /\ Stops
  /\ UNCHANGED <<memory, thread>>

PackReady ==
  /\ job.phase = "remember" /\ job.learned = {}
  /\ Stops
  /\ UNCHANGED <<memory, thread>>

(* The command is killed. *)
StageKilled ==
  /\ job.phase # "idle"
  /\ Stops
  /\ thread' = [t \in Threads |-> Ended18n]
  /\ UNCHANGED memory

(* The messages are declared anew, or a file is lost or damaged. *)
Forget(m, file) ==
  /\ job.phase = "idle" /\ memory[m] = "fit"
  /\ memory' = [memory EXCEPT ![m] = file]
  /\ UNCHANGED <<job, thread>>

ThreadStep(t) ==
  \/ Claim(t) \/ ThreadEnds(t) \/ Ask(t)
  \/ \E fits \in SUBSET Locales :
       Translated(t, fits) \/ Retry(t, fits) \/ Refused(t, fits)
  \/ ProviderFails(t)

PackStep ==
  \/ Join \/ Assemble \/ VerifyPack \/ VerifyFails
  \/ \E m \in Ids18n : Put(m)
  \/ PutFails \/ PackReady

TranslationNext ==
  \/ StageWithoutKey \/ StageWithKey
  \/ \E t \in Threads : ThreadStep(t)
  \/ PackStep
  \/ StageKilled
  \/ \E m \in Ids18n, file \in {"unfit", "none"} : Forget(m, file)

(* Threads run, the provider answers or its request times out. *)
TranslationFairness ==
  /\ \A t \in Threads : WF_translationVars(ThreadStep(t))
  /\ WF_translationVars(PackStep)

-----------------------------------------------------------------------------
(* Properties. *)

(* Every variable keeps its shape. *)
TranslationTypeOK ==
  /\ memory \in [Ids18n -> Remembered]
  /\ job \in Job
  /\ thread \in [Threads -> Thread]

(* Workers that stopped without an answer never leave a gap: when neither  *)
(* a failure nor a refusal is reported, every message has its texts        *)
(* (translate_pending, whose cancelled workers report nothing).  And        *)
(* nothing enters the memory but translations of a complete pack that the  *)
(* SDK verified: a failed or killed stage teaches it nothing (translate).  *)
PackProved ==
  /\ [](job.phase = "assemble" => job.texts = Ids18n)
  /\ [][ \A m \in Ids18n :
           memory'[m] = "fit" /\ memory[m] # "fit" =>
             job.proved /\ job.texts = Ids18n ]_translationVars

(* A stage with a key that has not ended.                                  *)
TranslationRuns == job.phase # "idle"
=============================================================================
