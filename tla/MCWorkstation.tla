----------------------------- MODULE MCWorkstation -----------------------------
(***************************************************************************)
(* Small instances of LocalSnapshots, Translation, Conversation,           *)
(* Invocation and BoundedCall: a stage and an unstage of two projects, two  *)
(* translating threads, an Action's process, its calls to two providers,    *)
(* and a host command; and of SpaceLifecycle, whose runs wait for such      *)
(* commands, with one release and an encrypted pool.  What they keep is     *)
(* disjoint; each is checked in its own part of the state graph.            *)
(***************************************************************************)
EXTENDS LocalSnapshots, Translation, Conversation, Invocation, BoundedCall

CONSTANTS c1, c2, b1, b2, t1, t2, de, fr

MCCommands  == {c1, c2}
MCUnstaging == {c2}
MCBuilds    == {b1, b2}
MCLockFile  == [c \in Commands |-> c]
MCThreads   == {t1, t2}
MCLocales   == {de, fr}

(* The parts of a query: a listed value, another one, the name in another  *)
(* case or encoded, a parameter nobody selects, a second one behind a ;.   *)
Part(raw, name, fold, plain, value, after) ==
  [ raw |-> raw, name |-> name, fold |-> fold,
    plain |-> plain, value |-> value, after |-> after ]

Listed == Part("fields", "fields", "fields", TRUE, "ok", NoId)

MCParts ==
  { Listed,
    Part("fields", "fields", "fields", TRUE, "bad", NoId),
    Part("FIELDS", "FIELDS", "fields", TRUE, "bad", NoId),
    Part("%66ields", "fields", "fields", FALSE, "bad", NoId),
    Part("page", "page", "page", TRUE, "ok", NoId),
    Part("from", "from", "from", TRUE, "ok", NoId),
    Part("from", "from", "from", TRUE, "ok", [fold |-> "fields", value |-> "bad"]) }

MCQueries == {<<>>} \cup {<<p>> : p \in MCParts} \cup {<<Listed, p>> : p \in MCParts}

Call(host, method, path, query, names, formed) ==
  [ host |-> host, method |-> method, path |-> path,
    query |-> query, names |-> names, formed |-> formed ]

MCCalls ==
  { Call("a", m, p, <<Listed>>, {}, TRUE) : m \in {"GET", "POST"},
      p \in {<<"zones">>, <<"zones", "id">>, <<"zones", "token">>, <<"zones", "%2e">>} }
  \cup { Call("a", "GET", <<"zones", "id">>, q, {}, TRUE) : q \in MCQueries }
  \cup { Call("b", m, p, <<>>, {}, TRUE) : m \in {"GET", "POST"},
            p \in {<<"zones">>, <<"zones", "id">>} }
  \cup { Call("other", "GET", <<"zones">>, <<>>, {}, TRUE),
          Call("a", "GET", <<"zones", "id">>, <<Listed>>, {"authorization"}, TRUE),
          Call("a", "GET", <<"zones", "id">>, <<Listed>>, {}, FALSE) }

(* key is a header of host a for GET /zones/* with fields=ok; proof is     *)
(* signed with key and placed in the query parameter page.                 *)
MCPlacement == [s \in StoredInputs |->
  IF s = "key"
    THEN [ host |-> "a", field |-> "authorization", query |-> FALSE, hmac |-> NoId,
           routes |-> << [ method |-> "GET", path |-> <<"zones", "*">>,
             query |-> <<[raw |-> "fields", fold |-> "fields", values |-> {"ok"}]>> ] >> ]
    ELSE [ host |-> "a", field |-> "page", query |-> TRUE, hmac |-> "key",
           routes |-> << [method |-> "GET", path |-> <<"zones", "*">>, query |-> <<>>],
                         [method |-> "POST", path |-> <<"zones">>, query |-> <<>>] >> ]]

MCIntegration ==
  [ host |-> "b", routes |-> { [method |-> "GET", path |-> <<"zones", ROUTE_ID>>],
                               [method |-> "POST", path |-> <<"zones">>] } ]

CONSTANTS release, None

VARIABLES disk, host, pc, run, hist, part

spaceVars == <<disk, host, pc, run, hist>>

Space == INSTANCE SpaceLifecycle WITH
  Releases <- {release}, Developer <- {}, Ordinal <- [r \in {release} |-> 1],
  Epoch <- [r \in {release} |-> 1], Encrypted <- TRUE, ScopedReset <- TRUE

Init ==
  /\ SnapshotInit /\ TranslationInit /\ ConversationInit /\ InvocationInit /\ CallInit
  /\ Space!Init
  /\ part \in {"snapshots", "translation", "conversation", "invocation", "call", "space"}
  /\ part # "translation" => \A m \in Ids18n : memory[m] = "none"
  /\ part # "conversation" => script.wants = "exit" /\ script.status = "ok"
  /\ part # "invocation" =>
       action = [ stored |-> {}, integration |-> FALSE,
                  token |-> FALSE, asks |-> "nothing" ]
  /\ part # "call" => call.mode = "quiet" /\ ~proc.group

Others(name) ==
  /\ UNCHANGED part
  /\ name = "snapshots"    \/ UNCHANGED snapshotVars
  /\ name = "translation"  \/ UNCHANGED translationVars
  /\ name = "conversation" \/ UNCHANGED conversationVars
  /\ name = "invocation"   \/ UNCHANGED invocationVars
  /\ name = "call"         \/ UNCHANGED callVars
  /\ name = "space"        \/ UNCHANGED spaceVars

Next ==
  \/ part = "snapshots"    /\ SnapshotNext     /\ Others(part)
  \/ part = "translation"  /\ TranslationNext  /\ Others(part)
  \/ part = "conversation" /\ ConversationNext /\ Others(part)
  \/ part = "invocation"   /\ InvocationNext   /\ Others(part)
  \/ part = "call"         /\ CallNext         /\ Others(part)
  \/ part = "space"        /\ Space!Next       /\ Others(part)

workVars == <<snapshotVars, translationVars, conversationVars, invocationVars,
              callVars, spaceVars, part>>

(* In the parts that are not checked nothing has begun, and no fair action *)
(* is enabled.                                                             *)
Spec == /\ Init /\ [][Next]_workVars
        /\ SnapshotFairness /\ TranslationFairness
        /\ ConversationFairness /\ CallFairness
        /\ WF_spaceVars(part = "space" /\ Space!RunStep)

(* The type invariant of the five components.                              *)
WorkTypeOK ==
  /\ SnapshotTypeOK /\ TranslationTypeOK /\ ConversationTypeOK
  /\ InvocationTypeOK /\ CallTypeOK

(* What was begun ends: an unstage, whatever removals Docker claims        *)
(* (remove_all); a stage, however its answers fall short, with the pack or *)
(* a reason (translate_message); an exchange with an Action that writes    *)
(* before it reads, asks ahead of the replies or stops reading, since no   *)
(* pipe keeps this process waiting for a child that waits for it           *)
(* (conversation, write_lines); a call with a budget, whatever the command *)
(* does and whoever holds its streams (wait, stop, finish); and a run of   *)
(* the Space's lifecycle, whatever of it fails, since every host command   *)
(* it waits for has a deadline (capture, docker_streaming).                *)
Running ==
  UnstageRuns \/ TranslationRuns \/ ConversationRuns \/ BudgetRuns
  \/ Space!LifecycleRuns

CommandsEnd == Running ~> ~Running

================================================================================
