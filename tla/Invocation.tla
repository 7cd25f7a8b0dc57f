------------------------------ MODULE Invocation ------------------------------
(***************************************************************************)
(* `shimpz assistant run`: an Action is run from its start once for every   *)
(* answer it needs, and asks this process for each provider call it makes. *)
(* The broker admits a call, places the credentials of its host on it and  *)
(* returns a response that carries none of them (src/invoke.rs,            *)
(* src/provider.rs, src/human_request.rs, src/route.rs).                   *)
(*                                                                         *)
(* The Action is anything that speaks the frames; a provider answers as it *)
(* likes, knowing what it was sent.  A string is a model value with the    *)
(* facts the code tells apart.                                             *)
(***************************************************************************)
EXTENDS Naturals, Sequences, FiniteSets, Functions

CONSTANTS StoredInputs,   \* the Stored Inputs of the Assistant
          NoId,           \* not a Stored Input
          Placement,      \* where each Stored Input is placed
          Integration,    \* the host and reviewed routes of the Integration
          Hosts,          \* the hosts the manifest allows
          Calls,          \* the calls an Action may ask for
          CredentialWord, \* path segments that name a credential endpoint
          OddSegment,     \* path segments with other than unreserved characters
          IdSegment,      \* path segments of 32 hexadecimal digits
          MaxCalls, MaxResponses, MaxHeld

VARIABLES
  action,      \* what the Action declares, and whether the token is set
  transcript,  \* what it is given: the responses and the Stored Inputs held
  round,       \* pc, number, authorization and calls of this round
  provider     \* the last call a provider received, and the rounds of all

invocationVars == <<action, transcript, round, provider>>

ASSUME InvocationAssumption ==
  /\ NoId \notin StoredInputs
  /\ {MaxCalls, MaxResponses, MaxHeld} \subseteq Nat \ {0}

Action == [ stored : SUBSET StoredInputs, integration : BOOLEAN,
            token : BOOLEAN, asks : {"nothing", "approval", "auth"} ]

Rounds == 0 .. (MaxResponses + MaxHeld + 1)

(* A value that is held may contain a character no header can carry.       *)
Values == {"none", "plain", "odd"}

InvocationTypeOK ==
  /\ action \in Action
  /\ transcript \in [ responses : Rounds, approved : BOOLEAN,
                      held : [StoredInputs -> Values] ]
  /\ round \in [ pc : {"begin", "action", "result", "failed", "limit"},
                 number : Rounds,
                 authorized : BOOLEAN, calls : 0 .. (MaxCalls + 1) ]
  /\ provider \in [last : Calls \cup {NoId}, rounds : SUBSET Rounds]

InvocationInit ==
  /\ action \in Action
  /\ action.token => action.integration
  /\ transcript = [ responses |-> 0, approved |-> FALSE,
                    held |-> [s \in StoredInputs |-> "none"] ]
  /\ round = [pc |-> "begin", number |-> 0, authorized |-> FALSE, calls |-> 0]
  /\ provider = [last |-> NoId, rounds |-> {}]

----------------------------------------------------------------------------
(* Reviewed routes.                                                        *)

ROUTE_ID == "[0-9a-f]{32}"
WILDCARD == "*"

route_matches(pattern, path) ==
  /\ Len(pattern) = Len(path)
  /\ \A k \in DOMAIN path :
       IF pattern[k] = ROUTE_ID THEN path[k] \in IdSegment
                                ELSE path[k] = pattern[k]

integration_allows(call) ==
  \E r \in Integration.routes :
    r.method = call.method /\ route_matches(r.path, call.path)

(* Selectors name a query parameter once, with its only raw values.        *)
selectors(query) ==
  \A k, l \in DOMAIN query :
    /\ query[k].values # {}
    /\ query[k].fold = query[l].fold => k = l

route_error(route) ==
  \/ \E k \in DOMAIN route.path : route.path[k] \in OddSegment
  \/ \E k \in DOMAIN route.path : route.path[k] \in CredentialWord
  \/ ~selectors(route.query)

routes_error(routes) ==
  \/ routes = <<>>
  \/ \E k \in DOMAIN routes : route_error(routes[k])
  \/ \E k, l \in DOMAIN routes :
       /\ k # l
       /\ routes[k].method = routes[l].method
       /\ routes[k].path = routes[l].path

concrete(segment) == segment \notin OddSegment \cup CredentialWord

matches(pattern, path) ==
  /\ Len(pattern) = Len(path)
  /\ \A k \in DOMAIN path : pattern[k] \in {WILDCARD, path[k]}

(* A matcher that looks for the exact name only.                           *)
SelectedExact(query, parts) ==
  \A q \in Range(query) :
    \E k \in DOMAIN parts : parts[k].raw = q.raw /\ parts[k].value \in q.values

(* Every selector exactly once, in whatever case, under its exact name and *)
(* with a listed value; every name plain, and nothing after a semicolon.   *)
selected(query, parts) ==
  query # <<>> =>
    /\ \A k \in DOMAIN parts : parts[k].plain /\ parts[k].after = NoId
    /\ \A q \in Range(query) :
         \E k \in DOMAIN parts :
           /\ {l \in DOMAIN parts : parts[l].fold = q.fold} = {k}
           /\ parts[k].raw = q.raw
           /\ parts[k].value \in q.values

call_error(routes, call) ==
  \/ routes_error(routes)
  \/ \E k \in DOMAIN call.path : ~concrete(call.path[k])
  \/ ~ \E r \in Range(routes) :
         /\ r.method = call.method
         /\ matches(r.path, call.path)
         /\ selected(r.query, call.query)

----------------------------------------------------------------------------
(* Credentials.                                                            *)

Held(s) == transcript.held[s] # "none"

(* The placements of a host that the Action declares.                      *)
Placed(host) == {s \in action.stored : Placement[s].host = host}

(* A value that signs another one is placed as their proof.                *)
Complete(s) ==
  Held(s) /\ (Placement[s].hmac # NoId => Held(Placement[s].hmac))

Bears(host) == action.integration /\ Integration.host = host

CredentialMissing(host) ==
  \/ \E s \in Placed(host) : ~Complete(s)
  \/ Bears(host) /\ ~action.token

(* The fields the broker sets, which a call may not name.                  *)
Owned(host) ==
  {Placement[s].field : s \in {p \in Placed(host) : Complete(p)}}
    \cup IF Bears(host) /\ action.token THEN {"authorization"} ELSE {}

(* A header carries no control character; a query or a proof is encoded.   *)
Travels(s) ==
  Placement[s].query \/ Placement[s].hmac # NoId \/ transcript.held[s] = "plain"

parse(call) == call.formed /\ call.host \in Hosts

(* Header names, and query names decoded, in the case they are sent in.    *)
named(call) == call.names \cup {call.query[k].name : k \in DOMAIN call.query}

Routed(call) ==
  /\ Bears(call.host) => integration_allows(call)
  /\ \A s \in Placed(call.host) : ~call_error(Placement[s].routes, call)

admit(call) ==
  /\ round.calls < MaxCalls
  /\ round.authorized
  /\ parse(call)
  /\ named(call) \cap Owned(call.host) = {}
  /\ ~CredentialMissing(call.host)
  /\ Routed(call)
  /\ \A s \in Placed(call.host) : Travels(s)

----------------------------------------------------------------------------
(* The declared authorization is among the responses.                      *)
Authorized ==
  \/ action.asks = "nothing"
  \/ action.asks = "approval" /\ transcript.approved

BeginRound ==
  /\ round.pc = "begin"
  /\ round' = [round EXCEPT !.pc = "action", !.calls = 0,
                            !.authorized = Authorized]
  /\ UNCHANGED <<action, transcript, provider>>

(* The next round, unless there have been as many as answers can need.     *)
AnotherRound ==
  round' = IF round.number = MaxResponses + MaxHeld
             THEN [round EXCEPT !.pc = "limit"]
             ELSE [round EXCEPT !.pc = "begin", !.number = @ + 1]

Counted == round' = [round EXCEPT !.calls = IF @ > MaxCalls THEN @ ELSE @ + 1]

FetchRefused(call) ==
  /\ round.pc = "action" /\ ~admit(call)
  /\ Counted
  /\ UNCHANGED <<action, transcript, provider>>

(* The connection failed before anything was sent.                         *)
FetchUnsent(call) ==
  /\ round.pc = "action" /\ admit(call)
  /\ Counted
  /\ UNCHANGED <<action, transcript, provider>>

(* The provider receives the call.  Its answer is passed on, or withheld   *)
(* when it is lost, encoded, too large or carries a credential.            *)
FetchSent(call) ==
  /\ round.pc = "action" /\ admit(call)
  /\ Counted
  /\ provider' = [ last |-> call,
                   rounds |-> provider.rounds \cup {round.number} ]
  /\ UNCHANGED <<action, transcript>>

(* A result, a refused Stored Input, a failure, a broken conversation.     *)
ActionEnds ==
  /\ round.pc = "action"
  /\ \E end \in {"result", "failed"} : round' = [round EXCEPT !.pc = end]
  /\ UNCHANGED <<action, transcript, provider>>

(* A question after a call ends the run: the next round would repeat it.   *)
AsksAfterCall ==
  /\ round.pc = "action" /\ round.calls > 0
  /\ round' = [round EXCEPT !.pc = "failed"]
  /\ UNCHANGED <<action, transcript, provider>>

(* A broker that counts only the calls a provider received would let the   *)
(* next round begin after any other; one that counts none, after all.      *)
AsksUncounted == round.pc = "action"

MayAsk == round.pc = "action" /\ round.calls = 0

(* The person denies or cannot be asked, the frame or its rendering is     *)
(* invalid, or a session with Team Admin is asked for.                     *)
Denied ==
  /\ MayAsk
  /\ round' = [round EXCEPT !.pc = "failed"]
  /\ UNCHANGED <<action, transcript, provider>>

push_response(approval) ==
  /\ MayAsk
  /\ transcript' = [transcript EXCEPT !.responses = @ + 1,
                                      !.approved = @ \/ approval]
  /\ AnotherRound
  /\ UNCHANGED <<action, provider>>

hold_stored_input(s) ==
  /\ MayAsk
  /\ ~Held(s)
  /\ Cardinality({t \in StoredInputs : Held(t)}) < MaxHeld
  /\ \E value \in Values \ {"none"} :
       transcript' = [transcript EXCEPT !.held[s] = value]
  /\ AnotherRound
  /\ UNCHANGED <<action, provider>>

(* A Stored Input it was already given, or one too many.                   *)
HoldRefused(s) ==
  /\ MayAsk
  /\ Held(s) \/ Cardinality({t \in StoredInputs : Held(t)}) >= MaxHeld
  /\ round' = [round EXCEPT !.pc = "failed"]
  /\ UNCHANGED <<action, transcript, provider>>

InvocationNext ==
  \/ BeginRound
  \/ \E call \in Calls : FetchRefused(call) \/ FetchUnsent(call) \/ FetchSent(call)
  \/ ActionEnds \/ AsksAfterCall \/ Denied
  \/ \E approval \in BOOLEAN : push_response(approval)
  \/ \E s \in StoredInputs : hold_stored_input(s) \/ HoldRefused(s)
  \/ round.pc \in {"result", "failed", "limit"} /\ UNCHANGED invocationVars

----------------------------------------------------------------------------
(* How a provider may read a query: names decoded and in whatever case, a   *)
(* semicolon a separator or not.                                           *)
Readings(parts, fold) ==
  UNION { {parts[k].value : k \in {l \in DOMAIN parts : parts[l].fold = fold}},
          {parts[k].after.value : k \in {l \in DOMAIN parts :
             parts[l].after # NoId /\ parts[l].after.fold = fold}} }

(* A provider receives a Stored Input only for an endpoint of every Stored *)
(* Input placed on its host, and however it reads the query, a parameter   *)
(* that changes the endpoint's authority has a listed value                *)
(* (route.rs, call_error; ADR-0106 in provider.rs).  No provider receives   *)
(* calls in two rounds: an Action that is run again from its start repeats *)
(* no call that may have changed something (invoke.rs, "requested human     *)
(* input after a provider call").                                          *)
CallsAllowed ==
  /\ provider.last # NoId =>
       \A s \in Placed(provider.last.host) :
         \E r \in Range(Placement[s].routes) :
           /\ r.method = provider.last.method
           /\ matches(r.path, provider.last.path)
           /\ \A q \in Range(r.query) :
                LET read == Readings(provider.last.query, q.fold) IN
                read # {} /\ read \subseteq q.values
  /\ Cardinality(provider.rounds) <= 1
================================================================================
