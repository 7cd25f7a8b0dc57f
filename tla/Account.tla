-------------------------------- MODULE Account --------------------------------
(***************************************************************************)
(* The Developers session of the CLI: auth, auth status, auth logout, and   *)
(* publish, which signs in when it must and then waits for the build.  The  *)
(* session is a family of token pairs: a refresh ends the refresh token it  *)
(* used and gives the next pair, so the stored pair must always be the      *)
(* newest.  Several processes run at once; the lock file of the credentials *)
(* is held from their load to the last change of them.                      *)
(***************************************************************************)
EXTENDS FiniteSets, Naturals, Sequences

CONSTANTS
  Processes,    \* the CLI processes
  NoProcess,    \* nobody holds credentials.lock
  AccessLife,   \* expires_in of an access token, in ticks
  WaitLimit,    \* WAIT_TIMEOUT, in ticks
  MaxPairs,     \* bound: token pairs given
  AccountFaults \* bound: calls that fail, answers lost, processes killed

ASSUME AccountAssumption ==
  /\ NoProcess \notin Processes
  /\ AccessLife \in Nat \ {0} /\ WaitLimit \in Nat
  /\ MaxPairs \in Nat \ {0} /\ AccountFaults \in Nat

VARIABLES
  server,  \* what Developers keeps
  stored,  \* the pair in credentials.json, 0 for none
  lock,    \* who holds credentials.lock
  proc,    \* the processes
  lost     \* observer: the sessions whose newest pair a death or a failed call
           \* kept from being stored; the faults so far

accountVars == <<server, stored, lock, proc, lost>>

(* publish: the scope beside identity:read; age: of the access token.       *)
TokenPair == [session : 1 .. MaxPairs, publish : BOOLEAN, age : 0 .. AccessLife]

(* build: of the one source digest; over: ready, failed, blocked, or        *)
(* rejected by security.                                                    *)
Builds == {"none", "active", "over"}

Working == { "lock", "session", "refresh", "store", "revoke", "clear",
             "authorize", "tokens" }

(* tried: the stored pair is a refreshed one; asked: the person authorized. *)
Process == [ kind : {"auth", "status", "logout", "publish"},
             pc : Working \cup {"idle", "consent", "create", "wait"},
             pair : 0 .. MaxPairs, tried : BOOLEAN, asked : BOOLEAN,
             waited : 0 .. WaitLimit ]

Waiting(kind) ==
  [ kind |-> kind, pc |-> "lock", pair |-> 0, tried |-> FALSE, asked |-> FALSE,
    waited |-> 0 ]

NoCommand == [Waiting("status") EXCEPT !.pc = "idle"]

AccountInit ==
  /\ server = [pairs |-> <<>>, live |-> {}, build |-> "none"]
  /\ stored = 0
  /\ lock = NoProcess
  /\ proc = [p \in Processes |-> NoCommand]
  /\ lost = [sessions |-> {}, faults |-> 0]

-----------------------------------------------------------------------------
(* Helpers. *)

Pair(n)     == server.pairs[n]
SessionOf(n) == Pair(n).session
Newest(s)   == CHOOSE n \in DOMAIN server.pairs :
                 /\ SessionOf(n) = s
                 /\ \A o \in DOMAIN server.pairs : SessionOf(o) = s => o <= n

(* External: a refresh token is good once, an access token until it is old. *)
Refreshes(n) == SessionOf(n) \in server.live /\ Newest(SessionOf(n)) = n
Accepted(n)  == SessionOf(n) \in server.live /\ Pair(n).age < AccessLife

Next1 == Len(server.pairs) + 1

Given(session, publish) ==
  [server EXCEPT !.pairs = Append(@, [ session |-> session,
                                       publish |-> publish, age |-> 0 ]),
                 !.live = @ \cup {session}]

(* None of its tokens is good for anything.                                *)
TokensEnd(session) ==
  [server EXCEPT !.live = @ \ {session},
     !.pairs = [n \in DOMAIN @ |->
       IF @[n].session = session THEN [@[n] EXCEPT !.age = AccessLife] ELSE @[n]]]

Step(p, pc) == proc' = [proc EXCEPT ![p].pc = pc]

(* The command ends, and its lock with it. *)
Ends(p) ==
  /\ proc' = [proc EXCEPT ![p] = NoCommand]
  /\ lock' = IF lock = p THEN NoProcess ELSE lock

FaultIn(sessions) ==
  /\ lost.faults < AccountFaults
  /\ lost' = [sessions |-> lost.sessions \cup sessions,
              faults |-> lost.faults + 1]

(* The session of a pair that exists in this process alone.                *)
Unstored(p) == IF proc[p].pc = "store" THEN {SessionOf(proc[p].pair)} ELSE {}

-----------------------------------------------------------------------------
(* The commands. *)

Run(p, kind) ==
  /\ proc[p].pc = "idle"
  /\ proc' = [proc EXCEPT ![p] = Waiting(kind)]
  /\ UNCHANGED <<server, stored, lock, lost>>

(* What a command finds, and that it has the lock. *)
Loads(p) ==
  /\ proc[p].pc = "lock"
  /\ \/ /\ stored = 0 /\ proc[p].kind \in {"status", "logout"}
        /\ Ends(p)
     \/ /\ stored = 0 /\ proc[p].kind \in {"auth", "publish"}
        /\ lock' = p /\ Step(p, "authorize")
     \/ /\ stored # 0
        /\ lock' = p
        /\ proc' = [proc EXCEPT ![p].pair = stored, ![p].pc =
                     IF proc[p].kind = "logout" THEN "revoke" ELSE "session"]
  /\ UNCHANGED <<server, stored, lost>>

(* credentials::lock waits for its holder; then the file is loaded. *)
Load(p) == lock = NoProcess /\ Loads(p)

(* ensure_session, and what each command makes of the session. *)
Validate(p) ==
  /\ proc[p].pc = "session" /\ Accepted(proc[p].pair)
  /\ CASE proc[p].kind \in {"auth", "status"} -> Ends(p)
       [] proc[p].kind = "publish" /\ Pair(proc[p].pair).publish ->
            /\ lock' = NoProcess     \* ensure_authenticated returns
            /\ Step(p, "consent")
       [] OTHER -> Step(p, "revoke") /\ UNCHANGED lock
  /\ UNCHANGED <<server, stored, lost>>

(* Without a session: one refresh, then a command that may sign in again    *)
(* drops the credentials, and status reports them.                         *)
NoSession(p) ==
  IF proc[p].kind = "status" THEN Ends(p)
                             ELSE Step(p, "revoke") /\ UNCHANGED lock

Invalid(p) ==
  /\ proc[p].pc = "session" /\ ~Accepted(proc[p].pair)
  /\ IF proc[p].tried THEN NoSession(p)
                      ELSE Step(p, "refresh") /\ UNCHANGED lock
  /\ UNCHANGED <<server, stored, lost>>

(* Mutant: the replacement is used but not stored. *)
RotateUnstored(p) ==
  /\ proc[p].pc = "refresh" /\ Next1 <= MaxPairs /\ Refreshes(proc[p].pair)
  /\ server' = Given(SessionOf(proc[p].pair), Pair(proc[p].pair).publish)
  /\ proc' = [proc EXCEPT ![p].pc = "session", ![p].pair = Next1,
                          ![p].tried = TRUE]
  /\ UNCHANGED <<stored, lock, lost>>

Rotate(p) ==
  /\ proc[p].pc = "refresh" /\ Next1 <= MaxPairs
  /\ IF Refreshes(proc[p].pair)
     THEN LET s == SessionOf(proc[p].pair) IN
          /\ server' = Given(s, Pair(proc[p].pair).publish)
          /\ \/ /\ proc' = [proc EXCEPT ![p].pc = "store",
                              ![p].pair = Next1, ![p].tried = TRUE]
                /\ UNCHANGED <<lock, lost>>
             \/ FaultIn({s}) /\ Ends(p)  \* the answer is lost
     ELSE NoSession(p) /\ UNCHANGED <<server, lost>>
  /\ UNCHANGED stored

(* store_at: atomic, synchronized. *)
Store(p) ==
  /\ proc[p].pc = "store"
  /\ stored' = proc[p].pair
  /\ IF proc[p].kind = "auth" /\ proc[p].asked
     THEN Ends(p)
     ELSE Step(p, "session") /\ UNCHANGED lock
  /\ UNCHANGED <<server, lost>>

(* A session that Developers no longer knows counts as revoked. *)
Revoke(p) ==
  /\ proc[p].pc = "revoke"
  /\ server' = IF Refreshes(proc[p].pair) THEN TokensEnd(SessionOf(proc[p].pair))
                                          ELSE server
  /\ Step(p, "clear")
  /\ UNCHANGED <<stored, lock, lost>>

Clear(p) ==
  /\ proc[p].pc = "clear"
  /\ stored' = 0
  /\ CASE proc[p].kind = "logout" -> Ends(p)
       [] proc[p].asked -> Ends(p)
       [] OTHER -> Step(p, "authorize") /\ UNCHANGED lock
  /\ UNCHANGED <<server, lost>>

Authorize(p) ==
  /\ proc[p].pc = "authorize"
  /\ Step(p, "tokens")
  /\ UNCHANGED <<server, stored, lock, lost>>

(* wait_for_tokens: the person approves all that was asked, or less; an     *)
(* answer that is lost leaves a session without a holder.                   *)
Tokens(p) ==
  /\ proc[p].pc = "tokens" /\ Next1 <= MaxPairs
  /\ \E publish \in BOOLEAN :
       /\ publish => proc[p].kind = "publish"
       /\ server' = Given(Next1, publish)
  /\ \/ /\ proc' = [proc EXCEPT ![p].pc = "store", ![p].pair = Next1,
                                ![p].asked = TRUE, ![p].tried = FALSE]
        /\ UNCHANGED <<lock, lost>>
     \/ FaultIn({Next1}) /\ Ends(p)
  /\ UNCHANGED stored

(* The code was not confirmed within its ten minutes. *)
TokensExpire(p) ==
  /\ proc[p].pc = "tokens"
  /\ Ends(p)
  /\ UNCHANGED <<server, stored, lost>>

(* Any call to Developers, and the change of a file, may fail. *)
RequestFails(p) ==
  /\ proc[p].pc \in (Working \ {"lock"}) \cup {"consent", "create", "wait"}
  /\ FaultIn(Unstored(p))
  /\ Ends(p)
  /\ UNCHANGED <<server, stored>>

ProcessKilled(p) ==
  /\ proc[p].pc # "idle"
  /\ FaultIn(Unstored(p))
  /\ Ends(p)
  /\ UNCHANGED <<server, stored>>

-----------------------------------------------------------------------------
(* publish, without the lock. *)

Refused(p) == Ends(p) /\ UNCHANGED server

Consent(p) ==
  /\ proc[p].pc = "consent"
  /\ IF Accepted(proc[p].pair)
     THEN Step(p, "create") /\ UNCHANGED <<server, lock>>
     ELSE Refused(p)
  /\ UNCHANGED <<stored, lost>>

(* The publication of one digest is created once. *)
Create(p) ==
  /\ proc[p].pc = "create"
  /\ IF Accepted(proc[p].pair)
     THEN /\ server' = [server EXCEPT !.build = IF @ = "none" THEN "active" ELSE @]
          /\ Step(p, "wait") /\ UNCHANGED lock
     ELSE Refused(p)
  /\ UNCHANGED <<stored, lost>>

(* terminal_result: a result or an error, either ends the wait. *)
Terminal == server.build = "over"

(* Api::status: the server refuses the access token; a rate limit is waited *)
(* out like any interval.                                                   *)
StatusRefused(p) == ~Accepted(proc[p].pair)

(* A status that is not final is polled again; one the server refuses ends  *)
(* the wait.                                                                *)
Poll(p) ==
  /\ proc[p].pc = "wait"
  /\ StatusRefused(p) \/ Terminal
  /\ Ends(p)
  /\ UNCHANGED <<server, stored, lost>>

(* sleep_before: an interval, or the Retry-After, that ends past the        *)
(* deadline is not slept.                                                   *)
WaitEnds(p) ==
  /\ proc[p].pc = "wait" /\ proc[p].waited = WaitLimit
  /\ Ends(p)
  /\ UNCHANGED <<server, stored, lost>>

-----------------------------------------------------------------------------
(* Developers, external. *)

Older(pair) ==
  [pair EXCEPT !.age = IF pair.age < AccessLife THEN pair.age + 1 ELSE pair.age]

Tick ==
  /\ \A p \in Processes : proc[p].pc = "wait" => proc[p].waited < WaitLimit
  /\ server' = [server EXCEPT !.pairs =
       [n \in DOMAIN server.pairs |-> Older(server.pairs[n])]]
  /\ proc' = [p \in Processes |->
       IF proc[p].pc = "wait" THEN [proc[p] EXCEPT !.waited = @ + 1] ELSE proc[p]]
  /\ UNCHANGED <<stored, lock, lost>>

BuildEnds ==
  /\ server.build = "active"
  /\ server' = [server EXCEPT !.build = "over"]
  /\ UNCHANGED <<stored, lock, proc, lost>>

(* A session expires, or its account ends it elsewhere. *)
SessionEnds(s) ==
  /\ s \in server.live
  /\ server' = TokensEnd(s)
  /\ UNCHANGED <<stored, lock, proc, lost>>

AccountNext ==
  \/ \E p \in Processes :
       \/ \E kind \in {"auth", "status", "logout", "publish"} : Run(p, kind)
       \/ Load(p) \/ Validate(p) \/ Invalid(p) \/ Rotate(p) \/ Store(p)
       \/ Revoke(p) \/ Clear(p) \/ Authorize(p) \/ Tokens(p)
       \/ TokensExpire(p) \/ RequestFails(p) \/ ProcessKilled(p)
       \/ Consent(p) \/ Create(p) \/ Poll(p) \/ WaitEnds(p)
  \/ Tick \/ BuildEnds \/ \E s \in 1 .. MaxPairs : SessionEnds(s)

-----------------------------------------------------------------------------
(* Properties. *)

(* The type invariant: tokens, credentials and commands are what auth.rs,   *)
(* credentials.rs and publish.rs tell apart.                                *)
AccountTypeOK ==
  /\ server.pairs \in Seq(TokenPair) /\ Len(server.pairs) <= MaxPairs
  /\ server \in [ pairs : {server.pairs}, live : SUBSET (1 .. MaxPairs),
                  build : Builds ]
  /\ stored \in 0 .. Len(server.pairs)
  /\ lock \in Processes \cup {NoProcess}
  /\ proc \in [Processes -> Process]
  /\ lost.sessions \subseteq 1 .. MaxPairs /\ lost.faults \in 0 .. AccountFaults

(* Whenever no command works on the credentials, every session that lives   *)
(* on is the stored one, in its newest pair: a rotated token is never lost  *)
(* to another process, and no session is dropped before it was revoked.     *)
(* Only a death, or a call that failed, between the answer of Developers    *)
(* and the store can leave one without a holder (ensure_session, login,     *)
(* ensure_authenticated, logout).                                           *)
NoSessionLost ==
  lock = NoProcess =>
    \A s \in server.live \ lost.sessions : stored # 0 /\ stored = Newest(s)

(* "continues the publication in the same command" (README.md:46): while    *)
(* its session lives, a wait ends by its answer or at WAIT_TIMEOUT, and is   *)
(* not refused for the age of the token it began with.                      *)
WaitIsNotRefused ==
  \A p \in Processes :
    proc[p].pc = "wait" /\ SessionOf(proc[p].pair) \in server.live
      => Accepted(proc[p].pair)
================================================================================
