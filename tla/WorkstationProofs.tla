--------------------------- MODULE WorkstationProofs ---------------------------
(***************************************************************************)
(* Proofs about the components of a developer's workstation: a host        *)
(* command within bounds (BoundedCall), the process of an invocation and   *)
(* its pipes (Conversation), the calls of an Action (Invocation), the      *)
(* translations of its messages (Translation), the images it is staged in  *)
(* (LocalSnapshots).  Each keeps its own state; each has an inductive      *)
(* invariant of its own.                                                   *)
(***************************************************************************)
EXTENDS MCWorkstation, FiniteSetTheorems, SequenceTheorems, FunctionTheorems, TLAPS

CallSpec == CallInit /\ [][CallNext]_callVars
InvocationSpec == InvocationInit /\ [][InvocationNext]_invocationVars
TranslationSpec == TranslationInit /\ [][TranslationNext]_translationVars
SnapshotSpec == SnapshotInit /\ [][SnapshotNext]_snapshotVars

-----------------------------------------------------------------------------
(* BoundedCall: the streams and the process before the answer.             *)

(* Nothing runs and nobody reads before the command is started.            *)
NothingBegan ==
  call.pc = "none" =>
    /\ call.got = {} /\ proc.leader = "none" /\ ~proc.heir
    /\ \A s \in Streams : stream[s].reader = "none"

(* A reader that reached the end of its stream has all of it, and nobody   *)
(* is left who could write more.                                           *)
WholeIsWhole ==
  \A s \in Streams :
    /\ stream[s].read <= stream[s].written
    /\ stream[s].reader = "whole" => stream[s].read = stream[s].written /\ ~Writers
    /\ Whole /\ stream[s].reader # "over" => stream[s].read <= Limit

(* What the caller relies on, at each point of its way to the answer.      *)
CallerKnows ==
  /\ \A s \in call.got : stream[s].reader = "whole"
  /\ call.pc = "receive" => Whole
  /\ call.pc = "wait" /\ Whole => call.got = Captured
  /\ call.pc = "finish" => ~Whole /\ proc.leader = "reaped"

(* What was answered.                                                      *)
AnsweredTruly ==
  /\ call.answer # "none" => call.pc = "done"
  /\ call.answer = "output" =>
       /\ proc.leader = "reaped"
       /\ \A s \in Captured : stream[s].reader = "whole"
  /\ call.answer = "stopped" =>
       proc.leader = "reaped" /\ (proc.group => ~proc.heir)

CInv == CallTypeOK /\ NothingBegan /\ WholeIsWhole /\ CallerKnows /\ AnsweredTruly

LEMMA CallInitially == CallInit => CInv
<1> SUFFICES ASSUME CallInit PROVE CInv
  OBVIOUS
<1>1. /\ call.mode \in Modes /\ call.late = FALSE /\ call.pc = "none" /\ call.got = {}
      /\ call.why = "none" /\ call.answer = "none"
      /\ proc.leader = "none" /\ proc.group \in BOOLEAN /\ proc.heir = FALSE
  BY DEF CallInit
<1>2. CallTypeOK
  <2>1. call \in [ mode : Modes, late : {FALSE}, pc : {"none"}, got : {{}},
                   why : {"none"}, answer : {"none"} ]
    BY DEF CallInit
  <2>2. proc \in [leader : {"none"}, group : BOOLEAN, heir : {FALSE}]
    BY DEF CallInit
  <2>3. stream = [s \in Streams |-> [written |-> 0, read |-> 0, reader |-> "none"]]
    BY DEF CallInit
  <2>4. 0 \in 0 .. MaxBytes
    BY CallAssumption
  <2> QED
    BY <2>1, <2>2, <2>3, <2>4 DEF CallTypeOK
<1>3. \A s \in Streams : /\ stream[s].written = 0 /\ stream[s].read = 0
                          /\ stream[s].reader = "none"
  BY DEF CallInit
<1>4. NothingBegan /\ WholeIsWhole
  BY <1>1, <1>3, CallAssumption DEF NothingBegan, WholeIsWhole, Writers
<1> QED
  BY <1>1, <1>2, <1>4 DEF CInv, CallerKnows, AnsweredTruly

(* Every step of the caller, the command and the readers keeps the shape   *)
(* of their state.                                                         *)
LEMMA CallTyped == CInv /\ [CallNext]_callVars => CallTypeOK'
<1> USE CallAssumption DEF CInv, CallTypeOK
<1> SUFFICES ASSUME CInv, [CallNext]_callVars PROVE CallTypeOK'
  OBVIOUS
<1>1. CASE StartCall
  BY <1>1
     DEF StartCall, Answer, CallTo, Stop, Stopped, KillsRemains, Captured, Streams,
         NothingBegan
<1>2. CASE Deadline
  BY <1>2
     DEF Deadline, Answer, CallTo, Stop, Stopped, KillsRemains, Captured, Streams,
         NothingBegan
<1>3. CASE ReceiveLate
  BY <1>3
     DEF ReceiveLate, Answer, CallTo, Stop, Stopped, KillsRemains, Captured, Streams,
         NothingBegan
<1>4. CASE Reap
  BY ZenonT(60), <1>4
     DEF Reap, Answer, CallTo, Stop, Stopped, KillsRemains, Captured, Streams, NothingBegan
<1>5. CASE WaitLate
  BY <1>5
     DEF WaitLate, Answer, CallTo, Stop, Stopped, KillsRemains, Captured, Streams,
         NothingBegan
<1>6. CASE StopReaps
  BY <1>6
     DEF StopReaps, Answer, CallTo, Stop, Stopped, KillsRemains, Captured, Streams,
         NothingBegan
<1>7. CASE GraceEnds
  BY <1>7
     DEF GraceEnds, Answer, CallTo, Stop, Stopped, KillsRemains, Captured, Streams,
         NothingBegan
<1>8. CASE FinishReads
  <2>1. UNCHANGED <<proc, stream>>
    BY <1>8 DEF FinishReads
  <2>2. \E what \in {"output", "unread"} :
          call' = [call EXCEPT !.pc = "done", !.answer = what]
    BY <1>8 DEF FinishReads, Answer
  <2> QED
    BY <2>1, <2>2
<1>9. CASE FinishPasses
  BY <1>9
     DEF FinishPasses, Answer, CallTo, Stop, Stopped, KillsRemains, Captured, Streams,
         NothingBegan
<1>10. CASE Forks
  BY <1>10
     DEF Forks, Answer, CallTo, Stop, Stopped, KillsRemains, Captured, Streams, NothingBegan
<1>11. CASE LeaderEnds
  BY <1>11
     DEF LeaderEnds, Answer, CallTo, Stop, Stopped, KillsRemains, Captured, Streams,
         NothingBegan
<1>12. CASE HeirEnds
  BY <1>12
     DEF HeirEnds, Answer, CallTo, Stop, Stopped, KillsRemains, Captured, Streams,
         NothingBegan
<1>13. ASSUME NEW s \in Streams, Receive(s) PROVE CallTypeOK'
  <2>1. UNCHANGED <<proc, stream>> /\ s \in Streams
    BY <1>13 DEF Receive, Stop
  <2>2. \/ \E p \in {"wait", call.pc} :
               call' = [call EXCEPT !.got = @ \cup {s}, !.pc = p]
        \/ \E why \in {"excessive", "unread"} :
               call' = [call EXCEPT !.pc = "term", !.why = why]
    BY <1>13 DEF Receive, Stop
  <2>3. ASSUME NEW p \in {"wait", call.pc}, call' = [call EXCEPT !.got = @ \cup {s}, !.pc = p]
        PROVE  CallTypeOK'
    <3>1. call.got \cup {s} \in SUBSET Streams
      BY <2>1
    <3>2. p \in {"none", "receive", "wait", "term", "kill", "finish", "done"}
      OBVIOUS
    <3> QED
      BY <2>1, <2>3, <3>1, <3>2
  <2> QED
    BY <2>1, <2>2, <2>3
<1>14. ASSUME NEW s \in Streams, Writes(s) PROVE CallTypeOK'
  BY <1>14
     DEF Writes, Answer, CallTo, Stop, Stopped, KillsRemains, Captured, Streams,
         WholeIsWhole
<1>15. ASSUME NEW s \in Streams, Reads(s) PROVE CallTypeOK'
  BY <1>15
     DEF Reads, Answer, CallTo, Stop, Stopped, KillsRemains, Captured, Streams, WholeIsWhole
<1>16. ASSUME NEW s \in Streams, ReadsEnd(s) PROVE CallTypeOK'
  BY <1>16
     DEF ReadsEnd, Answer, CallTo, Stop, Stopped, KillsRemains, Captured, Streams,
         WholeIsWhole
<1>17. ASSUME NEW s \in Streams, ReadBreaks(s) PROVE CallTypeOK'
  BY <1>17
     DEF ReadBreaks, Answer, CallTo, Stop, Stopped, KillsRemains, Captured, Streams,
         WholeIsWhole
<1>18. CASE UNCHANGED callVars
  BY <1>18 DEF callVars
<1> QED
  BY <1>1, <1>2, <1>3, <1>4, <1>5, <1>6, <1>7, <1>8, <1>9, <1>10, <1>11, <1>12, <1>13,
     <1>14, <1>15, <1>16, <1>17, <1>18
     DEF CallNext, CallerStep

(* Each step keeps what is known of the streams and of the answer.         *)
LEMMA CallKept == CInv /\ [CallNext]_callVars => CInv'
<1> SUFFICES ASSUME CInv, [CallNext]_callVars PROVE CInv'
  OBVIOUS
<1>0. CallTypeOK'
  BY CallTyped
<1> USE CallAssumption DEF CInv, CallTypeOK, NothingBegan, WholeIsWhole, CallerKnows,
        AnsweredTruly, Writers, Whole, Captured, Streams
<1>1. CASE StartCall
  BY <1>1, <1>0 DEF StartCall, Answer, CallTo, Stop, Stopped, KillsRemains
<1>2. CASE Deadline
  BY <1>2, <1>0 DEF Deadline, Answer, CallTo, Stop, Stopped, KillsRemains
<1>3. CASE ReceiveLate
  BY <1>3, <1>0 DEF ReceiveLate, Answer, CallTo, Stop, Stopped, KillsRemains
<1>4. CASE Reap
  <2>1. /\ call.pc = "wait" /\ proc.leader = "ended" /\ UNCHANGED stream
        /\ proc' = [proc EXCEPT !.leader = "reaped"]
    BY <1>4 DEF Reap
  <2>2. /\ call'.mode = call.mode /\ call'.got = call.got
        /\ \/ Whole /\ call'.pc = "done" /\ call'.answer = "output"
           \/ ~Whole /\ call'.pc = "finish" /\ call'.answer = call.answer
    BY ZenonT(60), <1>4 DEF Reap, Answer, CallTo
  <2>3. NothingBegan'
    BY <2>1, <2>2, <1>4, <1>0
  <2>4. WholeIsWhole'
    BY <2>1, <2>2, <1>4, <1>0
  <2>5. CallerKnows'
    BY <2>1, <2>2, <1>4, <1>0
  <2>6. AnsweredTruly'
    BY <2>1, <2>2, <1>4, <1>0
  <2> QED
    BY <1>0, <2>3, <2>4, <2>5, <2>6
<1>5. CASE WaitLate
  BY <1>5, <1>0 DEF WaitLate, Answer, CallTo, Stop, Stopped, KillsRemains
<1>6. CASE StopReaps
  <2>1. /\ call.pc \in {"term", "kill"} /\ proc.leader = "ended" /\ UNCHANGED stream
        /\ proc' = [proc EXCEPT !.leader = "reaped", !.heir = @ /\ ~proc.group]
    BY <1>6 DEF StopReaps, KillsRemains
  <2>2. /\ call'.mode = call.mode /\ call'.got = call.got
        /\ call'.pc = "done" /\ call'.answer # "output"
    BY <1>6 DEF StopReaps, Stopped, Answer
  <2>3. NothingBegan'
    BY <2>1, <2>2, <1>6, <1>0
  <2>4. WholeIsWhole'
    BY <2>1, <2>2, <1>6, <1>0
  <2>5. CallerKnows'
    BY <2>1, <2>2, <1>6, <1>0
  <2>6. AnsweredTruly'
    BY <2>1, <2>2, <1>6, <1>0
  <2> QED
    BY <1>0, <2>3, <2>4, <2>5, <2>6
<1>7. CASE GraceEnds
  <2>1. UNCHANGED <<proc, stream>> /\ call.pc \in {"term", "kill"}
    BY <1>7 DEF GraceEnds, Answer, CallTo
  <2>2. /\ call'.mode = call.mode /\ call'.got = call.got
        /\ \/ call'.pc = "kill" /\ call'.answer = call.answer
           \/ call'.pc = "done" /\ call'.answer \notin {"output", "stopped"}
    BY <1>7 DEF GraceEnds, Answer, CallTo
  <2>3. NothingBegan'
    BY <2>1, <2>2, <1>7, <1>0
  <2>4. WholeIsWhole'
    BY <2>1, <2>2, <1>7, <1>0
  <2>5. CallerKnows'
    BY <2>1, <2>2, <1>7, <1>0
  <2>6. AnsweredTruly'
    BY <2>1, <2>2, <1>7, <1>0
  <2> QED
    BY <1>0, <2>3, <2>4, <2>5, <2>6
<1>8. CASE FinishReads
  <2>1. UNCHANGED <<proc, stream>> /\ call.pc = "finish"
    BY <1>8 DEF FinishReads
  <2>2. /\ call'.mode = call.mode /\ call'.got = call.got /\ call'.pc = "done"
        /\ \/ call'.answer = "unread"
           \/ call'.answer = "output" /\ \E s \in Captured : stream[s].reader = "whole"
    BY ZenonT(60), <1>8 DEF FinishReads, Answer
  <2>3. NothingBegan'
    BY <2>1, <2>2, <1>8, <1>0
  <2>4. WholeIsWhole'
    BY <2>1, <2>2, <1>8, <1>0
  <2>5. CallerKnows'
    BY <2>1, <2>2, <1>8, <1>0
  <2>6. AnsweredTruly'
    BY <2>1, <2>2, <1>8, <1>0
  <2> QED
    BY <1>0, <2>3, <2>4, <2>5, <2>6
<1>9. CASE FinishPasses
  BY <1>9, <1>0 DEF FinishPasses, Answer, CallTo, Stop, Stopped, KillsRemains
<1>10. CASE Forks
  BY <1>10, <1>0 DEF Forks, Answer, CallTo, Stop, Stopped, KillsRemains
<1>11. CASE LeaderEnds
  BY <1>11, <1>0 DEF LeaderEnds, Answer, CallTo, Stop, Stopped, KillsRemains
<1>12. CASE HeirEnds
  BY <1>12, <1>0 DEF HeirEnds, Answer, CallTo, Stop, Stopped, KillsRemains
<1>13. ASSUME NEW s \in Streams, Receive(s) PROVE CInv'
  <2>1. UNCHANGED <<proc, stream>> /\ call.pc = "receive" /\ s \in Captured \ call.got
    BY <1>13 DEF Receive, Stop
  <2>2. /\ call'.mode = call.mode /\ call'.answer = call.answer
        /\ \/ /\ stream[s].reader = "whole" /\ call'.got = call.got \cup {s}
              /\ \/ call'.pc = "wait" /\ call'.got = Captured
                 \/ call'.pc = "receive"
           \/ call'.got = call.got /\ call'.pc = "term"
    BY ZenonT(60), <1>13 DEF Receive, Stop
  <2>3. NothingBegan'
    BY <2>1, <2>2, <1>13, <1>0
  <2>4. WholeIsWhole'
    BY <2>1, <2>2, <1>13, <1>0
  <2>5. CallerKnows'
    BY <2>1, <2>2, <1>13, <1>0
  <2>6. AnsweredTruly'
    BY <2>1, <2>2, <1>13, <1>0
  <2> QED
    BY <1>0, <2>3, <2>4, <2>5, <2>6
<1>14. ASSUME NEW s \in Streams, Writes(s) PROVE CInv'
  BY <1>14, <1>0 DEF Writes, Answer, CallTo, Stop, Stopped, KillsRemains
<1>15. ASSUME NEW s \in Streams, Reads(s) PROVE CInv'
  <2>1. NothingBegan'
    BY <1>15, <1>0 DEF Reads
  <2>2. WholeIsWhole'
    BY <1>15, <1>0 DEF Reads
  <2>3. CallerKnows'
    BY <1>15, <1>0 DEF Reads
  <2>4. AnsweredTruly'
    BY <1>15, <1>0 DEF Reads
  <2> QED
    BY <1>0, <2>1, <2>2, <2>3, <2>4
<1>16. ASSUME NEW s \in Streams, ReadsEnd(s) PROVE CInv'
  BY <1>16, <1>0 DEF ReadsEnd, Answer, CallTo, Stop, Stopped, KillsRemains
<1>17. ASSUME NEW s \in Streams, ReadBreaks(s) PROVE CInv'
  BY <1>17, <1>0 DEF ReadBreaks, Answer, CallTo, Stop, Stopped, KillsRemains
<1>18. CASE UNCHANGED callVars
  BY <1>18 DEF callVars
<1> QED
  BY <1>1, <1>2, <1>3, <1>4, <1>5, <1>6, <1>7, <1>8, <1>9, <1>10, <1>11, <1>12, <1>13,
     <1>14, <1>15, <1>16, <1>17, <1>18
     DEF CallNext, CallerStep

LEMMA CallInvariant == CallSpec => []CInv
  BY CallInitially, CallKept, PTL DEF CallSpec

(* An answer tells how the command ended, whatever the command, what it     *)
(* leaves behind and the reading threads do, for every limit: an output is *)
(* whole or cut at the limit and its command reaped, and one said to be    *)
(* stopped is reaped with its group (run_bounded, Reader::finish).         *)
THEOREM AnswersTellTheTruth == CallSpec => []AnswersTellTheEnd
<1>1. CInv => AnswersTellTheEnd
  BY DEF CInv, CallTypeOK, WholeIsWhole, AnsweredTruly, AnswersTellTheEnd, Captured,
         Whole, Streams
<1> QED
  BY <1>1, CallInvariant, PTL

-----------------------------------------------------------------------------
(* Invocation: the calls of an Action that is run from its start again.    *)

(* Every answer but the one past the limit began a round of its own.        *)
RoundsCounted ==
  /\ round.number <= MaxResponses + MaxHeld
  /\ transcript.responses <= IF round.pc = "limit" THEN round.number + 1 ELSE round.number

(* A call was received in the round at work or in none, and a round that    *)
(* made one asks nothing any more: no other begins.                        *)
InThisRound ==
  /\ provider.rounds \subseteq {round.number}
  /\ provider.rounds # {} => round.pc \notin {"begin", "limit"} /\ round.calls > 0

(* The first part of CallsAllowed. *)
LastRouted ==
  provider.last # NoId =>
    \A s \in Placed(provider.last.host) :
      \E r \in Range(Placement[s].routes) :
        /\ r.method = provider.last.method
        /\ matches(r.path, provider.last.path)
        /\ \A q \in Range(r.query) :
             LET read == Readings(provider.last.query, q.fold) IN
             read # {} /\ read \subseteq q.values

IInv == InvocationTypeOK /\ RoundsCounted /\ InThisRound /\ LastRouted

(* A query a route admits is read alike by every provider: each selected    *)
(* parameter has one reading at least, and only listed values (selected).  *)
LEMMA SelectedReadings ==
  ASSUME NEW query, NEW parts, selected(query, parts), NEW q \in Range(query)
  PROVE  /\ Readings(parts, q.fold) # {}
         /\ Readings(parts, q.fold) \subseteq q.values
<1>1. query # <<>>
  BY DEF Range
<1>2. \A k \in DOMAIN parts : parts[k].after = NoId
  BY <1>1 DEF selected
<1>3. PICK k \in DOMAIN parts :
        {l \in DOMAIN parts : parts[l].fold = q.fold} = {k} /\ parts[k].value \in q.values
  BY <1>1 DEF selected
<1>4. Readings(parts, q.fold) = {parts[k].value}
  BY <1>2, <1>3 DEF Readings
<1> QED
  BY <1>3, <1>4

(* What admit lets through is an endpoint of every Stored Input placed on   *)
(* the host.                                                               *)
LEMMA AdmittedRouted ==
  ASSUME NEW asked, admit(asked), NEW s \in Placed(asked.host)
  PROVE  \E r \in Range(Placement[s].routes) :
           /\ r.method = asked.method
           /\ matches(r.path, asked.path)
           /\ \A q \in Range(r.query) :
                LET read == Readings(asked.query, q.fold) IN
                read # {} /\ read \subseteq q.values
<1>1. ~call_error(Placement[s].routes, asked)
  BY DEF admit, Routed
<1>2. PICK r \in Range(Placement[s].routes) :
        /\ r.method = asked.method
        /\ matches(r.path, asked.path)
        /\ selected(r.query, asked.query)
  BY <1>1 DEF call_error
<1> QED
  BY <1>2, SelectedReadings

LEMMA InvocationInitially == InvocationInit => IInv
<1> SUFFICES ASSUME InvocationInit PROVE IInv
  OBVIOUS
<1>1. 0 \in Rounds /\ 0 \in 0 .. (MaxCalls + 1) /\ 0 <= MaxResponses + MaxHeld
  BY InvocationAssumption DEF Rounds
<1>2. InvocationTypeOK
  BY <1>1 DEF InvocationInit, InvocationTypeOK, Values
<1> QED
  BY <1>1, <1>2 DEF InvocationInit, IInv, RoundsCounted, InThisRound, LastRouted

(* The next round begins with one answer more, or the run is over. *)
LEMMA AnotherRoundCounts ==
  ASSUME IInv, MayAsk, AnotherRound
  PROVE  /\ round' \in [ pc : {"begin", "action", "result", "failed", "limit"},
                          number : Rounds,
                          authorized : BOOLEAN, calls : 0 .. (MaxCalls + 1) ]
         /\ round'.number <= MaxResponses + MaxHeld
         /\ \/ round'.pc = "limit" /\ round'.number = round.number
            \/ round'.pc = "begin" /\ round'.number = round.number + 1
         /\ provider.rounds = {}
<1>1. round.number \in Nat /\ round.number + 1 \in Nat
  BY DEF IInv, InvocationTypeOK, Rounds
<1>2. CASE round.number = MaxResponses + MaxHeld
  <2>1. round' = [round EXCEPT !.pc = "limit"]
    BY <1>2 DEF AnotherRound
  <2> QED
    BY <1>1, <1>2, <2>1, InvocationAssumption
    DEF IInv, InvocationTypeOK, RoundsCounted, InThisRound, MayAsk
<1>3. CASE round.number # MaxResponses + MaxHeld
  <2>1. round' = [round EXCEPT !.pc = "begin", !.number = @ + 1]
    BY <1>3 DEF AnotherRound
  <2>2. round.number + 1 \in Rounds /\ round.number + 1 <= MaxResponses + MaxHeld
    BY <1>1, <1>3, InvocationAssumption DEF IInv, RoundsCounted, Rounds
  <2>3. round \in [ pc : {"begin", "action", "result", "failed", "limit"},
                    number : Rounds, authorized : BOOLEAN, calls : 0 .. (MaxCalls + 1) ]
    BY DEF IInv, InvocationTypeOK
  <2>4. round' \in [ pc : {"begin", "action", "result", "failed", "limit"},
                     number : Rounds, authorized : BOOLEAN, calls : 0 .. (MaxCalls + 1) ]
    BY <2>1, <2>2, <2>3
  <2>5. round'.pc = "begin" /\ round'.number = round.number + 1
    BY <2>1, <2>3
  <2>6. provider.rounds = {}
    BY DEF IInv, InThisRound, MayAsk
  <2> QED
    BY <2>2, <2>4, <2>5, <2>6
<1> QED
  BY <1>2, <1>3

(* A call counts, received or not. *)
LEMMA CountedCounts ==
  ASSUME IInv, round.pc = "action", Counted
  PROVE  /\ round' \in [ pc : {"begin", "action", "result", "failed", "limit"},
                          number : Rounds,
                          authorized : BOOLEAN, calls : 0 .. (MaxCalls + 1) ]
         /\ round'.number = round.number /\ round'.pc = "action" /\ round'.calls > 0
<1>1. round.calls \in 0 .. (MaxCalls + 1) /\ MaxCalls \in Nat
  BY InvocationAssumption DEF IInv, InvocationTypeOK
<1>2. PICK n \in 0 .. (MaxCalls + 1) : n > 0 /\ round' = [round EXCEPT !.calls = n]
  BY <1>1, InvocationAssumption DEF Counted
<1> QED
  BY <1>2 DEF IInv, InvocationTypeOK

(* No step but a received call changes what was last received, and none     *)
(* changes what the Action declares.                                       *)
LEMMA LastRoutedKept ==
  ASSUME LastRouted, UNCHANGED <<action, provider>>
  PROVE  LastRouted'
<1>1. \A h : Placed(h)' = Placed(h)
  BY DEF Placed
<1>2. provider'.last = provider.last
  OBVIOUS
<1> QED
  BY <1>1, <1>2 DEF LastRouted

LEMMA InvocationKept == IInv /\ [InvocationNext]_invocationVars => IInv'
<1> SUFFICES ASSUME IInv, [InvocationNext]_invocationVars PROVE IInv'
  OBVIOUS
<1> USE InvocationAssumption
<1>1. CASE BeginRound
  <2>1. /\ round.pc = "begin" /\ UNCHANGED <<action, transcript, provider>>
        /\ round' = [round EXCEPT !.pc = "action", !.calls = 0, !.authorized = Authorized]
    BY <1>1 DEF BeginRound
  <2>2. Authorized \in BOOLEAN
    BY DEF Authorized, IInv, InvocationTypeOK, Action
  <2>3. InvocationTypeOK'
    <3>1. 0 \in 0 .. (MaxCalls + 1)
      OBVIOUS
    <3> QED
      BY <2>1, <2>2, <3>1 DEF IInv, InvocationTypeOK
  <2>4. RoundsCounted' /\ InThisRound'
    BY <2>1 DEF IInv, InvocationTypeOK, RoundsCounted, InThisRound
  <2> QED
    BY <2>1, <2>3, <2>4, LastRoutedKept DEF IInv
<1>2. ASSUME NEW asked \in Calls, FetchRefused(asked) \/ FetchUnsent(asked)
      PROVE  IInv'
  <2>1. round.pc = "action" /\ Counted /\ UNCHANGED <<action, transcript, provider>>
    BY <1>2 DEF FetchRefused, FetchUnsent
  <2>2. InvocationTypeOK'
    BY <2>1, CountedCounts DEF IInv, InvocationTypeOK
  <2>3. RoundsCounted' /\ InThisRound'
    BY <2>1, CountedCounts DEF IInv, RoundsCounted, InThisRound
  <2> QED
    BY <2>1, <2>2, <2>3, LastRoutedKept DEF IInv
<1>3. ASSUME NEW asked \in Calls, FetchSent(asked)
      PROVE  IInv'
  <2>1. /\ round.pc = "action" /\ Counted /\ UNCHANGED <<action, transcript>>
        /\ admit(asked)
        /\ provider' = [last |-> asked, rounds |-> provider.rounds \cup {round.number}]
    BY <1>3 DEF FetchSent
  <2>2. InvocationTypeOK'
    BY <2>1, CountedCounts DEF IInv, InvocationTypeOK
  <2>3. RoundsCounted' /\ InThisRound'
    BY <2>1, CountedCounts DEF IInv, RoundsCounted, InThisRound
  <2>4. Placed(asked)' = Placed(asked)
    BY <2>1 DEF Placed
  <2>5. LastRouted'
    <3>1. provider'.last = asked
      BY <2>1
    <3> SUFFICES ASSUME NEW s \in Placed(asked.host)'
                 PROVE  \E r \in Range(Placement[s].routes) :
                          /\ r.method = asked.method
                          /\ matches(r.path, asked.path)
                          /\ \A q \in Range(r.query) :
                               LET read == Readings(asked.query, q.fold) IN
                               read # {} /\ read \subseteq q.values
      BY <3>1 DEF LastRouted
    <3>2. s \in Placed(asked.host)
      BY <2>1 DEF Placed
    <3> QED
      BY <2>1, <3>2, AdmittedRouted
  <2> QED
    BY <2>2, <2>3, <2>5 DEF IInv
<1>4. CASE ActionEnds \/ AsksAfterCall \/ Denied
           \/ \E s \in StoredInputs : HoldRefused(s)
  <2>1. /\ round.pc = "action" /\ UNCHANGED <<action, transcript, provider>>
        /\ \E end \in {"result", "failed"} : round' = [round EXCEPT !.pc = end]
    BY <1>4 DEF ActionEnds, AsksAfterCall, Denied, HoldRefused, MayAsk
  <2>2. InvocationTypeOK'
    BY <2>1 DEF IInv, InvocationTypeOK
  <2>3. RoundsCounted' /\ InThisRound'
    BY <2>1 DEF IInv, InvocationTypeOK, RoundsCounted, InThisRound
  <2> QED
    BY <2>1, <2>2, <2>3, LastRoutedKept DEF IInv
<1>5. ASSUME NEW approval \in BOOLEAN, push_response(approval)
      PROVE  IInv'
  <2>1. /\ MayAsk /\ AnotherRound /\ UNCHANGED <<action, provider>>
        /\ transcript' = [transcript EXCEPT !.responses = @ + 1, !.approved = @ \/ approval]
    BY <1>5 DEF push_response
  <2>2. /\ transcript.responses \in Nat /\ transcript.responses <= round.number
        /\ round.number \in Nat /\ round.number <= MaxResponses + MaxHeld
    BY <2>1 DEF MayAsk, IInv, InvocationTypeOK, RoundsCounted, Rounds
  <2>3. (transcript.approved \/ approval) \in BOOLEAN
    OBVIOUS
  <2>4. transcript.responses + 1 \in Rounds
    BY <2>2 DEF Rounds
  <2>5. InvocationTypeOK'
    BY <2>1, <2>3, <2>4, AnotherRoundCounts DEF IInv, InvocationTypeOK
  <2>6. transcript'.responses = transcript.responses + 1
    BY <2>1 DEF IInv, InvocationTypeOK
  <2>7. RoundsCounted' /\ InThisRound'
    BY <2>1, <2>2, <2>6, AnotherRoundCounts DEF RoundsCounted, InThisRound
  <2> QED
    BY <2>1, <2>5, <2>7, LastRoutedKept DEF IInv
<1>6. ASSUME NEW s \in StoredInputs, hold_stored_input(s)
      PROVE  IInv'
  <2>1. /\ MayAsk /\ AnotherRound /\ UNCHANGED <<action, provider>>
        /\ \E value \in Values \ {"none"} :
             transcript' = [transcript EXCEPT !.held[s] = value]
    BY <1>6 DEF hold_stored_input
  <2>2. /\ transcript.responses \in Nat /\ transcript.responses <= round.number
        /\ round.number \in Nat
    BY <2>1 DEF MayAsk, IInv, InvocationTypeOK, RoundsCounted, Rounds
  <2>3. InvocationTypeOK' /\ transcript'.responses = transcript.responses
    BY <2>1, AnotherRoundCounts DEF IInv, InvocationTypeOK
  <2>4. RoundsCounted' /\ InThisRound'
    BY <2>1, <2>2, <2>3, AnotherRoundCounts DEF RoundsCounted, InThisRound
  <2> QED
    BY <2>1, <2>3, <2>4, LastRoutedKept DEF IInv
<1>7. CASE UNCHANGED invocationVars
  BY <1>7, LastRoutedKept
  DEF invocationVars, IInv, InvocationTypeOK, RoundsCounted, InThisRound
<1> QED
  BY <1>1, <1>2, <1>3, <1>4, <1>5, <1>6, <1>7 DEF InvocationNext

LEMMA InvocationInvariant == InvocationSpec => []IInv
  BY InvocationInitially, InvocationKept, PTL DEF InvocationSpec

(* Whatever an Action asks, for every placement of Stored Inputs, every      *)
(* reviewed route and every limit, a provider receives them only for an     *)
(* endpoint of each, and an Action that is run from its start again has     *)
(* made no call (call_error, admit, invoke.rs).                            *)
THEOREM OnlyAllowedCalls == InvocationSpec => []CallsAllowed
<1>1. ASSUME IInv PROVE Cardinality(provider.rounds) <= 1
  <2>1. provider.rounds = {} \/ provider.rounds = {round.number}
    BY <1>1 DEF IInv, InThisRound
  <2>2. Cardinality({}) = 0 /\ Cardinality({round.number}) = 1
    BY FS_EmptySet, FS_Singleton
  <2> QED
    BY <2>1, <2>2
<1>2. IInv => CallsAllowed
  BY <1>1 DEF IInv, LastRouted, CallsAllowed
<1> QED
  BY <1>2, InvocationInvariant, PTL

-----------------------------------------------------------------------------
(* Translation: the numbers first. *)

(* A set of naturals that is not empty has a least element ... *)
LEMMA LeastNatural ==
  ASSUME NEW S \in SUBSET Nat, S # {}
  PROVE  \E n \in S : \A k \in S : n <= k
<1>1. \E n \in S : \A k \in S : ~ (<<k, n>> \in OpToRel(<, Nat))
  <2> DEFINE R == OpToRel(<, Nat)
  <2>1. IsWellFoundedOn(R, Nat)
    BY NatLessThanWellFounded
  <2> HIDE DEF R
  <2>2. \E n \in S : \A k \in S : ~ (<<k, n>> \in R)
    BY <2>1, WFMin
  <2> QED
    BY <2>2 DEF R
<1>2. PICK n \in S : \A k \in S : ~ (<<k, n>> \in OpToRel(<, Nat))
  BY <1>1
<1>3. \A k \in S : ~ (k < n)
  BY <1>2 DEF OpToRel
<1> QED
  BY <1>3

(* ... and, when it is bounded, a greatest one. *)
LEMMA GreatestNatural ==
  ASSUME NEW S \in SUBSET Nat, S # {}, NEW b \in Nat, \A k \in S : k <= b
  PROVE  \E n \in S : \A k \in S : k <= n
<1> DEFINE T == {j \in Nat : b - j \in S}
<1>1. T # {}
  <2>1. PICK k \in S : TRUE
    OBVIOUS
  <2>2. b - k \in Nat /\ b - (b - k) = k
    OBVIOUS
  <2> QED
    BY <2>1, <2>2
<1>2. T \in SUBSET Nat
  OBVIOUS
<1>3. PICK j \in T : \A i \in T : j <= i
  <2> HIDE DEF T
  <2> QED
    BY <1>1, <1>2, LeastNatural
<1>4. b - j \in S
  BY <1>3
<1>5. ASSUME NEW k \in S PROVE k <= b - j
  <2>1. b - k \in Nat /\ b - (b - k) = k
    OBVIOUS
  <2>2. j <= b - k
    BY <1>3, <2>1
  <2> QED
    BY <2>1, <2>2
<1> QED
  BY <1>4, <1>5

(* The place of a message among those of a set. *)
Rank(P, m) == Cardinality({k \in P : k <= m})

LEMMA RankBounded ==
  ASSUME NEW P \in SUBSET Ids18n, NEW m \in Ids18n
  PROVE  /\ IsFiniteSet({k \in P : k <= m})
         /\ Rank(P, m) \in Nat /\ Rank(P, m) <= Messages
<1>1. IsFiniteSet(1 .. Messages) /\ Cardinality(1 .. Messages) = Messages
  BY TranslationAssumption, FS_Interval
<1>2. {k \in P : k <= m} \in SUBSET (1 .. Messages)
  BY DEF Ids18n
<1>3. /\ IsFiniteSet({k \in P : k <= m})
      /\ Cardinality({k \in P : k <= m}) <= Cardinality(1 .. Messages)
  BY <1>1, <1>2, FS_Subset
<1> QED
  BY <1>1, <1>3, FS_CardinalityType DEF Rank

(* No two messages have the same place. *)
LEMMA RanksDiffer ==
  ASSUME NEW P \in SUBSET Ids18n, NEW m \in P, NEW n \in P, Rank(P, m) = Rank(P, n)
  PROVE  m = n
<1>1. ASSUME NEW x \in P, NEW y \in P, x < y, Rank(P, x) = Rank(P, y) PROVE FALSE
  <2>0. P \subseteq Nat
    BY TranslationAssumption DEF Ids18n
  <2>1. {k \in P : k <= x} \in SUBSET {k \in P : k <= y}
    <3>1. ASSUME NEW k \in P, k <= x PROVE k <= y
      BY <1>1, <2>0, <3>1
    <3> QED
      BY <3>1
  <2>2. IsFiniteSet({k \in P : k <= y})
    BY RankBounded
  <2>3. {k \in P : k <= x} = {k \in P : k <= y}
    BY <1>1, <2>1, <2>2, FS_Subset DEF Rank
  <2>4. y \in {k \in P : k <= y} /\ y \notin {k \in P : k <= x}
    BY <1>1, TranslationAssumption DEF Ids18n
  <2> QED
    BY <2>3, <2>4
<1>2. m \in Int /\ n \in Int
  BY TranslationAssumption DEF Ids18n
<1> QED
  BY <1>1, <1>2

(* Places have no gap: where none is the next one, none is further.         *)
LEMMA RanksDense ==
  ASSUME NEW P \in SUBSET Ids18n, NEW n \in Nat, \A m \in P : Rank(P, m) # n + 1
  PROVE  \A m \in P : Rank(P, m) <= n
<1> SUFFICES ASSUME NEW z \in P, ~ (Rank(P, z) <= n) PROVE FALSE
  OBVIOUS
<1> DEFINE Far == {m \in P : Rank(P, m) > n}
<1>0. P \subseteq Nat
  BY TranslationAssumption DEF Ids18n
<1>1. Far # {} /\ Far \in SUBSET Nat
  <2>1. z \in P /\ z \in Ids18n
    OBVIOUS
  <2>2. Rank(P, z) \in Nat
    BY <2>1, RankBounded
  <2>3. z \in Far
    BY <2>1, <2>2
  <2> QED
    BY <1>0, <2>3
<1>2. PICK m \in Far : \A k \in Far : m <= k
  <2> HIDE DEF Far
  <2> QED
    BY <1>1, LeastNatural
<1>3. m \in P /\ m \in Nat /\ Rank(P, m) \in Nat /\ Rank(P, m) > n + 1
  <2>1. m \in P /\ Rank(P, m) > n
    BY <1>2
  <2>2. Rank(P, m) \in Nat
    BY <2>1, RankBounded
  <2> QED
    BY <1>0, <2>1, <2>2
<1> DEFINE Below == {k \in P : k <= m} \ {m}
<1>4. IsFiniteSet(Below) /\ Cardinality(Below) = Rank(P, m) - 1
  <2>1. IsFiniteSet({k \in P : k <= m}) /\ m \in {k \in P : k <= m}
    BY <1>3, RankBounded
  <2> QED
    BY <2>1, FS_RemoveElement DEF Rank
<1>5. Below # {}
  <2>1. Cardinality(Below) # 0
    BY <1>3, <1>4
  <2> HIDE DEF Below
  <2> QED
    BY <2>1, FS_EmptySet
<1>6. PICK x \in Below : \A k \in Below : k <= x
  <2>1. Below \in SUBSET Nat /\ \A k \in Below : k <= m
    BY <1>0
  <2> HIDE DEF Below
  <2> QED
    BY <1>3, <1>5, <2>1, GreatestNatural
<1>7. x \in P /\ x < m
  BY <1>0, <1>3, <1>6
<1>8. {k \in P : k <= x} = Below
  <2>1. ASSUME NEW k \in P, k <= x PROVE k \in Below
    <3>1. k \in Nat /\ x \in Nat /\ m \in Nat
      BY <1>0, <1>3, <1>7
    <3>2. k <= m /\ k # m
      BY <1>7, <2>1, <3>1
    <3> QED
      BY <3>2
  <2>2. ASSUME NEW k \in Below PROVE k \in P /\ k <= x
    BY <1>6
  <2> HIDE DEF Below
  <2> QED
    BY <2>1, <2>2 DEF Below
<1>9. Rank(P, x) > n
  BY <1>3, <1>4, <1>8 DEF Rank
<1>10. x \in Far
  BY <1>7, <1>9
<1>11. m <= x
  BY <1>2, <1>10
<1> QED
  BY <1>0, <1>3, <1>7, <1>11

-----------------------------------------------------------------------------
(* Translation: no text is missing, although cancelled workers say nothing. *)

Handles(t, m) == thread[t].pc \in {"ask", "wait"} /\ thread[t].message = m

(* Threads run while the stage works, and each that has a message has one   *)
(* of the catalog.                                                         *)
ThreadsPlaced ==
  /\ job.phase # "work" => \A t \in Threads : thread[t].pc = "ended"
  /\ \A t \in Threads : thread[t].pc \in {"ask", "wait"} => thread[t].message \in Ids18n

(* Nobody stops the workers but one that leaves a reason.                  *)
StoppedForReason == job.stop => job.failed \/ job.refused # {}

(* Until then every claimed message is translated or at work, and a worker *)
(* that found nothing to claim left nothing to the others.                 *)
NoneForgotten ==
  job.phase = "work" =>
    /\ job.texts = Ids18n \ job.pending
    /\ ~job.stop => \A m \in job.pending :
         /\ Rank(job.pending, m) <= job.next =>
              m \in job.learned \/ \E t \in Threads : Handles(t, m)
         /\ (\E t \in Threads : thread[t].pc = "ended") =>
              Rank(job.pending, m) <= job.next

(* What the later phases rest on. *)
PackHolds ==
  /\ job.phase \in {"assemble", "verify", "remember"} => job.texts = Ids18n
  /\ job.phase = "remember" => job.proved

TrInv == TranslationTypeOK /\ ThreadsPlaced /\ StoppedForReason /\ NoneForgotten /\ PackHolds

(* A thread is a record of its four fields. *)
LEMMA BecomesTyped ==
  ASSUME TranslationTypeOK, NEW t \in Threads, NEW record \in Thread, Becomes(t, record)
  PROVE  /\ thread' \in [Threads -> Thread] /\ thread'[t] = record
         /\ \A o \in Threads : o # t => thread'[o] = thread[o]
  BY DEF TranslationTypeOK, Becomes

LEMMA EndedIsThread == Ended18n \in Thread /\ [Ended18n EXCEPT !.pc = "claim"] \in Thread
<1>1. 0 \in 0 .. Messages /\ 0 \in 0 .. Attempts
  BY TranslationAssumption
<1> QED
  BY <1>1 DEF Ended18n, Thread

LEMMA RestIsJob ==
  ASSUME NEW n \in 0 .. MaxStages
  PROVE  Rest(n) \in Job
<1>1. 0 \in 0 .. Messages
  BY TranslationAssumption
<1> QED
  BY <1>1 DEF Rest, Job

LEMMA TranslationInitially == TranslationInit => TrInv
<1> SUFFICES ASSUME TranslationInit PROVE TrInv
  OBVIOUS
<1>1. 0 \in 0 .. MaxStages
  BY TranslationAssumption
<1>2. TranslationTypeOK
  BY <1>1, RestIsJob, EndedIsThread DEF TranslationInit, TranslationTypeOK
<1> QED
  BY <1>2 DEF TranslationInit, Rest, Ended18n, TrInv, ThreadsPlaced, StoppedForReason,
              NoneForgotten, PackHolds

(* A stage that ends or is killed leaves nothing at work. *)
LEMMA StopsKept ==
  ASSUME TrInv, Stops, memory' \in [Ids18n -> Remembered], thread' \in [Threads -> Thread],
         \A t \in Threads : thread'[t].pc = "ended"
  PROVE  TrInv'
<1>1. job.stages \in 0 .. MaxStages
  BY DEF TrInv, TranslationTypeOK, Job
<1>2. TranslationTypeOK'
  BY <1>1, RestIsJob DEF Stops, TranslationTypeOK
<1> QED
  BY <1>2 DEF Stops, Rest, TrInv, ThreadsPlaced, StoppedForReason, NoneForgotten, PackHolds

LEMMA ThreadStepKept ==
  ASSUME TrInv, NEW t \in Threads, ThreadStep(t)
  PROVE  TrInv'
<1>0. TranslationTypeOK /\ job \in Job /\ thread[t] \in Thread
  BY DEF TrInv, TranslationTypeOK
<1>1. ASSUME Claim(t) PROVE TrInv'
  <2>1. PICK m \in Ids18n :
          /\ thread[t].pc = "claim" /\ ~job.stop /\ UNCHANGED memory
          /\ IsPending(m, job.next + 1)
          /\ job' = [job EXCEPT !.next = @ + 1]
          /\ Becomes(t, [Ended18n EXCEPT !.pc = "ask", !.message = m])
    BY <1>1 DEF Claim
  <2>2. /\ m \in job.pending /\ Rank(job.pending, m) = job.next + 1
        /\ job.pending \in SUBSET Ids18n /\ job.next \in Nat
    BY <1>0, <2>1 DEF IsPending, Rank, Job
  <2>3. job.next + 1 \in 0 .. Messages
    <3>1. Rank(job.pending, m) <= Messages
      BY <2>2, RankBounded
    <3> QED
      BY <2>2, <3>1, TranslationAssumption
  <2>4. [Ended18n EXCEPT !.pc = "ask", !.message = m] \in Thread
    <3>1. m \in 0 .. Messages
      BY TranslationAssumption DEF Ids18n
    <3> QED
      BY <3>1, EndedIsThread DEF Thread, Ended18n
  <2>5. job' \in Job
    BY <1>0, <2>1, <2>3 DEF Job
  <2>6. TranslationTypeOK'
    BY <1>0, <2>1, <2>4, <2>5, BecomesTyped DEF TranslationTypeOK
  <2>7. /\ thread'[t].pc = "ask" /\ thread'[t].message = m
        /\ \A o \in Threads : o # t => thread'[o] = thread[o]
    BY <1>0, <2>1, <2>4, BecomesTyped DEF Ended18n
  <2>8. /\ job'.phase = job.phase /\ job'.texts = job.texts /\ job'.pending = job.pending
        /\ job'.stop = job.stop /\ job'.learned = job.learned /\ job'.next = job.next + 1
        /\ job'.failed = job.failed /\ job'.refused = job.refused /\ job'.proved = job.proved
    BY <1>0, <2>1 DEF Job
  <2>9. job.phase = "work"
    BY <2>1 DEF TrInv, ThreadsPlaced
  <2>10. ThreadsPlaced' /\ StoppedForReason' /\ PackHolds'
    BY <2>7, <2>8, <2>9 DEF TrInv, ThreadsPlaced, StoppedForReason, PackHolds
  <2>11. NoneForgotten'
    <3>1. ASSUME NEW n \in job.pending, Rank(job.pending, n) <= job.next + 1
          PROVE  n \in job.learned \/ \E o \in Threads : Handles(o, n)'
      <4>1. CASE n = m
        BY <2>7, <4>1 DEF Handles
      <4>2. CASE n # m
        <5>0. n \in Ids18n
          BY <2>2
        <5>1. Rank(job.pending, n) \in Nat
          BY <2>2, <5>0, RankBounded
        <5>4. Rank(job.pending, n) # job.next + 1
          BY <2>2, <4>2, RanksDiffer
        <5>2. Rank(job.pending, n) <= job.next
          BY <2>2, <3>1, <5>1, <5>4
        <5>3. n \in job.learned \/ \E o \in Threads : Handles(o, n)
          BY <2>1, <2>9, <5>2 DEF TrInv, NoneForgotten
        <5> QED
          BY <2>1, <2>7, <5>3 DEF Handles
      <4> QED
        BY <4>1, <4>2
    <3>2. ASSUME NEW n \in job.pending, NEW o \in Threads, thread'[o].pc = "ended"
          PROVE  Rank(job.pending, n) <= job.next + 1
      <4>1. o # t /\ thread[o].pc = "ended"
        BY <2>7, <3>2
      <4>2. Rank(job.pending, n) <= job.next
        BY <2>1, <2>9, <4>1 DEF TrInv, NoneForgotten
      <4>3. Rank(job.pending, n) \in Nat
        <5>1. n \in Ids18n
          BY <2>2
        <5> QED
          BY <2>2, <5>1, RankBounded
      <4> QED
        BY <2>2, <4>2, <4>3
    <3> QED
      BY <2>8, <2>9, <3>1, <3>2 DEF TrInv, NoneForgotten
  <2> QED
    BY <2>6, <2>10, <2>11 DEF TrInv
<1>2. ASSUME ThreadEnds(t) PROVE TrInv'
  <2>1. /\ thread[t].pc = "claim" /\ Becomes(t, Ended18n) /\ UNCHANGED <<memory, job>>
        /\ job.stop \/ \A m \in Ids18n : ~IsPending(m, job.next + 1)
    BY <1>2 DEF ThreadEnds
  <2>2. /\ thread' \in [Threads -> Thread] /\ thread'[t] = Ended18n
        /\ \A o \in Threads : o # t => thread'[o] = thread[o]
    BY <1>0, <2>1, EndedIsThread, BecomesTyped
  <2>3. job.pending \in SUBSET Ids18n /\ job.next \in Nat
    BY <1>0 DEF Job
  <2>4. ~job.stop => \A m \in job.pending : Rank(job.pending, m) <= job.next
    <3>1. ASSUME ~job.stop PROVE \A m \in job.pending : Rank(job.pending, m) # job.next + 1
      BY <2>1, <2>3, <3>1 DEF IsPending, Rank
    <3> QED
      BY <2>3, <3>1, RanksDense
  <2>5. TranslationTypeOK' /\ ThreadsPlaced' /\ StoppedForReason' /\ PackHolds'
    BY <1>0, <2>1, <2>2
       DEF TrInv, TranslationTypeOK, ThreadsPlaced, StoppedForReason, PackHolds,
                     Ended18n
  <2>6. NoneForgotten'
    <3>1. ASSUME NEW n, NEW o \in Threads, Handles(o, n) PROVE Handles(o, n)'
      BY <2>1, <2>2, <3>1 DEF Handles
    <3> QED
      BY <2>1, <2>4, <3>1 DEF TrInv, NoneForgotten
  <2> QED
    BY <2>5, <2>6 DEF TrInv
<1>3. ASSUME Ask(t) PROVE TrInv'
  <2>1. PICK record \in {Ended18n, [thread[t] EXCEPT !.pc = "wait"]} :
          /\ thread[t].pc = "ask" /\ Becomes(t, record) /\ UNCHANGED <<memory, job>>
          /\ record = IF job.stop THEN Ended18n ELSE [thread[t] EXCEPT !.pc = "wait"]
    BY <1>3 DEF Ask
  <2>2. record \in Thread
    BY <1>0, <2>1, EndedIsThread DEF Thread
  <2>3. /\ thread' \in [Threads -> Thread] /\ thread'[t] = record
        /\ \A o \in Threads : o # t => thread'[o] = thread[o]
    BY <1>0, <2>1, <2>2, BecomesTyped
  <2>4. /\ job.stop => record.pc = "ended"
        /\ ~job.stop => record.pc = "wait" /\ record.message = thread[t].message
    BY <1>0, <2>1 DEF Ended18n, Thread
  <2>5. job.phase = "work"
    BY <2>1 DEF TrInv, ThreadsPlaced
  <2>6. TranslationTypeOK'
    BY <1>0, <2>1, <2>3 DEF TranslationTypeOK
  <2>7. job.stop \in BOOLEAN
    BY <1>0 DEF Job
  <2>8. ThreadsPlaced' /\ StoppedForReason' /\ PackHolds'
    BY <2>1, <2>3, <2>4, <2>5, <2>7 DEF TrInv, ThreadsPlaced, StoppedForReason, PackHolds
  <2>9. NoneForgotten'
    <3>1. ASSUME ~job.stop, NEW n, NEW o \in Threads, Handles(o, n) PROVE Handles(o, n)'
      BY <2>1, <2>3, <2>4, <3>1 DEF Handles
    <3>2. ASSUME ~job.stop, NEW o \in Threads, thread'[o].pc = "ended"
          PROVE  thread[o].pc = "ended"
      BY <2>3, <2>4, <3>2
    <3> QED
      BY <2>1, <2>5, <3>1, <3>2 DEF TrInv, NoneForgotten
  <2> QED
    BY <2>6, <2>8, <2>9 DEF TrInv
<1>4. ASSUME NEW fits \in SUBSET Locales, Translated(t, fits) PROVE TrInv'
  <2>1. /\ thread[t].pc = "wait" /\ UNCHANGED memory
        /\ job' = [job EXCEPT !.learned = @ \cup {thread[t].message}]
        /\ Becomes(t, [Ended18n EXCEPT !.pc = "claim"])
    BY <1>4 DEF Translated
  <2>2. /\ thread' \in [Threads -> Thread] /\ thread'[t].pc = "claim"
        /\ \A o \in Threads : o # t => thread'[o] = thread[o]
    BY <1>0, <2>1, EndedIsThread, BecomesTyped DEF Ended18n
  <2>3. thread[t].message \in Ids18n /\ job.phase = "work"
    BY <2>1 DEF TrInv, ThreadsPlaced
  <2>4. job' \in Job
    <3>1. job.learned \cup {thread[t].message} \in SUBSET Ids18n
      BY <1>0, <2>3 DEF Job
    <3> QED
      BY <1>0, <2>1, <3>1 DEF Job
  <2>5. /\ job'.phase = job.phase /\ job'.texts = job.texts /\ job'.pending = job.pending
        /\ job'.stop = job.stop /\ job'.next = job.next
        /\ job'.learned = job.learned \cup {thread[t].message}
        /\ job'.failed = job.failed /\ job'.refused = job.refused /\ job'.proved = job.proved
    BY <1>0, <2>1 DEF Job
  <2>6. TranslationTypeOK'
    BY <1>0, <2>1, <2>2, <2>4 DEF TranslationTypeOK
  <2>7. ThreadsPlaced' /\ StoppedForReason' /\ PackHolds'
    BY <2>2, <2>3, <2>5 DEF TrInv, ThreadsPlaced, StoppedForReason, PackHolds
  <2>8. NoneForgotten'
    <3>1. ASSUME NEW n, NEW o \in Threads, Handles(o, n)
          PROVE  Handles(o, n)' \/ n \in job'.learned
      BY <2>1, <2>2, <2>5, <3>1 DEF Handles
    <3>2. ASSUME NEW o \in Threads, thread'[o].pc = "ended"
          PROVE  thread[o].pc = "ended"
      BY <2>2, <3>2
    <3> QED
      BY <2>3, <2>5, <3>1, <3>2 DEF TrInv, NoneForgotten
  <2> QED
    BY <2>6, <2>7, <2>8 DEF TrInv
<1>5. ASSUME NEW fits \in SUBSET Locales, Retry(t, fits) PROVE TrInv'
  <2>1. /\ thread[t].pc = "wait" /\ UNCHANGED <<memory, job>>
        /\ thread[t].attempt + 1 < Attempts
        /\ Becomes(t, [thread[t] EXCEPT !.pc = "ask", !.attempt = @ + 1,
                                        !.admitted = Kept(t, fits)])
    BY <1>5 DEF Retry
  <2>2. [thread[t] EXCEPT !.pc = "ask", !.attempt = @ + 1, !.admitted = Kept(t, fits)] \in Thread
    <3>1. Kept(t, fits) \in SUBSET Locales
      BY <1>0 DEF Kept, Thread
    <3>2. thread[t].attempt + 1 \in 0 .. Attempts
      BY <1>0, <2>1, TranslationAssumption DEF Thread
    <3> QED
      BY <1>0, <3>1, <3>2 DEF Thread
  <2>3. /\ thread' \in [Threads -> Thread]
        /\ thread'[t].pc = "ask" /\ thread'[t].message = thread[t].message
        /\ \A o \in Threads : o # t => thread'[o] = thread[o]
    <3>1. thread' \in [Threads -> Thread]
          /\ thread'[t] = [thread[t] EXCEPT !.pc = "ask", !.attempt = @ + 1,
                                            !.admitted = Kept(t, fits)]
          /\ \A o \in Threads : o # t => thread'[o] = thread[o]
      BY <1>0, <2>1, <2>2, BecomesTyped
    <3> QED
      BY <1>0, <3>1 DEF Thread
  <2>4. job.phase = "work"
    BY <2>1 DEF TrInv, ThreadsPlaced
  <2>5. TranslationTypeOK' /\ ThreadsPlaced' /\ StoppedForReason' /\ PackHolds'
    BY <1>0, <2>1, <2>3, <2>4
       DEF TrInv, TranslationTypeOK, ThreadsPlaced, StoppedForReason, PackHolds
  <2>6. NoneForgotten'
    <3>1. ASSUME NEW n, NEW o \in Threads, Handles(o, n) PROVE Handles(o, n)'
      BY <2>1, <2>3, <3>1 DEF Handles
    <3>2. ASSUME NEW o \in Threads, thread'[o].pc = "ended" PROVE thread[o].pc = "ended"
      BY <2>3, <3>2
    <3> QED
      BY <2>1, <2>4, <3>1, <3>2 DEF TrInv, NoneForgotten
  <2> QED
    BY <2>5, <2>6 DEF TrInv
<1>6. ASSUME \/ \E fits \in SUBSET Locales : Refused(t, fits)
             \/ ProviderFails(t)
      PROVE  TrInv'
  <2>1. /\ thread[t].pc = "wait" /\ UNCHANGED memory
        /\ \/ job' = [job EXCEPT !.stop = TRUE, !.refused = @ \cup {thread[t].message}]
           \/ job' = [job EXCEPT !.stop = TRUE, !.failed = TRUE]
        /\ Becomes(t, [Ended18n EXCEPT !.pc = "claim"])
    BY <1>6 DEF Refused, GivenUp, ProviderFails
  <2>2. /\ thread' \in [Threads -> Thread] /\ thread'[t].pc = "claim"
        /\ \A o \in Threads : o # t => thread'[o] = thread[o]
    BY <1>0, <2>1, EndedIsThread, BecomesTyped DEF Ended18n
  <2>3. thread[t].message \in Ids18n /\ job.phase = "work"
    BY <2>1 DEF TrInv, ThreadsPlaced
  <2>4. /\ job' \in Job /\ job'.stop = TRUE /\ job'.phase = job.phase /\ job'.texts = job.texts
        /\ job'.pending = job.pending /\ job'.proved = job.proved
        /\ job'.failed = TRUE \/ job'.refused # {}
    <3>1. CASE job' = [job EXCEPT !.stop = TRUE, !.refused = @ \cup {thread[t].message}]
      <4>1. job.refused \cup {thread[t].message} \in SUBSET Ids18n
        BY <1>0, <2>3 DEF Job
      <4> QED
        BY <1>0, <3>1, <4>1 DEF Job
    <3>2. CASE job' = [job EXCEPT !.stop = TRUE, !.failed = TRUE]
      BY <1>0, <3>2 DEF Job
    <3> QED
      BY <2>1, <3>1, <3>2
  <2>5. TranslationTypeOK'
    BY <1>0, <2>1, <2>2, <2>4 DEF TranslationTypeOK
  <2>6. ThreadsPlaced' /\ StoppedForReason' /\ PackHolds' /\ NoneForgotten'
    BY <2>2, <2>3, <2>4 DEF TrInv, ThreadsPlaced, StoppedForReason, PackHolds, NoneForgotten
  <2> QED
    BY <2>5, <2>6 DEF TrInv
<1> QED
  BY <1>1, <1>2, <1>3, <1>4, <1>5, <1>6 DEF ThreadStep

(* Every phase but the last leads to the next one, or to the end. *)
LEMMA PackStepKept ==
  ASSUME TrInv, PackStep
  PROVE  TrInv'
<1>0. TranslationTypeOK /\ job \in Job /\ thread \in [Threads -> Thread]
  BY DEF TrInv, TranslationTypeOK
<1>1. ASSUME job.phase # "work" \/ AllEnded, Stops, UNCHANGED <<memory, thread>> PROVE TrInv'
  <2>1. \A t \in Threads : thread'[t].pc = "ended"
    BY <1>1 DEF TrInv, ThreadsPlaced, AllEnded
  <2> QED
    BY <1>0, <1>1, <2>1, StopsKept DEF TranslationTypeOK
<1>2. ASSUME job.phase # "work" \/ AllEnded, UNCHANGED <<memory, thread>>,
             NEW phase \in {"assemble", "verify", "remember"},
             NEW texts \in SUBSET Ids18n, texts = Ids18n,
             NEW proved \in BOOLEAN, phase = "remember" => proved,
             job' = [job EXCEPT !.phase = phase, !.texts = texts, !.proved = proved]
      PROVE  TrInv'
  <2>1. job' \in Job
    BY <1>0, <1>2 DEF Job
  <2>2. /\ job'.phase = phase /\ job'.texts = texts /\ job'.proved = proved
        /\ job'.stop = job.stop /\ job'.failed = job.failed /\ job'.refused = job.refused
    BY <1>0, <1>2 DEF Job
  <2>3. TranslationTypeOK'
    BY <1>0, <1>2, <2>1 DEF TranslationTypeOK
  <2>4. ThreadsPlaced' /\ StoppedForReason' /\ PackHolds' /\ NoneForgotten'
    BY <1>2, <2>2
       DEF TrInv, ThreadsPlaced, StoppedForReason, PackHolds, NoneForgotten, AllEnded
  <2> QED
    BY <2>3, <2>4 DEF TrInv
<1>3. CASE Join
  <2>1. CASE job.failed \/ job.refused # {}
    BY <1>1, <1>3, <2>1 DEF Join
  <2>2. CASE ~ (job.failed \/ job.refused # {})
    <3>1. /\ job.phase = "work" /\ AllEnded /\ UNCHANGED <<memory, thread>>
          /\ job' = [job EXCEPT !.phase = "assemble", !.texts = @ \cup job.learned]
      BY <1>3, <2>2 DEF Join
    <3>2. ~job.stop
      BY <2>2 DEF TrInv, StoppedForReason
    <3>3. \A m \in job.pending : m \in job.learned
      <4>1. PICK o \in Threads : TRUE
        BY TranslationAssumption
      <4>2. \A t \in Threads : thread[t].pc = "ended"
        BY <3>1 DEF AllEnded
      <4> QED
        BY <3>1, <3>2, <4>1, <4>2 DEF TrInv, NoneForgotten, Handles
    <3>4. job.texts \cup job.learned = Ids18n
      BY <1>0, <3>1, <3>3 DEF TrInv, NoneForgotten, Job
    <3>5. job' = [job EXCEPT !.phase = "assemble", !.texts = Ids18n, !.proved = job.proved]
          /\ job.proved \in BOOLEAN
      BY <1>0, <3>1, <3>4 DEF Job
    <3> QED
      BY <1>2, <3>1, <3>5
  <2> QED
    BY <2>1, <2>2
<1>4. CASE Assemble
  <2>1. CASE job.texts # Ids18n
    BY <1>1, <1>4, <2>1 DEF Assemble
  <2>2. CASE job.texts = Ids18n
    <3>1. /\ job.phase = "assemble" /\ UNCHANGED <<memory, thread>>
          /\ job' = [job EXCEPT !.phase = "verify"]
      BY <1>4, <2>2 DEF Assemble
    <3>2. job' = [job EXCEPT !.phase = "verify", !.texts = Ids18n, !.proved = job.proved]
          /\ job.proved \in BOOLEAN
      BY <1>0, <2>2, <3>1 DEF Job
    <3> QED
      BY <1>2, <3>1, <3>2
  <2> QED
    BY <2>1, <2>2
<1>5. CASE VerifyPack
  <2>1. /\ job.phase = "verify" /\ UNCHANGED <<memory, thread>>
        /\ job' = [job EXCEPT !.phase = "remember", !.proved = TRUE]
    BY <1>5 DEF VerifyPack
  <2>2. job.texts = Ids18n
    BY <2>1 DEF TrInv, PackHolds
  <2>3. job' = [job EXCEPT !.phase = "remember", !.texts = Ids18n, !.proved = TRUE]
    BY <1>0, <2>1, <2>2 DEF Job
  <2> QED
    BY <1>2, <2>1, <2>3
<1>6. CASE VerifyFails \/ PutFails \/ PackReady
  BY <1>1, <1>6 DEF VerifyFails, PutFails, PackReady
<1>7. ASSUME NEW m \in Ids18n, Put(m) PROVE TrInv'
  <2>1. /\ job.phase = "remember" /\ UNCHANGED thread
        /\ memory' = [memory EXCEPT ![m] = "fit"]
        /\ job' = [job EXCEPT !.learned = @ \ {m}]
    BY <1>7 DEF Put
  <2>2. job' \in Job
    BY <1>0, <2>1 DEF Job
  <2>3. /\ job'.phase = job.phase /\ job'.texts = job.texts /\ job'.proved = job.proved
        /\ job'.stop = job.stop /\ job'.failed = job.failed /\ job'.refused = job.refused
    BY <1>0, <2>1 DEF Job
  <2>4. TranslationTypeOK'
    BY <1>0, <2>1, <2>2 DEF TranslationTypeOK, Remembered
  <2>5. ThreadsPlaced' /\ StoppedForReason' /\ PackHolds' /\ NoneForgotten'
    BY <2>1, <2>3 DEF TrInv, ThreadsPlaced, StoppedForReason, PackHolds, NoneForgotten
  <2> QED
    BY <2>4, <2>5 DEF TrInv
<1> QED
  BY <1>3, <1>4, <1>5, <1>6, <1>7 DEF PackStep

LEMMA TranslationKept == TrInv /\ [TranslationNext]_translationVars => TrInv'
<1> SUFFICES ASSUME TrInv, [TranslationNext]_translationVars PROVE TrInv'
  OBVIOUS
<1>0. TranslationTypeOK /\ job \in Job /\ thread \in [Threads -> Thread]
  BY DEF TrInv, TranslationTypeOK
<1>1. CASE StageWithoutKey
  <2>1. /\ job.phase = "idle" /\ job.stages < MaxStages /\ UNCHANGED <<memory, thread>>
        /\ job' = Rest(job.stages + 1)
    BY <1>1 DEF StageWithoutKey
  <2>2. job.stages + 1 \in 0 .. MaxStages
    BY <1>0, <2>1, TranslationAssumption DEF Job
  <2>3. TranslationTypeOK'
    BY <1>0, <2>1, <2>2, RestIsJob DEF TranslationTypeOK
  <2> QED
    BY <2>1, <2>3 DEF TrInv, ThreadsPlaced, StoppedForReason, PackHolds, NoneForgotten, Rest
<1>2. CASE StageWithKey
  <2>1. PICK pending \in SUBSET Ids18n :
          /\ job.phase = "idle" /\ job.stages < MaxStages /\ UNCHANGED memory
          /\ job' = [Rest(job.stages + 1) EXCEPT
                      !.phase = "work", !.pending = pending, !.texts = Ids18n \ pending]
          /\ thread' = [t \in Threads |-> [Ended18n EXCEPT !.pc = "claim"]]
    BY <1>2 DEF StageWithKey
  <2>2. job.stages + 1 \in 0 .. MaxStages
    BY <1>0, <2>1, TranslationAssumption DEF Job
  <2>3. job' \in Job
    <3>1. Rest(job.stages + 1) \in Job
      BY <2>2, RestIsJob
    <3>2. Ids18n \ pending \in SUBSET Ids18n
      OBVIOUS
    <3> QED
      BY <2>1, <3>1, <3>2 DEF Job
  <2>4. /\ job'.phase = "work" /\ job'.pending = pending /\ job'.texts = Ids18n \ pending
        /\ job'.next = 0 /\ job'.stop = FALSE
    BY <2>1 DEF Rest
  <2>5. thread' \in [Threads -> Thread] /\ \A t \in Threads : thread'[t].pc = "claim"
    BY <2>1, EndedIsThread DEF Ended18n
  <2>6. TranslationTypeOK'
    BY <1>0, <2>1, <2>3, <2>5 DEF TranslationTypeOK
  <2>7. ASSUME NEW m \in pending PROVE ~ (Rank(pending, m) <= 0)
    <3>1. m \in {k \in pending : k <= m} /\ m \in Ids18n
      BY TranslationAssumption DEF Ids18n
    <3>2. IsFiniteSet({k \in pending : k <= m}) /\ Rank(pending, m) \in Nat
      BY <3>1, RankBounded
    <3>3. Rank(pending, m) # 0
      BY <3>1, <3>2, FS_EmptySet DEF Rank
    <3> QED
      BY <3>2, <3>3
  <2>8. NoneForgotten'
    BY <2>4, <2>5, <2>7 DEF NoneForgotten
  <2> QED
    BY <2>4, <2>5, <2>6, <2>8 DEF TrInv, ThreadsPlaced, StoppedForReason, PackHolds
<1>3. CASE StageKilled
  <2>1. Stops /\ UNCHANGED memory /\ thread' = [t \in Threads |-> Ended18n]
    BY <1>3 DEF StageKilled
  <2>2. thread' \in [Threads -> Thread] /\ \A t \in Threads : thread'[t].pc = "ended"
    BY <2>1, EndedIsThread DEF Ended18n
  <2> QED
    BY <1>0, <2>1, <2>2, StopsKept DEF TranslationTypeOK
<1>4. ASSUME NEW m \in Ids18n, NEW file \in {"unfit", "none"}, Forget(m, file) PROVE TrInv'
  <2>1. UNCHANGED <<job, thread>> /\ memory' = [memory EXCEPT ![m] = file]
    BY <1>4 DEF Forget
  <2>2. TranslationTypeOK'
    BY <1>0, <2>1 DEF TranslationTypeOK, Remembered
  <2> QED
    BY <2>1, <2>2
       DEF TrInv, ThreadsPlaced, StoppedForReason, PackHolds, NoneForgotten, Handles
<1>5. CASE UNCHANGED translationVars
  BY <1>5 DEF translationVars, TrInv, TranslationTypeOK, ThreadsPlaced, StoppedForReason,
              PackHolds, NoneForgotten, Handles
<1> QED
  BY <1>1, <1>2, <1>3, <1>4, <1>5, ThreadStepKept, PackStepKept DEF TranslationNext

LEMMA TranslationInvariant == TranslationSpec => []TrInv
  BY TranslationInitially, TranslationKept, PTL DEF TranslationSpec

(* Only Put makes a file of the memory fit. *)
LEMMA OnlyPutRemembers ==
  ASSUME TrInv, [TranslationNext]_translationVars, NEW m \in Ids18n,
         memory'[m] = "fit", memory[m] # "fit"
  PROVE  job.phase = "remember"
<1>0. memory \in [Ids18n -> Remembered]
  BY DEF TrInv, TranslationTypeOK
<1>1. UNCHANGED memory => FALSE
  OBVIOUS
<1>2. ASSUME NEW n \in Ids18n, NEW file \in {"unfit", "none"}, Forget(n, file) PROVE FALSE
  BY <1>0, <1>2 DEF Forget
<1>3. ASSUME NEW n \in Ids18n, Put(n) PROVE job.phase = "remember"
  BY <1>3 DEF Put
<1> QED
  BY <1>1, <1>2, <1>3 DEF TranslationNext, translationVars, StageWithoutKey, StageWithKey,
     ThreadStep, Claim, ThreadEnds, Ask, Translated, Retry, Refused, ProviderFails,
     PackStep, Join, Assemble, VerifyPack, VerifyFails, PutFails, PackReady, StageKilled

(* For every number of threads, messages, locales and attempts: workers     *)
(* that stop never leave a message without its texts unless a failure or a  *)
(* refusal is reported, and the memory learns only from a complete pack     *)
(* that the SDK verified (translate_pending, translate).                   *)
THEOREM PackIsProved == TranslationSpec => PackProved
<1>1. TrInv => (job.phase = "assemble" => job.texts = Ids18n)
  BY DEF TrInv, PackHolds
<1>2. ASSUME TrInv, [TranslationNext]_translationVars
      PROVE  [ \A m \in Ids18n : memory'[m] = "fit" /\ memory[m] # "fit" =>
                 job.proved /\ job.texts = Ids18n ]_translationVars
  BY <1>2, OnlyPutRemembers DEF TrInv, PackHolds
<1> QED
  BY <1>1, <1>2, TranslationInvariant, PTL DEF TranslationSpec, PackProved

-----------------------------------------------------------------------------
(* LocalSnapshots: an image is as its attempt built it, and an attempt     *)
(* knows what it would have to undo.                                       *)

(* Every image was built under a nonce that was given out, and a tag of the *)
(* Assistant names an image that is there.                                 *)
ImagesMade ==
  /\ \A i \in Ids : daemon.made[i] # NoImage => i <= daemon.tries
  /\ daemon.tag \in Ids => daemon.made[daemon.tag] # NoImage

(* The image a stage is about: of its build, and at the end compared.      *)
Candidate(c) ==
  /\ cmd[c].pc \in {"list", "inspect", "remove"} => ~cmd[c].staging
  /\ cmd[c].pc \in {"validate", "open", "compare", "require"} =>
       cmd[c].image \in Ids /\ cmd[c].image <= daemon.tries
  /\ cmd[c].pc \in {"open", "compare", "require"} /\ cmd[c].image \in Images =>
       daemon.made[cmd[c].image].build = cmd[c].want
  /\ cmd[c].pc = "require" /\ cmd[c].image \in Images =>
       daemon.made[cmd[c].image].good

(* What a stage that fails now would leave: nobody else touched the tag, so *)
(* it is the one it found, or that of its own attempt, over the one found. *)
Undoable(c) ==
  /\ cmd[c].pc \in {"resolve", "build"} => cmd[c].nonce = 0
  /\ cmd[c].pc \in {"build", "validate", "open", "compare", "require",
                    "reconcile", "retag", "discard"} =>
       /\ cmd[c].previous \in Ids => cmd[c].previous <= daemon.tries
       /\ cmd[c].nonce # 0 => cmd[c].image = cmd[c].nonce /\ cmd[c].image # cmd[c].previous
       /\ cmd[c].nonce <= daemon.tries
       /\ obs.of[c].alone =>
            /\ cmd[c].previous = obs.of[c].found
            /\ daemon.tag = IF cmd[c].nonce = 0 THEN obs.of[c].found ELSE cmd[c].nonce
  /\ cmd[c].pc \in {"validate", "open", "compare", "require"} /\ cmd[c].nonce = 0 =>
       cmd[c].image = cmd[c].previous
  /\ cmd[c].pc \in {"retag", "discard"} =>
       /\ cmd[c].nonce # 0
       /\ cmd[c].pc = "discard" <=> cmd[c].previous = NoImage

SnTyped == /\ daemon \in Daemon /\ cmd \in [Commands -> Command]
           /\ obs \in [meddles : 0 .. MaxMeddles, of : [Commands -> Watch]]

SnInv == SnTyped /\ ImagesMade /\ \A c \in Commands : Candidate(c) /\ Undoable(c)

(* Images come under new nonces, and else only go. *)
Aged ==
  /\ daemon.tries <= daemon'.tries
  /\ \A i \in Ids : i <= daemon.tries => daemon'.made[i] \in {daemon.made[i], NoImage}

(* What a step of c does to the other commands: nothing, or they are no      *)
(* longer undisturbed.                                                     *)
OthersLeft(c) ==
  \A o \in Commands \ {c} :
    /\ cmd'[o] = cmd[o]
    /\ \/ cmd[o].pc = "idle"
       \/ ~obs'.of[o].alone
       \/ obs'.of[o] = obs.of[o] /\ daemon'.tag = daemon.tag

Pcs == { "idle", "resolve", "build", "validate", "open", "compare", "require",
         "reconcile", "retag", "discard", "list", "inspect", "remove" }

LEMMA QuietTyped == Quiet \in Command /\ Unwatched \in Watch
<1>1. (CHOOSE b \in Builds : TRUE) \in Builds
  BY SnapshotAssumption
<1>2. 0 \in 0 .. MaxBuilds
  BY SnapshotAssumption
<1> QED
  BY <1>1, <1>2 DEF Quiet, Unwatched, Command, Watch

LEMMA BystanderKept ==
  ASSUME SnInv, SnTyped', Aged, NEW o \in Commands, cmd'[o] = cmd[o],
         \/ cmd[o].pc = "idle"
         \/ ~obs'.of[o].alone
         \/ obs'.of[o] = obs.of[o] /\ daemon'.tag = daemon.tag
  PROVE  Candidate(o)' /\ Undoable(o)'
<1>1. Candidate(o) /\ Undoable(o) /\ cmd[o] \in Command
  BY DEF SnInv, SnTyped
<1>2. daemon.tries \in Nat /\ daemon'.tries \in Nat /\ daemon.tries <= daemon'.tries
  BY SnapshotAssumption DEF SnInv, SnTyped, Daemon, Aged
<1>3. cmd[o].nonce \in Nat /\ Ids \subseteq Nat
  BY <1>1, SnapshotAssumption DEF Command, Ids
<1>4. ASSUME NEW i \in Ids, i <= daemon.tries, i \in Images'
      PROVE  i \in Images /\ daemon'.made[i] = daemon.made[i]
  BY <1>4 DEF Aged, Images
<1>5. Candidate(o)'
  <2>1. ASSUME cmd[o].pc \in {"validate", "open", "compare", "require"}
        PROVE  cmd[o].image \in Ids /\ cmd[o].image <= daemon.tries
    BY <1>1, <2>1 DEF Candidate
  <2>2. ASSUME cmd[o].pc \in {"validate", "open", "compare", "require"}
        PROVE  cmd[o].image <= daemon'.tries
    <3>1. cmd[o].image \in Nat /\ cmd[o].image <= daemon.tries
      BY <1>3, <2>1, <2>2
    <3> QED
      BY <1>2, <3>1
  <2>3. ASSUME cmd[o].pc \in {"validate", "open", "compare", "require"},
               cmd[o].image \in Images'
        PROVE  cmd[o].image \in Images /\ daemon'.made[cmd[o].image] = daemon.made[cmd[o].image]
    BY <1>4, <2>1, <2>3
  <2> QED
    BY <1>1, <2>1, <2>2, <2>3 DEF Candidate
<1>6. Undoable(o)'
  <2>1. CASE cmd[o].pc \in {"idle", "list", "inspect", "remove"}
    BY <2>1 DEF Undoable
  <2>2. ASSUME cmd[o].pc # "idle", obs'.of[o].alone
        PROVE  obs'.of[o] = obs.of[o] /\ daemon'.tag = daemon.tag
    BY <2>2
  <2>3. cmd[o].nonce <= daemon.tries => cmd[o].nonce <= daemon'.tries
    BY <1>2, <1>3
  <2>4. ASSUME cmd[o].previous \in Ids, cmd[o].previous <= daemon.tries
        PROVE  cmd[o].previous <= daemon'.tries
    <3>1. cmd[o].previous \in Nat /\ cmd[o].previous <= daemon.tries
      BY <1>3, <2>4
    <3> QED
      BY <1>2, <3>1
  <2>5. CASE cmd[o].pc \notin {"idle", "list", "inspect", "remove"}
    <3>1. ASSUME cmd[o].pc \in {"build", "validate", "open", "compare", "require",
                                "reconcile", "retag", "discard"}
          PROVE  /\ cmd[o].previous \in Ids => cmd[o].previous <= daemon'.tries
                 /\ cmd[o].nonce # 0 => cmd[o].image = cmd[o].nonce /\ cmd[o].image # cmd[o].previous
                 /\ cmd[o].nonce <= daemon'.tries
      BY <1>1, <2>3, <2>4, <3>1 DEF Undoable
    <3>2. ASSUME cmd[o].pc \in {"build", "validate", "open", "compare", "require",
                                "reconcile", "retag", "discard"},
                 obs'.of[o].alone
          PROVE  /\ cmd[o].previous = obs'.of[o].found
                 /\ daemon'.tag = IF cmd[o].nonce = 0 THEN obs'.of[o].found ELSE cmd[o].nonce
      BY <1>1, <2>2, <2>5, <3>2 DEF Undoable
    <3> QED
      BY <1>1, <3>1, <3>2 DEF Undoable
  <2> QED
    BY <2>1, <2>5
<1> QED
  BY <1>5, <1>6

LEMMA StepKept ==
  ASSUME SnInv, SnTyped', ImagesMade', Aged, NEW c \in Commands, OthersLeft(c),
         Candidate(c)', Undoable(c)'
  PROVE  SnInv'
<1>1. ASSUME NEW o \in Commands PROVE Candidate(o)' /\ Undoable(o)'
  <2>1. CASE o = c
    BY <2>1
  <2>2. CASE o # c
    BY <2>2, BystanderKept DEF OthersLeft
  <2> QED
    BY <2>1, <2>2
<1> QED
  BY <1>1 DEF SnInv

LEMMA DisturbsOnly ==
  ASSUME SnTyped, NEW others, Disturbs(others)
  PROVE  /\ obs' \in [meddles : 0 .. MaxMeddles, of : [Commands -> Watch]]
         /\ obs'.meddles = obs.meddles
         /\ \A c \in Commands :
              /\ c \in others => obs'.of[c].alone = FALSE
              /\ c \notin others => obs'.of[c] = obs.of[c]
<1> DEFINE of == [c \in Commands |->
                    IF c \in others THEN [obs.of[c] EXCEPT !.alone = FALSE] ELSE obs.of[c]]
<1>1. obs' = [obs EXCEPT !.of = of]
  BY DEF Disturbs
<1>2. of \in [Commands -> Watch] /\ \A c \in Commands :
              /\ c \in others => of[c].alone = FALSE
              /\ c \notin others => of[c] = obs.of[c]
  BY DEF SnTyped, Watch
<1> HIDE DEF of
<1> QED
  BY <1>1, <1>2 DEF SnTyped

(* A command that returns rests, and what it watched is over. *)
LEMMA ReturnKept ==
  ASSUME SnInv, NEW c \in Commands, Return(c) \/ ReturnDisturbed(c), UNCHANGED daemon
  PROVE  /\ SnInv' /\ cmd'[c] = Quiet
         /\ \A o \in Commands : o # c => cmd'[o] = cmd[o]
         /\ ReturnDisturbed(c) => ~obs'.of[c].alone
<1>1. PICK watch \in Watch :
        /\ cmd' = [cmd EXCEPT ![c] = Quiet]
        /\ obs' = [obs EXCEPT !.of[c] = watch]
        /\ ReturnDisturbed(c) => watch.alone = FALSE
  <2>1. CASE ReturnDisturbed(c)
    <3>1. [Unwatched EXCEPT !.alone = FALSE] \in Watch
          /\ [Unwatched EXCEPT !.alone = FALSE].alone = FALSE
      BY QuietTyped DEF Watch
    <3> QED
      BY <2>1, <3>1 DEF ReturnDisturbed
  <2>2. CASE Return(c) /\ ~ReturnDisturbed(c)
    BY <2>2, QuietTyped DEF Return
  <2> QED
    BY <2>1, <2>2
<1>2. SnTyped'
  BY <1>1, QuietTyped DEF SnInv, SnTyped
<1>3. /\ cmd'[c] = Quiet /\ obs'.of[c] = watch
      /\ \A o \in Commands : o # c => cmd'[o] = cmd[o] /\ obs'.of[o] = obs.of[o]
  BY <1>1 DEF SnInv, SnTyped
<1>4. ImagesMade' /\ Aged
  BY SnapshotAssumption DEF SnInv, SnTyped, Daemon, ImagesMade, Aged, Images
<1>5. OthersLeft(c)
  BY <1>3 DEF OthersLeft
<1>6. Candidate(c)' /\ Undoable(c)'
  BY <1>3 DEF Candidate, Undoable, Quiet
<1>7. SnInv'
  BY <1>2, <1>4, <1>5, <1>6, StepKept
<1> QED
  BY <1>1, <1>3, <1>7

LEMMA GoToMoves ==
  ASSUME SnTyped, NEW c \in Commands, NEW to \in Pcs, GoTo(c, to)
  PROVE  /\ cmd' \in [Commands -> Command]
         /\ cmd'[c] = [cmd[c] EXCEPT !.pc = to]
         /\ cmd'[c].pc = to /\ cmd'[c].staging = cmd[c].staging
         /\ cmd'[c].want = cmd[c].want /\ cmd'[c].nonce = cmd[c].nonce
         /\ cmd'[c].image = cmd[c].image /\ cmd'[c].previous = cmd[c].previous
         /\ cmd'[c].batch = cmd[c].batch
         /\ \A o \in Commands : o # c => cmd'[o] = cmd[o]
<1>1. cmd' = [cmd EXCEPT ![c] = [cmd[c] EXCEPT !.pc = to]]
  BY DEF GoTo
<1>2. cmd[c] \in Command
  BY DEF SnTyped
<1>3. [cmd[c] EXCEPT !.pc = to] \in Command
  BY <1>2 DEF Command, Pcs
<1>4. cmd'[c] = [cmd[c] EXCEPT !.pc = to]
  BY <1>1 DEF SnTyped
<1> QED
  BY <1>1, <1>2, <1>3, <1>4 DEF SnTyped, Command

(* A command that goes on, while nothing else changes. *)
LEMMA GoToKept ==
  ASSUME SnInv, NEW c \in Commands, NEW to \in Pcs, GoTo(c, to), UNCHANGED <<daemon, obs>>,
         Candidate(c)', Undoable(c)'
  PROVE  SnInv'
<1>1. SnTyped'
  BY GoToMoves DEF SnInv, SnTyped
<1>2. ImagesMade' /\ Aged
  BY SnapshotAssumption DEF SnInv, SnTyped, Daemon, ImagesMade, Aged, Images
<1>3. OthersLeft(c)
  BY GoToMoves DEF SnInv, OthersLeft
<1> QED
  BY <1>1, <1>2, <1>3, StepKept

(* The first images, under nonces from the first one up. *)
LEMMA SnapshotStarts == ASSUME SnapshotInit PROVE SnInv
<1>1. 0 \in 0 .. MaxBuilds /\ 0 \in 0 .. MaxMeddles
  BY SnapshotAssumption
<1>2. SnTyped
  BY <1>1, QuietTyped DEF SnapshotInit, SnTyped, Daemon
<1>3. ImagesMade
  BY SnapshotAssumption DEF SnapshotInit, ImagesMade
<1>4. ASSUME NEW c \in Commands PROVE Candidate(c) /\ Undoable(c)
  BY <1>4 DEF SnapshotInit, Candidate, Undoable, Quiet
<1> QED
  BY <1>2, <1>3, <1>4 DEF SnInv

LEMMA UndisturbedDaemon ==
  ASSUME SnInv, UNCHANGED daemon
  PROVE  daemon' \in Daemon /\ ImagesMade' /\ Aged
BY SnapshotAssumption DEF SnInv, SnTyped, Daemon, ImagesMade, Aged, Images

(* An image that goes takes its tag with it. *)
LEMMA WithoutKept ==
  ASSUME SnInv, NEW i \in Ids, daemon' = Without(i)
  PROVE  /\ daemon' \in Daemon /\ ImagesMade' /\ Aged
         /\ daemon.tag = i => daemon'.tag = NoImage
<1>1. daemon \in Daemon /\ ImagesMade
  BY DEF SnInv, SnTyped
<1>2. /\ daemon'.made = [daemon.made EXCEPT ![i] = NoImage]
      /\ daemon'.tries = daemon.tries
      /\ daemon'.tag = IF daemon.tag = i THEN NoImage ELSE daemon.tag
  BY <1>1 DEF Without, Daemon
<1>3. daemon' \in Daemon
  <2>1. daemon'.made \in [Ids -> Image \cup {NoImage}]
    BY <1>1, <1>2 DEF Daemon
  <2>2. daemon' = [daemon EXCEPT !.made = daemon'.made, !.tag = daemon'.tag]
    BY <1>1, <1>2 DEF Without, Daemon
  <2>3. daemon'.tag \in Ids \cup {NoImage, Foreign}
    BY <1>1, <1>2 DEF Daemon
  <2> QED
    BY <1>1, <2>1, <2>2, <2>3 DEF Daemon
<1>4. ImagesMade'
  <2>1. ASSUME NEW j \in Ids, daemon'.made[j] # NoImage PROVE j <= daemon'.tries
    BY <1>1, <1>2, <2>1 DEF ImagesMade, Daemon
  <2>2. ASSUME daemon'.tag \in Ids PROVE daemon'.made[daemon'.tag] # NoImage
    BY <1>1, <1>2, <2>2, SnapshotAssumption DEF ImagesMade, Daemon
  <2> QED
    BY <2>1, <2>2 DEF ImagesMade
<1>5. Aged
  <2>1. daemon.tries \in Nat
    BY <1>1, SnapshotAssumption DEF Daemon
  <2> QED
    BY <1>1, <1>2, <2>1 DEF Aged, Daemon
<1> QED
  BY <1>2, <1>3, <1>4, <1>5

(* What is outside of every command leaves those it did not disturb. *)
LEMMA OutsideKept ==
  ASSUME SnInv, SnTyped', ImagesMade', Aged, cmd' = cmd,
         \A o \in Commands : \/ cmd[o].pc = "idle"
                             \/ ~obs'.of[o].alone
                             \/ obs'.of[o] = obs.of[o] /\ daemon'.tag = daemon.tag
  PROVE  SnInv'
<1>1. ASSUME NEW o \in Commands PROVE Candidate(o)' /\ Undoable(o)'
  <2>1. cmd'[o] = cmd[o]
    OBVIOUS
  <2> QED
    BY <2>1, BystanderKept
<1> QED
  BY <1>1 DEF SnInv

LEMMA BeginKept ==
  ASSUME SnInv, NEW c \in Commands, (\E want \in Builds : Stage(c, want)) \/ Unstage(c)
  PROVE  SnInv'
<1>1. PICK new \in Command :
        /\ new.pc \in {"resolve", "list"} /\ new.nonce = 0
        /\ new.pc = "list" => ~new.staging
        /\ cmd' = [cmd EXCEPT ![c] = new]
        /\ obs' = [obs EXCEPT !.of[c] = Unwatched]
        /\ UNCHANGED daemon
  <2>1. ASSUME NEW want \in Builds, Stage(c, want) PROVE
          /\ [Quiet EXCEPT !.pc = "resolve", !.staging = TRUE, !.want = want] \in Command
          /\ [Quiet EXCEPT !.pc = "resolve", !.staging = TRUE, !.want = want].pc = "resolve"
          /\ [Quiet EXCEPT !.pc = "resolve", !.staging = TRUE, !.want = want].nonce = 0
    <3>1. Quiet \in Command /\ Quiet.nonce = 0
      BY QuietTyped DEF Quiet
    <3> QED
      BY <2>1, <3>1 DEF Command
  <2>2. /\ [Quiet EXCEPT !.pc = "list"] \in Command
        /\ [Quiet EXCEPT !.pc = "list"].pc = "list"
        /\ [Quiet EXCEPT !.pc = "list"].nonce = 0
        /\ ~[Quiet EXCEPT !.pc = "list"].staging
    <3>1. Quiet \in Command /\ Quiet.nonce = 0 /\ ~Quiet.staging
      BY QuietTyped DEF Quiet
    <3> QED
      BY <3>1 DEF Command
  <2>3. CASE Unstage(c)
    BY <2>2, <2>3 DEF Unstage
  <2>4. CASE \E want \in Builds : Stage(c, want)
    BY <2>1, <2>4 DEF Stage
  <2> QED
    BY <2>3, <2>4
<1>2. SnTyped'
  BY <1>1, QuietTyped DEF SnInv, SnTyped
<1>3. /\ cmd'[c] = new
      /\ \A o \in Commands : o # c => cmd'[o] = cmd[o] /\ obs'.of[o] = obs.of[o]
  BY <1>1 DEF SnInv, SnTyped
<1>4. OthersLeft(c)
  BY <1>1, <1>3 DEF OthersLeft
<1>5. Candidate(c)' /\ Undoable(c)'
  BY <1>1, <1>3 DEF Candidate, Undoable
<1> QED
  BY <1>1, <1>2, <1>4, <1>5, UndisturbedDaemon, StepKept

LEMMA ResolveKept ==
  ASSUME SnInv, NEW c \in Commands, ResolveCurrent(c)
  PROVE  SnInv'
<1>1. CASE daemon.tag = Foreign
  BY <1>1, ReturnKept DEF ResolveCurrent
<1>2. CASE daemon.tag # Foreign
  <2> DEFINE reuse == /\ daemon.tag # NoImage
                      /\ daemon.made[daemon.tag].build = cmd[c].want
             to    == IF reuse THEN "validate" ELSE "build"
             image == IF reuse THEN daemon.tag ELSE NoImage
  <2>1. /\ cmd' = [cmd EXCEPT ![c].pc = to, ![c].image = image, ![c].previous = daemon.tag]
        /\ obs' = [obs EXCEPT !.of[c].found = daemon.tag]
        /\ UNCHANGED daemon /\ cmd[c].pc = "resolve"
    BY <1>2 DEF ResolveCurrent, At
  <2>2. /\ SnTyped /\ ImagesMade /\ Undoable(c) /\ Candidate(c) /\ cmd[c] \in Command
        /\ obs.of[c] \in Watch /\ cmd[c].nonce = 0
    BY <2>1 DEF SnInv, SnTyped, Undoable
  <2>3. /\ daemon.tag \in Ids \cup {NoImage} /\ image \in Ids \cup {NoImage}
        /\ to \in {"validate", "build"}
        /\ to = "validate" => image = daemon.tag /\ image \in Ids
        /\ daemon.tag \in Ids => daemon.tag <= daemon.tries
        /\ 0 <= daemon.tries
    <3>1. daemon.tag \in Ids \cup {NoImage} /\ daemon.tries \in 0 .. MaxBuilds
      BY <1>2, <2>2 DEF SnTyped, Daemon
    <3> QED
      BY <2>2, <3>1, SnapshotAssumption DEF ImagesMade
  <2> HIDE DEF to, image, reuse
  <2>4. /\ cmd' = [cmd EXCEPT ![c] = [cmd[c] EXCEPT !.pc = to, !.image = image,
                                                   !.previous = daemon.tag]]
        /\ obs' = [obs EXCEPT !.of = [obs.of EXCEPT ![c] =
                                         [obs.of[c] EXCEPT !.found = daemon.tag]]]
    BY <2>1
  <2>5. /\ [cmd[c] EXCEPT !.pc = to, !.image = image, !.previous = daemon.tag] \in Command
        /\ [obs.of[c] EXCEPT !.found = daemon.tag] \in Watch
    <3>1. to \in {"validate", "build"} /\ image \in Ids \cup {NoImage}
          /\ daemon.tag \in Ids \cup {NoImage}
      BY <2>3
    <3> QED
      BY <2>2, <3>1 DEF Command, Watch
  <2>6. SnTyped'
    BY <2>1, <2>2, <2>4, <2>5 DEF SnTyped
  <2>7. /\ cmd'[c] = [cmd[c] EXCEPT !.pc = to, !.image = image, !.previous = daemon.tag]
        /\ obs'.of[c].found = daemon.tag
        /\ \A o \in Commands : o # c => cmd'[o] = cmd[o] /\ obs'.of[o] = obs.of[o]
    BY <2>2, <2>4 DEF SnTyped, Watch
  <2>8. /\ cmd'[c].pc = to /\ cmd'[c].image = image /\ cmd'[c].previous = daemon.tag
        /\ cmd'[c].nonce = 0
    BY <2>2, <2>7 DEF Command
  <2>9. OthersLeft(c)
    BY <2>1, <2>7 DEF OthersLeft
  <2>10. Candidate(c)' /\ Undoable(c)'
    BY <2>1, <2>3, <2>7, <2>8 DEF Candidate, Undoable
  <2> QED
    BY <2>1, <2>6, <2>9, <2>10, UndisturbedDaemon, StepKept
<1> QED
  BY <1>1, <1>2

LEMMA BuildKept ==
  ASSUME SnInv, NEW c \in Commands, NEW good \in BOOLEAN, NEW answered \in BOOLEAN,
         Build(c, good, answered)
  PROVE  SnInv'
<1> DEFINE n  == daemon.tries + 1
           to == IF answered THEN "validate" ELSE "reconcile"
           d  == [daemon EXCEPT !.tries = n, !.tag = n, !.made[n] = Built(c, good)]
           k  == [cmd[c] EXCEPT !.nonce = n, !.image = n, !.pc = to]
<1>1. /\ cmd[c].pc = "build" /\ daemon.tries < MaxBuilds /\ daemon' = d
      /\ cmd' = [cmd EXCEPT ![c] = k]
      /\ Disturbs({o \in Commands \ {c} : Busy(o)})
  BY DEF Build, At
<1>2. /\ SnTyped /\ ImagesMade /\ Undoable(c) /\ Candidate(c) /\ cmd[c] \in Command
      /\ daemon \in Daemon
  BY DEF SnInv, SnTyped
<1>3. /\ daemon.tries \in Nat /\ n \in Ids /\ n \in 0 .. MaxBuilds /\ n # 0 /\ n # NoImage
      /\ daemon.tries <= n /\ ~(n <= daemon.tries) /\ n \in Nat /\ n <= n
  BY <1>1, <1>2, SnapshotAssumption DEF Daemon, Ids
<1>4. Built(c, good) \in Image /\ Built(c, good) # NoImage
  BY <1>2, SnapshotAssumption DEF Built, Image, Command
<1>5. /\ d.tries = n /\ d.tag = n
      /\ d.made = [daemon.made EXCEPT ![n] = Built(c, good)]
  BY <1>2, <1>3 DEF Daemon
<1>6. d \in Daemon
  <2>1. [daemon.made EXCEPT ![n] = Built(c, good)] \in [Ids -> Image \cup {NoImage}]
    BY <1>2, <1>3, <1>4 DEF Daemon
  <2>2. d = [daemon EXCEPT !.tries = n, !.tag = n,
                           !.made = [daemon.made EXCEPT ![n] = Built(c, good)]]
    OBVIOUS
  <2>3. n \in 0 .. MaxBuilds /\ n \in Ids \cup {NoImage, Foreign}
    BY <1>3
  <2> HIDE DEF d, n
  <2> QED
    BY <1>2, <2>1, <2>2, <2>3 DEF Daemon
<1>7. k \in Command /\ k.pc = to /\ k.nonce = n /\ k.image = n /\ k.previous = cmd[c].previous
  <2>1. n \in 0 .. MaxBuilds /\ n \in Ids \cup {NoImage}
        /\ to \in {"validate", "reconcile"}
    BY <1>3
  <2> HIDE DEF n, to
  <2> QED
    BY <1>2, <2>1 DEF Command
<1> HIDE DEF d, k, n
<1>8. /\ obs' \in [meddles : 0 .. MaxMeddles, of : [Commands -> Watch]]
      /\ obs'.of[c] = obs.of[c]
      /\ \A o \in Commands \ {c} : Busy(o) => ~obs'.of[o].alone
  <2> DEFINE others == {o \in Commands \ {c} : Busy(o)}
  <2>1. Disturbs(others)
    BY <1>1
  <2>2. c \notin others /\ \A o \in Commands \ {c} : Busy(o) => o \in others
    OBVIOUS
  <2> HIDE DEF others
  <2> QED
    BY <1>2, <2>1, <2>2, DisturbsOnly
<1>9. SnTyped'
  BY <1>1, <1>2, <1>6, <1>7, <1>8 DEF SnTyped
<1>10. cmd'[c] = k /\ \A o \in Commands : o # c => cmd'[o] = cmd[o]
  BY <1>1, <1>2 DEF SnTyped
<1>11. ImagesMade'
  <2>1. ASSUME NEW i \in Ids, daemon'.made[i] # NoImage PROVE i <= daemon'.tries
    <3>1. CASE i = n
      BY <1>1, <1>3, <1>5, <3>1
    <3>2. CASE i # n
      <4>1. i <= daemon.tries /\ i \in Nat
        BY <1>1, <1>2, <1>5, <2>1, <3>2, SnapshotAssumption DEF ImagesMade, Daemon, Ids
      <4> QED
        BY <1>1, <1>3, <1>5, <4>1
    <3> QED
      BY <3>1, <3>2
  <2>2. daemon'.made[daemon'.tag] # NoImage
    BY <1>1, <1>2, <1>3, <1>4, <1>5 DEF Daemon
  <2> QED
    BY <2>1, <2>2 DEF ImagesMade
<1>12. Aged
  BY <1>1, <1>2, <1>3, <1>5 DEF Aged, Daemon
<1>13. OthersLeft(c)
  BY <1>8, <1>10 DEF OthersLeft, Busy
<1>14. Candidate(c)'
  BY <1>1, <1>3, <1>5, <1>7, <1>10 DEF Candidate
<1>15. Undoable(c)'
  <2>1. /\ cmd[c].previous \in Ids => cmd[c].previous <= daemon.tries
        /\ obs.of[c].alone => cmd[c].previous = obs.of[c].found
    BY <1>1, <1>2 DEF Undoable
  <2>2. cmd[c].previous \in Ids \cup {NoImage}
    BY <1>2 DEF Command
  <2>3. n # cmd[c].previous
    BY <1>3, <2>1, <2>2
  <2>4. cmd[c].previous \in Ids => cmd[c].previous <= n
    <3>1. SUFFICES ASSUME cmd[c].previous \in Ids PROVE cmd[c].previous <= n
      OBVIOUS
    <3>2. cmd[c].previous \in Nat /\ cmd[c].previous <= daemon.tries
      BY <2>1, <3>1, SnapshotAssumption DEF Ids
    <3> QED
      BY <1>3, <3>2
  <2> QED
    BY <1>1, <1>3, <1>5, <1>7, <1>8, <1>10, <2>1, <2>3, <2>4 DEF Undoable
<1> QED
  BY <1>9, <1>11, <1>12, <1>13, <1>14, <1>15, StepKept

(* A proof that fails: a reused image is left, one's own is reconciled. *)
LEMMA RefuseKept ==
  ASSUME SnInv, NEW c \in Commands,
         cmd[c].pc \in {"validate", "open", "compare", "require"}, Refuse(c)
  PROVE  SnInv'
<1>1. CASE cmd[c].previous = cmd[c].image
  BY <1>1, ReturnKept DEF Refuse
<1>2. CASE cmd[c].previous # cmd[c].image
  <2>1. GoTo(c, "reconcile") /\ UNCHANGED <<daemon, obs>> /\ SnTyped /\ Undoable(c)
        /\ "reconcile" \in Pcs
    BY <1>2 DEF Refuse, SnInv, Pcs
  <2>2. Candidate(c)' /\ Undoable(c)'
    BY <2>1, GoToMoves DEF Candidate, Undoable
  <2> QED
    BY <2>1, <2>2, GoToKept
<1> QED
  BY <1>1, <1>2

(* The proof of an image, one step after the other. *)
LEMMA ProofKept ==
  ASSUME SnInv, NEW c \in Commands,
         \/ ValidateImage(c) \/ ValidateFails(c) \/ OpenFiles(c) \/ OpenFails(c)
         \/ CompareFiles(c) \/ CompareFails(c) \/ RequireCurrent(c) \/ RequireFails(c)
         \/ BuildFails(c)
  PROVE  SnInv'
<1> USE DEF At
<1>1. SnTyped /\ Candidate(c) /\ Undoable(c)
      /\ {"reconcile", "open", "compare", "require"} \subseteq Pcs
  BY DEF SnInv, Pcs
<1>2. CASE ValidateFails(c) \/ OpenFails(c) \/ CompareFails(c) \/ RequireFails(c)
  BY <1>2, RefuseKept DEF ValidateFails, OpenFails, CompareFails, RequireFails
<1>3. CASE RequireCurrent(c)
  BY <1>3, ReturnKept DEF RequireCurrent
<1>4. CASE BuildFails(c)
  <2>1. GoTo(c, "reconcile") /\ UNCHANGED <<daemon, obs>>
    BY <1>4 DEF BuildFails
  <2>2. Candidate(c)' /\ Undoable(c)'
    BY <1>1, <1>4, <2>1, GoToMoves DEF BuildFails, Candidate, Undoable
  <2> QED
    BY <1>1, <2>1, <2>2, GoToKept
<1>5. CASE ValidateImage(c)
  <2>1. GoTo(c, "open") /\ UNCHANGED <<daemon, obs>>
    BY <1>5 DEF ValidateImage
  <2>2. Candidate(c)' /\ Undoable(c)'
    BY <1>1, <1>5, <2>1, GoToMoves DEF ValidateImage, Matches, Candidate, Undoable
  <2> QED
    BY <1>1, <2>1, <2>2, GoToKept
<1>6. CASE OpenFiles(c)
  <2>1. GoTo(c, "compare") /\ UNCHANGED <<daemon, obs>>
    BY <1>6 DEF OpenFiles
  <2>2. Candidate(c)' /\ Undoable(c)'
    BY <1>1, <1>6, <2>1, GoToMoves DEF OpenFiles, Candidate, Undoable, Images
  <2> QED
    BY <1>1, <2>1, <2>2, GoToKept
<1>7. CASE CompareFiles(c)
  <2>1. GoTo(c, "require") /\ UNCHANGED <<daemon, obs>>
    BY <1>7 DEF CompareFiles
  <2>2. Candidate(c)' /\ Undoable(c)'
    BY <1>1, <1>7, <2>1, GoToMoves DEF CompareFiles, Verified, Candidate, Undoable, Images
  <2> QED
    BY <1>1, <2>1, <2>2, GoToKept
<1> QED
  BY <1>2, <1>3, <1>4, <1>5, <1>6, <1>7

LEMMA ReadTagKept ==
  ASSUME SnInv, NEW c \in Commands, ReadTag(c)
  PROVE  SnInv'
<1> USE DEF At
<1>1. SnTyped /\ Candidate(c) /\ Undoable(c) /\ {"discard", "retag"} \subseteq Pcs
  BY DEF SnInv, Pcs
<1>2. CASE ~OwnTag(c)
  BY <1>2, ReturnKept DEF ReadTag
<1>3. CASE OwnTag(c)
  <2> DEFINE to == IF cmd[c].previous = NoImage THEN "discard" ELSE "retag"
  <2>1. GoTo(c, to) /\ UNCHANGED <<daemon, obs>> /\ to \in Pcs /\ cmd[c].pc = "reconcile"
    BY <1>1, <1>3 DEF ReadTag
  <2>2. cmd[c].nonce # 0
    <3>1. daemon.tag \in Ids \cup {NoImage, Foreign} /\ 0 \notin Ids
      BY <1>1 DEF SnTyped, Daemon, Ids
    <3> QED
      BY <1>3, <3>1, SnapshotAssumption DEF OwnTag
  <2>3. to \in {"discard", "retag"} /\ (to = "discard" <=> cmd[c].previous = NoImage)
    OBVIOUS
  <2> HIDE DEF to
  <2>4. Candidate(c)' /\ Undoable(c)'
    BY <1>1, <2>1, <2>2, <2>3, GoToMoves DEF Candidate, Undoable
  <2> QED
    BY <2>1, <2>4, GoToKept
<1> QED
  BY <1>2, <1>3

(* The undo moves the tag back, or removes it with its image. *)
LEMMA UndoKept ==
  ASSUME SnInv, NEW c \in Commands, Retag(c) \/ Discard(c)
  PROVE  SnInv'
<1>1. SnTyped /\ Undoable(c) /\ daemon \in Daemon /\ cmd[c] \in Command
  BY DEF SnInv, SnTyped
<1>2. /\ cmd' = [cmd EXCEPT ![c] = Quiet]
      /\ Disturbs({o \in Commands \ {c} : Busy(o)})
  BY DEF Retag, Discard
<1>3. daemon' \in Daemon /\ ImagesMade' /\ Aged
  <2>1. CASE Retag(c)
    <3>1. /\ daemon' = [daemon EXCEPT !.tag = cmd[c].previous]
          /\ cmd[c].previous \in Ids /\ daemon.made[cmd[c].previous] # NoImage
      BY <2>1 DEF Retag, Images
    <3> QED
      BY <1>1, <3>1, SnapshotAssumption DEF Daemon, ImagesMade, Aged, SnInv
  <2>2. CASE Discard(c)
    <3>1. daemon' = Without(cmd[c].nonce) /\ cmd[c].nonce \in Ids
      BY <1>1, <2>2, SnapshotAssumption DEF Discard, Undoable, Command, At, Ids
    <3> QED
      BY <3>1, WithoutKept
  <2> QED
    BY <2>1, <2>2
<1>4. /\ obs' \in [meddles : 0 .. MaxMeddles, of : [Commands -> Watch]]
      /\ \A o \in Commands \ {c} : Busy(o) => ~obs'.of[o].alone
  <2> DEFINE others == {o \in Commands \ {c} : Busy(o)}
  <2>1. Disturbs(others) /\ \A o \in Commands \ {c} : Busy(o) => o \in others
    BY <1>2
  <2> HIDE DEF others
  <2> QED
    BY <1>1, <2>1, DisturbsOnly
<1>5. SnTyped'
  BY <1>1, <1>2, <1>3, <1>4, QuietTyped DEF SnTyped
<1>6. cmd'[c] = Quiet /\ \A o \in Commands : o # c => cmd'[o] = cmd[o]
  BY <1>1, <1>2 DEF SnTyped
<1>7. OthersLeft(c)
  BY <1>4, <1>6 DEF OthersLeft, Busy
<1>8. Candidate(c)' /\ Undoable(c)'
  BY <1>6 DEF Candidate, Undoable, Quiet
<1> QED
  BY <1>3, <1>5, <1>7, <1>8, StepKept

LEMMA ListKept ==
  ASSUME SnInv, NEW c \in Commands, ListImages(c)
  PROVE  SnInv'
<1>1. CASE ~Converging(c, Listing)
  BY <1>1, ReturnKept DEF ListImages
<1>2. CASE Converging(c, Listing)
  <2>1. SnTyped /\ Candidate(c) /\ cmd[c] \in Command
        /\ ~cmd[c].staging
    BY DEF SnInv, SnTyped, ListImages, At, Candidate
  <2>2. /\ cmd' = [cmd EXCEPT ![c] = [cmd[c] EXCEPT !.pc = "inspect", !.batch = Listing,
                                                   !.todo = Listing]]
        /\ UNCHANGED <<daemon, obs>>
    BY <1>2 DEF ListImages
  <2>3. Listing \in SUBSET Ids
    BY DEF Listing, Images
  <2> DEFINE k == [cmd[c] EXCEPT !.pc = "inspect", !.batch = Listing, !.todo = Listing]
  <2>4. k \in Command /\ k.pc = "inspect" /\ ~k.staging
    BY <2>1, <2>3 DEF Command
  <2> HIDE DEF k
  <2>5. cmd' = [cmd EXCEPT ![c] = k]
    BY <2>2 DEF k
  <2>6. SnTyped'
    BY <2>1, <2>2, <2>4, <2>5 DEF SnTyped
  <2>7. cmd'[c] = k /\ \A o \in Commands : o # c => cmd'[o] = cmd[o]
    BY <2>1, <2>5 DEF SnTyped
  <2>8. OthersLeft(c)
    BY <2>2, <2>7 DEF OthersLeft
  <2>9. Candidate(c)' /\ Undoable(c)'
    BY <2>4, <2>7 DEF Candidate, Undoable
  <2> QED
    BY <2>2, <2>6, <2>8, <2>9, UndisturbedDaemon, StepKept
<1> QED
  BY <1>1, <1>2

LEMMA RemoveKept ==
  ASSUME SnInv, NEW c \in Commands, NEW i \in Ids,
         (\E claimed \in BOOLEAN : RemoveImage(c, i, claimed)) \/ RemoveRefused(c, i)
  PROVE  SnInv'
<1>1. SnTyped /\ Candidate(c) /\ cmd[c] \in Command /\ cmd[c].pc = "remove"
      /\ ~cmd[c].staging
  BY DEF SnInv, SnTyped, RemoveImage, RemoveRefused, At, Candidate
<1>2. PICK k \in Command :
        k.pc = "remove" /\ ~k.staging /\ cmd' = [cmd EXCEPT ![c] = k]
  <2>1. CASE RemoveRefused(c, i)
    <3> DEFINE k == [cmd[c] EXCEPT !.todo = cmd[c].todo \ {i}, !.refused = TRUE]
    <3>1. k \in Command /\ k.pc = "remove" /\ ~k.staging
      BY <1>1 DEF Command
    <3>2. cmd' = [cmd EXCEPT ![c] = k]
      BY <2>1 DEF RemoveRefused
    <3> QED
      BY <3>1, <3>2
  <2>2. CASE \E claimed \in BOOLEAN : RemoveImage(c, i, claimed)
    <3> DEFINE k == [cmd[c] EXCEPT !.todo = cmd[c].todo \ {i}]
    <3>1. k \in Command /\ k.pc = "remove" /\ ~k.staging
      BY <1>1 DEF Command
    <3>2. cmd' = [cmd EXCEPT ![c] = k]
      BY <2>2 DEF RemoveImage
    <3> QED
      BY <3>1, <3>2
  <2> QED
    BY <2>1, <2>2
<1>3. cmd'[c] = k /\ \A o \in Commands : o # c => cmd'[o] = cmd[o]
  BY <1>1, <1>2 DEF SnTyped
<1>4. /\ daemon' \in Daemon /\ ImagesMade' /\ Aged
      /\ obs' \in [meddles : 0 .. MaxMeddles, of : [Commands -> Watch]]
      /\ \A o \in Commands \ {c} :
           \/ cmd[o].pc = "idle"
           \/ ~obs'.of[o].alone
           \/ obs'.of[o] = obs.of[o] /\ daemon'.tag = daemon.tag
  <2>1. CASE RemoveRefused(c, i)
    BY <1>1, <2>1, UndisturbedDaemon DEF RemoveRefused, SnTyped
  <2>2. ASSUME NEW claimed \in BOOLEAN, RemoveImage(c, i, claimed)
        PROVE  /\ daemon' \in Daemon /\ ImagesMade' /\ Aged
               /\ obs' \in [meddles : 0 .. MaxMeddles, of : [Commands -> Watch]]
               /\ \A o \in Commands \ {c} :
                    cmd[o].pc # "idle" => ~obs'.of[o].alone
    <3> DEFINE others == {o \in Commands : Busy(o) /\ (o # c \/ claimed)}
    <3>1. /\ Disturbs(others)
          /\ \A o \in Commands \ {c} : cmd[o].pc # "idle" => o \in others
          /\ UNCHANGED daemon \/ daemon' = Without(i)
      BY <2>2 DEF RemoveImage, Busy
    <3> HIDE DEF others
    <3> QED
      BY <1>1, <3>1, DisturbsOnly, UndisturbedDaemon, WithoutKept
  <2> QED
    BY <2>1, <2>2
<1>5. SnTyped'
  BY <1>1, <1>2, <1>4 DEF SnTyped
<1>6. OthersLeft(c)
  BY <1>3, <1>4 DEF OthersLeft
<1>7. Candidate(c)' /\ Undoable(c)'
  BY <1>2, <1>3 DEF Candidate, Undoable
<1> QED
  BY <1>4, <1>5, <1>6, <1>7, StepKept

LEMMA UnstageKept ==
  ASSUME SnInv, NEW c \in Commands, UnstageStep(c)
  PROVE  SnInv'
<1> USE DEF At
<1>1. SnTyped /\ Candidate(c) /\ {"remove", "list"} \subseteq Pcs
  BY DEF SnInv, Pcs
<1>2. CASE ListEmpty(c) \/ UnstageFails(c)
  BY <1>2, ReturnKept DEF ListEmpty, UnstageFails
<1>3. CASE InspectImages(c) \/ BatchDone(c)
  <2>1. CASE Return(c) /\ UNCHANGED daemon
    BY <2>1, ReturnKept
  <2>2. ASSUME NEW to \in {"remove", "list"}, GoTo(c, to), UNCHANGED <<daemon, obs>>
        PROVE  SnInv'
    <3>1. ~cmd[c].staging
      BY <1>1, <1>3 DEF Candidate, InspectImages, BatchDone
    <3>2. Candidate(c)' /\ Undoable(c)'
      BY <1>1, <2>2, <3>1, GoToMoves DEF Candidate, Undoable
    <3> QED
      BY <1>1, <2>2, <3>2, GoToKept
  <2> QED
    BY <1>3, <2>1, <2>2 DEF InspectImages, BatchDone
<1>4. CASE ListImages(c)
  BY <1>4, ListKept
<1>5. CASE \E i \in Ids : \/ \E claimed \in BOOLEAN : RemoveImage(c, i, claimed)
                          \/ RemoveRefused(c, i)
  BY <1>5, RemoveKept
<1> QED
  BY <1>2, <1>3, <1>4, <1>5 DEF UnstageStep

LEMMA KilledKept ==
  ASSUME SnInv, NEW c \in Commands, Killed(c)
  PROVE  SnInv'
<1>1. SnTyped
  BY DEF SnInv
<1>2. /\ cmd' = [cmd EXCEPT ![c] = Quiet] /\ UNCHANGED daemon
      /\ obs' = [obs EXCEPT !.meddles = obs.meddles + 1,
                            !.of = [obs.of EXCEPT ![c] = Unwatched]]
      /\ obs.meddles < MaxMeddles
  BY DEF Killed
<1>3. obs.meddles + 1 \in 0 .. MaxMeddles
  BY <1>1, <1>2, SnapshotAssumption DEF SnTyped
<1>4. SnTyped'
  BY <1>1, <1>2, <1>3, QuietTyped DEF SnTyped
<1>5. /\ cmd'[c] = Quiet
      /\ \A o \in Commands : o # c => cmd'[o] = cmd[o] /\ obs'.of[o] = obs.of[o]
  BY <1>1, <1>2 DEF SnTyped
<1>6. OthersLeft(c)
  BY <1>2, <1>5 DEF OthersLeft
<1>7. Candidate(c)' /\ Undoable(c)'
  BY <1>5 DEF Candidate, Undoable, Quiet
<1> QED
  BY <1>2, <1>4, <1>6, <1>7, UndisturbedDaemon, StepKept

LEMMA MeddleKept ==
  ASSUME SnInv, NEW tag \in {NoImage, Foreign}, Meddle(tag)
  PROVE  SnInv'
<1>1. SnTyped /\ ImagesMade
  BY DEF SnInv
<1> DEFINE of == [c \in Commands |->
                    IF Busy(c) THEN [obs.of[c] EXCEPT !.alone = FALSE] ELSE obs.of[c]]
<1>2. /\ obs.meddles < MaxMeddles /\ cmd' = cmd
      /\ daemon' = [daemon EXCEPT !.tag = tag]
      /\ obs' = [obs EXCEPT !.meddles = obs.meddles + 1, !.of = of]
  BY DEF Meddle
<1>3. of \in [Commands -> Watch] /\ \A c \in Commands : Busy(c) => ~of[c].alone
  BY <1>1 DEF SnTyped, Watch
<1> HIDE DEF of
<1>4. obs.meddles + 1 \in 0 .. MaxMeddles
  BY <1>1, <1>2, SnapshotAssumption DEF SnTyped
<1>5. daemon' \in Daemon /\ ImagesMade' /\ Aged
  BY <1>1, <1>2, SnapshotAssumption DEF SnTyped, Daemon, ImagesMade, Aged
<1>6. SnTyped'
  BY <1>1, <1>2, <1>3, <1>4, <1>5 DEF SnTyped
<1>7. obs'.of = of
  BY <1>1, <1>2 DEF SnTyped
<1> QED
  BY <1>2, <1>3, <1>5, <1>6, <1>7, OutsideKept DEF Busy

LEMMA CollectKept ==
  ASSUME SnInv, NEW i \in Ids, Collect(i)
  PROVE  SnInv'
<1> DEFINE others == {c \in Commands : Busy(c)}
<1>1. /\ SnTyped /\ daemon' = Without(i) /\ cmd' = cmd /\ Disturbs(others)
      /\ \A c \in Commands : cmd[c].pc # "idle" => c \in others
  BY DEF SnInv, Collect, Busy
<1> HIDE DEF others
<1>2. /\ obs' \in [meddles : 0 .. MaxMeddles, of : [Commands -> Watch]]
      /\ \A c \in Commands : cmd[c].pc # "idle" => ~obs'.of[c].alone
  BY <1>1, DisturbsOnly
<1>3. daemon' \in Daemon /\ ImagesMade' /\ Aged
  BY <1>1, WithoutKept
<1>4. SnTyped'
  BY <1>1, <1>2, <1>3 DEF SnTyped
<1> QED
  BY <1>1, <1>2, <1>3, <1>4, OutsideKept

LEMMA SnapshotStepKept ==
  ASSUME SnInv, [SnapshotNext]_snapshotVars
  PROVE  SnInv'
<1>1. CASE UNCHANGED snapshotVars
  BY <1>1, SnapshotAssumption
     DEF snapshotVars, SnInv, SnTyped, ImagesMade, Candidate, Undoable, Images
<1>2. ASSUME NEW c \in Commands, StageStep(c) PROVE SnInv'
  <2>1. CASE PrepareFails(c) \/ ReadTagFails(c) \/ UndoFails(c)
    BY <2>1, ReturnKept DEF PrepareFails, ReadTagFails, UndoFails
  <2> QED
    BY <1>2, <2>1, ResolveKept, BuildKept, ProofKept, ReadTagKept, UndoKept
       DEF StageStep
<1> QED
  BY <1>1, <1>2, BeginKept, UnstageKept, KilledKept, MeddleKept, CollectKept
     DEF SnapshotNext

LEMMA SnapshotsSound == SnapshotSpec => []SnInv
<1> QED
  BY SnapshotStarts, SnapshotStepKept, PTL DEF SnapshotSpec

(* What a command does is not seen in the state of another. *)
LEMMA OnlyItsOwn ==
  ASSUME SnTyped, NEW o \in Commands, NEW c \in Commands, o # c,
         \/ \E want \in Builds : Stage(o, want)
         \/ Unstage(o) \/ StageStep(o) \/ UnstageStep(o) \/ Killed(o)
  PROVE  cmd'[c] = cmd[c]
<1> USE DEF SnTyped, Return, ReturnDisturbed, GoTo, Refuse
<1>1. CASE (\E want \in Builds : Stage(o, want)) \/ Unstage(o) \/ Killed(o)
  BY <1>1 DEF Stage, Unstage, Killed
<1>2. CASE UnstageStep(o)
  BY <1>2 DEF UnstageStep, ListImages, ListEmpty, InspectImages, UnstageFails,
              RemoveImage, RemoveRefused, BatchDone
<1>3. CASE StageStep(o)
  <2>1. CASE ResolveCurrent(o)
    BY <2>1 DEF ResolveCurrent
  <2>2. CASE \E good, answered \in BOOLEAN : Build(o, good, answered)
    BY <2>2 DEF Build
  <2> QED
    BY <1>3, <2>1, <2>2
       DEF StageStep, PrepareFails, BuildFails, ValidateImage, ValidateFails, OpenFiles,
           OpenFails, CompareFiles, CompareFails, RequireCurrent, RequireFails,
           ReadTag, ReadTagFails, Retag, Discard, UndoFails
<1> QED
  BY <1>1, <1>2, <1>3

(* A stage that succeeds: its image was compared and is still the current. *)
LEMMA SuccessIsProved ==
  ASSUME SnInv, NEW c \in Commands, RequireCurrent(c)
  PROVE  /\ daemon.tag = cmd[c].image /\ cmd[c].image \in Images
         /\ daemon.made[cmd[c].image] = [build |-> cmd[c].want, good |-> TRUE]
<1>1. SnTyped /\ ImagesMade /\ Candidate(c) /\ cmd[c].pc = "require"
      /\ daemon.tag = cmd[c].image
  BY DEF SnInv, RequireCurrent, At
<1>2. cmd[c].image \in Images
  BY <1>1 DEF Candidate, ImagesMade, Images
<1>3. daemon.made[cmd[c].image] \in Image
  BY <1>1, <1>2 DEF Images, SnTyped, Daemon
<1> QED
  BY <1>1, <1>2, <1>3 DEF Candidate, Image

(* A stage that ends otherwise, undisturbed, leaves the tag it found. *)
LEMMA FailureIsUndone ==
  ASSUME SnInv, NEW c \in Commands, StageStep(c), ~RequireCurrent(c),
         cmd[c].pc \notin {"idle", "resolve"}, cmd[c].staging, cmd'[c].pc = "idle",
         obs.of[c].alone, obs'.of[c].alone
  PROVE  daemon'.tag = obs.of[c].found
<1> USE DEF At
<1>1. SnTyped /\ Candidate(c) /\ Undoable(c) /\ cmd[c] \in Command /\ daemon \in Daemon
  BY DEF SnInv, SnTyped
<1>2. ~ReturnDisturbed(c)
  BY <1>1 DEF ReturnDisturbed, SnTyped, Unwatched
<1>3. ASSUME NEW to \in Pcs \ {"idle"} PROVE ~GoTo(c, to)
  BY <1>1, <1>3, GoToMoves
<1>4. CASE ValidateFails(c) \/ OpenFails(c) \/ CompareFails(c) \/ RequireFails(c)
  <2>1. cmd[c].previous = cmd[c].image /\ UNCHANGED daemon
    BY <1>3, <1>4 DEF ValidateFails, OpenFails, CompareFails, RequireFails, Refuse, Pcs
  <2> QED
    BY <1>1, <1>4, <2>1
       DEF Undoable, ValidateFails, OpenFails, CompareFails, RequireFails
<1>5. CASE ReadTag(c)
  <2>1. daemon.tag # cmd[c].nonce /\ UNCHANGED daemon /\ cmd[c].pc = "reconcile"
    BY <1>3, <1>5 DEF ReadTag, OwnTag, Pcs
  <2> QED
    BY <1>1, <2>1 DEF Undoable
<1>6. CASE Retag(c)
  BY <1>1, <1>6 DEF Retag, Undoable, Daemon
<1>7. CASE Discard(c)
  <2>1. /\ cmd[c].nonce \in 0 .. MaxBuilds /\ cmd[c].nonce # 0
        /\ daemon.tag = cmd[c].nonce
        /\ obs.of[c].found = NoImage /\ daemon' = Without(cmd[c].nonce)
    BY <1>1, <1>7 DEF Discard, Undoable, Command
  <2>2. cmd[c].nonce \in Ids
    BY <2>1, SnapshotAssumption DEF Ids
  <2> QED
    BY <2>1, <2>2, WithoutKept
<1>8. ~BuildFails(c) /\ ~ValidateImage(c) /\ ~OpenFiles(c) /\ ~CompareFiles(c)
  BY <1>3 DEF BuildFails, ValidateImage, OpenFiles, CompareFiles, Pcs
<1>9. ASSUME NEW good \in BOOLEAN, NEW answered \in BOOLEAN PROVE ~Build(c, good, answered)
  <2>1. SUFFICES ASSUME Build(c, good, answered) PROVE cmd'[c].pc # "idle"
    OBVIOUS
  <2> DEFINE n == daemon.tries + 1
             to == IF answered THEN "validate" ELSE "reconcile"
             k  == [cmd[c] EXCEPT !.nonce = n, !.image = n, !.pc = to]
  <2>2. cmd' = [cmd EXCEPT ![c] = k]
    BY <2>1 DEF Build
  <2>3. k.pc = to /\ to # "idle"
    BY <1>1 DEF Command
  <2> QED
    BY <1>1, <2>2, <2>3 DEF SnTyped
<1>10. ~PrepareFails(c) /\ ~ReadTagFails(c) /\ ~UndoFails(c) /\ ~ResolveCurrent(c)
  BY <1>1, <1>2 DEF PrepareFails, ReadTagFails, UndoFails, ResolveCurrent, Candidate
<1> QED
  BY <1>4, <1>5, <1>6, <1>7, <1>8, <1>9, <1>10 DEF StageStep

(* For every set of commands, lock files, builds and bounds, and whatever   *)
(* the daemon, the Space and the user do in between: a stage that succeeds  *)
(* has compared the image that carries the tag, and one that fails         *)
(* undisturbed puts back the tag it found (stage_image, admit_staged,      *)
(* reconcile_current).                                                     *)
THEOREM StageProvesOrUndoes == SnapshotSpec => StagedOrRestored
<1>1. ASSUME SnInv, [SnapshotNext]_snapshotVars, NEW c \in Commands,
             cmd[c].pc \notin {"idle", "resolve"}, cmd[c].staging,
             cmd'[c].pc = "idle", ~RequireCurrent(c),
             obs.of[c].alone, obs'.of[c].alone, obs'.meddles = obs.meddles
      PROVE  daemon'.tag = obs.of[c].found
  <2>1. SnTyped /\ Candidate(c)
    BY <1>1 DEF SnInv
  <2>2. cmd' # cmd
    BY <1>1
  <2>3. ~Killed(c) /\ ~UnstageStep(c) /\ ~Unstage(c) /\ \A want \in Builds : ~Stage(c, want)
    <3>1. ~Killed(c)
      <4>1. SUFFICES ASSUME Killed(c) PROVE FALSE
        OBVIOUS
      <4>2. obs'.meddles = obs.meddles + 1 /\ obs.meddles \in Nat
        BY <2>1, <4>1, SnapshotAssumption DEF Killed, SnTyped
      <4> QED
        BY <1>1, <4>2
    <3>2. ~UnstageStep(c)
      BY <1>1, <2>1
         DEF Candidate, UnstageStep, ListImages, ListEmpty, InspectImages, UnstageFails,
             RemoveImage, RemoveRefused, BatchDone, At
    <3> QED
      BY <1>1, <3>1, <3>2 DEF Stage, Unstage, At
  <2>4. StageStep(c)
    <3>1. \A o \in Commands : o # c /\ cmd'[c] # cmd[c] =>
            ~( \/ \E want \in Builds : Stage(o, want)
               \/ Unstage(o) \/ StageStep(o) \/ UnstageStep(o) \/ Killed(o) )
      BY <2>1, OnlyItsOwn
    <3>2. (\A tag \in {NoImage, Foreign} : ~Meddle(tag)) /\ \A i \in Ids : ~Collect(i)
      BY <2>2 DEF Meddle, Collect
    <3> QED
      BY <1>1, <2>2, <2>3, <3>1, <3>2 DEF SnapshotNext, snapshotVars
  <2> QED
    BY <1>1, <2>4, FailureIsUndone
<1>2. ASSUME SnInv, [SnapshotNext]_snapshotVars
      PROVE  \A c \in Commands :
        /\ RequireCurrent(c) =>
             LET i == cmd[c].image
             IN  /\ daemon.tag = i /\ i \in Images
                 /\ daemon.made[i] = [build |-> cmd[c].want, good |-> TRUE]
        /\ /\ cmd[c].pc \notin {"idle", "resolve"} /\ cmd[c].staging
           /\ cmd'[c].pc = "idle" /\ ~RequireCurrent(c)
           /\ obs.of[c].alone /\ obs'.of[c].alone
           /\ obs'.meddles = obs.meddles
           => daemon'.tag = obs.of[c].found
  BY <1>1, <1>2, SuccessIsProved
<1> QED
  BY <1>2, SnapshotsSound, PTL DEF SnapshotSpec, StagedOrRestored

-----------------------------------------------------------------------------
(* Conversation: the lines between this process and an Action.             *)

(* The places of a stdout that hold a call, and how many calls wait there. *)
CallsAt(lines) == {i \in 1 .. Len(lines) : lines[i] = "fetch"}
Asking(lines) == Cardinality(CallsAt(lines))

(* A line more in the pipe, and a line less.                               *)
LEMMA LineWritten ==
  ASSUME NEW q \in Seq(Lines), NEW l \in Lines
  PROVE  /\ Asking(q) \in Nat
         /\ l = "fetch" => Asking(Append(q, l)) <= Asking(q) + 1
         /\ l # "fetch" => Asking(Append(q, l)) = Asking(q)
  <1>1. /\ Len(Append(q, l)) = Len(q) + 1
        /\ \A i \in 1 .. Len(q) : Append(q, l)[i] = q[i]
        /\ Append(q, l)[Len(q) + 1] = l
    BY AppendProperties
  <1>2. Len(q) \in Nat /\ IsFiniteSet(1 .. Len(q))
    BY FS_Interval, LenProperties
  <1>3. IsFiniteSet(CallsAt(q)) /\ Asking(q) \in Nat
    <2>1. CallsAt(q) \in SUBSET (1 .. Len(q))
      BY DEF CallsAt
    <2> QED
      BY <1>2, <2>1, FS_Subset, FS_CardinalityType DEF Asking
  <1>4. CASE l = "fetch"
    <2>1. CallsAt(Append(q, l)) = CallsAt(q) \cup {Len(q) + 1}
      BY <1>1, <1>2, <1>4 DEF CallsAt
    <2>2. Len(q) + 1 \notin CallsAt(q)
      BY <1>2 DEF CallsAt
    <2>3. Cardinality(CallsAt(q) \cup {Len(q) + 1}) = Asking(q) + 1
      BY <1>3, <2>2, FS_AddElement DEF Asking
    <2>4. Asking(Append(q, l)) = Asking(q) + 1
      BY <2>1, <2>3, Zenon DEF Asking
    <2> QED
      BY <1>3, <1>4, <2>4
  <1>5. CASE l # "fetch"
    <2>1. CallsAt(Append(q, l)) = CallsAt(q)
      BY <1>1, <1>2, <1>5 DEF CallsAt
    <2> QED
      BY <1>3, <1>5, <2>1 DEF Asking
  <1> QED
    BY <1>3, <1>4, <1>5

LEMMA LineRead ==
  ASSUME NEW q \in Seq(Lines), q # <<>>
  PROVE  /\ Asking(Tail(q)) \in Nat /\ Asking(q) \in Nat
         /\ Asking(Tail(q)) <= Asking(q)
         /\ Head(q) = "fetch" => Asking(Tail(q)) < Asking(q)
  <1>1. /\ Len(q) \in Nat \ {0} /\ Tail(q) \in Seq(Lines) /\ Len(Tail(q)) = Len(q) - 1
        /\ \A i \in 1 .. Len(Tail(q)) : Tail(q)[i] = q[i + 1]
        /\ Head(q) = q[1]
    BY HeadTailProperties, LenProperties, EmptySeq
  <1> DEFINE After == CallsAt(q) \ {1}
             Back  == [i \in After |-> i - 1]
  <1>2. IsFiniteSet(CallsAt(q)) /\ Asking(q) \in Nat
    <2>1. CallsAt(q) \in SUBSET (1 .. Len(q)) /\ IsFiniteSet(1 .. Len(q))
      BY <1>1, FS_Interval DEF CallsAt
    <2> QED
      BY <2>1, FS_Subset, FS_CardinalityType DEF Asking
  <1>3. /\ IsFiniteSet(After)
        /\ Cardinality(After) =
             IF 1 \in CallsAt(q) THEN Asking(q) - 1 ELSE Asking(q)
    BY <1>2, FS_RemoveElement DEF Asking
  <1>4. Back \in Surjection(After, CallsAt(Tail(q)))
    <2>1. Back \in [After -> CallsAt(Tail(q))]
      BY <1>1 DEF CallsAt
    <2>2. \A j \in CallsAt(Tail(q)) : \E i \in After : Back[i] = j
      <3> TAKE j \in CallsAt(Tail(q))
      <3>1. j + 1 \in After /\ (j + 1) - 1 = j
        BY <1>1 DEF CallsAt
      <3> QED
        BY <3>1
    <2> QED
      BY <2>1, <2>2, Fun_IsSurj
  <1>5. IsFiniteSet(CallsAt(Tail(q))) /\ Cardinality(CallsAt(Tail(q))) <= Cardinality(After)
    <2> HIDE DEF Back, After
    <2> QED
      BY <1>3, <1>4, FS_Surjection
  <1>6. Asking(Tail(q)) \in Nat
    BY <1>5, FS_CardinalityType DEF Asking
  <1>7. Head(q) = "fetch" => 1 \in CallsAt(q)
    BY <1>1 DEF CallsAt
  <1> QED
    BY <1>2, <1>3, <1>5, <1>6, <1>7 DEF Asking
(* The values of the variables.  InPipe is kept folded in the proofs.      *)
InPipe == {q \in Seq(Lines) : Len(q) <= PipeSize}
Conv   == [ pc : {"none", "read", "tail", "wait", "writer", "stderr", "done"},
            outcome : {"none", "frame", "failed"},
            answer : {"none", "result", "error"} ]
Writer == [ pc : {"receive", "write", "ended"}, open : BOOLEAN,
            queue : 0 .. (MaxAsks + 1) ]
Script == [ wants : {"read", "ask", "frame", "more", "exit", "gone"},
            asked : 0 .. MaxAsks, read : 0 .. (MaxAsks + 1),
            said : BOOLEAN, status : {"ok", "bad"}, uv : BOOLEAN ]
Pipes  == [stdin : 0 .. PipeSize, stdout : InPipe, reading : BOOLEAN, noise : BOOLEAN]

(* The values, the state before the start, and what the Action may do.     *)
CoTyped ==
  /\ conv \in Conv /\ writer \in Writer /\ script \in Script /\ pipes \in Pipes
  /\ conv.pc = "none" =>
       writer.pc = "receive" /\ writer.queue = 0 /\ pipes.stdout = <<>>
  /\ script.wants = "ask" => script.asked < MaxAsks
  /\ script.wants = "read" => script.read < 1 + script.asked

(* The writer has at most the invocation and one reply for every call that *)
(* left the pipe.                                                          *)
RepliesOwed == writer.queue + Asking(pipes.stdout) <= 1 + script.asked

CoInv == CoTyped /\ RepliesOwed

LEMMA NothingAsked == Asking(<<>>) = 0
  <1>1. CallsAt(<<>>) = {}
    BY DEF CallsAt
  <1> QED
    BY <1>1, FS_EmptySet DEF Asking

LEMMA AskingCounts ==
  ASSUME NEW q \in InPipe
  PROVE  Asking(q) \in Nat /\ q \in Seq(Lines) /\ Len(q) \in Nat /\ Len(q) <= PipeSize
  <1>1. "fetch" \in Lines /\ q \in Seq(Lines) /\ Len(q) <= PipeSize
    BY DEF Lines, InPipe
  <1> QED
    BY <1>1, LineWritten, LenProperties

LEMMA WantsWhatItMay ==
  ASSUME NEW asked \in 0 .. MaxAsks, NEW read \in 0 .. (MaxAsks + 1),
         NEW said \in BOOLEAN, NEW w \in Wants(asked, read, said)
  PROVE  /\ w \in {"read", "ask", "frame", "more", "exit"}
         /\ w = "ask" => asked < MaxAsks
         /\ w = "read" => read < 1 + asked
  BY DEF Wants

LEMMA ConversationStarts == ConversationInit => CoInv
  <1> SUFFICES ASSUME ConversationInit PROVE CoInv
    OBVIOUS
  <1>1. 0 \in 0 .. MaxAsks /\ 0 \in 0 .. (MaxAsks + 1) /\ 0 \in 0 .. PipeSize
    BY ConversationAssumption
  <1>2. conv = [pc |-> "none", outcome |-> "none", answer |-> "none"]
        /\ writer = [pc |-> "receive", open |-> TRUE, queue |-> 0]
        /\ pipes = [stdin |-> 0, stdout |-> <<>>, reading |-> TRUE, noise |-> FALSE]
    BY DEF ConversationInit
  <1>3. script \in [ wants : Wants(0, 0, FALSE), asked : {0}, read : {0},
                     said : {FALSE}, status : {"ok", "bad"}, uv : {TRUE} ]
    BY DEF ConversationInit
  <1>4. Wants(0, 0, FALSE) \subseteq {"read", "ask", "frame", "more", "exit"}
        /\ ("ask" \in Wants(0, 0, FALSE) => 0 < MaxAsks)
    BY <1>1, WantsWhatItMay
  <1>5. <<>> \in InPipe
    BY EmptySeq, ConversationAssumption DEF InPipe
  <1>6. conv \in Conv /\ writer \in Writer
    BY <1>1, <1>2, ConversationAssumption DEF Conv, Writer
  <1>7. script \in Script /\ script.asked = 0 /\ script.read = 0
        /\ script.wants \in Wants(0, 0, FALSE)
    BY <1>1, <1>3, <1>4 DEF Script
  <1>8. pipes \in Pipes
    BY <1>1, <1>2, <1>5 DEF Pipes
  <1>9. CoTyped
    <2>1. writer.pc = "receive" /\ writer.queue = 0 /\ pipes.stdout = <<>>
      BY <1>2
    <2>2. script.wants = "ask" => script.asked < MaxAsks
      BY <1>4, <1>7
    <2> QED
      BY <1>6, <1>7, <1>8, <2>1, <2>2 DEF CoTyped
  <1> QED
    BY <1>2, <1>7, <1>9, NothingAsked DEF CoInv, RepliesOwed

(* The Action goes on to what it wants next, within what it may want.      *)
LEMMA ThenKeeps ==
  ASSUME script \in Script, NEW asked \in 0 .. MaxAsks,
         NEW read \in 0 .. (MaxAsks + 1), NEW said \in BOOLEAN, Then(asked, read, said)
  PROVE  /\ script' \in Script /\ script'.asked = asked
         /\ script'.wants = "ask" => script'.asked < MaxAsks
         /\ script'.wants = "read" => script'.read < 1 + script'.asked
  <1>1. PICK w \in Wants(asked, read, said) :
          script' = [script EXCEPT !.wants = w, !.asked = asked,
                       !.read = read, !.said = said]
    BY DEF Then
  <1>2. /\ w \in {"read", "ask", "frame", "more", "exit"}
        /\ w = "ask" => asked < MaxAsks
        /\ w = "read" => read < 1 + asked
    BY WantsWhatItMay
  <1>3. /\ script' \in Script /\ script'.asked = asked
        /\ script'.wants = w /\ script'.read = read
    BY <1>1, <1>2 DEF Script
  <1> QED
    BY <1>2, <1>3

LEMMA ActionKeeps ==
  ASSUME CoInv, conv.pc # "none", ActionReads \/ ActionSpeaks \/ ActionExits
  PROVE  CoInv'
  <1>0. /\ CoTyped /\ RepliesOwed /\ Asking(pipes.stdout) \in Nat
        /\ pipes \in Pipes /\ script \in Script /\ pipes.stdout \in InPipe
        /\ script.asked \in 0 .. MaxAsks /\ script.read \in 0 .. (MaxAsks + 1)
        /\ script.said \in BOOLEAN
    BY AskingCounts DEF CoInv, CoTyped, Script, Pipes
  <1>1. ASSUME script' = [script EXCEPT !.wants = "exit"]
                 \/ script' = [script EXCEPT !.wants = "gone", !.uv = FALSE],
               UNCHANGED <<conv, writer, pipes>>
        PROVE  CoInv'
    <2>1. /\ script' \in Script /\ script'.wants \in {"exit", "gone"}
          /\ script'.asked = script.asked
      BY <1>0, <1>1 DEF Script
    <2> QED
      BY <1>0, <1>1, <2>1 DEF CoInv, CoTyped, RepliesOwed
  <1>2. CASE ActionReads
    <2>1. CASE /\ pipes.stdin > 0
               /\ pipes' = [pipes EXCEPT !.stdin = @ - 1]
               /\ Then(script.asked, script.read + 1, script.said)
      <3>1. /\ script.wants = "read" /\ script.read + 1 \in 0 .. (MaxAsks + 1)
            /\ UNCHANGED <<conv, writer>>
        BY <1>0, <1>2, ConversationAssumption DEF ActionReads, CoTyped
      <3>2. pipes' \in Pipes /\ pipes'.stdout = pipes.stdout
        BY <1>0, <2>1, ConversationAssumption DEF Pipes
      <3>3. /\ script' \in Script /\ script'.asked = script.asked
            /\ script'.wants = "ask" => script'.asked < MaxAsks
            /\ script'.wants = "read" => script'.read < 1 + script'.asked
        BY <1>0, <2>1, <3>1, ThenKeeps
      <3> QED
        BY <1>0, <3>1, <3>2, <3>3 DEF CoInv, CoTyped, RepliesOwed
    <2> QED
      BY <1>1, <1>2, <2>1 DEF ActionReads
  <1>3. CASE ActionSpeaks
    <2>1. UNCHANGED <<conv, writer>>
      BY <1>3 DEF ActionSpeaks
    <2>2. PICK l \in Lines : /\ ActionWrites(l)
                             /\ l = "fetch" <=> script.wants = "ask"
      BY <1>3 DEF ActionSpeaks, Lines
    <2>3. CASE ~pipes.reading
      BY <1>1, <2>1, <2>2, <2>3 DEF ActionWrites
    <2>4. CASE pipes.reading
      <3>1. /\ Len(pipes.stdout) < PipeSize
            /\ pipes' = [pipes EXCEPT !.stdout = Append(@, l)]
        BY <2>2, <2>4 DEF ActionWrites
      <3>2. Append(pipes.stdout, l) \in InPipe /\ pipes.stdout \in Seq(Lines)
        BY <1>0, <3>1, ConversationAssumption, AskingCounts, AppendProperties DEF InPipe
      <3>3. pipes' \in Pipes /\ pipes'.stdout = Append(pipes.stdout, l)
        BY <1>0, <3>1, <3>2 DEF Pipes
      <3>4. PICK asked \in 0 .. MaxAsks, said \in BOOLEAN :
              /\ asked = IF l = "fetch" THEN script.asked + 1 ELSE script.asked
              /\ Then(asked, script.read, said)
        <4>1. l = "fetch" => script.asked + 1 \in 0 .. MaxAsks
          BY <1>0, <2>2, ConversationAssumption DEF CoTyped
        <4>2. l = "fetch" => Then(script.asked + 1, script.read, script.said)
          BY <2>2, <2>4 DEF ActionWrites
        <4>3. l # "fetch" => Then(script.asked, script.read, TRUE)
          BY <2>2, <2>4 DEF ActionWrites
        <4> QED
          BY <1>0, <4>1, <4>2, <4>3
      <3>5. /\ script' \in Script /\ script'.asked = asked
            /\ script'.wants = "ask" => script'.asked < MaxAsks
            /\ script'.wants = "read" => script'.read < 1 + script'.asked
        BY <1>0, <3>4, ThenKeeps
      <3>6. CoTyped'
        BY <1>0, <2>1, <3>3, <3>5 DEF CoTyped
      <3>7. RepliesOwed'
        <4>1. /\ l = "fetch" => Asking(pipes'.stdout) <= Asking(pipes.stdout) + 1
              /\ l # "fetch" => Asking(pipes'.stdout) = Asking(pipes.stdout)
          BY <3>2, <3>3, LineWritten
        <4>2. Asking(pipes'.stdout) \in Nat
          BY <3>2, <3>3, AskingCounts
        <4>3. writer.queue \in Nat
          BY <1>0, ConversationAssumption DEF CoTyped, Writer
        <4> QED
          BY <1>0, <2>1, <3>4, <3>5, <4>1, <4>2, <4>3 DEF RepliesOwed
      <3> QED
        BY <3>6, <3>7 DEF CoInv
    <2> QED
      BY <1>0, <2>3, <2>4
  <1>4. CASE ActionExits
    BY <1>1, <1>4 DEF ActionExits
  <1> QED
    BY <1>2, <1>3, <1>4

LEMMA LeaveKeeps ==
  ASSUME CoInv, conv.pc \in {"read", "tail"}, NEW outcome \in {"frame", "failed"},
         Leave(outcome)
  PROVE  CoInv'
  <1> USE ConversationAssumption
  <1>1. CoTyped /\ RepliesOwed /\ Asking(pipes.stdout) \in Nat
    BY AskingCounts DEF CoInv, CoTyped, Pipes
  <1>2. <<>> \in InPipe
    BY EmptySeq, ConversationAssumption DEF InPipe
  <1>3. /\ conv' = [conv EXCEPT !.pc = "wait", !.outcome = outcome]
        /\ writer' = [writer EXCEPT !.open = FALSE]
        /\ pipes' = [pipes EXCEPT !.reading = FALSE, !.stdout = <<>>]
        /\ script' = script \/ script' = [script EXCEPT !.uv = FALSE]
             \/ script' = [script EXCEPT !.uv = FALSE, !.wants = "gone"]
    <2>0. script = [script EXCEPT !.wants = script.wants] /\ script \in Script
      BY <1>1 DEF CoTyped, Script
    <2>1. script' = script
            \/ \E left \in {script.wants, "gone"} :
                 script' = [script EXCEPT !.uv = FALSE, !.wants = left]
      BY DEF Leave
    <2>2. ASSUME NEW left \in {script.wants, "gone"},
                 script' = [script EXCEPT !.uv = FALSE, !.wants = left]
          PROVE  \/ script' = [script EXCEPT !.uv = FALSE]
                 \/ script' = [script EXCEPT !.uv = FALSE, !.wants = "gone"]
      BY <2>0, <2>2 DEF Script
    <2> QED
      BY <2>1, <2>2 DEF Leave
  <1>4. /\ script' \in Script /\ script'.wants \in {script.wants, "gone"}
        /\ script'.asked = script.asked /\ script'.read = script.read
    BY <1>1, <1>3 DEF CoTyped, Script
  <1>5. pipes' \in Pipes /\ pipes'.stdout = <<>>
    BY <1>1, <1>2, <1>3 DEF CoTyped, Pipes
  <1>8. conv' \in Conv /\ conv'.pc = "wait"
    BY <1>1, <1>3 DEF CoTyped, Conv
  <1>9. writer' \in Writer /\ writer'.queue = writer.queue
        /\ writer.queue \in 0 .. (MaxAsks + 1)
    BY <1>1, <1>3 DEF CoTyped, Writer
  <1>6. CoTyped'
    BY <1>1, <1>4, <1>5, <1>8, <1>9 DEF CoTyped
  <1>7. RepliesOwed'
    <2>1. script.asked \in Nat
      BY <1>1 DEF CoTyped, Script
    <2> QED
      BY <1>1, <1>4, <1>5, <1>9, <2>1, NothingAsked DEF RepliesOwed
  <1> QED
    BY <1>6, <1>7 DEF CoInv

LEMMA MainKeeps ==
  ASSUME CoInv, MainStep
  PROVE  CoInv'
  <1> USE ConversationAssumption
  <1>0. CoTyped /\ RepliesOwed /\ Asking(pipes.stdout) \in Nat
    BY AskingCounts DEF CoInv, CoTyped, Pipes
  <1>1. CASE \E o \in {"frame", "failed"} : conv.pc \in {"read", "tail"} /\ Leave(o)
    BY <1>1, LeaveKeeps
  <1>2. ASSUME pipes.stdout # <<>>, pipes' = [pipes EXCEPT !.stdout = Tail(@)]
        PROVE  /\ pipes' \in Pipes
               /\ pipes'.stdout = Tail(pipes.stdout)
               /\ Asking(pipes.stdout') \in Nat
               /\ Asking(pipes.stdout') <= Asking(pipes.stdout)
               /\ Head(pipes.stdout) = "fetch" =>
                    Asking(pipes.stdout') < Asking(pipes.stdout)
    <2>1. Tail(pipes.stdout) \in InPipe /\ pipes.stdout \in Seq(Lines)
      BY <1>0, <1>2, AskingCounts, HeadTailProperties DEF CoTyped, Pipes, InPipe
    <2>2. /\ pipes'.stdout = Tail(pipes.stdout)
          /\ pipes' \in Pipes
      BY <1>0, <1>2, <2>1 DEF CoTyped, Pipes
    <2>3. /\ Asking(Tail(pipes.stdout)) \in Nat
          /\ Asking(Tail(pipes.stdout)) <= Asking(pipes.stdout)
          /\ Head(pipes.stdout) = "fetch" =>
               Asking(Tail(pipes.stdout)) < Asking(pipes.stdout)
      BY <1>2, <2>1, LineRead
    <2> QED
      BY <1>0, <2>1, <2>2, <2>3
  <1>3. CASE conv.pc = "read" /\ pipes.stdout # <<>>
             /\ Head(pipes.stdout) = "fetch" /\ Reply
    <2>1. /\ writer' = [writer EXCEPT !.queue = @ + 1]
          /\ UNCHANGED <<conv, script>>
      BY <1>3 DEF Reply
    <2>2. /\ Asking(pipes.stdout') < Asking(pipes.stdout)
          /\ Asking(pipes.stdout') \in Nat
          /\ pipes' \in Pipes
      BY <1>2, <1>3 DEF Reply
    <2>3. writer.queue + 1 \in 0 .. (MaxAsks + 1)
      <3>1. writer.queue \in Nat /\ script.asked \in 0 .. MaxAsks
        BY <1>0 DEF CoTyped, Writer, Script
      <3> QED
        BY <1>0, <2>2, <3>1 DEF RepliesOwed
    <2>4. /\ writer' \in Writer
          /\ writer'.queue = writer.queue + 1
      BY <1>0, <2>1, <2>3 DEF CoTyped, Writer
    <2> QED
      <3>1. writer.queue \in Nat /\ script.asked \in Nat
        BY <1>0 DEF CoTyped, Writer, Script
      <3> QED
        BY <1>0, <1>3, <2>1, <2>2, <2>4, <3>1 DEF CoInv, CoTyped, RepliesOwed
  <1>4. CASE ReadTerminal
    <2>1. /\ conv' = [conv EXCEPT !.pc = "tail"] /\ conv.pc = "read"
          /\ UNCHANGED <<writer, script>>
      BY <1>4 DEF ReadTerminal
    <2>2. /\ Asking(pipes.stdout') <= Asking(pipes.stdout)
          /\ Asking(pipes.stdout') \in Nat
          /\ pipes' \in Pipes
      BY <1>2, <1>4 DEF ReadTerminal
    <2> QED
      <3>1. conv' \in Conv /\ conv'.pc = "tail"
        BY <1>0, <2>1 DEF CoTyped, Conv
      <3>2. writer.queue \in Nat /\ script.asked \in Nat
        BY <1>0 DEF CoTyped, Writer, Script
      <3> QED
        BY <1>0, <2>1, <2>2, <3>1, <3>2 DEF CoInv, CoTyped, RepliesOwed
  <1>5. CASE ReapChild \/ JoinWriter \/ JoinStderr
    <2>1. conv' \in Conv /\ conv'.pc # "none"
      BY <1>0, <1>5 DEF CoTyped, Conv, ReapChild, JoinWriter, JoinStderr
    <2>2. UNCHANGED <<writer, script, pipes>>
      BY <1>5 DEF ReapChild, JoinWriter, JoinStderr
    <2> QED
      BY <1>0, <2>1, <2>2 DEF CoInv, CoTyped, RepliesOwed
  <1> QED
    BY <1>1, <1>3, <1>4, <1>5
       DEF MainStep, ReadFetch, ReadFails, ReadTail

LEMMA ConversationStepKept ==
  ASSUME CoInv, [ConversationNext]_conversationVars
  PROVE  CoInv'
  <1> USE ConversationAssumption
  <1>0. /\ CoTyped /\ RepliesOwed /\ Asking(pipes.stdout) \in Nat
        /\ writer.queue \in 0 .. (MaxAsks + 1) /\ script.asked \in Nat
    BY AskingCounts DEF CoInv, CoTyped, Pipes, Writer, Script
  <1>1. CASE StartConversation
    <2>1. /\ writer' = [writer EXCEPT !.queue = 1] /\ conv.pc = "none"
          /\ conv' = [conv EXCEPT !.pc = "read"] /\ UNCHANGED <<script, pipes>>
      BY <1>1 DEF StartConversation
    <2>2. /\ conv' \in Conv /\ conv'.pc = "read" /\ pipes.stdout = <<>>
          /\ writer' \in Writer /\ writer'.queue = 1
      BY <1>0, <2>1 DEF CoTyped, Conv, Writer
    <2> QED
      BY <1>0, <2>1, <2>2, NothingAsked DEF CoInv, CoTyped, RepliesOwed
  <1>2. CASE ActionComplains
    <2>1. pipes' \in Pipes /\ pipes'.stdout = pipes.stdout
      BY <1>0, <1>2 DEF ActionComplains, CoTyped, Pipes
    <2>2. UNCHANGED <<conv, writer, script>> /\ conv.pc # "none"
      BY <1>2 DEF ActionComplains
    <2> QED
      BY <1>0, <2>1, <2>2 DEF CoInv, CoTyped, RepliesOwed
  <1>3. CASE WriterReceives
    <2>1. /\ writer' \in Writer /\ writer'.queue <= writer.queue
          /\ writer'.queue \in Nat
      <3>1. CASE writer.queue > 0 /\ writer' = [writer EXCEPT !.queue = @ - 1, !.pc = "write"]
        <4>1. writer.queue - 1 \in 0 .. (MaxAsks + 1)
          BY <1>0, <3>1
        <4>2. writer' \in Writer /\ writer'.queue = writer.queue - 1
          BY <1>0, <3>1, <4>1 DEF CoTyped, Writer
        <4> QED
          BY <1>0, <4>1, <4>2
      <3>2. CASE writer' = [writer EXCEPT !.pc = "ended"]
        BY <1>0, <3>2 DEF CoTyped, Writer
      <3> QED
        BY <1>3, <3>1, <3>2 DEF WriterReceives
    <2>2. UNCHANGED <<conv, script, pipes>> /\ conv.pc # "none"
      BY <1>3 DEF WriterReceives
    <2> QED
      BY <1>0, <2>1, <2>2 DEF CoInv, CoTyped, RepliesOwed
  <1>4. CASE WriterWrites
    <2>1. writer' \in Writer /\ writer'.queue = writer.queue
      BY <1>0, <1>4 DEF WriterWrites, CoTyped, Writer
    <2>2. pipes' \in Pipes /\ pipes'.stdout = pipes.stdout
      BY <1>0, <1>4 DEF WriterWrites, CoTyped, Pipes
    <2>3. UNCHANGED <<conv, script>> /\ conv.pc # "none"
      BY <1>0, <1>4 DEF WriterWrites, CoTyped
    <2> QED
      BY <1>0, <2>1, <2>2, <2>3 DEF CoInv, CoTyped, RepliesOwed
  <1>5. CASE UNCHANGED conversationVars
    BY <1>0, <1>5 DEF conversationVars, CoInv, CoTyped, RepliesOwed
  <1> QED
    BY <1>1, <1>2, <1>3, <1>4, <1>5, ActionKeeps, MainKeeps
       DEF ConversationNext, ScriptStep, WriterStep

LEMMA ConversationTypes == CoInv => ConversationTypeOK
  <1> SUFFICES ASSUME CoInv PROVE ConversationTypeOK
    OBVIOUS
  <1>1. /\ conv \in Conv /\ writer \in Writer /\ script \in Script
        /\ pipes.stdin \in 0 .. PipeSize /\ pipes.stdout \in InPipe
        /\ pipes.reading \in BOOLEAN /\ pipes.noise \in BOOLEAN
    BY DEF CoInv, CoTyped, Pipes
  <1> QED
    BY <1>1 DEF ConversationTypeOK, Conv, Writer, Script, InPipe

-----------------------------------------------------------------------------
(* The five components together.                                           *)

WorkInv == CInv /\ IInv /\ TrInv /\ SnInv /\ CoInv

(* Whatever the workstation does, each component keeps its values, and its *)
(* counters their bounds: an Action that asks ahead of the replies, or     *)
(* never reads them, has no more lines queued for it than its invocation   *)
(* and one reply for each call it sent (conversation, write_lines).        *)
THEOREM WorkstationTyped == Spec => []WorkTypeOK
<1>1. Init => WorkInv
  BY CallInitially, InvocationInitially, TranslationInitially, SnapshotStarts,
     ConversationStarts DEF Init, WorkInv
<1>2. WorkInv /\ [Next]_workVars => WorkInv'
  <2> SUFFICES ASSUME WorkInv, [Next]_workVars PROVE WorkInv'
    OBVIOUS
  <2>1. /\ [CallNext]_callVars /\ [InvocationNext]_invocationVars
        /\ [TranslationNext]_translationVars /\ [SnapshotNext]_snapshotVars
        /\ [ConversationNext]_conversationVars
    BY DEF Next, Others, workVars
  <2> QED
    BY <2>1, CallKept, InvocationKept, TranslationKept, SnapshotStepKept,
       ConversationStepKept DEF WorkInv
<1>3. WorkInv => WorkTypeOK
  BY ConversationTypes
     DEF WorkInv, WorkTypeOK, CInv, IInv, TrInv, SnInv, SnTyped,
         SnapshotTypeOK
<1> QED
  BY <1>1, <1>2, <1>3, PTL DEF Spec
===============================================================================
