------------------------------ MODULE BoundedCall ------------------------------
(***************************************************************************)
(* A host command with bounded output and a bounded time                   *)
(* (src/capture.rs, src/space/docker/exec.rs): its streams are read by      *)
(* threads that nobody joins, the caller waits no longer than its budget,   *)
(* stops what outlives it, and reaps it.                                   *)
(*                                                                         *)
(* The command may run for ever, ignore a request to end, be out of reach   *)
(* of a kill, and leave a process behind that holds its streams.            *)
(***************************************************************************)
EXTENDS Naturals, FiniteSets

CONSTANTS Limit,    \* bytes a stream may have, or that are kept of it
          MaxBytes  \* bound: bytes a stream is given

VARIABLES
  call,    \* the caller: what it runs, where it is, what it answers
  proc,    \* the command, and the process it left behind
  stream   \* per stream: the bytes written, and where its reader is

callVars == <<call, proc, stream>>

ASSUME CallAssumption == Limit \in Nat /\ MaxBytes \in Nat

(* run_bounded, with or without a budget; execute_quiet and                *)
(* execute_bounded_stdout, which capture one stream.                       *)
Modes   == {"bounded", "endless", "quiet", "stdout"}
Streams == {"out", "err"}

Captured == IF call.mode \in {"bounded", "endless"} THEN Streams
            ELSE IF call.mode = "quiet" THEN {"err"} ELSE {"out"}

Whole == call.mode \in {"bounded", "endless"}

CallTypeOK ==
  /\ call \in [ mode : Modes, late : BOOLEAN,
                pc : {"none", "receive", "wait", "term", "kill", "finish", "done"},
                got : SUBSET Streams,
                why : {"none", "late", "excessive", "unread"},
                answer : {"none", "output", "excessive", "unread",
                          "stopped", "remains"} ]
  /\ proc \in [ leader : {"none", "running", "ended", "reaped"},
                group : BOOLEAN, heir : BOOLEAN ]
  /\ stream \in [Streams -> [ written : 0 .. MaxBytes, read : 0 .. MaxBytes,
                              reader : {"none", "reading", "whole", "over", "failed"} ]]

CallInit ==
  /\ call \in [ mode : Modes, late : {FALSE}, pc : {"none"}, got : {{}},
                why : {"none"}, answer : {"none"} ]
  /\ proc \in [ leader : {"none"}, group : BOOLEAN, heir : {FALSE} ]
  /\ stream = [s \in Streams |-> [written |-> 0, read |-> 0, reader |-> "none"]]

----------------------------------------------------------------------------
(* The command and its descendant.                                         *)

Writers == proc.leader = "running" \/ proc.heir

Writes(s) ==
  /\ Writers /\ stream[s].written < MaxBytes
  /\ stream' = [stream EXCEPT ![s].written = @ + 1]
  /\ UNCHANGED <<call, proc>>

Forks ==
  /\ proc.leader = "running" /\ ~proc.heir
  /\ proc' = [proc EXCEPT !.heir = TRUE]
  /\ UNCHANGED <<call, stream>>

(* By itself, or because it was asked to; nothing makes it.                *)
LeaderEnds ==
  /\ proc.leader = "running"
  /\ proc' = [proc EXCEPT !.leader = "ended"]
  /\ UNCHANGED <<call, stream>>

HeirEnds ==
  /\ proc.heir
  /\ proc' = [proc EXCEPT !.heir = FALSE]
  /\ UNCHANGED <<call, stream>>

----------------------------------------------------------------------------
(* The readers.                                                            *)

(* A capture that must be whole stops at its first byte too many; another  *)
(* reads on, so that the writer never waits, and keeps no more.            *)
Reads(s) ==
  /\ stream[s].reader = "reading" /\ stream[s].read < stream[s].written
  /\ stream' = [stream EXCEPT ![s].read = @ + 1, ![s].reader =
                  IF Whole /\ stream[s].read + 1 > Limit THEN "over" ELSE @]
  /\ UNCHANGED <<call, proc>>

ReadsEnd(s) ==
  /\ stream[s].reader = "reading" /\ stream[s].read = stream[s].written
  /\ ~Writers
  /\ stream' = [stream EXCEPT ![s].reader = "whole"]
  /\ UNCHANGED <<call, proc>>

ReadBreaks(s) ==
  /\ stream[s].reader = "reading"
  /\ stream' = [stream EXCEPT ![s].reader = "failed"]
  /\ UNCHANGED <<call, proc>>

----------------------------------------------------------------------------
(* The caller.                                                             *)

CallTo(pc) == call' = [call EXCEPT !.pc = pc]

Answer(what) == call' = [call EXCEPT !.pc = "done", !.answer = what]

StartCall ==
  /\ call.pc = "none"
  /\ CallTo(IF Whole THEN "receive" ELSE "wait")
  /\ proc' = [proc EXCEPT !.leader = "running"]
  /\ stream' = [s \in Streams |->
       IF s \in Captured THEN [stream[s] EXCEPT !.reader = "reading"] ELSE stream[s]]

Deadline ==
  /\ call.pc \in {"receive", "wait"} /\ call.mode # "endless" /\ ~call.late
  /\ call' = [call EXCEPT !.late = TRUE]
  /\ UNCHANGED <<proc, stream>>

(* A request to end, to the group the command leads or to it alone.        *)
Stop(why) ==
  /\ call' = [call EXCEPT !.pc = "term", !.why = why]
  /\ UNCHANGED <<proc, stream>>

Receive(s) ==
  /\ call.pc = "receive" /\ s \in Captured \ call.got
  /\ \/ /\ stream[s].reader = "whole"
        /\ call' = [call EXCEPT !.got = @ \cup {s}, !.pc =
                      IF call.got \cup {s} = Captured THEN "wait" ELSE @]
        /\ UNCHANGED <<proc, stream>>
     \/ stream[s].reader = "over" /\ Stop("excessive")
     \/ stream[s].reader = "failed" /\ Stop("unread")

ReceiveLate == call.pc = "receive" /\ call.late /\ Stop("late")

Reap ==
  /\ call.pc = "wait" /\ proc.leader = "ended"
  /\ proc' = [proc EXCEPT !.leader = "reaped"]
  /\ IF Whole THEN Answer("output") ELSE CallTo("finish")
  /\ UNCHANGED stream

WaitLate == call.pc = "wait" /\ call.late /\ Stop("late")

Stopped == Answer(IF call.why = "late" THEN "stopped" ELSE call.why)

(* A stop that leaves the group behind its leader.                         *)
RemainsOfGroup == proc' = [proc EXCEPT !.leader = "reaped"]

(* The command is reaped, and what remains of its own group killed.        *)
KillsRemains ==
  proc' = [proc EXCEPT !.leader = "reaped", !.heir = @ /\ ~proc.group]

StopReaps ==
  /\ call.pc \in {"term", "kill"} /\ proc.leader = "ended"
  /\ KillsRemains /\ Stopped
  /\ UNCHANGED stream

(* The grace passed: a kill, and after another one nothing more is tried.  *)
GraceEnds ==
  /\ \/ call.pc = "term" /\ CallTo("kill")
     \/ /\ call.pc = "kill"
        /\ Answer(IF call.why = "late" THEN "remains" ELSE call.why)
  /\ UNCHANGED <<proc, stream>>

(* The stream of a command that was reaped, for as long as the grace goes. *)
FinishReads ==
  /\ call.pc = "finish"
  /\ \E s \in Captured :
       \/ stream[s].reader = "whole" /\ Answer("output")
       \/ stream[s].reader = "failed" /\ Answer("unread")
  /\ UNCHANGED <<proc, stream>>

(* A caller that waits for the stream itself.                              *)
FinishJoined == FALSE

FinishPasses ==
  /\ call.pc = "finish"
  /\ Answer("unread")
  /\ proc' = [proc EXCEPT !.heir = @ /\ ~proc.group]
  /\ UNCHANGED stream

CallerStep == \/ \E s \in Streams : Receive(s)
              \/ ReceiveLate \/ Reap \/ WaitLate \/ StopReaps
              \/ GraceEnds \/ FinishReads \/ FinishPasses

CallNext ==
  \/ StartCall \/ Deadline \/ CallerStep
  \/ \E s \in Streams : Writes(s) \/ Reads(s) \/ ReadsEnd(s) \/ ReadBreaks(s)
  \/ Forks \/ LeaderEnds \/ HeirEnds

(* Time passes, and the caller runs.  Nothing is assumed of the command,   *)
(* of what it leaves behind, nor of the threads that read.                 *)
CallFairness ==
  /\ WF_callVars(Deadline)
  /\ WF_callVars(CallerStep)

----------------------------------------------------------------------------
(* An output is all the command and its descendants wrote, within its       *)
(* limit or cut at it, of a command that was reaped; and a command said to  *)
(* be stopped is reaped with all of its own group (run_bounded, stop,      *)
(* Reader::finish).                                                        *)
AnswersTellTheEnd ==
  /\ call.answer = "output" =>
       /\ proc.leader = "reaped" /\ ~Writers
       /\ \A s \in Captured :
            /\ stream[s].read = stream[s].written
            /\ Whole => stream[s].read <= Limit
  /\ call.answer = "stopped" =>
       proc.leader = "reaped" /\ (proc.group => ~proc.heir)

(* A call with a budget that has not answered.                             *)
BudgetRuns == call.mode # "endless" /\ call.pc \notin {"none", "done"}
===============================================================================
