----------------------------- MODULE Conversation -----------------------------
(***************************************************************************)
(* One invocation process (src/python.rs): this process reads its lines    *)
(* and answers the provider calls among them, a writer thread sends the     *)
(* invocation and the replies, a third thread drains its stderr.  Pipes    *)
(* hold little; an Action may write before it reads, ask for several calls *)
(* at once, or stop reading.                                               *)
(*                                                                         *)
(* The child is uv, and the Action a process of uv: a kill may leave the    *)
(* Action behind with the pipes.                                           *)
(***************************************************************************)
EXTENDS Naturals, Sequences

CONSTANTS PipeSize,  \* lines a pipe holds
          MaxAsks    \* bound: provider calls of an Action

VARIABLES
  conv,    \* pc and outcome of the main thread
  writer,  \* the writer thread, and the channel to it
  script,  \* the Action: what it does next, and its ends of the pipes
  pipes    \* the lines in stdin and stdout, and whether stderr had any

conversationVars == <<conv, writer, script, pipes>>

ASSUME ConversationAssumption == PipeSize \in Nat \ {0} /\ MaxAsks \in Nat

Lines == {"fetch", "frame", "other"}

ConversationTypeOK ==
  /\ conv \in [ pc : {"none", "read", "tail", "wait", "writer", "stderr", "done"},
                outcome : {"none", "frame", "failed"},
                answer : {"none", "result", "error"} ]
  /\ writer \in [ pc : {"receive", "write", "ended"}, open : BOOLEAN,
                  queue : 0 .. (MaxAsks + 1) ]
  /\ script \in [ wants : {"read", "ask", "frame", "more", "exit", "gone"},
                  asked : 0 .. MaxAsks, read : 0 .. (MaxAsks + 1),
                  said : BOOLEAN, status : {"ok", "bad"}, uv : BOOLEAN ]
  /\ pipes.stdin \in 0 .. PipeSize
  /\ pipes.stdout \in Seq(Lines) /\ Len(pipes.stdout) <= PipeSize
  /\ pipes.reading \in BOOLEAN /\ pipes.noise \in BOOLEAN

(* What an Action that keeps to the protocol may do next: it reads its     *)
(* invocation and one reply for every call, and no line that is not owed.  *)
Wants(asked, read, said) ==
  {"exit"} \cup IF said THEN {"more"}
                ELSE {"frame"} \cup {w \in {"ask"} : asked < MaxAsks}
                               \cup {w \in {"read"} : read < 1 + asked}

ConversationInit ==
  /\ conv = [pc |-> "none", outcome |-> "none", answer |-> "none"]
  /\ writer = [pc |-> "receive", open |-> TRUE, queue |-> 0]
  /\ script \in [ wants : Wants(0, 0, FALSE), asked : {0}, read : {0},
                  said : {FALSE}, status : {"ok", "bad"}, uv : {TRUE} ]
  /\ pipes = [stdin |-> 0, stdout |-> <<>>, reading |-> TRUE, noise |-> FALSE]

----------------------------------------------------------------------------
(* The Action.                                                             *)

Gone == script.wants = "gone"

Then(asked, read, said) ==
  \E w \in Wants(asked, read, said) :
    script' = [script EXCEPT !.wants = w, !.asked = asked, !.read = read, !.said = said]

ActionReads ==
  /\ script.wants = "read"
  /\ \/ /\ pipes.stdin > 0
        /\ pipes' = [pipes EXCEPT !.stdin = @ - 1]
        /\ Then(script.asked, script.read + 1, script.said)
     \/ /\ pipes.stdin = 0 /\ writer.pc = "ended"
        /\ script' = [script EXCEPT !.wants = "exit"]
        /\ UNCHANGED pipes
  /\ UNCHANGED <<conv, writer>>

(* A write to a stdout nobody reads any more ends the Action.              *)
ActionWrites(line) ==
  IF ~pipes.reading
  THEN script' = [script EXCEPT !.wants = "exit"] /\ UNCHANGED pipes
  ELSE /\ Len(pipes.stdout) < PipeSize
       /\ pipes' = [pipes EXCEPT !.stdout = Append(@, line)]
       /\ IF line = "fetch"
          THEN Then(script.asked + 1, script.read, script.said)
          ELSE Then(script.asked, script.read, TRUE)

ActionSpeaks ==
  /\ \/ script.wants = "ask" /\ ActionWrites("fetch")
     \/ script.wants = "frame" /\ \E l \in {"frame", "other"} : ActionWrites(l)
     \/ script.wants = "more" /\ ActionWrites("other")
  /\ UNCHANGED <<conv, writer>>

(* The bytes on stderr are drained as they come, and only counted.         *)
ActionComplains ==
  /\ conv.pc # "none" /\ ~Gone /\ ~pipes.noise
  /\ pipes' = [pipes EXCEPT !.noise = TRUE]
  /\ UNCHANGED <<conv, writer, script>>

ActionExits ==
  /\ script.wants = "exit"
  /\ script' = [script EXCEPT !.wants = "gone", !.uv = FALSE]
  /\ UNCHANGED <<conv, writer, pipes>>

----------------------------------------------------------------------------
(* This process.                                                           *)

StartConversation ==
  /\ conv.pc = "none"
  /\ conv' = [conv EXCEPT !.pc = "read"]
  /\ writer' = [writer EXCEPT !.queue = 1]
  /\ UNCHANGED <<script, pipes>>

(* The channel is closed behind the last line.  After a failure the child   *)
(* is killed: the Action with it, or uv alone.                             *)
Leave(outcome) ==
  /\ conv' = [conv EXCEPT !.pc = "wait", !.outcome = outcome]
  /\ writer' = [writer EXCEPT !.open = FALSE]
  /\ pipes' = [pipes EXCEPT !.reading = FALSE, !.stdout = <<>>]
  /\ IF outcome = "failed"
     THEN \E left \in {script.wants, "gone"} :
            script' = [script EXCEPT !.uv = FALSE, !.wants = left]
     ELSE UNCHANGED script

(* A reply that the reading thread writes itself.                          *)
ReplyInline ==
  /\ pipes.stdin < PipeSize
  /\ pipes' = [pipes EXCEPT !.stdout = Tail(@), !.stdin = @ + 1]
  /\ UNCHANGED <<conv, writer, script>>

(* A reply is queued for the writer, and the next line read at once.       *)
Reply ==
  /\ writer' = [writer EXCEPT !.queue = @ + 1]
  /\ pipes' = [pipes EXCEPT !.stdout = Tail(@)]
  /\ UNCHANGED <<conv, script>>

ReadFetch ==
  /\ conv.pc = "read" /\ pipes.stdout # <<>> /\ Head(pipes.stdout) = "fetch"
  /\ IF writer.pc = "ended" THEN Leave("failed") ELSE Reply

ReadTerminal ==
  /\ conv.pc = "read" /\ pipes.stdout # <<>> /\ Head(pipes.stdout) = "frame"
  /\ conv' = [conv EXCEPT !.pc = "tail"]
  /\ pipes' = [pipes EXCEPT !.stdout = Tail(@)]
  /\ UNCHANGED <<writer, script>>

(* A line too long or broken, or the end of the output without a frame.    *)
ReadFails ==
  /\ conv.pc = "read"
  /\ \/ pipes.stdout # <<>> /\ Head(pipes.stdout) = "other"
     \/ pipes.stdout = <<>> /\ Gone
  /\ Leave("failed")

(* Only the end of the output may follow the terminal frame.               *)
ReadTail ==
  /\ conv.pc = "tail"
  /\ \/ pipes.stdout = <<>> /\ Gone /\ Leave("frame")
     \/ pipes.stdout # <<>> /\ Leave("failed")

ReapChild ==
  /\ conv.pc = "wait" /\ ~script.uv
  /\ conv' = [conv EXCEPT !.pc = "writer"]
  /\ UNCHANGED <<writer, script, pipes>>

JoinWriter ==
  /\ conv.pc = "writer" /\ writer.pc = "ended"
  /\ conv' = [conv EXCEPT !.pc = "stderr"]
  /\ UNCHANGED <<writer, script, pipes>>

JoinStderr ==
  /\ conv.pc = "stderr" /\ Gone
  /\ conv' = [conv EXCEPT !.pc = "done", !.answer =
                IF conv.outcome = "frame" /\ script.status = "ok" /\ ~pipes.noise
                THEN "result" ELSE "error"]
  /\ UNCHANGED <<writer, script, pipes>>

WriterReceives ==
  /\ conv.pc # "none" /\ writer.pc = "receive"
  /\ \/ writer.queue > 0
        /\ writer' = [writer EXCEPT !.queue = @ - 1, !.pc = "write"]
     \/ writer.queue = 0 /\ ~writer.open
        /\ writer' = [writer EXCEPT !.pc = "ended"]
  /\ UNCHANGED <<conv, script, pipes>>

(* A line is written when the pipe has room; nobody to read it ends the    *)
(* thread, and the channel with it.                                        *)
WriterWrites ==
  /\ writer.pc = "write"
  /\ IF Gone
     THEN writer' = [writer EXCEPT !.pc = "ended"] /\ UNCHANGED pipes
     ELSE /\ pipes.stdin < PipeSize
          /\ writer' = [writer EXCEPT !.pc = "receive"]
          /\ pipes' = [pipes EXCEPT !.stdin = @ + 1]
  /\ UNCHANGED <<conv, script>>

ScriptStep == conv.pc # "none" /\ (ActionReads \/ ActionSpeaks \/ ActionExits)
MainStep   == \/ ReadFetch \/ ReadTerminal \/ ReadFails \/ ReadTail
              \/ ReapChild \/ JoinWriter \/ JoinStderr
WriterStep == WriterReceives \/ WriterWrites

ConversationNext ==
  StartConversation \/ ScriptStep \/ ActionComplains \/ MainStep \/ WriterStep

(* An Action that keeps to the protocol and is not stuck by itself; the    *)
(* threads of this process run.                                            *)
ConversationFairness ==
  /\ WF_conversationVars(ScriptStep)
  /\ WF_conversationVars(MainStep)
  /\ WF_conversationVars(WriterStep)

----------------------------------------------------------------------------
(* An exchange that has not ended.                                         *)
ConversationRuns == conv.pc \notin {"none", "done"}
===============================================================================
