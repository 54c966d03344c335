---- MODULE McpbWrapper ----
(**************************************************************************)
(* The Node wrapper of the Desktop package (server/index.js): it runs the *)
(* Python server as a child, forwards the lines of its stdout one timer   *)
(* tick at a time, and ends with the child. Node runs one callback at a   *)
(* time; in which order the callbacks of the child's events and of the    *)
(* timer come is open, except that "end" follows the last "data".         *)
(*                                                                        *)
(* A line reaches the pipe in two halves, the second with the newline; a  *)
(* chunk is any number of halves. Empty lines are left out.               *)
(**************************************************************************)
EXTENDS Integers, Sequences

CONSTANT MaxHalf   \* bound: halves the child writes

ASSUME MaxHalfAssumption == MaxHalf \in Nat

VARIABLES
  written,    \* halves in the pipe since the start
  exited,     \* the child is gone
  read,       \* halves the wrapper read
  buffered,   \* stdoutBuffer holds a first half
  queue,      \* stdoutQueue
  scheduled,  \* stdoutFlushScheduled
  timers,     \* pending calls of flushStdoutQueue
  ended,      \* "end" was handled
  exitSeen,   \* pendingExit is set
  shown,      \* lines written to the host
  alive       \* the wrapper runs

vars == <<written, exited, read, buffered, queue, scheduled, timers, ended,
          exitSeen, shown, alive>>

Whole(i) == <<i, "whole">>
Cut(i)   == <<i, "cut">>
Line == {Whole(i) : i \in 1 .. MaxHalf} \cup {Cut(i) : i \in 1 .. MaxHalf}

Init ==
  /\ written = 0 /\ exited = FALSE
  /\ read = 0 /\ buffered = FALSE
  /\ queue = <<>> /\ scheduled = FALSE /\ timers = 0
  /\ ended = FALSE /\ exitSeen = FALSE
  /\ shown = <<>> /\ alive = TRUE

----
(* The child, external to the wrapper.                                    *)

ChildWrites ==
  /\ ~exited /\ written < MaxHalf
  /\ written' = written + 1
  /\ UNCHANGED <<exited, read, buffered, queue, scheduled, timers, ended,
                 exitSeen, shown, alive>>

\* The child returns, or is killed in the middle of a line.
ChildExits ==
  /\ ~exited
  /\ exited' = TRUE
  /\ UNCHANGED <<written, read, buffered, queue, scheduled, timers, ended,
                 exitSeen, shown, alive>>

----
(* The wrapper's callbacks.                                               *)

\* enqueueStdoutLine, of each of the lines
Enqueue(lines) ==
  /\ queue' = queue \o lines
  /\ scheduled' = (scheduled \/ lines # <<>>)
  /\ timers' = timers + IF lines # <<>> /\ ~scheduled THEN 1 ELSE 0

\* Mutant: the unfinished line is not waited for.
FinishWithoutBuffer == alive' = ~(exitSeen' /\ ~scheduled' /\ queue' = <<>>)

\* finishIfReady, with the state the callback leaves
FinishIfReady ==
  alive' = ~(exitSeen' /\ ~scheduled' /\ queue' = <<>> /\ ~buffered')

\* "data": the newlines in the chunk complete lines; what follows the last one
\* stays in the buffer.
Data ==
  /\ alive /\ read < written
  /\ \E upTo \in (read + 1) .. written :
        LET first == read \div 2
            lines == [i \in 1 .. (upTo \div 2) - first |-> Whole(first + i)]
        IN  /\ read' = upTo
            /\ buffered' = (upTo % 2 = 1)
            /\ Enqueue(lines)
  /\ UNCHANGED <<written, exited, ended, exitSeen, shown, alive>>

\* Mutant: "end" drops what has no newline.
EndDropsBuffer ==
  /\ alive /\ ~ended
  /\ exited /\ read = written
  /\ Enqueue(<<>>)
  /\ buffered' = FALSE
  /\ ended' = TRUE
  /\ UNCHANGED <<written, exited, read, exitSeen, shown>>
  /\ FinishIfReady

\* "end": what is in the buffer is sent as a line although its end is missing.
End ==
  /\ alive /\ ~ended
  /\ exited /\ read = written
  /\ Enqueue(IF buffered THEN <<Cut((read \div 2) + 1)>> ELSE <<>>)
  /\ buffered' = FALSE
  /\ ended' = TRUE
  /\ UNCHANGED <<written, exited, read, exitSeen, shown>>
  /\ FinishIfReady

\* "exit", which may come before the last "data" and before "end"
Exit ==
  /\ alive /\ ~exitSeen
  /\ exited
  /\ exitSeen' = TRUE
  /\ UNCHANGED <<written, exited, read, buffered, queue, scheduled, timers,
                 ended, shown>>
  /\ FinishIfReady

\* Mutant: after the last line the flag stays set.
FlushKeepsFlag ==
  /\ alive /\ timers > 0
  /\ shown' = shown \o SubSeq(queue, 1, 1)
  /\ queue' = SubSeq(queue, 2, Len(queue))
  /\ timers' = IF queue' = <<>> THEN timers - 1 ELSE timers
  /\ scheduled' = scheduled
  /\ UNCHANGED <<written, exited, read, buffered, ended, exitSeen>>
  /\ IF queue' = <<>> THEN FinishIfReady ELSE UNCHANGED alive

\* flushStdoutQueue
Flush ==
  /\ alive /\ timers > 0
  /\ shown' = shown \o SubSeq(queue, 1, 1)
  /\ queue' = SubSeq(queue, 2, Len(queue))
  /\ timers' = IF queue' = <<>> THEN timers - 1 ELSE timers
  /\ scheduled' = (queue' # <<>>)
  /\ UNCHANGED <<written, exited, read, buffered, ended, exitSeen>>
  /\ IF queue' = <<>> THEN FinishIfReady ELSE UNCHANGED alive

Child == ChildWrites \/ ChildExits
Callback == Data \/ End \/ Exit \/ Flush
Next == Child \/ Callback

Spec == Init /\ [][Next]_vars

\* The event loop runs every callback that is due in the end.
FairSpec ==
  Spec /\ WF_vars(Data) /\ WF_vars(End) /\ WF_vars(Exit) /\ WF_vars(Flush)

----
(* Properties                                                             *)

\* The variables have their types, and no two timers serve the queue at once.
TypeOK ==
  /\ written \in 0 .. MaxHalf /\ read \in 0 .. written
  /\ queue \in Seq(Line) /\ shown \in Seq(Line)
  /\ timers \in 0 .. 1
  /\ exited \in BOOLEAN /\ buffered \in BOOLEAN /\ scheduled \in BOOLEAN
  /\ ended \in BOOLEAN /\ exitSeen \in BOOLEAN /\ alive \in BOOLEAN

\* The lines the halves 1 .. n make, when nothing follows them.
LinesOf(n) ==
  [i \in 1 .. n \div 2 |-> Whole(i)] \o
    IF n % 2 = 1 /\ ended THEN <<Cut((n \div 2) + 1)>> ELSE <<>>

\* Every line read is shown once, in order and whole, or waits for the timer;
\* only the last line of a child that died in it is cut.
ShownOrQueued == shown \o queue = LinesOf(read)

\* The flag and the queue agree with the timer that serves them: no queue that
\* nobody serves, and no flag that keeps the wrapper from ending.
ServedByTimer ==
  /\ timers = IF scheduled THEN 1 ELSE 0
  /\ queue # <<>> => scheduled

\* Every line that was read is shown in the end, also one the child died in the
\* middle of: the wrapper does not end on the way, whenever "exit" comes among
\* the chunks, the paced flush and "end". What was still in the pipe when it
\* ended it never read.
ReadIsShown ==
  \A i \in 1 .. MaxHalf :
    (read >= 2 * i \/ (exited /\ read = 2 * i - 1)) ~> Len(shown) >= i

\* The wrapper does not outlive the child.
EndsWithChild == exited ~> ~alive
====
