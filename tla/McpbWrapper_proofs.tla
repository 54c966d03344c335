---- MODULE McpbWrapper_proofs ----
(**************************************************************************)
(* Proofs about McpbWrapper: however many halves the child writes, every  *)
(* line that was read is shown once, in order, or waits for the timer     *)
(* that serves it. The invariant ties the buffer to the halves that were  *)
(* read and the timer to the queue.                                       *)
(**************************************************************************)
EXTENDS McpbWrapper, SequenceTheorems, TLAPS

USE MaxHalfAssumption

BufferInv ==
  /\ buffered = (read % 2 = 1 /\ ~ended)
  /\ ended => exited /\ read = written
  /\ scheduled => queue # <<>>

IInv == TypeOK /\ BufferInv /\ ServedByTimer /\ ShownOrQueued

Wholes(n) == [i \in 1 .. n |-> Whole(i)]

LEMMA Halves ==
  ASSUME NEW n \in Nat
  PROVE  /\ n \div 2 \in Nat /\ n \div 2 <= n
         /\ n % 2 = 0 \/ n % 2 = 1
         /\ n % 2 = 1 => (n \div 2) + 1 <= n
         /\ \A m \in Nat : n <= m => n \div 2 <= m \div 2
OBVIOUS

LEMMA WholesFacts ==
  ASSUME NEW n \in Nat, n <= MaxHalf
  PROVE  /\ Wholes(n) \in Seq(Line) /\ Len(Wholes(n)) = n
         /\ \A i \in 1 .. n : Wholes(n)[i] = Whole(i)
<1>1. \A i \in 1 .. n : Whole(i) \in Line
  BY DEF Line
<1>2. Wholes(n) \in [1 .. n -> Line]
  BY <1>1 DEF Wholes
<1> QED
  BY <1>2 DEF Wholes

\* The lines that a chunk completes follow the ones before it.
LEMMA WholesJoin ==
  ASSUME NEW a \in Nat, NEW b \in Nat, a <= b, b <= MaxHalf,
         NEW lines, lines = [i \in 1 .. b - a |-> Whole(a + i)]
  PROVE  lines \in Seq(Line) /\ Wholes(a) \o lines = Wholes(b)
<1>1. \A i \in 1 .. b - a : Whole(a + i) \in Line
  BY DEF Line
<1>2. b - a \in Nat /\ lines \in [1 .. b - a -> Line]
  <2>1. b - a \in Nat
    OBVIOUS
  <2>2. lines \in [1 .. b - a -> Line]
    BY <1>1, Zenon
  <2> QED
    BY <2>1, <2>2
<1>3. /\ lines \in Seq(Line) /\ Len(lines) = b - a
      /\ \A i \in 1 .. b - a : lines[i] = Whole(a + i)
  BY <1>2
<1>4. /\ Wholes(a) \in Seq(Line) /\ Len(Wholes(a)) = a
      /\ Wholes(b) \in Seq(Line) /\ Len(Wholes(b)) = b
      /\ \A i \in 1 .. a : Wholes(a)[i] = Whole(i)
      /\ \A i \in 1 .. b : Wholes(b)[i] = Whole(i)
  BY WholesFacts
<1>5. /\ Wholes(a) \o lines \in Seq(Line) /\ Len(Wholes(a) \o lines) = b
      /\ \A i \in 1 .. b : (Wholes(a) \o lines)[i] =
                             IF i <= a THEN Wholes(a)[i] ELSE lines[i - a]
  <2>1. Wholes(a) \o lines \in Seq(Line)
    BY <1>3, <1>4, ConcatProperties
  <2>2. Len(Wholes(a) \o lines) = Len(Wholes(a)) + Len(lines)
    BY <1>3, <1>4, ConcatProperties
  <2>3. \A i \in 1 .. (Len(Wholes(a)) + Len(lines)) :
          (Wholes(a) \o lines)[i] =
            IF i <= Len(Wholes(a)) THEN Wholes(a)[i] ELSE lines[i - Len(Wholes(a))]
    BY <1>3, <1>4, ConcatProperties
  <2>4. Len(Wholes(a)) + Len(lines) = b
    BY <1>3, <1>4
  <2> QED
    BY <1>4, <2>1, <2>2, <2>3, <2>4
<1>6. \A i \in 1 .. b : (Wholes(a) \o lines)[i] = Wholes(b)[i]
  <2> TAKE i \in 1 .. b
  <2>1. CASE i <= a
    BY <1>4, <1>5, <2>1
  <2>2. CASE ~(i <= a)
    <3>1. i - a \in 1 .. b - a /\ a + (i - a) = i
      BY <2>2
    <3> QED
      BY <1>3, <1>4, <1>5, <2>2, <3>1
  <2> QED
    BY <2>1, <2>2
<1> QED
  BY <1>3, <1>4, <1>5, <1>6, SeqEqual

\* Until "end" the lines are the whole ones.
LEMMA LinesOpen ==
  ASSUME NEW n \in 0 .. MaxHalf, ~ended
  PROVE  LinesOf(n) = Wholes(n \div 2)
<1>1. n \div 2 \in Nat /\ n \div 2 <= MaxHalf
  BY Halves
<1>2. Wholes(n \div 2) \in Seq(Line)
  BY <1>1, WholesFacts
<1> QED
  BY <1>2, ConcatEmptySeq DEF LinesOf, Wholes

LEMMA InitIInv == Init => IInv
<1> SUFFICES ASSUME Init PROVE IInv
  OBVIOUS
<1> USE DEF Init
<1>1. TypeOK /\ ServedByTimer
  <2>1. /\ written \in 0 .. MaxHalf /\ read \in 0 .. written /\ timers \in 0 .. 1
        /\ queue \in Seq(Line) /\ shown \in Seq(Line)
    OBVIOUS
  <2>2. TypeOK
    BY <2>1, Zenon DEF TypeOK
  <2>3. ServedByTimer
    BY Zenon DEF ServedByTimer
  <2> QED
    BY <2>2, <2>3
<1>2. BufferInv
  <2>1. ~(read % 2 = 1)
    OBVIOUS
  <2> QED
    BY <2>1 DEF BufferInv
<1>3. LinesOf(0) = Wholes(0)
  BY LinesOpen
<1>4. ShownOrQueued
  BY <1>3 DEF ShownOrQueued, Wholes
<1> QED
  BY <1>1, <1>2, <1>4 DEF IInv

LEMMA ChildStep == IInv /\ Child => IInv'
<1> SUFFICES ASSUME IInv, Child PROVE IInv'
  OBVIOUS
<1>1. UNCHANGED <<read, buffered, queue, scheduled, timers, ended, exitSeen, shown, alive>>
  BY DEF Child, ChildWrites, ChildExits
<1>2. TypeOK'
  <2>1. TypeOK
    BY DEF IInv
  <2>2. written' \in 0 .. MaxHalf /\ read' \in 0 .. written'
    BY <1>1, <2>1 DEF TypeOK, Child, ChildWrites, ChildExits
  <2>3. exited' \in BOOLEAN
    BY <2>1, Zenon DEF TypeOK, Child, ChildWrites, ChildExits
  <2> QED
    BY <1>1, <2>1, <2>2, <2>3, Zenon DEF TypeOK
<1>3. BufferInv'
  BY <1>1 DEF IInv, BufferInv, Child, ChildWrites, ChildExits
<1>4. LinesOf(read)' = LinesOf(read)
  BY <1>1 DEF LinesOf
<1> QED
  BY <1>1, <1>2, <1>3, <1>4 DEF IInv, ServedByTimer, ShownOrQueued

\* The queue with the lines of a chunk behind it.
LEMMA EnqueueStep ==
  ASSUME IInv, NEW lines \in Seq(Line), Enqueue(lines)
  PROVE  /\ queue' \in Seq(Line) /\ timers' \in 0 .. 1 /\ scheduled' \in BOOLEAN
         /\ ServedByTimer' /\ (scheduled' => queue' # <<>>)
         /\ shown \o queue' = LinesOf(read) \o lines
<1>1. queue \in Seq(Line) /\ shown \in Seq(Line)
  BY DEF IInv, TypeOK
<1>2. queue' = queue \o lines /\ queue' \in Seq(Line)
  BY <1>1, ConcatProperties DEF Enqueue
<1>3. shown \o queue' = (shown \o queue) \o lines
  BY <1>1, <1>2, ConcatAssociative
<1>4. Len(queue') = Len(queue) + Len(lines)
  BY <1>1, <1>2, ConcatProperties
<1>5. queue' = <<>> <=> queue = <<>> /\ lines = <<>>
  BY <1>1, <1>2, <1>4, EmptySeq
<1>6. /\ scheduled' = (scheduled \/ lines # <<>>)
      /\ timers' = timers + IF lines # <<>> /\ ~scheduled THEN 1 ELSE 0
  BY DEF Enqueue
<1>7. /\ timers = IF scheduled THEN 1 ELSE 0
      /\ scheduled <=> queue # <<>>
      /\ scheduled \in BOOLEAN
  BY DEF IInv, ServedByTimer, BufferInv, TypeOK
<1>8. CASE scheduled
  <2>1. scheduled' /\ queue' # <<>>
    BY <1>5, <1>6, <1>7, <1>8, Zenon
  <2>2. timers = 1
    BY <1>7, <1>8, Zenon
  <2>3. timers' = timers + 0
    BY <1>6, <1>8, Zenon
  <2>4. timers' = 1
    BY <2>2, <2>3
  <2> QED
    BY <1>2, <1>3, <2>1, <2>4 DEF IInv, ShownOrQueued, ServedByTimer
<1>9. CASE ~scheduled
  <2>1. /\ scheduled' = (lines # <<>>)
        /\ timers' = IF lines # <<>> THEN 1 ELSE 0
        /\ queue' = <<>> <=> lines = <<>>
    BY <1>5, <1>6, <1>7, <1>9
  <2>2. timers' = (IF scheduled' THEN 1 ELSE 0) /\ scheduled' \in BOOLEAN
    BY <2>1
  <2> QED
    BY <1>2, <1>3, <2>1, <2>2 DEF IInv, ShownOrQueued, ServedByTimer
<1> QED
  BY <1>8, <1>9

LEMMA DataStep == IInv /\ Data => IInv'
<1> SUFFICES ASSUME IInv, Data PROVE IInv'
  OBVIOUS
<1>1. PICK upTo \in (read + 1) .. written :
        /\ read' = upTo /\ buffered' = (upTo % 2 = 1)
        /\ Enqueue([i \in 1 .. (upTo \div 2) - (read \div 2) |->
                      Whole((read \div 2) + i)])
  BY DEF Data
<1>2. /\ alive /\ read < written
      /\ UNCHANGED <<written, exited, ended, exitSeen, shown, alive>>
  BY DEF Data
<1>3. ~ended /\ written \in 0 .. MaxHalf /\ read \in 0 .. written
  BY <1>2 DEF IInv, TypeOK, BufferInv
<1> DEFINE a == read \div 2
           b == upTo \div 2
           lines == [i \in 1 .. b - a |-> Whole(a + i)]
<1>4. a \in Nat /\ b \in Nat /\ a <= b /\ b <= MaxHalf /\ upTo \in 0 .. MaxHalf
  BY <1>3, Halves
<1>5. lines \in Seq(Line) /\ Wholes(a) \o lines = Wholes(b)
  BY <1>4, WholesJoin
<1>6. Enqueue(lines)
  BY <1>1
<1> HIDE DEF lines
<1>7. /\ queue' \in Seq(Line) /\ timers' \in 0 .. 1 /\ scheduled' \in BOOLEAN
      /\ ServedByTimer' /\ (scheduled' => queue' # <<>>)
      /\ shown \o queue' = LinesOf(read) \o lines
  BY <1>5, <1>6, EnqueueStep
<1>8. LinesOf(read) = Wholes(a)
  BY <1>3, LinesOpen
<1>9. LinesOf(read)' = LinesOf(upTo)
  BY <1>1, <1>2 DEF LinesOf
<1>10. LinesOf(upTo) = Wholes(b)
  BY <1>3, <1>4, LinesOpen
<1>11. TypeOK'
  BY <1>1, <1>2, <1>3, <1>7 DEF IInv, TypeOK
<1>12. BufferInv'
  BY <1>1, <1>2, <1>3, <1>7 DEF BufferInv
<1>13. ShownOrQueued'
  BY <1>2, <1>5, <1>7, <1>8, <1>9, <1>10 DEF ShownOrQueued
<1> QED
  BY <1>7, <1>11, <1>12, <1>13 DEF IInv

\* finishIfReady decides whether the wrapper goes on.
LEMMA FinishFacts ==
  ASSUME FinishIfReady
  PROVE  alive' \in BOOLEAN
BY Zenon DEF FinishIfReady

LEMMA CutIsLine ==
  ASSUME NEW i \in 1 .. MaxHalf
  PROVE  Cut(i) \in Line
BY DEF Line

\* A sequence that is not empty is its first element and the rest.
LEMMA FirstAndRest ==
  ASSUME NEW S, NEW s \in Seq(S), s # <<>>
  PROVE  /\ SubSeq(s, 1, 1) \in Seq(S) /\ SubSeq(s, 2, Len(s)) \in Seq(S)
         /\ SubSeq(s, 1, 1) \o SubSeq(s, 2, Len(s)) = s
<1>1. Len(s) \in Nat /\ Len(s) >= 1 /\ \A i \in 1 .. Len(s) : s[i] \in S
  BY EmptySeq, ElementOfSeq
<1>2. SubSeq(s, 1, 1) \in Seq(S) /\ SubSeq(s, 2, Len(s)) \in Seq(S)
  BY <1>1, SubSeqProperties
<1>3. SubSeq(s, 1, Len(s)) = <<s[1]>> \o SubSeq(s, 1 + 1, Len(s))
  BY <1>1, SubSeqRecursiveFirst
<1>4. SubSeq(s, 1, 1) = <<s[1]>> \o SubSeq(s, 1 + 1, 1)
  BY <1>1, SubSeqRecursiveFirst
<1>5. SubSeq(s, 1 + 1, 1) = <<>>
  BY SubSeqEmpty
<1>6. <<s[1]>> \in Seq(S)
  BY <1>1
<1>7. SubSeq(s, 1, 1) = <<s[1]>>
  BY <1>4, <1>5, <1>6, ConcatEmptySeq
<1>8. SubSeq(s, 1, Len(s)) = s
  BY SubSeqFull
<1> QED
  BY <1>2, <1>3, <1>7, <1>8

LEMMA EndStep == IInv /\ End => IInv'
<1> SUFFICES ASSUME IInv, End PROVE IInv'
  OBVIOUS
<1> DEFINE lines == IF buffered THEN <<Cut((read \div 2) + 1)>> ELSE <<>>
<1>1. /\ ~ended /\ exited /\ read = written /\ Enqueue(lines)
      /\ buffered' = FALSE /\ ended' = TRUE
      /\ UNCHANGED <<written, exited, read, exitSeen, shown>>
  BY DEF End
<1>2. /\ read \in 0 .. MaxHalf /\ buffered = (read % 2 = 1) /\ buffered \in BOOLEAN
      /\ exited \in BOOLEAN /\ exitSeen \in BOOLEAN
  BY <1>1 DEF IInv, TypeOK, BufferInv
<1>3. lines \in Seq(Line)
  <2>1. CASE buffered
    <3>1. (read \div 2) + 1 \in 1 .. MaxHalf
      <4>1. read % 2 = 1
        BY <1>2, <2>1, Zenon
      <4>2. read \in Nat /\ read <= MaxHalf
        BY <1>2
      <4>3. read \div 2 \in Nat /\ (read \div 2) + 1 <= read
        BY <4>1, <4>2, Halves
      <4> QED
        BY <4>2, <4>3
    <3>2. Cut((read \div 2) + 1) \in Line
      BY <3>1, CutIsLine
    <3> QED
      BY <2>1, <3>2
  <2>2. CASE ~buffered
    BY <2>2
  <2> QED
    BY <2>1, <2>2
<1>4. LinesOf(read) = Wholes(read \div 2)
  BY <1>1, <1>2, LinesOpen
<1>5. LinesOf(read)' = Wholes(read \div 2) \o lines
  <2>1. lines = IF read % 2 = 1 /\ ended' THEN <<Cut((read \div 2) + 1)>> ELSE <<>>
    BY <1>1, <1>2
  <2>2. read' = read
    BY <1>1
  <2> HIDE DEF lines
  <2> QED
    BY <2>1, <2>2, Zenon DEF LinesOf, Wholes
<1> HIDE DEF lines
<1>6. /\ queue' \in Seq(Line) /\ timers' \in 0 .. 1 /\ scheduled' \in BOOLEAN
      /\ ServedByTimer' /\ (scheduled' => queue' # <<>>)
      /\ shown \o queue' = LinesOf(read) \o lines
  BY <1>1, <1>3, EnqueueStep
<1>7. alive' \in BOOLEAN
  BY FinishFacts DEF End
<1>8. TypeOK'
  <2>1. TypeOK
    BY DEF IInv
  <2> QED
    BY <1>1, <1>6, <1>7, <2>1, Zenon DEF TypeOK
<1>9. BufferInv'
  BY <1>1, <1>6, Zenon DEF BufferInv
<1>10. ShownOrQueued'
  <2>1. shown' \o queue' = shown \o queue'
    BY <1>1
  <2>2. shown \o queue' = Wholes(read \div 2) \o lines
    BY <1>4, <1>6
  <2> QED
    BY <1>5, <2>1, <2>2 DEF ShownOrQueued
<1> QED
  BY <1>6, <1>7, <1>8, <1>9, <1>10 DEF IInv

LEMMA ExitStep == IInv /\ Exit => IInv'
<1> SUFFICES ASSUME IInv, Exit PROVE IInv'
  OBVIOUS
<1>1. /\ exitSeen' = TRUE
      /\ UNCHANGED <<written, exited, read, buffered, queue, scheduled, timers,
                     ended, shown>>
  BY DEF Exit
<1>2. alive' \in BOOLEAN
  BY FinishFacts DEF Exit
<1>3. TypeOK' /\ BufferInv' /\ ServedByTimer'
  BY <1>1, <1>2, Zenon DEF IInv, TypeOK, BufferInv, ServedByTimer
<1>4. ShownOrQueued'
  BY <1>1 DEF IInv, ShownOrQueued, LinesOf
<1> QED
  BY <1>2, <1>3, <1>4 DEF IInv

LEMMA FlushStep == IInv /\ Flush => IInv'
<1> SUFFICES ASSUME IInv, Flush PROVE IInv'
  OBVIOUS
<1>1. /\ alive /\ timers > 0
      /\ shown' = shown \o SubSeq(queue, 1, 1)
      /\ queue' = SubSeq(queue, 2, Len(queue))
      /\ timers' = IF queue' = <<>> THEN timers - 1 ELSE timers
      /\ scheduled' = (queue' # <<>>)
      /\ UNCHANGED <<written, exited, read, buffered, ended, exitSeen>>
  BY DEF Flush
<1>2. /\ queue \in Seq(Line) /\ shown \in Seq(Line) /\ timers \in 0 .. 1
      /\ timers = IF scheduled THEN 1 ELSE 0
      /\ scheduled => queue # <<>>
  BY DEF IInv, TypeOK, ServedByTimer, BufferInv
<1>3. timers = 1
  BY <1>1, <1>2
<1>4. scheduled
  BY <1>2, <1>3
<1>5. queue # <<>> /\ Len(queue) \in Nat /\ Len(queue) >= 1
  BY <1>2, <1>4, EmptySeq
<1>6. /\ SubSeq(queue, 1, 1) \in Seq(Line) /\ queue' \in Seq(Line)
      /\ SubSeq(queue, 1, 1) \o queue' = queue
  BY <1>1, <1>2, <1>5, FirstAndRest
<1>9. shown' \o queue' = shown \o queue
  <2>1. (shown \o SubSeq(queue, 1, 1)) \o queue' = shown \o (SubSeq(queue, 1, 1) \o queue')
    BY <1>2, <1>6, ConcatAssociative
  <2> QED
    BY <1>1, <1>6, <2>1, Zenon
<1>10. shown' \in Seq(Line)
  BY <1>1, <1>2, <1>6, ConcatProperties
<1>11. timers' = (IF scheduled' THEN 1 ELSE 0) /\ scheduled' \in BOOLEAN
  <2>1. timers' = IF queue' = <<>> THEN 0 ELSE 1
    BY <1>1, <1>3
  <2> QED
    BY <1>1, <2>1, Zenon
<1>12. alive' \in BOOLEAN
  <2>1. CASE queue' = <<>>
    BY <2>1, FinishFacts DEF Flush
  <2>2. CASE queue' # <<>>
    BY <1>1, <2>2 DEF Flush, IInv, TypeOK
  <2> QED
    BY <2>1, <2>2
<1>13. TypeOK'
  <2>1. timers' \in 0 .. 1
    BY <1>11
  <2>2. TypeOK
    BY DEF IInv
  <2> QED
    BY <1>1, <1>6, <1>10, <1>11, <1>12, <2>1, <2>2, Zenon DEF TypeOK
<1>14. BufferInv' /\ ServedByTimer'
  BY <1>1, <1>11, Zenon DEF IInv, BufferInv, ServedByTimer
<1>15. ShownOrQueued'
  BY <1>1, <1>9 DEF IInv, ShownOrQueued, LinesOf
<1> QED
  BY <1>12, <1>13, <1>14, <1>15 DEF IInv

\* The invariant holds in every state of every behaviour.
THEOREM SpecIInv == Spec => []IInv
<1>1. IInv /\ UNCHANGED vars => IInv'
  <2> SUFFICES ASSUME IInv, UNCHANGED vars PROVE IInv'
    OBVIOUS
  <2> QED
    BY Zenon DEF vars, IInv, TypeOK, BufferInv, ServedByTimer, ShownOrQueued, LinesOf
<1>2. IInv /\ [Next]_vars => IInv'
  BY <1>1, ChildStep, DataStep, EndStep, ExitStep, FlushStep DEF Next, Callback
<1> QED
  BY <1>2, InitIInv, PTL DEF Spec

\* Every line the wrapper read was shown once, in order and whole, or waits in
\* the queue; only the last line of a child that died in it is cut.
THEOREM ShownOrQueued_Thm == Spec => []ShownOrQueued
BY SpecIInv, PTL DEF IInv

\* The queue and its timer agree: no line waits that nobody serves, and no timer
\* is left that would keep the wrapper alive.
THEOREM ServedByTimer_Thm == Spec => []ServedByTimer
BY SpecIInv, PTL DEF IInv

====
