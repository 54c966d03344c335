---- MODULE DraftRunAccounting_proofs ----
(**************************************************************************)
(* Proofs about DraftRunAccounting: for any queue size and any bounds the *)
(* snapshots on their way stay in order, the newest one survives, and a   *)
(* report file never goes back. The invariant says of every snapshot on   *)
(* its way what the order says of the two ends of the queue: it lies      *)
(* behind what is on disk, and before anything the active run can still   *)
(* make (Made).                                                           *)
(**************************************************************************)
EXTENDS DraftRunAccounting, SequenceTheorems, TLAPS

USE QueueSizeAssumption, RunBoundsAssumption, ItemIndexAssumption

\* s may be made after r.
Follows(r, s) == Before(r, s) /\ (r.last => r.run # s.run)

Pending(s) ==
  \/ s = writing
  \/ \E i \in 1 .. Len(queue) : s = queue[i]
  \/ \E i \in 1 .. Len(outbox) : s = outbox[i]

\* No later than what the active run has made, and its run still open if active.
Made(s) == s.run <= runs /\ (s.run = run => s.count <= calls /\ ~s.last)

OrderInv ==
  /\ \A i, j \in 1 .. Len(queue) : i < j => Follows(queue[i], queue[j])
  /\ \A i, j \in 1 .. Len(outbox) : i < j => Follows(outbox[i], outbox[j])
  /\ \A i \in 1 .. Len(queue), j \in 1 .. Len(outbox) : Follows(queue[i], outbox[j])
  /\ writing # NoReport =>
       /\ \A i \in 1 .. Len(queue) : Follows(writing, queue[i])
       /\ \A i \in 1 .. Len(outbox) : Follows(writing, outbox[i])

DiskInv ==
  /\ \A r \in Run : disk[r] = NoReport \/ disk[r].run = r
  /\ \A s \in Report : Pending(s) => Before(disk[s.run], s) /\ ~disk[s.run].last

MadeInv ==
  /\ \A s \in Report : Pending(s) => Made(s)
  /\ \A r \in Run : Made(disk[r])
  /\ run = 0 \/ run = runs

NewestInv ==
  /\ \A s \in Report : Pending(s) => newest # NoReport /\ (s = newest \/ Before(s, newest))
  /\ outbox # <<>> => newest = outbox[Len(outbox)]
  /\ \/ newest = NoReport
     \/ Pending(newest)
     \/ newest.run \in Run /\ disk[newest.run] = newest
     \/ newest \in refused
  /\ step = "again" => Len(queue) < QueueSize

IInv == TypeOK /\ OrderInv /\ DiskInv /\ MadeInv /\ NewestInv

LEMMA NoReportFacts ==
  /\ NoReport \notin Report
  /\ NoReport.run = 0 /\ NoReport.count = 0 /\ ~NoReport.last
BY DEF NoReport, Report, Run

LEMMA ReportFacts ==
  ASSUME NEW s \in Report
  PROVE  /\ s.run \in Run /\ s.run \in 1 .. MaxRun
         /\ s.count \in 0 .. MaxCall /\ s.last \in BOOLEAN
BY DEF Report, Run

\* The order is strict.
LEMMA BeforeIrreflexive ==
  ASSUME NEW s \in Report \cup {NoReport}
  PROVE  ~Before(s, s)
BY ReportFacts, NoReportFacts DEF Before

LEMMA BeforeAsymmetric ==
  ASSUME NEW r \in Report, NEW s \in Report, Before(r, s)
  PROVE  ~Before(s, r)
BY ReportFacts DEF Before

----
(* The initial state, and a restart.                                      *)

LEMMA EmptyStep ==
  ASSUME TypeOK', outbox' = <<>>, queue' = <<>>, writing' = NoReport,
         newest' = NoReport, step' = "put",
         \A r \in Run : disk'[r] = NoReport \/ disk'[r].run = r,
         \A r \in Run : Made(disk[r])', run' = 0
  PROVE  IInv'
<1>1. \A s \in Report : ~Pending(s)'
  BY NoReportFacts DEF Pending
<1>2. OrderInv'
  BY DEF OrderInv
<1>3. DiskInv'
  BY <1>1 DEF DiskInv
<1>4. MadeInv'
  BY <1>1 DEF MadeInv
<1>5. NewestInv'
  BY <1>1 DEF NewestInv
<1> QED
  BY <1>2, <1>3, <1>4, <1>5 DEF IInv

\* The invariant holds initially.
LEMMA InitIInv == Init => IInv
<1> SUFFICES ASSUME Init PROVE IInv
  OBVIOUS
<1> USE DEF Init
<1>1. TypeOK
  BY DEF TypeOK, Run
<1>2. \A s \in Report : ~Pending(s)
  BY NoReportFacts DEF Pending
<1>3. OrderInv
  BY DEF OrderInv
<1>4. DiskInv
  BY <1>2 DEF DiskInv
<1>5. MadeInv
  BY <1>2, NoReportFacts DEF MadeInv, Made
<1>6. NewestInv
  BY <1>2 DEF NewestInv
<1> QED
  BY <1>1, <1>3, <1>4, <1>5, <1>6 DEF IInv

LEMMA RestartStep == IInv /\ Restart => IInv'
<1> SUFFICES ASSUME IInv, Restart PROVE IInv'
  OBVIOUS
<1> USE DEF Restart
<1>1. TypeOK'
  BY DEF IInv, TypeOK
<1>2. \A r \in Run : disk'[r] = NoReport \/ disk'[r].run = r
  BY DEF IInv, DiskInv
<1>3. \A r \in Run : Made(disk[r])'
  BY ReportFacts, NoReportFacts DEF IInv, MadeInv, Made, TypeOK, Run
<1> QED
  BY <1>1, <1>2, <1>3, EmptyStep

LEMMA HeadIsFirst ==
  ASSUME NEW S, NEW s \in Seq(S), s # <<>>
  PROVE  /\ Len(s) \in Nat /\ Len(s) >= 1
         /\ Head(s) = s[1] /\ s[1] \in S
BY EmptySeq

----
(* The hand-over.                                                         *)

\* A snapshot leaves the hand-over for the queue: the snapshots on their way and
\* their order stay the same.
LEMMA HandedOver ==
  ASSUME IInv, outbox # <<>>, Len(queue) < QueueSize, step' = "put",
         queue' = Append(queue, Head(outbox)), outbox' = Tail(outbox),
         UNCHANGED <<accounting, writing, disk, newest, refused>>
  PROVE  IInv'
<1> USE DEF IInv, accounting
<1>1. /\ queue \in Seq(Report) /\ outbox \in Seq(Report) /\ Len(outbox) >= 1
      /\ Len(outbox) \in Nat /\ Len(queue) \in Nat
      /\ Head(outbox) = outbox[1]
  BY HeadIsFirst DEF TypeOK
<1>2. /\ Len(queue') = Len(queue) + 1
      /\ \A i \in 1 .. Len(queue) : queue'[i] = queue[i]
      /\ queue'[Len(queue) + 1] = outbox[1]
  BY <1>1
<1>3. /\ Len(outbox') = Len(outbox) - 1
      /\ \A i \in 1 .. Len(outbox') : outbox'[i] = outbox[i + 1]
  BY <1>1
<1>4. TypeOK'
  <2>1. queue' \in Seq(Report) /\ outbox' \in Seq(Report)
    BY <1>1
  <2>2. Len(queue') <= QueueSize /\ Len(outbox') <= 2
    BY <1>1, <1>2, <1>3 DEF TypeOK
  <2> QED
    BY <2>1, <2>2 DEF TypeOK
<1>5. ASSUME NEW s, Pending(s)' PROVE Pending(s)
  <2>1. CASE s = writing'
    BY <2>1 DEF Pending
  <2>2. CASE \E i \in 1 .. Len(queue') : s = queue'[i]
    <3>1. PICK i \in 1 .. Len(queue') : s = queue'[i]
      BY <2>2
    <3>2. i \in 1 .. Len(queue) \/ i = Len(queue) + 1
      BY <1>1, <1>2
    <3> QED
      BY <1>1, <1>2, <3>1, <3>2 DEF Pending
  <2>3. CASE \E i \in 1 .. Len(outbox') : s = outbox'[i]
    <3>1. PICK i \in 1 .. Len(outbox') : s = outbox'[i]
      BY <2>3
    <3>2. i + 1 \in 1 .. Len(outbox) /\ s = outbox[i + 1]
      BY <1>1, <1>3, <3>1
    <3> QED
      BY <3>2 DEF Pending
  <2> QED
    BY <1>5, <2>1, <2>2, <2>3 DEF Pending
<1>6. ASSUME NEW s, Pending(s) PROVE Pending(s)'
  <2>1. CASE s = writing
    BY <2>1 DEF Pending
  <2>2. CASE \E i \in 1 .. Len(queue) : s = queue[i]
    BY <1>1, <1>2, <2>2 DEF Pending
  <2>3. CASE \E i \in 1 .. Len(outbox) : s = outbox[i]
    <3>1. PICK i \in 1 .. Len(outbox) : s = outbox[i]
      BY <2>3
    <3>2. CASE i = 1
      <4>1. Len(queue) + 1 \in 1 .. Len(queue') /\ s = queue'[Len(queue) + 1]
        BY <1>1, <1>2, <3>1, <3>2
      <4> QED
        BY <4>1 DEF Pending
    <3>3. CASE i # 1
      <4>1. i - 1 \in 1 .. Len(outbox') /\ s = outbox'[i - 1]
        BY <1>1, <1>3, <3>1, <3>3
      <4> QED
        BY <4>1 DEF Pending
    <3> QED
      BY <3>2, <3>3
  <2> QED
    BY <1>6, <2>1, <2>2, <2>3 DEF Pending
<1>7. OrderInv'
  <2>1. \A i, j \in 1 .. Len(queue') : i < j => Follows(queue[i], queue[j])'
    <3> SUFFICES ASSUME NEW i \in 1 .. Len(queue'), NEW j \in 1 .. Len(queue'), i < j
                 PROVE  Follows(queue'[i], queue'[j])
      BY DEF Follows, Before
    <3>1. i \in 1 .. Len(queue) /\ queue'[i] = queue[i]
      BY <1>1, <1>2
    <3>2. CASE j \in 1 .. Len(queue)
      BY <1>2, <3>1, <3>2 DEF OrderInv
    <3>3. CASE j = Len(queue) + 1
      BY <1>1, <1>2, <3>1, <3>3 DEF OrderInv
    <3>4. j \in 1 .. Len(queue) \/ j = Len(queue) + 1
      BY <1>1, <1>2, SMTT(20)
    <3> QED
      BY <3>2, <3>3, <3>4
  <2>2. \A i, j \in 1 .. Len(outbox') : i < j => Follows(outbox[i], outbox[j])'
    BY <1>1, <1>3 DEF OrderInv, Follows, Before
  <2>3. \A i \in 1 .. Len(queue'), j \in 1 .. Len(outbox') :
           Follows(queue[i], outbox[j])'
    <3> SUFFICES ASSUME NEW i \in 1 .. Len(queue'), NEW j \in 1 .. Len(outbox')
                 PROVE  Follows(queue'[i], outbox'[j])
      BY DEF Follows, Before
    <3>1. j + 1 \in 1 .. Len(outbox) /\ outbox'[j] = outbox[j + 1] /\ 1 < j + 1
      BY <1>1, <1>3
    <3>2. CASE i \in 1 .. Len(queue)
      BY <1>2, <3>1, <3>2 DEF OrderInv
    <3>3. CASE i = Len(queue) + 1
      BY <1>1, <1>2, <3>1, <3>3 DEF OrderInv
    <3>4. i \in 1 .. Len(queue) \/ i = Len(queue) + 1
      BY <1>1, <1>2
    <3> QED
      BY <3>2, <3>3, <3>4
  <2>4. writing' # NoReport =>
          /\ \A i \in 1 .. Len(queue') : Follows(writing, queue[i])'
          /\ \A i \in 1 .. Len(outbox') : Follows(writing, outbox[i])'
    <3> SUFFICES ASSUME writing # NoReport
                 PROVE  /\ \A i \in 1 .. Len(queue') : Follows(writing, queue'[i])
                        /\ \A i \in 1 .. Len(outbox') : Follows(writing, outbox'[i])
      BY DEF Follows, Before
    <3>1. \A i \in 1 .. Len(queue') : Follows(writing, queue'[i])
      <4> TAKE i \in 1 .. Len(queue')
      <4>1. CASE i \in 1 .. Len(queue)
        BY <1>2, <4>1 DEF OrderInv
      <4>2. CASE i = Len(queue) + 1
        BY <1>1, <1>2, <4>2 DEF OrderInv
      <4>3. i \in 1 .. Len(queue) \/ i = Len(queue) + 1
        BY <1>1, <1>2
      <4> QED
        BY <4>1, <4>2, <4>3
    <3>2. \A i \in 1 .. Len(outbox') : Follows(writing, outbox'[i])
      BY <1>1, <1>3 DEF OrderInv
    <3> QED
      BY <3>1, <3>2
  <2> QED
    BY <2>1, <2>2, <2>3, <2>4 DEF OrderInv
<1>8. DiskInv'
  BY <1>5 DEF DiskInv, Before
<1>9. MadeInv'
  BY <1>5 DEF MadeInv, Made
<1>10. NewestInv'
  <2>1. outbox' # <<>> => newest' = outbox'[Len(outbox')]
    <3> SUFFICES ASSUME outbox' # <<>> PROVE newest = outbox'[Len(outbox')]
      OBVIOUS
    <3>1. Len(outbox') \in 1 .. Len(outbox')
      BY <1>1, <1>3
    <3> QED
      BY <1>1, <1>3, <3>1 DEF NewestInv
  <2> QED
    BY <1>5, <1>6, <2>1 DEF NewestInv, Before
<1> QED
  BY <1>4, <1>7, <1>8, <1>9, <1>10

LEMMA PutStep == IInv /\ Put => IInv'
<1> SUFFICES ASSUME IInv, Put PROVE IInv'
  OBVIOUS
<1>1. CASE Len(queue) < QueueSize
  BY <1>1, HandedOver DEF Put
<1>2. CASE ~(Len(queue) < QueueSize)
  <2>1. step' = "drop" /\ UNCHANGED <<accounting, queue, outbox, writing, disk, newest, refused>>
    BY <1>2 DEF Put
  <2>2. TypeOK'
    BY <2>1 DEF Put, IInv, TypeOK, accounting
  <2> QED
    BY <2>1, <2>2 DEF IInv, OrderInv, DiskInv, MadeInv, NewestInv, Follows, Before,
                      Pending, Made, accounting
<1> QED
  BY <1>1, <1>2

\* After a drop there is room, so the second try never loses a snapshot.
LEMMA PutAgainStep == IInv /\ PutAgain => IInv'
<1> SUFFICES ASSUME IInv, PutAgain PROVE IInv'
  OBVIOUS
<1>1. Len(queue) < QueueSize /\ outbox # <<>>
  BY DEF PutAgain, IInv, NewestInv, TypeOK
<1> QED
  BY <1>1, HandedOver DEF PutAgain

\* What taking the head of the queue does to its elements.
LEMMA QueueTail ==
  ASSUME TypeOK, queue # <<>>, queue' = Tail(queue)
  PROVE  /\ queue' \in Seq(Report) /\ queue[1] \in Report /\ Head(queue) = queue[1]
         /\ Len(queue) \in Nat /\ Len(queue) >= 1
         /\ Len(queue') = Len(queue) - 1
         /\ \A i \in 1 .. Len(queue') : /\ queue'[i] = queue[i + 1]
                                       /\ i + 1 \in 1 .. Len(queue) /\ 1 < i + 1
<1>1. queue \in Seq(Report)
  BY DEF TypeOK
<1>2. /\ Len(queue) \in Nat /\ Len(queue) >= 1
      /\ Head(queue) = queue[1] /\ queue[1] \in Report
  BY <1>1, HeadIsFirst
<1>3. /\ queue' \in Seq(Report) /\ Len(queue') = Len(queue) - 1
      /\ \A i \in 1 .. Len(queue') : queue'[i] = queue[i + 1]
  BY <1>1, HeadTailProperties
<1> QED
  BY <1>2, <1>3

\* The snapshot that is dropped is not the newest: that one is still being
\* handed over.
LEMMA DropStep == IInv /\ Drop => IInv'
<1> SUFFICES ASSUME IInv, Drop PROVE IInv'
  OBVIOUS
<1> USE DEF IInv, Drop, accounting
<1>1. CASE queue = <<>>
  <2>1. queue' = <<>>
    BY <1>1
  <2>2. TypeOK'
    BY <1>1, <2>1 DEF TypeOK
  <2> QED
    BY <1>1, <2>1, <2>2 DEF OrderInv, DiskInv, MadeInv, NewestInv, Follows, Before,
                            Pending, Made
<1>2. CASE queue # <<>>
  <2>1. queue' = Tail(queue)
    BY <1>2
  <2>2. /\ queue' \in Seq(Report) /\ Len(queue) \in Nat
        /\ Len(queue') = Len(queue) - 1
        /\ \A i \in 1 .. Len(queue') : /\ queue'[i] = queue[i + 1]
                                      /\ i + 1 \in 1 .. Len(queue) /\ 1 < i + 1
    BY <1>2, <2>1, QueueTail
  <2>3. Len(queue') < QueueSize
    BY <2>2 DEF TypeOK
  <2>4. TypeOK'
    BY <2>2, <2>3 DEF TypeOK
  <2>5. ASSUME NEW s, Pending(s)' PROVE Pending(s)
    BY <2>2, <2>5 DEF Pending
  <2>6. OrderInv'
    <3>1. \A i, j \in 1 .. Len(queue') : i < j => Follows(queue[i], queue[j])'
      <4> SUFFICES ASSUME NEW i \in 1 .. Len(queue'), NEW j \in 1 .. Len(queue'), i < j
                   PROVE  Follows(queue'[i], queue'[j])
        BY DEF Follows, Before
      <4>1. i + 1 \in 1 .. Len(queue) /\ j + 1 \in 1 .. Len(queue) /\ i + 1 < j + 1
        BY <2>2
      <4> QED
        BY <2>2, <4>1 DEF OrderInv
    <3>2. \A i \in 1 .. Len(queue'), j \in 1 .. Len(outbox') :
             Follows(queue[i], outbox[j])'
      BY <2>2 DEF OrderInv, Follows, Before
    <3>3. writing' # NoReport => \A i \in 1 .. Len(queue') : Follows(writing, queue[i])'
      BY <2>2 DEF OrderInv, Follows, Before
    <3> QED
      BY <3>1, <3>2, <3>3 DEF OrderInv, Follows, Before
  <2>7. DiskInv' /\ MadeInv'
    BY <2>5 DEF DiskInv, MadeInv, Before, Made
  <2>8. Pending(newest)'
    <3>1. outbox \in Seq(Report) /\ outbox # <<>>
      BY DEF TypeOK
    <3>2. Len(outbox) \in 1 .. Len(outbox)
      BY <3>1, HeadIsFirst
    <3> QED
      BY <3>1, <3>2 DEF NewestInv, Pending
  <2>9. NewestInv'
    BY <2>3, <2>5, <2>8 DEF NewestInv, Before
  <2> QED
    BY <2>4, <2>6, <2>7, <2>9
<1> QED
  BY <1>1, <1>2

----
(* The worker.                                                            *)

LEMMA TakeStep == IInv /\ Take => IInv'
<1> SUFFICES ASSUME IInv, Take PROVE IInv'
  OBVIOUS
<1> USE DEF IInv, Take, accounting
<1>1. /\ queue' \in Seq(Report) /\ queue[1] \in Report /\ writing' = queue[1]
      /\ Len(queue) \in Nat /\ Len(queue) >= 1
      /\ Len(queue') = Len(queue) - 1
      /\ \A i \in 1 .. Len(queue') : /\ queue'[i] = queue[i + 1]
                                    /\ i + 1 \in 1 .. Len(queue) /\ 1 < i + 1
  BY QueueTail
<1>2. 1 \in 1 .. Len(queue)
  BY <1>1
<1>3. TypeOK'
  <2>1. Len(queue') <= QueueSize
    BY <1>1 DEF TypeOK
  <2> QED
    BY <1>1, <2>1 DEF TypeOK
<1>4. ASSUME NEW s, Pending(s)' PROVE Pending(s)
  BY <1>1, <1>2, <1>4 DEF Pending
<1>5. ASSUME NEW s \in Report, Pending(s) PROVE Pending(s)'
  <2>1. s # writing
    BY NoReportFacts
  <2>2. CASE \E i \in 1 .. Len(queue) : s = queue[i]
    <3>1. PICK i \in 1 .. Len(queue) : s = queue[i]
      BY <2>2
    <3>2. CASE i = 1
      BY <1>1, <3>1, <3>2 DEF Pending
    <3>3. CASE i # 1
      <4>1. i - 1 \in 1 .. Len(queue') /\ s = queue'[i - 1]
        BY <1>1, <3>1, <3>3
      <4> QED
        BY <4>1 DEF Pending
    <3> QED
      BY <3>2, <3>3
  <2> QED
    BY <1>5, <2>1, <2>2 DEF Pending
<1>6. OrderInv'
  <2>1. \A i, j \in 1 .. Len(queue') : i < j => Follows(queue[i], queue[j])'
    <3> SUFFICES ASSUME NEW i \in 1 .. Len(queue'), NEW j \in 1 .. Len(queue'), i < j
                 PROVE  Follows(queue'[i], queue'[j])
      BY DEF Follows, Before
    <3>1. i + 1 \in 1 .. Len(queue) /\ j + 1 \in 1 .. Len(queue) /\ i + 1 < j + 1
      BY <1>1
    <3> QED
      BY <1>1, <3>1 DEF OrderInv
  <2>2. \A i \in 1 .. Len(queue'), j \in 1 .. Len(outbox') :
           Follows(queue[i], outbox[j])'
    BY <1>1 DEF OrderInv, Follows, Before
  <2>3. \A i \in 1 .. Len(queue') : Follows(writing, queue[i])'
    BY <1>1, <1>2 DEF OrderInv, Follows, Before
  <2>4. \A i \in 1 .. Len(outbox') : Follows(writing, outbox[i])'
    BY <1>1, <1>2 DEF OrderInv, Follows, Before
  <2> QED
    BY <2>1, <2>2, <2>3, <2>4 DEF OrderInv, Follows, Before
<1>7. DiskInv' /\ MadeInv'
  BY <1>4 DEF DiskInv, MadeInv, Before, Made
<1>8. NewestInv'
  <2>1. newest \in Report \cup {NoReport}
    BY DEF TypeOK
  <2>2. newest = NoReport \/ Pending(newest)' \/ (newest.run \in Run /\ disk[newest.run] = newest)
          \/ newest \in refused
    BY <1>5, <2>1 DEF NewestInv
  <2>3. step = "again" => Len(queue') < QueueSize
    BY <1>1 DEF NewestInv, TypeOK
  <2> QED
    BY <1>4, <2>2, <2>3 DEF NewestInv, Before
<1> QED
  BY <1>3, <1>6, <1>7, <1>8

\* A write that ends, well or not, leaves the snapshots behind it.
LEMMA WritingEnds ==
  ASSUME IInv, writing # NoReport, writing' = NoReport,
         UNCHANGED <<accounting, handover, newest>>
  PROVE  /\ OrderInv'
         /\ \A s \in Report : Pending(s)' => Pending(s) /\ Follows(writing, s)
<1>1. OrderInv'
  BY DEF IInv, OrderInv, Follows, Before, handover
<1>2. \A s \in Report : Pending(s)' => Pending(s) /\ Follows(writing, s)
  BY NoReportFacts DEF IInv, OrderInv, Pending, handover
<1> QED
  BY <1>1, <1>2

LEMMA WriteStep == IInv /\ Write => IInv'
<1> SUFFICES ASSUME IInv, Write PROVE IInv'
  OBVIOUS
<1> USE DEF IInv, Write, accounting, handover
<1>1. writing \in Report /\ writing.run \in Run /\ Pending(writing)
  BY ReportFacts DEF TypeOK, Pending
<1>2. OrderInv' /\ \A s \in Report : Pending(s)' => Pending(s) /\ Follows(writing, s)
  BY WritingEnds
<1>3. \A r \in Run : disk'[r] = IF r = writing.run THEN writing ELSE disk[r]
  BY <1>1 DEF TypeOK
<1>4. TypeOK'
  BY <1>1 DEF TypeOK
<1>5. DiskInv'
  <2>1. \A r \in Run : disk'[r] = NoReport \/ disk'[r].run = r
    BY <1>3 DEF DiskInv
  <2>2. ASSUME NEW s \in Report, Pending(s)'
        PROVE  Before(disk'[s.run], s) /\ ~disk'[s.run].last
    BY <1>2, <1>3, <2>2, ReportFacts DEF DiskInv, Follows
  <2> QED
    BY <2>1, <2>2 DEF DiskInv, Before
<1>6. MadeInv'
  BY <1>1, <1>2, <1>3 DEF MadeInv, Made
<1>7. NewestInv'
  <2>1. newest # NoReport /\ newest \in Report
    BY <1>1 DEF NewestInv, TypeOK
  <2>2. Pending(newest)' \/ (newest.run \in Run /\ disk'[newest.run] = newest)
          \/ newest \in refused
    <3>1. CASE newest = writing
      BY <1>1, <1>3, <3>1
    <3>2. CASE newest # writing /\ Pending(newest)
      BY <3>2 DEF Pending
    <3>3. CASE newest # writing /\ newest.run \in Run /\ disk[newest.run] = newest
      <4>1. writing.run # newest.run
        <5> SUFFICES ASSUME writing.run = newest.run PROVE FALSE
          OBVIOUS
        <5>1. Before(newest, writing) /\ Before(writing, newest)
          BY <1>1, <3>3 DEF DiskInv, NewestInv
        <5> QED
          BY <1>1, <2>1, <5>1, BeforeAsymmetric
      <4> QED
        BY <1>3, <3>3, <4>1
    <3> QED
      BY <2>1, <3>1, <3>2, <3>3 DEF NewestInv
  <2> QED
    BY <1>2, <2>1, <2>2 DEF NewestInv, Before
<1> QED
  BY <1>2, <1>4, <1>5, <1>6, <1>7

LEMMA WriteRaisesStep == IInv /\ WriteRaises => IInv'
<1> SUFFICES ASSUME IInv, WriteRaises PROVE IInv'
  OBVIOUS
<1> USE DEF IInv, WriteRaises, accounting, handover
<1>1. writing \in Report /\ Pending(writing)
  BY DEF TypeOK, Pending
<1>2. OrderInv' /\ \A s \in Report : Pending(s)' => Pending(s) /\ Follows(writing, s)
  BY WritingEnds
<1>3. TypeOK'
  BY <1>1 DEF TypeOK
<1>4. DiskInv' /\ MadeInv'
  BY <1>2 DEF DiskInv, MadeInv, Before, Made
<1>5. NewestInv'
  <2>1. newest # NoReport
    BY <1>1 DEF NewestInv
  <2>2. Pending(newest)' \/ (newest.run \in Run /\ disk[newest.run] = newest)
          \/ newest \in refused'
    BY <2>1 DEF NewestInv, Pending
  <2> QED
    BY <1>2, <2>1, <2>2 DEF NewestInv, Before
<1> QED
  BY <1>2, <1>3, <1>4, <1>5

----
(* The request loop.                                                      *)

\* Checkpoints that come after everything the active run has made join the
\* snapshots on their way.
LEMMA CheckpointsJoin ==
  ASSUME IInv, TypeOK', outbox = <<>>, outbox' # <<>>,
         UNCHANGED <<step, queue, writing, disk, refused>>,
         run' = 0 \/ run' = runs',
         \A s \in Report \cup {NoReport} : Made(s) => Made(s)',
         \A i \in 1 .. Len(outbox') :
            /\ outbox'[i] \in Report
            /\ \A s \in Report : s = outbox'[i] => Made(s)'
            /\ \A s \in Report : Made(s) => Follows(s, outbox'[i])
            /\ outbox'[i] = newest' \/ Before(outbox'[i], newest'),
         \A i, j \in 1 .. Len(outbox') : i < j => Follows(outbox'[i], outbox'[j]),
         newest' = outbox'[Len(outbox')]
  PROVE  IInv'
<1> USE DEF IInv
<1>1. Len(outbox') \in 1 .. Len(outbox') /\ newest' \in Report /\ newest' # NoReport
  BY HeadIsFirst, NoReportFacts DEF TypeOK
<1>2. Pending(newest)'
  BY <1>1 DEF Pending
<1>3. ASSUME NEW s, Pending(s)'
      PROVE  Pending(s) \/ \E i \in 1 .. Len(outbox') : s = outbox'[i]
  BY <1>3 DEF Pending
<1>4. ASSUME NEW s, s = writing \/ \E i \in 1 .. Len(queue) : s = queue[i]
      PROVE  Pending(s)
  BY <1>4 DEF Pending
<1>5. \A i \in 1 .. Len(queue) : queue[i] \in Report
  BY DEF TypeOK
<1>6. ASSUME NEW s \in Report, Pending(s), NEW i \in 1 .. Len(outbox')
      PROVE  Follows(s, outbox'[i])
  BY <1>6 DEF MadeInv
<1>7. OrderInv'
  <2>1. \A i \in 1 .. Len(queue), j \in 1 .. Len(outbox') : Follows(queue[i], outbox'[j])
    BY <1>4, <1>5, <1>6
  <2>2. writing # NoReport => \A i \in 1 .. Len(outbox') : Follows(writing, outbox'[i])
    BY <1>4, <1>6 DEF TypeOK
  <2> QED
    BY <2>1, <2>2 DEF OrderInv, Follows, Before
<1>8. DiskInv'
  <2>1. ASSUME NEW s \in Report, Pending(s)'
        PROVE  Before(disk[s.run], s) /\ ~disk[s.run].last
    <3>1. CASE Pending(s)
      BY <3>1 DEF DiskInv
    <3>2. CASE \E i \in 1 .. Len(outbox') : s = outbox'[i]
      <4>1. s.run \in Run /\ s.run \in 1 .. MaxRun
        BY ReportFacts
      <4>2. CASE disk[s.run] = NoReport
        BY <4>1, <4>2, NoReportFacts DEF Before
      <4>3. CASE disk[s.run] \in Report
        <5>1. Made(disk[s.run]) /\ disk[s.run].run = s.run
          BY <4>1, <4>3, NoReportFacts DEF MadeInv, DiskInv
        <5>2. Follows(disk[s.run], s)
          BY <3>2, <4>3, <5>1
        <5> QED
          BY <4>3, <5>1, <5>2, ReportFacts DEF Follows
      <4> QED
        BY <4>1, <4>2, <4>3 DEF TypeOK
    <3> QED
      BY <1>3, <2>1, <3>1, <3>2
  <2> QED
    BY <2>1 DEF DiskInv, Before
<1>9. MadeInv'
  <2>1. ASSUME NEW s \in Report, Pending(s)' PROVE Made(s)'
    <3>1. CASE Pending(s)
      BY <3>1 DEF MadeInv
    <3> QED
      BY <1>3, <2>1, <3>1
  <2>2. ASSUME NEW r \in Run PROVE Made(disk[r])'
    <3>1. disk[r] \in Report \cup {NoReport} /\ Made(disk[r])
      BY DEF TypeOK, MadeInv
    <3> QED
      BY <3>1 DEF Made
  <2> QED
    BY <2>1, <2>2 DEF MadeInv
<1>10. NewestInv'
  <2>1. ASSUME NEW s \in Report, Pending(s)' PROVE s = newest' \/ Before(s, newest')
    <3>1. CASE Pending(s)
      BY <1>1, <1>6, <3>1 DEF Follows
    <3> QED
      BY <1>3, <2>1, <3>1
  <2> QED
    BY <1>1, <1>2, <2>1 DEF NewestInv, Before
<1> QED
  BY <1>7, <1>8, <1>9, <1>10

\* The last snapshot of a run that is interrupted comes behind all the others.
LEMMA ClosingFollows ==
  ASSUME IInv, run # 0
  PROVE  /\ Snapshot(run, calls, TRUE, sound) \in Report
         /\ \A s \in Report : Made(s) => Follows(s, Snapshot(run, calls, TRUE, sound))
<1>1. Snapshot(run, calls, TRUE, sound) \in Report
  BY DEF IInv, TypeOK, MadeInv, Snapshot, Report, Run
<1> QED
  BY <1>1, ReportFacts DEF IInv, TypeOK, MadeInv, Made, Follows, Before, Snapshot

LEMMA TwoElements ==
  ASSUME NEW S, NEW a \in S, NEW b \in S
  PROVE  /\ Append(<<a>>, b) \in Seq(S) /\ Append(<<a>>, b) # <<>>
         /\ Len(Append(<<a>>, b)) = 2
         /\ Append(<<a>>, b)[1] = a /\ Append(<<a>>, b)[2] = b
<1>1. <<a>> \in Seq(S) /\ Len(<<a>>) = 1 /\ <<a>>[1] = a
  OBVIOUS
<1> QED
  BY <1>1, AppendProperties

\* A call recorded in the active run r, as the one after count calls of it.
LEMMA RecordedIn ==
  ASSUME IInv, outbox = <<>>, NEW call \in Calls, NEW r \in Run,
         NEW count \in 0 .. MaxCall, NEW at \in Nat, NEW ok \in BOOLEAN,
         runs' \in 0 .. MaxRun, r = runs', runs <= runs',
         \/ r = runs + 1 /\ count = 0
         \/ run = r /\ count = calls /\ runs' = runs,
         NEW closing,
         \/ closing = <<>>
         \/ /\ run # 0 /\ r = runs + 1
            /\ closing = <<Snapshot(run, calls, TRUE, sound)>>,
         Record(r, count, at, ok, closing, call)
  PROVE  IInv'
<1> DEFINE valid == ok /\ (RecordsItem(call) => IndexRecorded(at, call) <= MaxItemIndex)
           report == Snapshot(r, count + 1, Ends(call), valid)
<1>1. Ends(call) \in BOOLEAN /\ valid \in BOOLEAN
  BY DEF Ends
<1>2. IndexAfter(at, call) \in Nat
  BY DEF IndexAfter, IndexRecorded
<1>3. count < MaxCall /\ newest' = report /\ outbox' = Append(closing, report)
  BY DEF Record, Checkpoints
<1>4. report \in Report
  BY <1>1, <1>3 DEF Snapshot, Report
<1>5. /\ report.run = r /\ report.count = count + 1
      /\ report.last <=> Ends(call)
  BY DEF Snapshot
<1> HIDE DEF report
<1>6. /\ run' = IF Ends(call) THEN 0 ELSE r
      /\ calls' = IF Ends(call) THEN 0 ELSE count + 1
      /\ item' \in Nat /\ sound' \in BOOLEAN
      /\ UNCHANGED <<step, queue, writing, disk, refused>>
  BY <1>1, <1>2 DEF Record
<1>7. ASSUME NEW s \in Report, Made(s) PROVE Follows(s, report)
  BY <1>4, <1>5, <1>7, ReportFacts DEF IInv, TypeOK, Made, Follows, Before
<1>8. ASSUME NEW s \in Report \cup {NoReport}, Made(s) PROVE Made(s)'
  <2>1. CASE s \in Report
    BY <1>6, <1>8, <2>1, ReportFacts DEF IInv, TypeOK, Made
  <2>2. CASE s = NoReport
    BY <1>6, <2>2, NoReportFacts DEF IInv, TypeOK, Made
  <2> QED
    BY <2>1, <2>2
<1>9. \A s \in Report : s = report => Made(s)'
  BY <1>5, <1>6 DEF Made, Run
<1>10. CASE closing = <<>>
  <2>1. outbox' = <<report>>
    BY <1>3, <1>10
  <2>2. Len(outbox') = 1 /\ outbox'[1] = report
    BY <2>1
  <2>3. TypeOK'
    <3>1. outbox' \in Seq(Report) /\ Len(outbox') <= 2 /\ outbox' # <<>>
      BY <1>4, <2>1
    <3>2. run' \in 0 .. runs' /\ calls' \in 0 .. MaxCall
      BY <1>3, <1>6 DEF Run
    <3> QED
      BY <1>3, <1>4, <1>6, <3>1, <3>2 DEF IInv, TypeOK
  <2> QED
    BY <1>3, <1>4, <1>6, <1>7, <1>8, <1>9, <2>1, <2>2, <2>3, CheckpointsJoin
<1>11. CASE run # 0 /\ r = runs + 1 /\ closing = <<Snapshot(run, calls, TRUE, sound)>>
  <2> DEFINE last == Snapshot(run, calls, TRUE, sound)
  <2>1. /\ last \in Report /\ last.run = run /\ last.last
        /\ \A s \in Report : Made(s) => Follows(s, last)
    BY <1>11, ClosingFollows DEF Snapshot
  <2>2. run = runs /\ run \in Nat /\ runs \in Nat
    BY <1>11 DEF IInv, MadeInv, TypeOK
  <2> HIDE DEF last
  <2>3. closing = <<last>>
    BY <1>11 DEF last
  <2>4. /\ outbox' \in Seq(Report) /\ outbox' # <<>> /\ Len(outbox') = 2
        /\ outbox'[1] = last /\ outbox'[2] = report
    <3>1. outbox' = Append(<<last>>, report) /\ last \in Report
      BY <1>3, <2>1, <2>3
    <3> QED
      BY <1>4, <3>1, TwoElements
  <2>5. Follows(last, report)
    <3>1. last.run = runs /\ report.run = runs + 1
      BY <1>5, <1>11, <2>1, <2>2
    <3>2. last.run < report.run /\ last.run # report.run
      BY <2>2, <3>1
    <3> QED
      BY <3>2 DEF Follows, Before
  <2>6. \A s \in Report : s = last => Made(s)'
    BY <1>6, <1>11, <2>1, <2>2 DEF Made, Run
  <2>7. TypeOK'
    <3>1. run' \in 0 .. runs' /\ calls' \in 0 .. MaxCall
      BY <1>3, <1>6 DEF Run
    <3> QED
      BY <1>3, <1>4, <1>6, <2>4, <3>1 DEF IInv, TypeOK
  <2>8. \A i \in 1 .. Len(outbox') : i = 1 \/ i = 2
    BY <2>4
  <2>9. \A i, j \in 1 .. Len(outbox') : i < j => Follows(outbox'[i], outbox'[j])
    BY <2>4, <2>5, <2>8
  <2>10. \A i \in 1 .. Len(outbox') :
            /\ outbox'[i] \in Report
            /\ \A s \in Report : s = outbox'[i] => Made(s)'
            /\ \A s \in Report : Made(s) => Follows(s, outbox'[i])
            /\ outbox'[i] = newest' \/ Before(outbox'[i], newest')
    BY <1>3, <1>4, <1>7, <1>9, <2>1, <2>4, <2>5, <2>6, <2>8 DEF Follows
  <2> QED
    BY <1>3, <1>6, <1>8, <2>4, <2>7, <2>9, <2>10, CheckpointsJoin
<1> QED
  BY <1>10, <1>11

LEMMA ObserveStep == IInv /\ Observe => IInv'
<1> SUFFICES ASSUME IInv, NEW call \in Calls,
                    DraftTicket(call) \/ DraftArticle(call) \/ Continue(call)
             PROVE  IInv'
  BY DEF Observe
<1>1. /\ runs \in 0 .. MaxRun /\ calls \in 0 .. MaxCall /\ item \in Nat
      /\ sound \in BOOLEAN /\ (run = 0 \/ run = runs) /\ run \in Nat
  BY DEF IInv, TypeOK, MadeInv
<1>2. CASE DraftTicket(call)
  <2>1. PICK r \in Run : r = runs' /\ r = runs + 1 /\ runs' \in 0 .. MaxRun
    BY <1>1, <1>2 DEF DraftTicket, Run
  <2>2. PICK closing :
           closing = IF run = 0 THEN <<>> ELSE <<Snapshot(run, calls, TRUE, sound)>>
    OBVIOUS
  <2>3. Record(r, 0, 0, TRUE, closing, call) /\ outbox = <<>>
    BY <1>2, <2>1, <2>2 DEF DraftTicket
  <2>4. 0 \in 0 .. MaxCall /\ 0 \in Nat /\ TRUE \in BOOLEAN /\ runs <= runs'
    BY <1>1, <2>1
  <2>5. CASE run = 0
    <3>1. Record(r, 0, 0, TRUE, <<>>, call)
      BY <2>2, <2>3, <2>5
    <3> QED
      BY <2>1, <2>3, <2>4, <3>1, RecordedIn
  <2>6. CASE run # 0
    <3>1. closing = <<Snapshot(run, calls, TRUE, sound)>>
      BY <2>2, <2>6
    <3> QED
      BY <2>1, <2>3, <2>4, <2>6, <3>1, RecordedIn
  <2> QED
    BY <2>5, <2>6
<1>3. CASE DraftArticle(call)
  <2>1. PICK r \in Run : r = runs' /\ r = runs + 1 /\ runs' \in 0 .. MaxRun
    BY <1>1, <1>3 DEF DraftArticle, Run
  <2>2. Record(r, 0, 0, TRUE, <<>>, call) /\ outbox = <<>>
    BY <1>3, <2>1 DEF DraftArticle
  <2>3. 0 \in 0 .. MaxCall /\ 0 \in Nat /\ TRUE \in BOOLEAN /\ runs <= runs'
    BY <1>1, <2>1
  <2> QED
    BY <2>1, <2>2, <2>3, RecordedIn
<1>4. CASE Continue(call)
  <2>1. PICK r \in Run : r = run /\ r = runs' /\ runs' = runs
    BY <1>1, <1>4 DEF Continue, Run
  <2>2. PICK count \in 0 .. MaxCall, at \in Nat, ok \in BOOLEAN :
           count = calls /\ at = item /\ ok = sound
    BY <1>1
  <2>3. Record(r, count, at, ok, <<>>, call) /\ outbox = <<>>
    BY <1>4, <2>1, <2>2 DEF Continue
  <2>4. runs' \in 0 .. MaxRun /\ runs <= runs'
    BY <1>1, <2>1
  <2> QED
    BY <2>1, <2>2, <2>3, <2>4, RecordedIn
<1> QED
  BY <1>2, <1>3, <1>4

----
(* The specification.                                                     *)

\* The invariant holds in every state of every behaviour.
THEOREM SpecIInv == Spec => []IInv
<1>1. IInv /\ UNCHANGED vars => IInv'
  <2> SUFFICES ASSUME IInv, UNCHANGED vars PROVE IInv'
    OBVIOUS
  <2> QED
    BY DEF IInv, vars, accounting, handover, TypeOK, OrderInv, DiskInv, MadeInv,
           NewestInv, Follows, Before, Pending, Made
<1>2. IInv /\ [Next]_vars => IInv'
  BY <1>1, ObserveStep, PutStep, DropStep, PutAgainStep, TakeStep, WriteStep,
     WriteRaisesStep, RestartStep DEF Next, HandOver, Work
<1> QED
  BY <1>2, InitIInv, PTL DEF Spec

----
(* The properties.                                                        *)

\* An index of the snapshots on their way is one of the worker, of the queue or
\* of the hand-over.
LEMMA UnderwayParts ==
  ASSUME TypeOK
  PROVE  LET w == IF writing = NoReport THEN 0 ELSE 1 IN
         /\ DOMAIN Underway = 1 .. (w + Len(queue) + Len(outbox))
         /\ Len(queue) \in Nat /\ Len(outbox) \in Nat
         /\ \A i \in DOMAIN Underway :
               Underway[i] = IF i <= w THEN writing
                             ELSE IF i <= w + Len(queue) THEN queue[i - w]
                             ELSE outbox[i - w - Len(queue)]
<1> DEFINE head == IF writing = NoReport THEN <<>> ELSE <<writing>>
           w == IF writing = NoReport THEN 0 ELSE 1
<1>1. head \in Seq(Report) /\ queue \in Seq(Report) /\ outbox \in Seq(Report)
  BY DEF TypeOK
<1>2. w \in {0, 1} /\ Len(head) = w /\ \A i \in 1 .. w : head[i] = writing
  OBVIOUS
<1> HIDE DEF head, w
<1>3. /\ head \o queue \in Seq(Report)
      /\ Len(head \o queue) = w + Len(queue)
      /\ \A i \in 1 .. (w + Len(queue)) :
            (head \o queue)[i] = IF i <= w THEN head[i] ELSE queue[i - w]
  <2>1. head \o queue \in Seq(Report)
    BY <1>1, ConcatProperties
  <2>2. Len(head \o queue) = Len(head) + Len(queue)
    BY <1>1, ConcatProperties
  <2>3. \A i \in 1 .. (Len(head) + Len(queue)) :
           (head \o queue)[i] = IF i <= Len(head) THEN head[i] ELSE queue[i - Len(head)]
    BY <1>1, ConcatProperties
  <2> QED
    BY <1>2, <2>1, <2>2, <2>3
<1>4. /\ Underway \in Seq(Report)
      /\ Len(Underway) = w + Len(queue) + Len(outbox)
      /\ \A i \in 1 .. (w + Len(queue) + Len(outbox)) :
            Underway[i] = IF i <= w + Len(queue) THEN (head \o queue)[i]
                          ELSE outbox[i - w - Len(queue)]
  <2> DEFINE front == head \o queue
  <2>1. Underway = front \o outbox
    BY DEF Underway, head
  <2>2. front \in Seq(Report) /\ Len(front) = w + Len(queue)
    BY <1>3
  <2> HIDE DEF front
  <2>3. Underway \in Seq(Report) /\ Len(Underway) = Len(front) + Len(outbox)
    BY <1>1, <2>1, <2>2, ConcatProperties
  <2>4. \A i \in 1 .. (Len(front) + Len(outbox)) :
           Underway[i] = IF i <= Len(front) THEN front[i] ELSE outbox[i - Len(front)]
    BY <1>1, <2>1, <2>2, ConcatProperties
  <2>5. \A i \in 1 .. (w + Len(queue) + Len(outbox)) :
           Underway[i] = IF i <= w + Len(queue) THEN front[i]
                         ELSE outbox[i - w - Len(queue)]
    BY <1>1, <1>2, <2>2, <2>4
  <2> QED
    BY <2>2, <2>3, <2>5 DEF front
<1>5. w \in Nat /\ Len(queue) \in Nat /\ Len(outbox) \in Nat
  BY <1>1, <1>2
<1>6. DOMAIN Underway = 1 .. (w + Len(queue) + Len(outbox))
  BY <1>4
<1>7. \A i \in DOMAIN Underway :
         Underway[i] = IF i <= w THEN writing
                       ELSE IF i <= w + Len(queue) THEN queue[i - w]
                       ELSE outbox[i - w - Len(queue)]
  BY <1>1, <1>2, <1>3, <1>4, <1>5, <1>6
<1> QED
  BY <1>5, <1>6, <1>7 DEF w

\* Every variable keeps its type: the queue never exceeds its size, and what is
\* handed over, queued or written is a report.
THEOREM TypeOK_Thm == Spec => []TypeOK
BY SpecIInv, PTL DEF IInv

\* Whatever the queue drops, the snapshots on their way stay in the order they
\* were made and behind what is on disk, and none of a run follows its last one.
THEOREM InOrder_Thm == Spec => []InOrder
<1>1. IInv => InOrder
  <2> SUFFICES ASSUME IInv PROVE InOrder
    OBVIOUS
  <2> DEFINE w == IF writing = NoReport THEN 0 ELSE 1
  <2>1. /\ DOMAIN Underway = 1 .. (w + Len(queue) + Len(outbox))
        /\ Len(queue) \in Nat /\ Len(outbox) \in Nat
        /\ \A i \in DOMAIN Underway :
              Underway[i] = IF i <= w THEN writing
                            ELSE IF i <= w + Len(queue) THEN queue[i - w]
                            ELSE outbox[i - w - Len(queue)]
    BY UnderwayParts DEF IInv
  <2>2. w \in {0, 1} /\ (w = 1 => writing # NoReport)
    OBVIOUS
  <2> HIDE DEF w
  <2>3. ASSUME NEW i \in DOMAIN Underway
        PROVE  \/ i = 1 /\ w = 1 /\ Underway[i] = writing
               \/ i - w \in 1 .. Len(queue) /\ Underway[i] = queue[i - w]
               \/ /\ i - w - Len(queue) \in 1 .. Len(outbox) /\ w + Len(queue) < i
                  /\ Underway[i] = outbox[i - w - Len(queue)]
    BY <2>1, <2>2
  <2>4. ASSUME NEW i \in DOMAIN Underway
        PROVE  Underway[i] \in Report /\ Pending(Underway[i])
    BY <2>2, <2>3 DEF IInv, TypeOK, Pending
  <2>5. ASSUME NEW i \in DOMAIN Underway, NEW j \in DOMAIN Underway, i < j
        PROVE  Follows(Underway[i], Underway[j])
    <3>1. i \in Nat /\ j \in Nat /\ Len(queue) \in Nat
      BY <2>1, <2>2
    <3>2. CASE i = 1 /\ w = 1 /\ Underway[i] = writing
      BY <2>2, <2>3, <2>5, <3>1, <3>2 DEF IInv, OrderInv
    <3>3. CASE i - w \in 1 .. Len(queue) /\ Underway[i] = queue[i - w]
      BY <2>2, <2>3, <2>5, <3>1, <3>3 DEF IInv, OrderInv
    <3>4. CASE /\ i - w - Len(queue) \in 1 .. Len(outbox) /\ w + Len(queue) < i
               /\ Underway[i] = outbox[i - w - Len(queue)]
      BY <2>2, <2>3, <2>5, <3>1, <3>4 DEF IInv, OrderInv
    <3> QED
      BY <2>3, <3>2, <3>3, <3>4
  <2>6. \A i \in DOMAIN Underway :
          Before(disk[Underway[i].run], Underway[i]) /\ ~disk[Underway[i].run].last
    BY <2>4 DEF IInv, DiskInv
  <2> QED
    BY <2>5, <2>6 DEF InOrder, Follows
<1> QED
  BY <1>1, SpecIInv, PTL

\* Queue pressure costs old snapshots, never the newest one: until the next call
\* it is on its way, written, or its write raised.
THEOREM NewestKept_Thm == Spec => []NewestKept
<1>1. IInv => NewestKept
  <2> SUFFICES ASSUME IInv, newest # NoReport, Pending(newest)
               PROVE  \E i \in DOMAIN Underway : Underway[i] = newest
    BY DEF IInv, NewestInv, NewestKept
  <2> DEFINE w == IF writing = NoReport THEN 0 ELSE 1
  <2>1. /\ DOMAIN Underway = 1 .. (w + Len(queue) + Len(outbox))
        /\ Len(queue) \in Nat /\ Len(outbox) \in Nat
        /\ \A i \in DOMAIN Underway :
              Underway[i] = IF i <= w THEN writing
                            ELSE IF i <= w + Len(queue) THEN queue[i - w]
                            ELSE outbox[i - w - Len(queue)]
    BY UnderwayParts DEF IInv
  <2>2. w \in {0, 1} /\ (writing # NoReport => w = 1)
    OBVIOUS
  <2> HIDE DEF w
  <2>3. CASE newest = writing
    <3>1. 1 \in DOMAIN Underway /\ Underway[1] = newest
      BY <2>1, <2>2, <2>3
    <3> QED
      BY <3>1
  <2>4. CASE \E i \in 1 .. Len(queue) : newest = queue[i]
    <3>1. PICK i \in 1 .. Len(queue) : newest = queue[i]
      BY <2>4
    <3>2. i + w \in DOMAIN Underway /\ Underway[i + w] = newest
      BY <2>1, <2>2, <3>1
    <3> QED
      BY <3>2
  <2>5. CASE \E i \in 1 .. Len(outbox) : newest = outbox[i]
    <3>1. PICK i \in 1 .. Len(outbox) : newest = outbox[i]
      BY <2>5
    <3>2. i + w + Len(queue) \in DOMAIN Underway /\ Underway[i + w + Len(queue)] = newest
      BY <2>1, <2>2, <3>1
    <3> QED
      BY <3>2
  <2> QED
    BY <2>3, <2>4, <2>5 DEF Pending
<1> QED
  BY <1>1, SpecIInv, PTL

\* The file of a run is only ever replaced by a later snapshot of that run, also
\* across restarts: a report on disk never goes back.
DiskAdvances ==
  [][\A r \in Run : disk'[r] # disk[r] => disk'[r].run = r /\ Before(disk[r], disk'[r])]_disk

\* No step, by either thread or a restart, takes a report file back.
THEOREM DiskAdvances_Thm == Spec => DiskAdvances
<1>1. ASSUME IInv, [Next]_vars, NEW r \in Run, disk'[r] # disk[r]
      PROVE  disk'[r].run = r /\ Before(disk[r], disk'[r])
  <2>1. Write
    BY <1>1 DEF Next, Observe, DraftTicket, DraftArticle, Continue, Record, HandOver, Put,
                Drop, PutAgain, Work, Take, WriteRaises, Restart, vars
  <2>2. writing \in Report /\ Pending(writing)
    BY <1>1, <2>1 DEF Write, IInv, TypeOK, Pending
  <2>3. disk' = [disk EXCEPT ![writing.run] = writing] /\ disk \in [Run -> Report \cup {NoReport}]
    BY <1>1, <2>1 DEF Write, IInv, TypeOK
  <2>4. r = writing.run /\ disk'[r] = writing
    BY <1>1, <2>3
  <2> QED
    BY <1>1, <2>2, <2>4 DEF IInv, DiskInv
<1>2. IInv /\ [Next]_vars =>
        [\A r \in Run : disk'[r] # disk[r] => disk'[r].run = r /\ Before(disk[r], disk'[r])]_disk
  BY <1>1
<1> QED
  BY <1>2, SpecIInv, PTL DEF Spec, DiskAdvances

----
(* Offers. Only two answers tell of a search that failed, and neither of  *)
(* them offers a next call; the items a result leaves decide whether the  *)
(* accounting reads it as one to go on from.                              *)

\* What a search that failed is answered with.
Unavailable == SubmitFailed("reuse_comparison_unavailable", "restart_reuse_comparison")
Told(r) ==
  /\ RagFailure(r) => r = Blocked \/ r = Unavailable
  /\ r.left \in {"none", "selectable", "retryable"}
  /\ r.left = "selectable" => r.next \in Continuations
  /\ r.left = "retryable" => r.next \notin Continuations /\ Concluded(r) # "in_progress"

LEMMA RefusedTold ==
  ASSUME NEW code, code # "reuse_comparison_unavailable"
  PROVE  /\ Told(Refused(code)) /\ ~RagFailure(Refused(code))
         /\ \A action : Told(Asking(Refused(code), action)) /\ ~RagFailure(Asking(Refused(code), action))
BY DEF Told, Refused, Asking, Result, RagFailure, Continuations, Concluded

\* A result that ends the work on an item, before anything is attached to it.
Final(r) ==
  /\ \E kind, code, next, ok, draft, batch :
        r = [kind |-> kind, code |-> code, next |-> next, ok |-> ok, draft |-> draft,
             batch |-> batch, left |-> "none"]
  /\ ~RagFailure(r) /\ r.next \notin Continuations /\ Concluded(r) # "in_progress"

LEMMA FinalTold ==
  ASSUME NEW r, Final(r), NEW a \in Remaining(r)
  PROVE  Told(a)
<1>1. PICK kind, code, next, ok, draft, batch :
        r = [kind |-> kind, code |-> code, next |-> next, ok |-> ok, draft |-> draft,
             batch |-> batch, left |-> "none"]
  BY DEF Final
<1>2. CASE a = r
  BY <1>1, <1>2 DEF Final, Told
<1>3. CASE a = [Asking(r, "operator_select_remaining_item") EXCEPT !.left = "selectable"]
  <2>1. a = [kind |-> kind, code |-> code, next |-> "operator_select_remaining_item",
             ok |-> ok, draft |-> draft, batch |-> batch, left |-> "selectable"]
    BY <1>1, <1>3 DEF Asking
  <2>2. ~RagFailure(a)
    BY <1>1, <2>1 DEF Final, RagFailure
  <2> QED
    BY <2>1, <2>2 DEF Told, Continuations
<1>4. CASE a = [r EXCEPT !.left = "retryable"]
  <2>1. a = [kind |-> kind, code |-> code, next |-> next, ok |-> ok, draft |-> draft,
             batch |-> batch, left |-> "retryable"]
    BY <1>1, <1>4
  <2>2. ~RagFailure(a) /\ a.next \notin Continuations
    BY <1>1, <2>1 DEF Final, RagFailure
  <2>3. Concluded(a) = Concluded(r)
    BY <1>1, <2>1 DEF Concluded
  <2> QED
    BY <2>1, <2>2, <2>3 DEF Final, Told
<1> QED
  BY <1>2, <1>3, <1>4 DEF Remaining

LEMMA ItemFinal == \A r \in Authored \cup Compared : Final(r)
<1> SUFFICES ASSUME NEW r \in Authored \cup Compared
             PROVE  Final(r)
  OBVIOUS
<1>1. CASE r \in Drafts
  <2>1. PICK ok \in BOOLEAN : r = [Result("authoring", "none", ok) EXCEPT !.draft = TRUE]
    BY <1>1 DEF Drafts
  <2>2. r = [kind |-> "authoring", code |-> "none", next |-> "none", ok |-> ok,
             draft |-> TRUE, batch |-> "none", left |-> "none"]
    BY <2>1 DEF Result
  <2>3. ~RagFailure(r) /\ r.next \notin Continuations /\ Concluded(r) = "completed"
    BY <2>2 DEF RagFailure, Continuations, Concluded
  <2> QED
    BY <2>2, <2>3 DEF Final
<1>2. CASE r \in Compared
  <2>1. PICK ok \in BOOLEAN : r = Result("reuse_comparison_completed", "none", ok)
    BY <1>2 DEF Compared
  <2>2. r = [kind |-> "reuse_comparison_completed", code |-> "none", next |-> "none",
             ok |-> ok, draft |-> FALSE, batch |-> "none", left |-> "none"]
    BY <2>1 DEF Result
  <2>3. ~RagFailure(r) /\ r.next \notin Continuations /\ Concluded(r) = "completed"
    BY <2>2 DEF RagFailure, Continuations, Concluded
  <2> QED
    BY <2>2, <2>3 DEF Final
<1>3. ASSUME NEW code, NEW next, r = Asking(Refused(code), next),
             code # "reuse_comparison_unavailable", next \notin Continuations
      PROVE  Final(r)
  <2>1. r = [kind |-> "authoring", code |-> code, next |-> next, ok |-> FALSE,
             draft |-> FALSE, batch |-> "none", left |-> "none"]
    BY <1>3 DEF Asking, Refused, Result
  <2>2. ~RagFailure(r) /\ r.next \notin Continuations /\ Concluded(r) # "in_progress"
    BY <1>3, <2>1 DEF RagFailure, Concluded
  <2> QED
    BY <2>1, <2>2 DEF Final
<1>4. ASSUME NEW code, r = Refused(code), code # "reuse_comparison_unavailable"
      PROVE  Final(r)
  <2>1. r = [kind |-> "authoring", code |-> code, next |-> "none", ok |-> FALSE,
             draft |-> FALSE, batch |-> "none", left |-> "none"]
    BY <1>4 DEF Refused, Result
  <2>2. ~RagFailure(r) /\ r.next \notin Continuations /\ Concluded(r) # "in_progress"
    BY <1>4, <2>1 DEF RagFailure, Continuations, Concluded
  <2> QED
    BY <2>1, <2>2 DEF Final
<1>5. CASE r \in {QualityBlocked, StepsIncomplete}
  BY <1>3, <1>5 DEF QualityBlocked, StepsIncomplete, Continuations
<1>6. CASE r \in {Refused("none"), Refused("other"), Refused("candidate_blocked")}
  BY <1>4, <1>6
<1> QED
  BY <1>1, <1>2, <1>5, <1>6 DEF Authored, Finalized

LEMMA RemainingTold ==
  ASSUME NEW r \in Authored \cup Compared, NEW a \in Remaining(r)
  PROVE  Told(a)
BY FinalTold, ItemFinal

LEMMA BatchTold ==
  ASSUME NEW status, NEW drafted, NEW a \in Remaining(BatchResult(status, drafted))
  PROVE  Told(a)
<1>1. PICK ok \in BOOLEAN : ok = (status = "batch_completed")
  OBVIOUS
<1> DEFINE r == BatchResult(status, drafted)
           base == Result("draft_article_batch", "other", status = "batch_completed")
<1>2. /\ base = [kind |-> "draft_article_batch", code |-> "other", next |-> "none", ok |-> ok,
                 draft |-> FALSE, batch |-> "none", left |-> "none"]
      /\ r = [base EXCEPT !.draft = drafted, !.batch = status]
  BY <1>1 DEF BatchResult, Result
<1> HIDE DEF r, base
<1>3. r = [kind |-> "draft_article_batch", code |-> "other", next |-> "none", ok |-> ok,
           draft |-> drafted, batch |-> status, left |-> "none"]
  BY <1>2
<1>4. ~RagFailure(r) /\ r.next \notin Continuations
  BY <1>3 DEF RagFailure, Continuations
<1>5. Concluded(r) # "in_progress"
  BY <1>3 DEF Concluded
<1>6. Final(r)
  BY <1>3, <1>4, <1>5 DEF Final
<1> QED
  BY <1>6, FinalTold DEF r

LEMMA LookedTold == \A r \in Looked : Told(r)
BY DEF Looked, Required, Blocked, Told, Asking, Result, RagFailure

LEMMA AuthoredTold == \A r \in Authored \cup Compared : Told(r)
BY RemainingTold DEF Remaining

LEMMA DraftTold == \A r \in DraftAnswers : Told(r)
<1>1. \A r \in TicketFailures \cup NothingToDraft \cup {SplitRequired} : Told(r)
  BY RefusedTold DEF TicketFailures, NothingToDraft, SplitRequired, ReviewRequired, NoCandidates
<1> QED
  BY <1>1, LookedTold, AuthoredTold DEF DraftAnswers

LEMMA SelectTold == \A r \in SelectAnswers \cup BatchAnswers : Told(r)
<1>1. \A r \in {SplitRequired} \cup EvidenceFailures
               \cup {Asking(Refused("other"), "restart_with_approved_summary_text")} : Told(r)
  BY RefusedTold DEF SplitRequired, EvidenceFailures
<1>2. \A r \in SelectAnswers : Told(r)
  BY <1>1, LookedTold, AuthoredTold, RemainingTold DEF SelectAnswers
<1>3. \A drafted : Told(BatchResult("batch_stopped", drafted))
  BY BatchTold DEF Remaining
<1>4. \A r \in BatchAnswers : Told(r)
  BY <1>3, LookedTold, BatchTold DEF BatchAnswers
<1> QED
  BY <1>2, <1>4

LEMMA ReviewTold == \A r \in PrepareAnswers \cup SubmitAnswers : Told(r)
<1>1. Told(ReviewPacket)
  BY DEF Told, ReviewPacket, Result, RagFailure
<1>2. \A r \in PrepareAnswers : Told(r)
  BY <1>1, RefusedTold DEF PrepareAnswers
<1>3. \A r \in SubmitAnswers : Told(r)
  BY RefusedTold, LookedTold, AuthoredTold DEF SubmitAnswers, Correction, SplitRequired
<1> QED
  BY <1>2, <1>3

LEMMA ConfirmTold == \A r \in ConfirmAnswers : Told(r)
<1>1. ASSUME NEW action
      PROVE  Told(SubmitFailed("other", action))
  BY DEF Told, SubmitFailed, Asking, Result, RagFailure
<1>2. Told(Unavailable)
  BY DEF Told, Unavailable, SubmitFailed, Asking, Result
<1> QED
  BY <1>1, <1>2, LookedTold, RemainingTold DEF ConfirmAnswers, Resubmit, Unavailable

\* Of the answers the client goes on from, those that leave nothing but a retry
\* close the run, and no other does.
LEMMA OffersTold ==
  ASSUME NEW call \in Calls, Offers(call)
  PROVE  Ends(call) <=> OffersRetryOnly(call)
<1>1. \/ \E tool \in Tools : call = Raised(tool)
      \/ /\ \E tool, choosing, r : call = Call(tool, choosing, r)
         /\ Told(call.result)
  <2>1. ASSUME NEW tool, NEW choosing, NEW r, call = Call(tool, choosing, r)
        PROVE  call.result = r
    BY <2>1 DEF Call
  <2> QED
    BY <2>1, DraftTold, SelectTold, ReviewTold, ConfirmTold DEF Calls
<1>2. ~\E tool \in Tools : call = Raised(tool)
  BY DEF Offers, Raised, Required, SplitRequired, ReviewRequired, ReviewPacket, Correction,
         Resubmit, EvidenceFailures, SubmitFailed, Asking, Refused, Result
<1>3. call.answered /\ Told(call.result)
  BY <1>1, <1>2 DEF Call
<1>4. CASE call.result \in EvidenceFailures
  <2>1. /\ call.result.next \notin Continuations
        /\ Concluded(call.result) = "tool_blocked"
    BY <1>4 DEF EvidenceFailures, Asking, Refused, Result, Continuations, Concluded
  <2> QED
    BY <1>3, <1>4, <2>1 DEF Ends, TerminalOutcome, OffersRetryOnly
<1>5. CASE call.result.left = "retryable"
  BY <1>3, <1>5 DEF Told, Ends, TerminalOutcome, OffersRetryOnly
<1>6. CASE call.result \notin EvidenceFailures /\ call.result.left # "retryable"
  <2>1. call.result.next \in Continuations \/ call.result = ReviewPacket
    BY <1>3, <1>6 DEF Offers, Told, Required, SplitRequired, ReviewRequired, Correction,
                      Resubmit, SubmitFailed, Asking, Refused, Result, Continuations
  <2>2. /\ Blocked.next \notin Continuations /\ Unavailable.next \notin Continuations
        /\ ReviewPacket # Blocked /\ ReviewPacket # Unavailable
    BY DEF Blocked, Unavailable, ReviewPacket, SubmitFailed, Asking, Result, Continuations
  <2>3. ~RagFailure(call.result)
    BY <1>3, <2>1, <2>2 DEF Told
  <2>4. Concluded(ReviewPacket) = "in_progress"
    BY DEF Concluded, ReviewPacket, Result
  <2> QED
    BY <1>3, <1>6, <2>1, <2>3, <2>4 DEF Ends, TerminalOutcome, OffersRetryOnly
<1> QED
  BY <1>4, <1>5, <1>6

\* The answers the client goes on from and the actions the accounting reads as a
\* continuation agree, for every answer of every tool, but for the retry of a
\* blocked item: exactly the answers that leave nothing else close the run.
THEOREM OfferKeepsRun_Thm == Spec => OfferKeepsRun
<1>1. [Next]_vars =>
        [run # 0 => \A call \in Calls :
           Continue(call) /\ Offers(call) => (run' # run <=> OffersRetryOnly(call))]_vars
  <2> SUFFICES ASSUME NEW call \in Calls, run # 0, Continue(call), Offers(call)
               PROVE  run' # run <=> OffersRetryOnly(call)
    OBVIOUS
  <2>1. run' # run <=> Ends(call)
    BY DEF Continue, Record
  <2> QED
    BY <2>1, OffersTold
<1> QED
  BY <1>1, PTL DEF Spec, OfferKeepsRun

====
