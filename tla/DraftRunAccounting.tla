---- MODULE DraftRunAccounting ----
(**************************************************************************)
(* Accounting of draft runs (draft_run_accounting.py): the request loop   *)
(* observes every draft tool call and hands a snapshot of the active run  *)
(* to a bounded queue; a daemon thread writes the snapshots, one file per *)
(* run. The two threads interleave between any two queue operations. A    *)
(* snapshot is abstracted to its run, its length, whether it is the run's *)
(* last one and whether validate_draft_run_report accepts it.             *)
(**************************************************************************)
EXTENDS Integers, Sequences, SequencesExt, DraftResults

CONSTANTS
  QueueSize,     \* _BACKGROUND_QUEUE_SIZE
  MaxItemIndex,  \* the item index validate_draft_run_report accepts last
  MaxRun,        \* bound: runs started
  MaxCall        \* bound: calls recorded in one run

ASSUME QueueSizeAssumption == QueueSize \in Nat \ {0}
ASSUME ItemIndexAssumption == MaxItemIndex \in Nat \ {0}
ASSUME RunBoundsAssumption == MaxRun \in Nat /\ MaxCall \in Nat \ {0}

VARIABLES
  runs,     \* correlation hashes made so far
  run,      \* DraftRunAccounting: the active run, 0 for None
  calls,    \* len(_observations)
  item,     \* _item_index
  sound,    \* no observation has an item index beyond MaxItemIndex
  outbox,   \* snapshots the call under way still has to hand over
  step,     \* where _BackgroundDraftRunReportSink.checkpoint stands
  queue,    \* _queue
  writing,  \* the snapshot the worker took, or NoReport
  disk,     \* the report file of each run, or NoReport
  newest,   \* history: the last snapshot made by this process
  refused   \* history: snapshots whose write raised

accounting == <<runs, run, calls, item, sound>>
handover == <<outbox, step, queue>>
vars == <<accounting, handover, writing, disk, newest, refused>>

Run == 1 .. MaxRun
Report == [run : Run, count : 0 .. MaxCall, last : BOOLEAN, valid : BOOLEAN]
NoReport == [run |-> 0, count |-> 0, last |-> FALSE, valid |-> FALSE]

Init ==
  /\ runs = 0 /\ run = 0 /\ calls = 0 /\ item = 0 /\ sound = TRUE
  /\ outbox = <<>> /\ step = "put" /\ queue = <<>>
  /\ writing = NoReport
  /\ disk = [r \in Run |-> NoReport]
  /\ newest = NoReport
  /\ refused = {}

----
(* The request loop: observe_tool_call.                                   *)

Snapshot(r, count, last, valid) ==
  [run |-> r, count |-> count, last |-> last, valid |-> valid]

\* _update_counters and _observation for a call recorded in a run with item
\* index at: a result that starts a comparison gives a first item its index, and
\* a confirm whose result starts the next one moves on after it was recorded.
IndexRecorded(at, call) == IF Starts(call) /\ at = 0 THEN 1 ELSE at
IndexAfter(at, call) ==
  IF Confirms(call) /\ Starts(call) THEN IndexRecorded(at, call) + 1
  ELSE IndexRecorded(at, call)

\* Mutant: a new run is checkpointed before the one it interrupts.
CheckpointsLate(closing, report) == <<report>> \o closing

\* The checkpoints of one call, in the order it makes them.
Checkpoints(closing, report) == Append(closing, report)

\* The call is recorded as the one after count calls of run r.
Record(r, count, at, ok, closing, call) ==
  LET valid == ok /\ (RecordsItem(call) => IndexRecorded(at, call) <= MaxItemIndex)
      report == Snapshot(r, count + 1, Ends(call), valid)
  IN
  /\ count < MaxCall
  /\ run' = IF Ends(call) THEN 0 ELSE r
  /\ calls' = IF Ends(call) THEN 0 ELSE count + 1
  /\ item' = IndexAfter(at, call)
  /\ sound' = valid
  /\ outbox' = Checkpoints(closing, report)
  /\ newest' = report
  /\ UNCHANGED <<step, queue, writing, disk, refused>>

\* kcs_draft_ticket closes an active run as a client interruption first, which
\* is a checkpoint of its own, and starts the next one.
DraftTicket(call) ==
  /\ outbox = <<>>
  /\ call.tool = "draft_ticket"
  /\ runs < MaxRun
  /\ runs' = runs + 1
  /\ Record(runs', 0, 0, TRUE,
            IF run = 0 THEN <<>> ELSE <<Snapshot(run, calls, TRUE, sound)>>, call)

\* kcs_draft_article naming a ticket starts a run only if none is active.
DraftArticle(call) ==
  /\ outbox = <<>>
  /\ call.tool = "draft_article" /\ ~call.choosing
  /\ run = 0
  /\ runs < MaxRun
  /\ runs' = runs + 1
  /\ Record(runs', 0, 0, TRUE, <<>>, call)

\* Any other relevant call of an active run.
Continue(call) ==
  /\ outbox = <<>>
  /\ call.tool # "draft_ticket"
  /\ run # 0
  /\ Record(run, calls, item, sound, <<>>, call)
  /\ UNCHANGED runs

----
(* The hand-over: _BackgroundDraftRunReportSink.checkpoint.               *)

\* Mutants: a full queue refuses the new snapshot; it is waited for.
PutIfRoom ==
  /\ step = "put" /\ outbox # <<>>
  /\ queue' = IF Len(queue) < QueueSize THEN Append(queue, Head(outbox)) ELSE queue
  /\ outbox' = Tail(outbox)
  /\ UNCHANGED <<accounting, step, writing, disk, newest, refused>>
PutWaits ==
  /\ step = "put" /\ outbox # <<>> /\ Len(queue) < QueueSize
  /\ queue' = Append(queue, Head(outbox))
  /\ outbox' = Tail(outbox)
  /\ UNCHANGED <<accounting, step, writing, disk, newest, refused>>

\* put_nowait, the first try
Put ==
  /\ step = "put" /\ outbox # <<>>
  /\ IF Len(queue) < QueueSize
     THEN /\ queue' = Append(queue, Head(outbox))
          /\ outbox' = Tail(outbox)
          /\ UNCHANGED step
     ELSE /\ step' = "drop"
          /\ UNCHANGED <<queue, outbox>>
  /\ UNCHANGED <<accounting, writing, disk, newest, refused>>

\* _drop_oldest_checkpoint: get_nowait, which may find the queue emptied by now
Drop ==
  /\ step = "drop"
  /\ queue' = IF queue = <<>> THEN queue ELSE Tail(queue)
  /\ step' = "again"
  /\ UNCHANGED <<accounting, outbox, writing, disk, newest, refused>>

\* put_nowait, the second try; a queue that is still full loses the snapshot
PutAgain ==
  /\ step = "again"
  /\ queue' = IF Len(queue) < QueueSize THEN Append(queue, Head(outbox)) ELSE queue
  /\ outbox' = Tail(outbox)
  /\ step' = "put"
  /\ UNCHANGED <<accounting, writing, disk, newest, refused>>

----
(* The worker: _run, and LocalJsonDraftRunSink.checkpoint, which replaces *)
(* the file of the run by a complete one or raises.                       *)

Take ==
  /\ writing = NoReport /\ queue # <<>>
  /\ writing' = Head(queue)
  /\ queue' = Tail(queue)
  /\ UNCHANGED <<accounting, outbox, step, disk, newest, refused>>

Write ==
  /\ writing # NoReport /\ writing.valid
  /\ disk' = [disk EXCEPT ![writing.run] = writing]
  /\ writing' = NoReport
  /\ UNCHANGED <<accounting, handover, newest, refused>>

\* Mutant: an exception ends the worker, which never takes again.
WriteRaisesForGood ==
  /\ writing # NoReport
  /\ refused' = refused \cup {writing}
  /\ writing' = Snapshot(0, 1, FALSE, FALSE)
  /\ UNCHANGED <<accounting, handover, disk, newest>>

\* Validation refuses the snapshot, or the file system fails.
WriteRaises ==
  /\ writing # NoReport
  /\ refused' = refused \cup {writing}
  /\ writing' = NoReport
  /\ UNCHANGED <<accounting, handover, disk, newest>>

----
\* The process ends, also in the middle of a call or a write, and a new one is
\* started: the daemon thread goes with everything not yet on disk.
Restart ==
  /\ run' = 0 /\ calls' = 0 /\ item' = 0 /\ sound' = TRUE
  /\ outbox' = <<>> /\ step' = "put" /\ queue' = <<>>
  /\ writing' = NoReport
  /\ newest' = NoReport
  /\ UNCHANGED <<runs, disk, refused>>

Observe ==
  \E call \in Calls : DraftTicket(call) \/ DraftArticle(call) \/ Continue(call)

HandOver == Put \/ Drop \/ PutAgain
Work == Take \/ Write \/ WriteRaises

Next == Observe \/ HandOver \/ Work \/ Restart

Spec == Init /\ [][Next]_vars

\* A call that is under way goes on. Nothing is assumed of the worker: the disk
\* may hang for ever.
FairSpec == Spec /\ WF_vars(HandOver)

----
(* Properties                                                             *)

\* Snapshots are of runs that exist, at most two wait for the hand-over, and the
\* queue keeps its bound.
TypeOK ==
  /\ runs \in 0 .. MaxRun /\ run \in 0 .. runs
  /\ calls \in 0 .. MaxCall /\ item \in Nat /\ sound \in BOOLEAN
  /\ outbox \in Seq(Report) /\ Len(outbox) <= 2
  /\ step \in {"put", "drop", "again"} /\ (step # "put" => outbox # <<>>)
  /\ queue \in Seq(Report) /\ Len(queue) <= QueueSize
  /\ writing \in Report \cup {NoReport}
  /\ disk \in [Run -> Report \cup {NoReport}]
  /\ newest \in Report \cup {NoReport}
  /\ refused \subseteq Report

\* Of two snapshots, the one that is made later.
Before(r, s) ==
  \/ r.run < s.run
  \/ r.run = s.run /\ r.count < s.count
  \/ r.run = s.run /\ r.count = s.count /\ ~r.last /\ s.last

\* The snapshots still on their way, oldest first.
Underway ==
  (IF writing = NoReport THEN <<>> ELSE <<writing>>) \o queue \o outbox

\* Whatever is dropped, the snapshots on their way stay in the order they were
\* made, the file of a run is older than all of them, and a run's last snapshot
\* is followed by no other of that run.
InOrder ==
  /\ \A i, j \in DOMAIN Underway : i < j => Before(Underway[i], Underway[j])
  /\ \A i \in DOMAIN Underway :
        /\ Before(disk[Underway[i].run], Underway[i])
        /\ ~disk[Underway[i].run].last
  /\ \A i, j \in DOMAIN Underway :
        i < j /\ Underway[i].last => Underway[i].run # Underway[j].run

\* An answer the client goes on from keeps its run open, so that the next call is
\* recorded in the same run, unless it offers nothing but a retry: that one closes
\* the run, and the retry goes unrecorded. The actions the tools ask for and those
\* the accounting knows are two lists of strings.
OfferKeepsRun ==
  [][run # 0 => \A call \in Calls :
       Continue(call) /\ Offers(call) => (run' # run <=> OffersRetryOnly(call))]_vars

\* Queue pressure costs old snapshots, never the newest one: until a call makes
\* another, it is on its way, written, or its write raised.
NewestKept ==
  newest = NoReport \/
    \/ \E i \in DOMAIN Underway : Underway[i] = newest
    \/ newest.run \in Run /\ disk[newest.run] = newest
    \/ newest \in refused

\* If the worker thread is scheduled and no write hangs, the newest snapshot is
\* written in the end, unless its write raises, another is made or the process
\* ends: a write that raised does not stop the worker.
NewestWritten ==
  WF_vars(Work) =>
    \A r \in Report :
      (newest = r) ~> (newest # r \/ disk[r.run] = r \/ r \in refused)

\* A tool call never waits for the disk, not even for one that hangs.
CallsReturn == (outbox # <<>>) ~> (outbox = <<>>)

====
