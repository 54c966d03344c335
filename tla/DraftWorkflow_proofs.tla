---- MODULE DraftWorkflow_proofs ----
(**************************************************************************)
(* Proofs about DraftWorkflow: Inductive is an inductive invariant, which *)
(* gives type correctness and the safety invariants for any items, any    *)
(* time to live and any bounds; and the workflow implements ReuseGate.    *)
(**************************************************************************)
EXTENDS DraftWorkflow, FiniteSetTheorems, SequenceTheorems, TLAPS

USE TtlAssumption, BoundsAssumption, BatchInputAssumption DEF NoRef

\* The invariant holds of a new process: nothing is pending, nothing decided.
THEOREM InitInductive == Init => Inductive
<1> SUFFICES ASSUME Init PROVE Inductive
  OBVIOUS
<1> USE DEF Init, NoSelection, NoComparison, NoReview, NewReview, NoReplay
<1>1. TypeOK
  BY DEF TypeOK, PendingDraftSelection, PendingReuseComparison,
         PendingSemanticReview, ReuseComparisonReplay
<1>2. RefsInv /\ SelectionInv /\ HistoryInv /\ ReviewInv
  BY DEF RefsInv, SelectionInv, DecisionsKept, HistoryInv, OneBundlePerItem,
         BundleNeedsNoneFit, RejectedNeverDrafted, ReviewInv, CorrectionOrder,
         AmendmentIsSafe
<1>3. ComparisonInv
  BY DEF ComparisonInv, Bound, QueueInOrder, ReplayNeverShadows, IsInjective
<1> QED
  BY <1>1, <1>2, <1>3 DEF Inductive

\* A step that changes only the review.
OnlyReview == UNCHANGED <<now, minted, selection, comparison, replay, history>>

LEMMA ReviewStep ==
  ASSUME Inductive, OnlyReview,
         review' \in PendingSemanticReview,
         review'.ref <= minted,
         review'.attempts <= 2,
         ReviewInv'
  PROVE  Inductive'
<1> USE DEF Inductive, OnlyReview, history
<1>1. TypeOK'
  BY DEF TypeOK
<1>2. RefsInv'
  BY DEF RefsInv
<1>3. SelectionInv'
  BY DEF SelectionInv, DecisionsKept
<1>4. ComparisonInv'
  BY DEF ComparisonInv, QueueInOrder, ReplayNeverShadows, Bound, HasNext
<1>5. HistoryInv'
  BY DEF HistoryInv, OneBundlePerItem, BundleNeedsNoneFit, RejectedNeverDrafted
<1> QED
  BY <1>1, <1>2, <1>3, <1>4, <1>5

----
(* What the operations on the records give.                               *)

\* The empty records have their types.
LEMMA EmptyRecords ==
  /\ NoSelection \in PendingDraftSelection
  /\ NoComparison \in PendingReuseComparison /\ NoComparison.ref = NoRef
  /\ NoReview \in PendingSemanticReview
  /\ NoReview.ref = 0 /\ NoReview.attempts = 0 /\ NoReview.split = NoRef
  /\ NoReview.stages = <<>> /\ NoReview.expires = 0
  /\ NoReplay \in ReuseComparisonReplay
<1>1. <<>> \in Seq(Item) /\ <<>> \in Seq(Stage)
  OBVIOUS
<1> QED
  BY <1>1 DEF NoSelection, PendingDraftSelection, NoComparison,
     PendingReuseComparison, NoReview, NewReview, PendingSemanticReview,
     NoReplay, ReuseComparisonReplay

LEMMA NatSum == \A x, y \in Nat : 0 <= x + y
OBVIOUS

\* Without a review there is nothing to correct or amend.
LEMMA NoReviewInv ==
  ASSUME review' = NoReview, now' \in Nat
  PROVE  ReviewInv'
<1>1. CorrectionOrder' /\ AmendmentIsSafe'
  BY EmptyRecords DEF CorrectionOrder, AmendmentIsSafe
<1>2. review'.attempts = Len(review'.stages)
  <2>1. Len(<<>>) = 0
    OBVIOUS
  <2> QED
    BY <2>1, EmptyRecords
<1>3. review'.expires <= now' + Ttl
  <2>1. 0 <= now' + Ttl
    BY NatSum
  <2> QED
    BY <2>1, EmptyRecords
<1> QED
  BY <1>1, <1>2, <1>3 DEF ReviewInv

\* s is the selection sel with the item done or retryable, as the outcome says.
RecordedAs(s, sel, item, outcome) ==
  /\ s.ref = sel.ref /\ s.items = sel.items /\ s.expires = sel.expires
  /\ s.done = IF outcome \in Completing THEN sel.done \cup {item} ELSE sel.done
  /\ s.done \subseteq s.items /\ s.items # s.done
  /\ s.retry \subseteq s.items \ s.done
  /\ s.retry \subseteq sel.retry \cup {item}
  /\ s.retry \subseteq sel.retry \/ outcome = "blocked_retryable"
  /\ s.done \cup s.retry \subseteq sel.done \cup sel.retry \cup {item}
  /\ sel.done \cup sel.retry \subseteq s.done \cup s.retry
  /\ outcome \in Completing \cup {"blocked_retryable"} => item \in s.done \cup s.retry

\* Recording an outcome ends the selection or keeps it with the item recorded.
LEMMA OutcomeShape ==
  ASSUME NEW sel \in PendingDraftSelection,
         NEW item \in sel.items \ sel.done,
         sel.retry \subseteq sel.items \ sel.done,
         sel.done \subseteq sel.items, sel.items # sel.done,
         NEW outcome,
         NEW s, s = AfterOutcome(sel, item, outcome)
  PROVE  /\ s \in PendingDraftSelection
         /\ s = NoSelection \/ RecordedAs(s, sel, item, outcome)
<1> USE DEF PendingDraftSelection, NoSelection, RecordedAs
<1>1. CASE outcome \in Completing
  <2>1. s = AfterCompleted(sel, item)
    BY <1>1 DEF AfterOutcome
  <2>2. CASE sel.items \subseteq sel.done \cup {item}
    BY <2>1, <2>2 DEF AfterCompleted
  <2>3. CASE ~(sel.items \subseteq sel.done \cup {item})
    <3>1. s = [sel EXCEPT !.done = sel.done \cup {item}, !.retry = sel.retry \ {item}]
      BY <2>1, <2>3 DEF AfterCompleted
    <3>2. /\ s.ref = sel.ref /\ s.items = sel.items /\ s.expires = sel.expires
          /\ s.done = sel.done \cup {item} /\ s.retry = sel.retry \ {item}
      BY <3>1
    <3>3. s \in PendingDraftSelection
      BY <3>1, ZenonT(40)
    <3>4. /\ s.done \subseteq s.items /\ s.items # s.done
          /\ s.retry \subseteq s.items \ s.done
      BY <3>2, <2>3
    <3>5. /\ s.retry \subseteq sel.retry
          /\ s.done \cup s.retry \subseteq sel.done \cup sel.retry \cup {item}
          /\ sel.done \cup sel.retry \subseteq s.done \cup s.retry
      BY <3>2
    <3> QED
      BY <3>2, <3>3, <3>4, <3>5, <1>1
  <2> QED
    BY <2>2, <2>3
<1>2. CASE outcome = "blocked_retryable"
  <2>1. s = [sel EXCEPT !.retry = sel.retry \cup {item}]
    BY <1>2 DEF AfterOutcome, AfterRetryable, Completing
  <2> QED
    BY <2>1, <1>2 DEF Completing
<1>3. CASE outcome \notin Completing /\ outcome # "blocked_retryable"
  <2>1. s = sel
    BY <1>3 DEF AfterOutcome
  <2> QED
    BY <2>1, <1>3
<1> QED
  BY <1>1, <1>2, <1>3

\* A lookup keeps the selection or drops it.
LEMMA LookupShape ==
  ASSUME NEW sel, NEW time
  PROVE  AfterLookup(sel, time) \in {sel, NoSelection}
BY DEF AfterLookup

\* A split has items.
LEMMA SplitsNonempty ==
  ASSUME NEW items \in Splits
  PROVE  items \in SUBSET Item /\ items # {}
BY FS_EmptySet DEF Splits

\* A lookup replaces the comparison by none or by one with a fresh ref.
LEMMA LookupResult ==
  ASSUME TypeOK,
         NEW sel \in Nat, NEW queue \in Seq(Item), NEW index \in DOMAIN queue,
         NEW at \in Later, Lookup(sel, queue, index, at)
  PROVE  /\ now' = at /\ now' \in 0 .. MaxTime /\ now <= now'
         /\ minted' \in 0 .. MaxRef /\ minted <= minted'
         /\ comparison' \in PendingReuseComparison
         /\ comparison'.ref # NoRef => comparison'.index \in DOMAIN comparison'.queue
         /\ \/ comparison' = NoComparison
            \/ /\ minted' = minted + 1 /\ comparison'.ref = minted'
               /\ comparison'.sel = sel
               /\ comparison'.queue = queue /\ comparison'.index = index
<1> USE DEF TypeOK, Later, PendingReuseComparison
<1>1. now' = at /\ now' \in 0 .. MaxTime /\ now <= now'
  BY DEF Lookup
<1>2. CASE /\ minted < MaxRef /\ minted' = minted + 1
           /\ comparison' = NewComparison(minted', sel, queue, index, at + Ttl)
  BY <1>1, <1>2, SMTT(30) DEF NewComparison
<1>3. CASE comparison' = NoComparison /\ UNCHANGED minted
  BY <1>1, <1>3 DEF NoComparison
<1> QED
  BY <1>1, <1>2, <1>3 DEF Lookup

\* The queue positions of a comparison match a selection.
InOrder(sel, queue, index) ==
  \A i \in DOMAIN queue :
    IF i < index
    THEN queue[i] \in sel.done \cup sel.retry
    ELSE queue[i] \in sel.items \ (sel.done \cup sel.retry)

\* What a started comparison needs of its queue for ComparisonInv to hold.
LEMMA LookupInv ==
  ASSUME TypeOK,
         NEW sel \in Nat, NEW queue \in Seq(Item), NEW index \in DOMAIN queue,
         NEW at \in Later, Lookup(sel, queue, index, at),
         sel <= minted, IsInjective(queue),
         sel = NoRef => index = Len(queue),
         selection'.ref <= minted, replay'.ref <= minted,
         sel # NoRef /\ sel = selection'.ref => InOrder(selection', queue, index),
         \A key \in closed' : key[1] \in Nat /\ key[1] <= minted
  PROVE  /\ ComparisonInv'
         /\ comparison'.ref <= minted'
         /\ comparison'.ref = NoRef => comparison' = NoComparison
         /\ comparison'.ref # NoRef =>
              comparison'.sel < comparison'.ref /\ comparison'.ref # selection'.ref
<1> USE DEF TypeOK, ComparisonInv, Bound, HasNext, QueueInOrder, ReplayNeverShadows
<1>1. CASE comparison' = NoComparison
  BY <1>1, LookupResult DEF NoComparison, IsInjective
<1>2. CASE /\ minted' = minted + 1 /\ comparison'.ref = minted'
           /\ comparison'.sel = sel
           /\ comparison'.queue = queue /\ comparison'.index = index
  <2>1. QueueInOrder'
    BY <1>2 DEF InOrder
  <2>2. ReplayNeverShadows'
    BY <1>2
  <2>3. IsInjective(comparison'.queue)
    BY <1>2
  <2>4. comparison'.ref # NoRef /\ ~Bound(comparison') =>
          /\ ~HasNext(comparison')
          /\ \A key \in closed' : key[1] # comparison'.ref
    BY <1>2
  <2> QED
    BY <1>2, <2>1, <2>2, <2>3, <2>4
<1> QED
  BY <1>1, <1>2, LookupResult

----
(* Groups of steps that disturb the same parts of the state.              *)

\* Steps that start nothing and decide nothing: time passes, and records stay
\* or are dropped.
LEMMA QuietStep ==
  ASSUME Inductive, UNCHANGED <<minted, history>>,
         now' \in Later,
         selection' \in {selection, NoSelection},
         comparison' \in {comparison, NoComparison},
         review' \in {review, NoReview},
         replay' \in {replay, NoReplay}
  PROVE  Inductive'
<1> USE DEF Inductive, history
<1>1. TypeOK'
  <2>1. selection' \in PendingDraftSelection
    BY EmptyRecords DEF TypeOK
  <2>2. /\ comparison' \in PendingReuseComparison
        /\ comparison'.ref # NoRef => comparison'.index \in DOMAIN comparison'.queue
    BY EmptyRecords DEF TypeOK
  <2>3. review' \in PendingSemanticReview /\ review'.attempts <= 2
    BY EmptyRecords DEF TypeOK
  <2>4. replay' \in ReuseComparisonReplay
    BY EmptyRecords DEF TypeOK
  <2>5. now' \in 0 .. MaxTime
    BY DEF TypeOK, Later
  <2> QED
    BY <2>1, <2>2, <2>3, <2>4, <2>5 DEF TypeOK
<1>2. RefsInv'
  BY DEF RefsInv, TypeOK, NoSelection, NoComparison, NoReview, NewReview, NoReplay
<1>3. SelectionInv'
  BY DEF SelectionInv, DecisionsKept, NoSelection
<1>4. ComparisonInv'
  <2> USE DEF ComparisonInv, RefsInv, Bound, HasNext, QueueInOrder, ReplayNeverShadows
  <2>1. CASE comparison' = NoComparison
    BY <2>1 DEF NoComparison, IsInjective
  <2>2. CASE comparison' = comparison
    <3>1. QueueInOrder'
      BY <2>2 DEF NoSelection
    <3>2. ReplayNeverShadows'
      BY <2>2 DEF NoReplay
    <3> QED
      BY <2>2, <3>1, <3>2
  <2> QED
    BY <2>1, <2>2
<1>5. HistoryInv'
  BY DEF HistoryInv, OneBundlePerItem, BundleNeedsNoneFit, RejectedNeverDrafted
<1>6. ReviewInv'
  BY DEF ReviewInv, CorrectionOrder, AmendmentIsSafe, TypeOK, Later, NoReview,
         NewReview, NoSelection, NoComparison, PendingSemanticReview
<1> QED
  BY <1>1, <1>2, <1>3, <1>4, <1>5, <1>6

\* Steps that only start a comparison.
LEMMA LookupStep ==
  ASSUME Inductive,
         NEW sel \in Nat, NEW queue \in Seq(Item), NEW at \in Later,
         Lookup(sel, queue, 1, at),
         queue # <<>>, IsInjective(queue),
         sel = NoRef => Len(queue) = 1,
         sel # NoRef => sel = selection.ref /\ InOrder(selection, queue, 1),
         UNCHANGED <<selection, replay, history>>,
         review' = NoReview
  PROVE  Inductive'
<1> USE DEF Inductive, history
<1>1. 1 \in DOMAIN queue
  OBVIOUS
<1>2. sel <= minted /\ selection'.ref <= minted /\ replay'.ref <= minted
  BY DEF RefsInv, TypeOK
<1>3. \A key \in closed' : key[1] \in Nat /\ key[1] <= minted
  BY DEF RefsInv, TypeOK, ItemKey, Ref
<1>4. ComparisonInv' /\ RefsInv'
  <2>1. sel # NoRef /\ sel = selection'.ref => InOrder(selection', queue, 1)
    BY DEF InOrder
  <2>2. /\ ComparisonInv'
        /\ comparison'.ref <= minted'
        /\ comparison'.ref = NoRef => comparison' = NoComparison
        /\ comparison'.ref # NoRef =>
              comparison'.sel < comparison'.ref /\ comparison'.ref # selection'.ref
    BY <1>1, <1>2, <1>3, <2>1, LookupInv
  <2>3. minted <= minted'
    BY <1>1, LookupResult
  <2> QED
    <3>1. /\ minted \in Nat /\ minted' \in Nat
          /\ selection'.ref \in Nat /\ replay'.ref \in Nat
      BY <1>1, LookupResult DEF TypeOK, PendingDraftSelection, ReuseComparisonReplay
    <3>2. /\ selection'.ref <= minted' /\ replay'.ref <= minted'
          /\ review'.ref <= minted'
      BY <1>2, <2>3, <3>1, EmptyRecords
    <3>3. \A key \in cleared' \cup closed' : key[1] <= minted'
      BY <2>3, <3>1 DEF RefsInv, TypeOK, ItemKey, Ref
    <3> QED
      BY <2>2, <3>2, <3>3 DEF RefsInv
<1>5. TypeOK'
  BY <1>1, LookupResult, EmptyRecords DEF TypeOK
<1>6. SelectionInv' /\ HistoryInv'
  BY DEF SelectionInv, DecisionsKept, HistoryInv, OneBundlePerItem,
         BundleNeedsNoneFit, RejectedNeverDrafted
<1>7. ReviewInv'
  BY <1>5, NoReviewInv DEF TypeOK
<1> QED
  BY <1>4, <1>5, <1>6, <1>7

----
(* The history moves as the gate allows, and then keeps its invariant.    *)

\* An item that is not closed has no bundle; appending it keeps them distinct.
LEMMA CompleteKeepsHistory ==
  ASSUME TypeOK, HistoryInv, NEW key \in ItemKey, NEW drafted \in BOOLEAN,
         Gate!Complete(key, drafted)
  PROVE  HistoryInv' /\ bundles' \in Seq(ItemKey)
<1> USE DEF Gate!Complete, HistoryInv
<1>0. bundles \in Seq(ItemKey)
  BY DEF TypeOK
<1>1. CASE ~drafted
  BY <1>0, <1>1 DEF OneBundlePerItem, BundleNeedsNoneFit, RejectedNeverDrafted
<1>2. CASE drafted
  <2>1. bundles' = Append(bundles, key)
    BY <1>2
  <2>2. /\ bundles' \in Seq(ItemKey)
        /\ DOMAIN bundles' = DOMAIN bundles \cup {Len(bundles) + 1}
        /\ \A i \in DOMAIN bundles : bundles'[i] = bundles[i]
        /\ bundles'[Len(bundles) + 1] = key
    BY <2>1, <1>0
  <2>3. \A i \in DOMAIN bundles : bundles[i] # key
    OBVIOUS
  <2>4. OneBundlePerItem'
    BY <2>2, <2>3 DEF OneBundlePerItem
  <2>5. BundleNeedsNoneFit' /\ RejectedNeverDrafted'
    BY <2>2 DEF BundleNeedsNoneFit, RejectedNeverDrafted
  <2>6. \A i \in DOMAIN bundles' : bundles'[i] \in closed'
    BY <2>2
  <2> QED
    BY <2>2, <2>4, <2>5, <2>6
<1> QED
  BY <1>1, <1>2

\* The history after a step, with its types; what was cleared stays cleared.
HistoryKept ==
  /\ HistoryInv'
  /\ cleared' \subseteq ItemKey /\ cleared \subseteq cleared'
  /\ rejected' \subseteq ItemKey /\ closed' \subseteq ItemKey
  /\ bundles' \in Seq(ItemKey)

LEMMA HistoryStep ==
  ASSUME TypeOK, HistoryInv, [Gate!Next]_(Gate!vars)
  PROVE  HistoryKept
<1> USE DEF HistoryKept
<1>1. CASE UNCHANGED Gate!vars
  BY <1>1 DEF Gate!vars, TypeOK, HistoryInv, OneBundlePerItem, BundleNeedsNoneFit,
     RejectedNeverDrafted
<1>2. ASSUME NEW key \in ItemKey, Gate!Clear(key) \/ Gate!Reject(key)
      PROVE  HistoryKept
  BY <1>2 DEF Gate!Clear, Gate!Reject, TypeOK, HistoryInv, OneBundlePerItem,
     BundleNeedsNoneFit, RejectedNeverDrafted
<1>3. ASSUME NEW key \in ItemKey, NEW drafted \in BOOLEAN, Gate!Complete(key, drafted)
      PROVE  HistoryKept
  BY <1>3, CompleteKeepsHistory DEF Gate!Complete, TypeOK
<1> QED
  BY <1>1, <1>2, <1>3 DEF Gate!Next

----
(* The steps that start a selection or a review.                          *)

\* A new selection offers every item, and everything recorded is older.
LEMMA SplitStep ==
  ASSUME Inductive,
         NEW items \in Splits, NEW at \in Later, Split(items, at),
         UNCHANGED <<comparison, replay, history>>,
         review' \in PendingSemanticReview, review'.ref <= minted,
         review'.attempts <= 2,
         review'.attempts = Len(review'.stages),
         review'.expires <= now + Ttl,
         review'.split # NoRef => review'.accepted /\ review'.split = minted',
         CorrectionOrder'
  PROVE  Inductive'
<1> USE DEF Inductive, history
<1>0. items \in SUBSET Item /\ items # {}
  BY SplitsNonempty
<1>1. /\ now' = at /\ minted' = minted + 1 /\ minted < MaxRef
      /\ selection'.ref = minted + 1 /\ selection'.items = items
      /\ selection'.done = {} /\ selection'.retry = {}
      /\ selection'.expires = at + Ttl
  BY DEF Split, NewSelection
<1>2. minted \in Nat /\ minted' \in 0 .. MaxRef /\ minted <= minted'
  BY <1>1 DEF TypeOK
<1>3. /\ now \in Nat /\ at \in Nat /\ at \in 0 .. MaxTime /\ now <= at
      /\ at + Ttl \in Nat /\ now + Ttl <= at + Ttl
  BY DEF TypeOK, Later
<1>4. selection' \in PendingDraftSelection
  BY <1>0, <1>2, <1>3 DEF Split, NewSelection, PendingDraftSelection
<1>5. TypeOK'
  BY <1>1, <1>2, <1>3, <1>4 DEF TypeOK
<1>6. /\ review'.ref \in Nat /\ comparison.ref \in Nat /\ replay.ref \in Nat
      /\ comparison.sel \in Nat /\ comparison.ref <= minted /\ comparison.sel <= minted
  <2>1. /\ review'.ref \in Nat /\ comparison.ref \in Nat /\ replay.ref \in Nat
        /\ comparison.sel \in Nat
    BY DEF TypeOK, PendingReuseComparison, ReuseComparisonReplay, PendingSemanticReview
  <2>2. comparison.ref <= minted
    BY DEF RefsInv
  <2>3. comparison.sel <= minted
    <3>1. CASE comparison.ref = NoRef
      <4>1. comparison = NoComparison
        BY <3>1 DEF RefsInv
      <4>2. comparison.sel = 0
        BY <4>1 DEF NoComparison
      <4> QED
        BY <4>2, <1>2
    <3>2. CASE comparison.ref # NoRef
      BY <3>2, <2>1, <2>2, <1>2 DEF RefsInv
    <3> QED
      BY <3>1, <3>2
  <2> QED
    BY <2>1, <2>2, <2>3
<1>7. \A key \in cleared \cup closed : key[1] \in Nat /\ key[1] <= minted
  BY DEF RefsInv, TypeOK, ItemKey, Ref
<1>8. RefsInv'
  BY <1>1, <1>2, <1>6, <1>7 DEF RefsInv
<1>9. SelectionInv'
  BY <1>0, <1>1, <1>2, <1>7 DEF SelectionInv, DecisionsKept
<1>10. ComparisonInv'
  <2>1. comparison'.sel # selection'.ref
    BY <1>1, <1>2, <1>6
  <2>2. QueueInOrder'
    BY <2>1 DEF QueueInOrder
  <2> QED
    BY <2>2 DEF ComparisonInv, Bound, HasNext, ReplayNeverShadows
<1>11. HistoryInv'
  BY DEF HistoryInv, OneBundlePerItem, BundleNeedsNoneFit, RejectedNeverDrafted
<1>12. ReviewInv'
  <2>1. review'.expires \in Nat
    BY DEF PendingSemanticReview
  <2>2. review'.expires <= at + Ttl
    BY <2>1, <1>3
  <2> QED
    BY <2>2, <1>1, <1>2, <1>6 DEF ReviewInv, AmendmentIsSafe
<1> QED
  BY <1>5, <1>8, <1>9, <1>10, <1>11, <1>12

LEMMA DraftStartsReviewStep ==
  ASSUME Inductive, NEW at \in Later, DraftStartsReview(at)
  PROVE  Inductive'
<1> USE DEF Inductive, history, DraftStartsReview
<1>1. /\ minted' = minted + 1 /\ minted < MaxRef
      /\ minted \in Nat /\ minted' \in 0 .. MaxRef /\ minted <= minted'
  BY DEF TypeOK
<1>2. at \in 0 .. MaxTime /\ at + Ttl \in Nat
  BY DEF TypeOK, Later
<1>3. /\ review' \in PendingSemanticReview
      /\ review'.ref = minted' /\ review'.expires = at + Ttl
      /\ review'.stages = <<>> /\ review'.attempts = 0 /\ review'.split = NoRef
  <2>1. <<>> \in Seq(Stage)
    OBVIOUS
  <2> QED
    BY <1>1, <1>2, <2>1 DEF NewReview, PendingSemanticReview
<1>4. TypeOK'
  BY <1>1, <1>2, <1>3 DEF TypeOK
<1>5. RefsInv'
  <2>1. \A key \in cleared \cup closed : key[1] \in Nat
    BY DEF TypeOK, ItemKey, Ref
  <2> QED
    BY <1>1, <1>3, <2>1, SMTT(20) DEF RefsInv, TypeOK, PendingDraftSelection,
       PendingReuseComparison, ReuseComparisonReplay
<1>6. SelectionInv' /\ HistoryInv'
  BY DEF SelectionInv, DecisionsKept, HistoryInv, OneBundlePerItem,
         BundleNeedsNoneFit, RejectedNeverDrafted
<1>7. ComparisonInv'
  BY DEF ComparisonInv, QueueInOrder, ReplayNeverShadows, Bound, HasNext
<1>8. ReviewInv'
  <2>1. Len(<<>>) = 0
    OBVIOUS
  <2> QED
    BY <1>2, <1>3, <2>1 DEF ReviewInv, CorrectionOrder, AmendmentIsSafe
<1> QED
  BY <1>4, <1>5, <1>6, <1>7, <1>8

----
(* The steps that decide items.                                           *)

\* What the author returned for a cleared, open item is a step of the gate.
LEMMA AuthoredGate ==
  ASSUME NEW key \in ItemKey, key \notin closed, NEW result,
         cleared' = cleared \cup {key}, RecordAuthored(key, result)
  PROVE  Gate!Next
<1>1. CASE result \in Completing
  <2>1. Gate!Complete(key, result = "completed_draft")
    BY <1>1 DEF Gate!Complete, RecordAuthored
  <2> QED
    BY <2>1 DEF Gate!Next
<1>2. CASE result \notin Completing
  <2>1. Gate!Clear(key)
    BY <1>2 DEF Gate!Clear, RecordAuthored, Completing
  <2> QED
    BY <2>1 DEF Gate!Next
<1> QED
  BY <1>1, <1>2

\* The items a live selection still offers are open in the history.
LEMMA OfferedIsOpen ==
  ASSUME Inductive, NEW ref, NEW item, NEW time, CanSelect(selection, ref, item, time)
  PROVE  /\ ref = selection.ref /\ ref # NoRef /\ item \in selection.items \ selection.done
         /\ item \in Item
         /\ <<ref, item>> \in ItemKey
         /\ <<ref, item>> \notin closed
<1> USE DEF Inductive
<1>1. ref = selection.ref /\ ref # NoRef /\ item \in selection.items \ selection.done
  BY DEF CanSelect
<1>2. item \in Item
  BY <1>1 DEF TypeOK, PendingDraftSelection
<1>3. ref \in Ref
  <2>1. selection.ref \in Nat /\ minted \in Nat /\ minted <= MaxRef
    BY DEF TypeOK, PendingDraftSelection
  <2> QED
    BY <1>1, <2>1 DEF RefsInv, Ref
<1>4. <<ref, item>> \notin closed
  BY <1>1 DEF SelectionInv, DecisionsKept
<1> QED
  BY <1>1, <1>2, <1>3, <1>4 DEF ItemKey

\* OutcomeShape for the pending selection.
LEMMA RecordedShape ==
  ASSUME Inductive, selection.ref # NoRef,
         NEW item \in selection.items \ selection.done, NEW outcome,
         NEW sel, sel = AfterOutcome(selection, item, outcome)
  PROVE  /\ sel \in PendingDraftSelection
         /\ sel.ref \in {selection.ref, NoRef}
         /\ sel = NoSelection \/ RecordedAs(sel, selection, item, outcome)
<1>1. /\ selection \in PendingDraftSelection
      /\ selection.retry \subseteq selection.items \ selection.done
      /\ selection.done \subseteq selection.items
      /\ selection.items # selection.done
  BY DEF Inductive, TypeOK, SelectionInv, DecisionsKept
<1>2. /\ sel \in PendingDraftSelection
      /\ sel = NoSelection \/ RecordedAs(sel, selection, item, outcome)
  BY <1>1, OutcomeShape
<1>3. sel.ref \in {selection.ref, NoRef}
  BY <1>2 DEF NoSelection, RecordedAs
<1> QED
  BY <1>2, <1>3

\* Recording an outcome for an open item of the selection: closed and cleared
\* may grow by that item only.
LEMMA RecordKeepsSelection ==
  ASSUME Inductive,
         NEW item \in selection.items \ selection.done, NEW outcome,
         selection.ref # NoRef,
         NEW sel, sel = AfterOutcome(selection, item, outcome),
         selection' \in {sel, NoSelection},
         closed' = IF outcome \in Completing
                   THEN closed \cup {<<selection.ref, item>>} ELSE closed,
         cleared \subseteq cleared',
         outcome = "blocked_retryable" => <<selection.ref, item>> \in cleared'
  PROVE  SelectionInv' /\ selection' \in PendingDraftSelection
<1> USE DEF Inductive
<1>1. sel \in PendingDraftSelection
  BY RecordedShape
<1>2. CASE selection' = NoSelection
  BY <1>2, EmptyRecords DEF SelectionInv, DecisionsKept, NoSelection
<1>3. CASE selection' = sel /\ sel # NoSelection
  <2>1. RecordedAs(sel, selection, item, outcome)
    BY <1>3, RecordedShape
  <2> USE DEF RecordedAs
  <2>2. \A other \in sel.retry : <<selection.ref, other>> \in cleared'
    BY <2>1 DEF SelectionInv
  <2>3. sel.done = {other \in sel.items : <<sel.ref, other>> \in closed'}
    <3>1. selection.done = {other \in selection.items :
                              <<selection.ref, other>> \in closed}
      BY DEF SelectionInv, DecisionsKept
    <3>2. CASE outcome \in Completing
      <4>1. closed' = closed \cup {<<selection.ref, item>>}
        BY <3>2
      <4>2. sel.done = selection.done \cup {item}
        BY <3>2, <2>1
      <4> QED
        BY <4>1, <4>2, <3>1, <2>1
    <3>3. CASE outcome \notin Completing
      BY <3>3, <3>1, <2>1
    <3> QED
      BY <3>2, <3>3
  <2> QED
    BY <1>1, <1>3, <2>1, <2>2, <2>3 DEF SelectionInv, DecisionsKept
<1> QED
  BY <1>2, <1>3

LEMMA SelectRetriesStep ==
  ASSUME Inductive, NEW ref \in Ref, NEW item \in Item,
         NEW result \in AuthorResult, NEW at \in Later,
         SelectRetries(ref, item, result, at)
  PROVE  Inductive' /\ [Gate!Next]_(Gate!vars)
<1> USE DEF Inductive, history, SelectRetries, Retryable
<1>1. /\ ref = selection.ref /\ ref # NoRef /\ item \in selection.items \ selection.done
      /\ <<ref, item>> \in ItemKey /\ <<ref, item>> \notin closed
  BY OfferedIsOpen
<1>2. cleared' = cleared \cup {<<ref, item>>}
  BY <1>1 DEF SelectionInv
<1>3. Gate!Next
  BY <1>1, <1>2, AuthoredGate
<1>4. HistoryKept
  BY <1>3, HistoryStep
<1>5. closed' = IF result \in Completing THEN closed \cup {<<ref, item>>} ELSE closed
  BY DEF RecordAuthored
<1>6. SelectionInv' /\ selection' \in PendingDraftSelection
  BY <1>1, <1>2, <1>5, RecordKeepsSelection
<1>7. TypeOK'
  BY <1>4, <1>6, EmptyRecords DEF TypeOK, HistoryKept, Later
<1>8. RefsInv'
  <2>1. selection'.ref \in {selection.ref, NoRef}
    BY <1>1, RecordedShape
  <2>2. minted \in Nat
    BY DEF TypeOK
  <2>3. \A key \in cleared' \cup closed' : key[1] <= minted
    BY <1>1, <1>2, <1>5 DEF RefsInv
  <2> QED
    BY <2>1, <2>2, <2>3, EmptyRecords DEF RefsInv
<1>9. ComparisonInv'
  <2>1. QueueInOrder'
    <3> SUFFICES ASSUME Bound(comparison), comparison.sel = selection'.ref,
                        NEW i \in DOMAIN comparison.queue
                 PROVE  IF i < comparison.index
                        THEN comparison.queue[i] \in selection'.done \cup selection'.retry
                        ELSE comparison.queue[i] \in
                               selection'.items \ (selection'.done \cup selection'.retry)
      BY DEF QueueInOrder, Bound
    <3>1. selection' # NoSelection
      BY DEF Bound, NoSelection
    <3>2. RecordedAs(selection', selection, item, result)
      BY <1>1, <3>1, RecordedShape
    <3>3. item \in selection.retry
      OBVIOUS
    <3>4. /\ selection'.ref = selection.ref /\ selection'.items = selection.items
          /\ selection'.done \cup selection'.retry = selection.done \cup selection.retry
      BY <3>2, <3>3 DEF RecordedAs
    <3>5. IF i < comparison.index
          THEN comparison.queue[i] \in selection.done \cup selection.retry
          ELSE comparison.queue[i] \in
                 selection.items \ (selection.done \cup selection.retry)
      BY <3>4 DEF ComparisonInv, QueueInOrder
    <3> QED
      BY <3>4, <3>5
  <2>2. comparison.ref # NoRef => \A key \in closed' : 
          ~Bound(comparison) => key[1] # comparison.ref
    BY <1>1, <1>5 DEF ComparisonInv, RefsInv
  <2> QED
    BY <2>1, <2>2 DEF ComparisonInv, Bound, HasNext, ReplayNeverShadows
<1>10. HistoryInv'
  BY <1>4 DEF HistoryKept
<1>11. ReviewInv'
  BY <1>7, NoReviewInv DEF TypeOK
<1> QED
  BY <1>3, <1>6, <1>7, <1>8, <1>9, <1>10, <1>11

\* The item a submit in time decides is open, in the history and, when the
\* comparison has a selection, in the selection.
LEMMA CurrentIsOpen ==
  ASSUME Inductive, NEW ref \in Ref, InTime(ref), StillOffered
  PROVE  /\ comparison.ref # NoRef
         /\ Current(comparison) \in Item
         /\ Key(comparison) \in ItemKey /\ Key(comparison) \notin closed
         /\ Bound(comparison) =>
              /\ comparison.sel = selection.ref
              /\ Current(comparison) \in selection.items \ selection.done
              /\ Key(comparison) = <<selection.ref, Current(comparison)>>
         /\ ~Bound(comparison) =>
              /\ Key(comparison) = <<comparison.ref, Current(comparison)>>
              /\ ~HasNext(comparison)
<1> USE DEF Inductive
<1>1. comparison.ref = ref /\ comparison.ref # NoRef
  BY DEF InTime, Ref
<1>2. Current(comparison) \in Item
  BY <1>1 DEF Current, TypeOK, PendingReuseComparison
<1>3. CASE Bound(comparison)
  <2>1. CanSelect(selection, comparison.sel, Current(comparison), now)
    BY <1>3 DEF StillOffered
  <2>2. Key(comparison) = <<comparison.sel, Current(comparison)>>
    BY <1>3 DEF Key
  <2> QED
    BY <1>1, <1>2, <1>3, <2>1, <2>2, OfferedIsOpen
<1>4. CASE ~Bound(comparison)
  <2>1. Key(comparison) = <<comparison.ref, Current(comparison)>>
    BY <1>4 DEF Key
  <2>2. <<comparison.ref, Current(comparison)>> \notin closed /\ ~HasNext(comparison)
    BY <1>1, <1>4 DEF ComparisonInv
  <2>3. <<comparison.ref, Current(comparison)>> \in ItemKey
    BY <1>1, <1>2 DEF ItemKey
  <2> QED
    BY <1>1, <1>2, <1>4, <2>1, <2>2, <2>3
<1> QED
  BY <1>3, <1>4

\* What the operator or the author decided about the comparison's item, as the
\* history has it, for the outcome that the selection records.
Decided(outcome) ==
  /\ closed' = IF outcome \in Completing THEN closed \cup {Key(comparison)} ELSE closed
  /\ cleared \subseteq cleared' /\ cleared' \subseteq cleared \cup {Key(comparison)}
  /\ outcome = "blocked_retryable" => Key(comparison) \in cleared'

\* Advancing the queue keeps its order: the decided item moves behind the index.
LEMMA QueueAdvances ==
  ASSUME Inductive, Bound(comparison), HasNext(comparison),
         comparison.ref # NoRef, comparison.sel = selection.ref,
         NEW outcome \in Completing \cup {"blocked_retryable"},
         NEW sel, RecordedAs(sel, selection, Current(comparison), outcome)
  PROVE  InOrder(sel, comparison.queue, comparison.index + 1)
<1> USE DEF Inductive, InOrder, Current
<1>1. /\ comparison.queue \in Seq(Item) /\ comparison.index \in DOMAIN comparison.queue
      /\ comparison.index \in Nat
  BY DEF TypeOK, PendingReuseComparison
<1> SUFFICES ASSUME NEW i \in DOMAIN comparison.queue
             PROVE  IF i < comparison.index + 1
                    THEN comparison.queue[i] \in sel.done \cup sel.retry
                    ELSE comparison.queue[i] \in sel.items \ (sel.done \cup sel.retry)
  OBVIOUS
<1>2. IF i < comparison.index
      THEN comparison.queue[i] \in selection.done \cup selection.retry
      ELSE comparison.queue[i] \in
             selection.items \ (selection.done \cup selection.retry)
  BY DEF ComparisonInv, QueueInOrder
<1>3. i \in Nat
  BY <1>1
<1>4. CASE i < comparison.index
  BY <1>1, <1>2, <1>3, <1>4 DEF RecordedAs
<1>5. CASE i = comparison.index
  BY <1>1, <1>5 DEF RecordedAs
<1>6. CASE i > comparison.index
  <2>1. comparison.queue[i] # comparison.queue[comparison.index]
    BY <1>1, <1>3, <1>6 DEF ComparisonInv, IsInjective
  <2>2. comparison.queue[i] \in selection.items \ (selection.done \cup selection.retry)
    BY <1>1, <1>2, <1>3, <1>6
  <2>3. comparison.queue[i] \in sel.items \ (sel.done \cup sel.retry)
    BY <2>1, <2>2 DEF RecordedAs
  <2>4. ~(i < comparison.index + 1)
    BY <1>1, <1>3, <1>6
  <2> QED
    BY <2>3, <2>4
<1> QED
  BY <1>1, <1>3, <1>4, <1>5, <1>6

\* The selection a confirm leaves: with the outcome recorded, or dropped.
LEMMA ConfirmKeepsSelection ==
  ASSUME Inductive, NEW ref \in Ref, InTime(ref), StillOffered,
         NEW outcome, Decided(outcome),
         selection' \in {Recorded(outcome), NoSelection}
  PROVE  /\ SelectionInv' /\ selection' \in PendingDraftSelection
         /\ selection'.ref \in {selection.ref, NoRef}
<1> USE DEF Inductive
<1>1. CASE Bound(comparison)
  <2>1. Recorded(outcome) = AfterOutcome(selection, Current(comparison), outcome)
    BY <1>1 DEF Recorded
  <2>2. /\ comparison.sel = selection.ref /\ selection.ref # NoRef
        /\ Current(comparison) \in selection.items \ selection.done
        /\ Key(comparison) = <<selection.ref, Current(comparison)>>
    BY <1>1, CurrentIsOpen DEF Bound
  <2>3. SelectionInv' /\ selection' \in PendingDraftSelection
    BY <2>1, <2>2, RecordKeepsSelection DEF Decided
  <2>4. Recorded(outcome).ref \in {selection.ref, NoRef}
    BY <2>1, <2>2, RecordedShape
  <2> QED
    BY <2>3, <2>4 DEF NoSelection
<1>2. CASE ~Bound(comparison)
  <2>1. selection' \in {selection, NoSelection}
    BY <1>2 DEF Recorded
  <2>2. Key(comparison)[1] # selection.ref
    BY <1>2, CurrentIsOpen DEF RefsInv
  <2>3. closed' \in {closed, closed \cup {Key(comparison)}} /\ cleared \subseteq cleared'
    BY DEF Decided
  <2>4. CASE selection' = NoSelection
    BY <2>4, EmptyRecords DEF SelectionInv, DecisionsKept, NoSelection
  <2>5. CASE selection' = selection
    <3>1. \A item : <<selection.ref, item>> \in closed' <=>
                    <<selection.ref, item>> \in closed
      BY <2>2, <2>3
    <3> QED
      BY <2>3, <2>5, <3>1 DEF SelectionInv, DecisionsKept, TypeOK
  <2> QED
    BY <2>1, <2>4, <2>5 DEF NoSelection
<1> QED
  BY <1>1, <1>2

\* A confirm in time finds no review open to amendment of the selection it
\* decides about, and leaves none behind.
LEMMA ConfirmKeepsReview ==
  ASSUME Inductive, NEW ref \in Ref, InTime(ref), StillOffered,
         NEW outcome, UNCHANGED review, now' \in Later,
         selection' \in {Recorded(outcome), NoSelection},
         ~Bound(comparison) => comparison' = NoComparison
  PROVE  ReviewInv'
<1> USE DEF Inductive
<1>1. review'.expires <= now' + Ttl
  <2>1. now \in Nat /\ now' \in Nat /\ now <= now' /\ review.expires \in Nat
    BY DEF TypeOK, Later, PendingSemanticReview
  <2> QED
    BY <2>1 DEF ReviewInv
<1>2. AmendmentIsSafe'
  <2>1. CASE Bound(comparison)
    <3>1. comparison.sel = selection.ref /\ selection.ref # NoRef
      BY <2>1, CurrentIsOpen DEF Bound
    <3>2. review.split = NoRef
      BY <3>1 DEF ReviewInv, AmendmentIsSafe
    <3> QED
      BY <3>2 DEF AmendmentIsSafe
  <2>2. CASE ~Bound(comparison)
    <3>1. selection' \in {selection, NoSelection} /\ comparison'.sel = NoRef
      BY <2>2 DEF Recorded, NoComparison
    <3> QED
      BY <3>1 DEF ReviewInv, AmendmentIsSafe, NoSelection
  <2> QED
    BY <2>1, <2>2
<1> QED
  BY <1>1, <1>2 DEF ReviewInv, CorrectionOrder

\* The end of a confirm: the queue stops, goes on, or the next item raises.
LEMMA ProceedStep ==
  ASSUME Inductive, NEW ref \in Ref, InTime(ref), StillOffered,
         NEW outcome \in AuthorResult \ {"raised"}, NEW at \in Later,
         Decided(outcome), HistoryKept,
         Proceed(Recorded(outcome), outcome, at),
         UNCHANGED review
  PROVE  Inductive'
<1> USE DEF Inductive
<1> DEFINE goesOn == outcome # "workflow_stopped" /\ HasNext(comparison)
           next == comparison.queue[comparison.index + 1]
           sel == Recorded(outcome)
<1>1. /\ Key(comparison) \in ItemKey /\ Key(comparison)[1] <= minted
      /\ comparison.ref # NoRef
      /\ ~Bound(comparison) => ~HasNext(comparison)
      /\ Bound(comparison) =>
              /\ comparison.sel = selection.ref
              /\ Current(comparison) \in selection.items \ selection.done
  <2>1. Key(comparison)[1] \in {comparison.ref, selection.ref}
    BY CurrentIsOpen
  <2> QED
    BY <2>1, CurrentIsOpen DEF RefsInv
<1>2. minted \in Nat /\ now \in Nat /\ \A key \in closed' \cup cleared' : key[1] \in Nat
  BY DEF TypeOK, HistoryKept, ItemKey, Ref
<1>3. \A key \in closed' \cup cleared' : key[1] <= minted
  BY <1>1 DEF Decided, RefsInv
<1>4. selection' \in {sel, NoSelection}
  BY LookupShape DEF Proceed
<1>5. /\ SelectionInv' /\ selection' \in PendingDraftSelection
      /\ selection'.ref \in {selection.ref, NoRef}
  BY <1>4, ConfirmKeepsSelection
<1>6. replay' \in {replay, [ref |-> comparison.ref, expires |-> comparison.expires]}
  BY DEF Proceed, Remember
<1>7. replay' \in ReuseComparisonReplay /\ replay'.ref <= minted
  BY <1>6 DEF TypeOK, RefsInv, ReuseComparisonReplay, PendingReuseComparison
<1>8. selection'.ref <= minted /\ review'.ref <= minted
  BY <1>2, <1>5 DEF RefsInv
<1>9. CASE /\ comparison' = NoComparison /\ UNCHANGED minted /\ now' = at
  <2>1. TypeOK'
    BY <1>5, <1>7, <1>9, EmptyRecords DEF TypeOK, HistoryKept, Later
  <2>2. RefsInv'
    BY <1>2, <1>3, <1>7, <1>8, <1>9, EmptyRecords DEF RefsInv
  <2>3. ComparisonInv'
    BY <1>9 DEF ComparisonInv, NoComparison, Bound, HasNext, QueueInOrder,
       ReplayNeverShadows, IsInjective
  <2>4. ReviewInv'
    BY <1>4, <1>9, ConfirmKeepsReview
  <2> QED
    BY <1>5, <2>1, <2>2, <2>3, <2>4 DEF HistoryKept
<1>10. CASE /\ goesOn /\ selection' = sel
            /\ CanSelect(sel, comparison.sel, next, at)
            /\ \E ready \in at .. MaxTime :
                 Lookup(comparison.sel, comparison.queue, comparison.index + 1, ready)
  <2>1. PICK ready \in at .. MaxTime :
          Lookup(comparison.sel, comparison.queue, comparison.index + 1, ready)
    BY <1>10
  <2>2. ready \in Later
    BY <1>2 DEF Later, TypeOK
  <2>3. Bound(comparison) /\ outcome \in Completing \cup {"blocked_retryable"}
    BY <1>1, <1>10 DEF AuthorResult, Completing
  <2>4. /\ comparison.sel \in Nat /\ comparison.queue \in Seq(Item)
        /\ comparison.index + 1 \in DOMAIN comparison.queue
        /\ comparison.sel # NoRef /\ comparison.sel <= minted
        /\ IsInjective(comparison.queue)
    BY <1>1, <1>10, <2>3 DEF TypeOK, PendingReuseComparison, Bound, HasNext,
       RefsInv, ComparisonInv
  <2>5. sel # NoSelection
    BY <1>10 DEF CanSelect, NoSelection
  <2>6. selection.ref # NoRef
    BY <1>1, <2>3 DEF Bound
  <2>7. RecordedAs(sel, selection, Current(comparison), outcome)
    BY <1>1, <2>3, <2>5, <2>6, RecordedShape DEF Recorded
  <2>8. InOrder(selection', comparison.queue, comparison.index + 1)
    BY <1>1, <1>10, <2>3, <2>7, QueueAdvances
  <2>9. /\ ComparisonInv'
        /\ comparison'.ref <= minted'
        /\ comparison'.ref = NoRef => comparison' = NoComparison
        /\ comparison'.ref # NoRef =>
              comparison'.sel < comparison'.ref /\ comparison'.ref # selection'.ref
    BY <1>2, <1>3, <1>7, <1>8, <2>1, <2>2, <2>4, <2>8, LookupInv
  <2>10. /\ now' \in Later /\ now' \in 0 .. MaxTime
         /\ minted' \in 0 .. MaxRef /\ minted <= minted'
         /\ comparison' \in PendingReuseComparison
         /\ comparison'.ref # NoRef => comparison'.index \in DOMAIN comparison'.queue
    BY <2>1, <2>2, <2>4, LookupResult
  <2>11. TypeOK'
    BY <1>5, <1>7, <2>10 DEF TypeOK, HistoryKept
  <2>12. RefsInv'
    <3>1. /\ minted' \in Nat /\ selection'.ref \in Nat /\ review'.ref \in Nat
          /\ replay'.ref \in Nat
      BY <1>5, <1>7, <2>10 DEF PendingDraftSelection, ReuseComparisonReplay,
         TypeOK, PendingSemanticReview
    <3> QED
      BY <1>2, <1>3, <1>7, <1>8, <2>9, <2>10, <3>1 DEF RefsInv
  <2>13. ReviewInv'
    BY <1>4, <2>3, <2>10, ConfirmKeepsReview
  <2> QED
    BY <1>5, <2>9, <2>11, <2>12, <2>13 DEF HistoryKept
<1> QED
  BY <1>9, <1>10 DEF Proceed

LEMMA ConfirmNoneFitStep ==
  ASSUME Inductive, NEW ref \in Ref, NEW result \in AuthorResult, NEW at \in Later,
         ConfirmNoneFit(ref, result, at)
  PROVE  Inductive' /\ [Gate!Next]_(Gate!vars)
<1> USE DEF ConfirmNoneFit
<1>1. Key(comparison) \in ItemKey /\ Key(comparison) \notin closed
  BY CurrentIsOpen
<1>2. Gate!Next
  BY <1>1, AuthoredGate
<1>3. HistoryKept
  BY <1>2, HistoryStep DEF Inductive
<1>4. Decided(result)
  BY DEF Decided, RecordAuthored
<1>5. Inductive'
  BY <1>3, <1>4, ProceedStep
<1> QED
  BY <1>2, <1>5

LEMMA ConfirmNoneFitRaisesStep ==
  ASSUME Inductive, NEW ref \in Ref, NEW at \in Later, ConfirmNoneFitRaises(ref, at)
  PROVE  Inductive' /\ [Gate!Next]_(Gate!vars)
<1> USE DEF ConfirmNoneFitRaises
<1>1. Key(comparison) \in ItemKey /\ Key(comparison) \notin closed
  BY CurrentIsOpen
<1>2. Gate!Next
  <2>1. Gate!Clear(Key(comparison))
    BY <1>1 DEF Gate!Clear
  <2> QED
    BY <1>1, <2>1 DEF Gate!Next
<1>3. HistoryKept
  BY <1>2, HistoryStep DEF Inductive
<1>4. Decided("raised")
  BY DEF Decided, Completing
<1>5. selection' = Recorded("raised")
  BY DEF Recorded, AfterOutcome, Completing
<1>6. /\ SelectionInv' /\ selection' \in PendingDraftSelection
  BY <1>4, <1>5, ConfirmKeepsSelection
<1>7. TypeOK'
  BY <1>3, <1>6, EmptyRecords DEF Inductive, TypeOK, HistoryKept, Later
<1>8. RefsInv'
  <2>1. Key(comparison)[1] \in {comparison.ref, selection.ref}
    BY CurrentIsOpen
  <2>2. \A key \in cleared' \cup closed' : key[1] <= minted
    BY <2>1 DEF Inductive, RefsInv
  <2> QED
    BY <2>2, EmptyRecords DEF Inductive, RefsInv, TypeOK
<1>9. ComparisonInv'
  BY DEF ComparisonInv, NoComparison, Bound, HasNext, QueueInOrder,
     ReplayNeverShadows, IsInjective
<1>10. ReviewInv'
  BY <1>5, ConfirmKeepsReview
<1> QED
  BY <1>2, <1>3, <1>6, <1>7, <1>8, <1>9, <1>10 DEF Inductive, HistoryKept

LEMMA ConfirmOtherStep ==
  ASSUME Inductive, NEW ref \in Ref, NEW outcome \in Outcome, ConfirmOther(ref, outcome)
  PROVE  Inductive' /\ [Gate!Next]_(Gate!vars)
<1> USE DEF ConfirmOther
<1>1. Key(comparison) \in ItemKey /\ Key(comparison) \notin closed
  BY CurrentIsOpen
<1>2. Gate!Next
  <2>1. Gate!Reject(Key(comparison))
    BY <1>1 DEF Gate!Reject
  <2> QED
    BY <1>1, <2>1 DEF Gate!Next
<1>3. HistoryKept
  BY <1>2, HistoryStep DEF Inductive
<1>4. Decided("completed_blocked")
  BY DEF Decided, Completing
<1>5. now \in Later
  BY DEF Inductive, TypeOK, Later
<1>6. Inductive'
  BY <1>3, <1>4, <1>5, ProceedStep DEF AuthorResult
<1> QED
  BY <1>2, <1>6

----
(* One case per action.                                                   *)

\* Steps outside the decisions leave the history alone.
LEMMA DraftIsInductive ==
  ASSUME Inductive, Draft PROVE Inductive' /\ UNCHANGED history
<1> PICK at \in Later :
      \/ DraftNothing(at)
      \/ DraftStartsReview(at)
      \/ \E item \in Item : DraftOneItem(item, at)
      \/ \E items \in Splits : DraftSplit(items, at)
  BY DEF Draft
<1>1. CASE DraftNothing(at)
  BY <1>1, QuietStep DEF DraftNothing, history
<1>2. CASE DraftStartsReview(at)
  BY <1>2, DraftStartsReviewStep DEF DraftStartsReview, history
<1>3. ASSUME NEW item \in Item, DraftOneItem(item, at)
      PROVE  Inductive' /\ UNCHANGED history
  <2>1. <<item>> \in Seq(Item) /\ <<item>> # <<>> /\ Len(<<item>>) = 1
    OBVIOUS
  <2>2. IsInjective(<<item>>)
    BY DEF IsInjective
  <2> QED
    BY <1>3, <2>1, <2>2, LookupStep DEF DraftOneItem
<1>4. ASSUME NEW items \in Splits, DraftSplit(items, at)
      PROVE  Inductive' /\ UNCHANGED history
  <2>1. now' \in Nat
    BY <1>4 DEF DraftSplit, Split, Later, Inductive, TypeOK
  <2>2. review' = NoReview /\ NoReview.attempts = Len(NoReview.stages)
    <3>1. Len(<<>>) = 0
      OBVIOUS
    <3> QED
      BY <1>4, <3>1, EmptyRecords DEF DraftSplit
  <2>3. 0 <= now + Ttl /\ 0 <= minted
    BY NatSum DEF Inductive, TypeOK
  <2> QED
    BY <1>4, <2>2, <2>3, EmptyRecords, SplitStep DEF DraftSplit, CorrectionOrder
<1> QED
  BY <1>1, <1>2, <1>3, <1>4

LEMMA SelectIsInductive ==
  ASSUME Inductive, Select PROVE Inductive' /\ [Gate!Next]_(Gate!vars)
<1> USE DEF history, Gate!vars
<1>0. now \in Later
  BY DEF Inductive, TypeOK, Later
<1> PICK ref \in Ref :
    \/ \E item \in Item :
          \/ SelectRefused(ref, item)
          \/ \E at \in Later :
                \/ SelectStartsComparison(ref, item, at)
                \/ \E result \in AuthorResult : SelectRetries(ref, item, result, at)
    \/ \E queue \in BatchInput :
          \/ BatchRefused(ref, queue)
          \/ \E at \in Later : BatchStartsComparison(ref, queue, at)
  BY DEF Select
<1>1. ASSUME NEW item \in Item, SelectRefused(ref, item)
      PROVE  Inductive' /\ [Gate!Next]_(Gate!vars)
  BY <1>0, <1>1, QuietStep, LookupShape DEF SelectRefused
<1>2. ASSUME NEW queue \in BatchInput, BatchRefused(ref, queue)
      PROVE  Inductive' /\ [Gate!Next]_(Gate!vars)
  <2>1. selection' \in {selection, NoSelection}
    BY <1>2, LookupShape DEF BatchRefused
  <2> QED
    BY <1>0, <1>2, <2>1, QuietStep DEF BatchRefused
<1>3. ASSUME NEW item \in Item, NEW at \in Later, SelectStartsComparison(ref, item, at)
      PROVE  Inductive' /\ [Gate!Next]_(Gate!vars)
  <2>1. ref = selection.ref /\ item \in selection.items \ selection.done
    BY <1>3, OfferedIsOpen DEF SelectStartsComparison
  <2>2. InOrder(selection, <<item>>, 1)
    BY <1>3, <2>1 DEF InOrder, SelectStartsComparison, Retryable
  <2>3. <<item>> \in Seq(Item) /\ <<item>> # <<>> /\ Len(<<item>>) = 1 /\ ref \in Nat
    BY DEF Ref
  <2>4. IsInjective(<<item>>)
    BY DEF IsInjective
  <2> QED
    BY <1>3, <2>1, <2>2, <2>3, <2>4, LookupStep DEF SelectStartsComparison
<1>4. ASSUME NEW queue \in BatchInput, NEW at \in Later,
             BatchStartsComparison(ref, queue, at)
      PROVE  Inductive' /\ [Gate!Next]_(Gate!vars)
  <2>1. queue \in Seq(Item) /\ queue # <<>> /\ IsInjective(queue)
    BY <1>4 DEF BatchStartsComparison, CanSelectAll, ValidBatch
  <2>2. \A i \in DOMAIN queue :
          /\ ref = selection.ref
          /\ queue[i] \in selection.items \ (selection.done \cup selection.retry)
    BY <1>4 DEF BatchStartsComparison, CanSelectAll, Retryable, CanSelect
  <2>3. 1 \in DOMAIN queue /\ \A i \in DOMAIN queue : ~(i < 1)
    BY <2>1
  <2>4. ref \in Nat /\ ref # NoRef
    BY DEF Ref
  <2> QED
    BY <1>4, <2>1, <2>2, <2>3, <2>4, LookupStep DEF BatchStartsComparison, InOrder
<1>5. ASSUME NEW item \in Item, NEW at \in Later, NEW result \in AuthorResult,
             SelectRetries(ref, item, result, at)
      PROVE  Inductive' /\ [Gate!Next]_(Gate!vars)
  BY <1>5, SelectRetriesStep
<1> QED
  BY <1>1, <1>2, <1>3, <1>4, <1>5

LEMMA ConfirmIsInductive ==
  ASSUME Inductive, Confirm PROVE Inductive' /\ [Gate!Next]_(Gate!vars)
<1> USE DEF history, Gate!vars
<1>0. now \in Later
  BY DEF Inductive, TypeOK, Later
<1>1. ASSUME NEW ref \in Ref, ConfirmOutdatedReplay(ref)
      PROVE  Inductive' /\ [Gate!Next]_(Gate!vars)
  BY <1>0, <1>1, QuietStep DEF ConfirmOutdatedReplay
<1>2. ASSUME NEW ref \in Ref, ConfirmExpired(ref)
      PROVE  Inductive' /\ [Gate!Next]_(Gate!vars)
  BY <1>0, <1>2, QuietStep DEF ConfirmExpired, ReplayAfter
<1>3. ASSUME NEW ref \in Ref, ConfirmWithoutSelection(ref)
      PROVE  Inductive' /\ [Gate!Next]_(Gate!vars)
  BY <1>0, <1>3, QuietStep, LookupShape DEF ConfirmWithoutSelection, ReplayAfter
<1>4. ASSUME ConfirmMisshapen
      PROVE  Inductive' /\ [Gate!Next]_(Gate!vars)
  BY <1>0, <1>4, QuietStep DEF ConfirmMisshapen
<1> QED
  BY <1>1, <1>2, <1>3, <1>4, ConfirmNoneFitStep, ConfirmNoneFitRaisesStep,
     ConfirmOtherStep DEF Confirm

\* Appending to a sequence of one element.
LEMMA AppendOne ==
  ASSUME NEW S, NEW a \in S, NEW b \in S
  PROVE  Append(<<a>>, b) = <<a, b>> /\ Len(<<a>>) = 1 /\ Len(<<a, b>>) = 2
<1>1. /\ <<a>> \in Seq(S) /\ <<a, b>> \in Seq(S)
      /\ Len(<<a>>) = 1 /\ Len(<<a, b>>) = 2
  OBVIOUS
<1>2. /\ Append(<<a>>, b) \in Seq(S) /\ Len(Append(<<a>>, b)) = 2
      /\ Append(<<a>>, b)[1] = a /\ Append(<<a>>, b)[2] = b
  BY <1>1
<1>3. \A i \in 1 .. 2 : Append(<<a>>, b)[i] = <<a, b>>[i]
  BY <1>2
<1> QED
  BY <1>1, <1>2, <1>3, SeqEqual

LEMMA StructureThenGrounding ==
  /\ Append(<<"structure">>, "grounding") = <<"structure", "grounding">>
  /\ Len(<<"structure", "grounding">>) = 2 /\ Len(<<"structure">>) = 1
<1>1. "structure" \in Stage /\ "grounding" \in Stage
  BY DEF Stage
<1> QED
  BY <1>1, AppendOne, Zenon

\* An acceptance keeps the review's ref and time and starts its budget anew.
LEMMA AcceptedShape ==
  ASSUME NEW rv \in PendingSemanticReview, NEW split \in Nat,
         NEW out, out = AcceptedForSelection(rv, split)
  PROVE  /\ out \in PendingSemanticReview
         /\ out.ref = rv.ref /\ out.expires = rv.expires
         /\ out.stages = <<>> /\ out.attempts = 0
         /\ out.accepted /\ out.split = split
<1>1. 0 \in Nat /\ TRUE \in BOOLEAN /\ <<>> \in Seq(Stage)
  OBVIOUS
<1>2. out = [rv EXCEPT !.accepted = TRUE, !.attempts = 0, !.stages = <<>>,
                       !.split = split]
  BY DEF AcceptedForSelection
<1>3. out \in PendingSemanticReview
  BY <1>1, <1>2, Zenon DEF PendingSemanticReview
<1>4. /\ out.ref = rv.ref /\ out.expires = rv.expires
      /\ out.stages = <<>> /\ out.attempts = 0
      /\ out.accepted /\ out.split = split
  BY <1>2 DEF PendingSemanticReview
<1> QED
  BY <1>3, <1>4

\* A correction is offered within the budget, or the review is over.
LEMMA InvalidShape ==
  ASSUME NEW rv \in PendingSemanticReview, NEW stage,
         rv.attempts = Len(rv.stages),
         NEW out, out = AfterInvalidSubmission(rv, stage), out # NoReview
  PROVE  /\ out \in PendingSemanticReview
         /\ out.ref = rv.ref /\ out.accepted = rv.accepted /\ out.expires = rv.expires
         /\ out.split = rv.split
         /\ out.attempts <= 2 /\ out.attempts = Len(out.stages)
         /\ out.stages \in
              {<<>>, <<"structure">>, <<"grounding">>, <<"structure", "grounding">>}
<1>1. /\ StageAllowed(rv.stages, stage)
      /\ out = [rv EXCEPT !.attempts = rv.attempts + 1,
                          !.stages = Append(rv.stages, stage)]
  BY DEF AfterInvalidSubmission
<1>2. /\ stage \in Stage /\ rv.stages \in Seq(Stage)
      /\ rv.attempts \in Nat
  BY <1>1 DEF StageAllowed, PendingSemanticReview
<1>3. /\ Append(rv.stages, stage) \in Seq(Stage)
      /\ Len(Append(rv.stages, stage)) = Len(rv.stages) + 1
  BY <1>2
<1>4. out \in PendingSemanticReview
  <2>1. rv.attempts + 1 \in Nat
    BY <1>2
  <2> QED
    BY <1>1, <1>3, <2>1, Zenon DEF PendingSemanticReview
<1>5. /\ out.ref = rv.ref /\ out.accepted = rv.accepted /\ out.expires = rv.expires
      /\ out.split = rv.split
      /\ out.stages = Append(rv.stages, stage) /\ out.attempts = rv.attempts + 1
  BY <1>1 DEF PendingSemanticReview
<1>6. CASE rv.stages = <<>>
  <2>1. Append(<<>>, stage) = <<stage>> /\ Len(<<stage>>) = 1
    BY <1>2
  <2>2. out.stages \in {<<"structure">>, <<"grounding">>}
    BY <1>2, <1>5, <1>6, <2>1 DEF Stage
  <2>3. out.attempts = 1 /\ Len(out.stages) = 1
    BY <1>3, <1>5, <1>6, <2>1
  <2> QED
    BY <1>4, <1>5, <2>2, <2>3
<1>7. CASE rv.stages = <<"structure">> /\ stage = "grounding"
  <2>1. out.stages = <<"structure", "grounding">>
    BY <1>5, <1>7, StructureThenGrounding
  <2>2. rv.attempts = 1
    BY <1>7, StructureThenGrounding
  <2>3. out.attempts = 2 /\ Len(out.stages) = 2
    BY <1>5, <2>1, <2>2, StructureThenGrounding
  <2> QED
    BY <1>4, <1>5, <2>1, <2>3
<1> QED
  BY <1>1, <1>6, <1>7 DEF StageAllowed

\* A submission that fails, and may have opened an amendment.
LEMMA SubmitInvalidStep ==
  ASSUME Inductive, NEW ref \in Ref, NEW sel \in Ref \cup {NoRef},
         NEW stage \in Stage \cup {"none"}, SubmitInvalid(ref, sel, stage)
  PROVE  Inductive'
<1> USE DEF Inductive
<1>0. OnlyReview /\ now' \in Nat
  BY DEF SubmitInvalid, OnlyReview, history, TypeOK
<1> DEFINE rv == IF sel = NoRef THEN review ELSE AmendmentStarted(review)
<1>1. rv \in {review, [review EXCEPT !.attempts = 0, !.amending = TRUE, !.stages = <<>>]}
  BY DEF AmendmentStarted
<1>2. /\ rv \in PendingSemanticReview
      /\ rv.ref = review.ref /\ rv.accepted = review.accepted
      /\ rv.expires = review.expires /\ rv.split = review.split
      /\ rv.attempts = Len(rv.stages)
  <2>1. review \in PendingSemanticReview /\ <<>> \in Seq(Stage) /\ Len(<<>>) = 0
    BY DEF TypeOK
  <2>2. review.attempts = Len(review.stages)
    BY DEF ReviewInv
  <2>3. rv \in PendingSemanticReview
    <3>1. 0 \in Nat /\ TRUE \in BOOLEAN
      OBVIOUS
    <3> QED
      BY <1>1, <2>1, <3>1, Zenon DEF PendingSemanticReview
  <2>4. /\ rv.ref = review.ref /\ rv.accepted = review.accepted
        /\ rv.expires = review.expires /\ rv.split = review.split
        /\ rv.attempts = Len(rv.stages)
    <3>1. CASE rv = review
      BY <2>2, <3>1
    <3>2. CASE rv = [review EXCEPT !.attempts = 0, !.amending = TRUE, !.stages = <<>>]
      BY <2>1, <3>2 DEF PendingSemanticReview
    <3> QED
      BY <1>1, <3>1, <3>2
  <2> QED
    BY <2>3, <2>4
<1>3. review' = AfterInvalidSubmission(rv, stage)
  BY DEF SubmitInvalid
<1> HIDE DEF rv
<1>4. CASE review' = NoReview
  <2>1. review'.ref <= minted /\ review'.attempts <= 2
    BY <1>4, EmptyRecords DEF TypeOK
  <2> QED
    BY <1>0, <1>4, <2>1, EmptyRecords, NoReviewInv, ReviewStep
<1>5. CASE review' # NoReview
  <2>1. /\ review' \in PendingSemanticReview
        /\ review'.ref = review.ref /\ review'.accepted = review.accepted
        /\ review'.expires = review.expires /\ review'.split = review.split
        /\ review'.attempts <= 2 /\ review'.attempts = Len(review'.stages)
        /\ CorrectionOrder'
    BY <1>2, <1>3, <1>5, InvalidShape DEF CorrectionOrder
  <2>2. ReviewInv'
    BY <1>0, <2>1 DEF OnlyReview, ReviewInv, AmendmentIsSafe
  <2> QED
    BY <1>0, <2>1, <2>2, ReviewStep DEF RefsInv
<1> QED
  BY <1>4, <1>5

LEMMA SubmitSplitStep ==
  ASSUME Inductive, NEW ref \in Ref, NEW sel \in Ref \cup {NoRef},
         NEW items \in Splits, NEW at \in Later, SubmitSplit(ref, sel, items, at)
  PROVE  Inductive'
<1> USE DEF SubmitSplit
<1>1. Len(<<>>) = 0 /\ <<>> \in Seq(Stage)
  OBVIOUS
<1>2. /\ now \in Nat /\ minted \in Nat /\ 0 <= now + Ttl /\ 0 <= minted
      /\ review \in PendingSemanticReview
      /\ review.ref <= minted /\ review.expires <= now + Ttl
  BY NatSum DEF Inductive, TypeOK, RefsInv, ReviewInv
<1>3. CASE review' = NoReview
  BY <1>1, <1>2, <1>3, EmptyRecords, SplitStep DEF CorrectionOrder
<1>4. CASE review' = AcceptedForSelection(review, minted')
  <2>1. /\ review' \in PendingSemanticReview
        /\ review'.ref = review.ref /\ review'.expires = review.expires
        /\ review'.stages = <<>> /\ review'.attempts = 0
        /\ review'.accepted /\ review'.split = minted'
    <3>1. minted' \in Nat
      BY <1>2 DEF Split
    <3> QED
      BY <1>2, <1>4, <3>1, AcceptedShape
  <2> QED
    BY <1>1, <1>2, <2>1, SplitStep DEF CorrectionOrder
<1> QED
  BY <1>3, <1>4

\* A first submission that is accepted and then has its split refused.
LEMMA SubmitSplitRefusedStep ==
  ASSUME Inductive, NEW ref \in Ref, SubmitSplitRefused(ref)
  PROVE  Inductive'
<1> USE DEF Inductive
<1>0. OnlyReview
  BY DEF SubmitSplitRefused, OnlyReview, history
<1>1. /\ review' \in PendingSemanticReview
      /\ review'.ref = review.ref /\ review'.expires = review.expires
      /\ review'.stages = <<>> /\ review'.attempts = 0 /\ review'.split = NoRef
  <2>1. NoRef \in Nat /\ review \in PendingSemanticReview
    BY DEF TypeOK
  <2>2. review' = AcceptedForSelection(review, NoRef)
    BY DEF SubmitSplitRefused
  <2> QED
    BY <2>1, <2>2, AcceptedShape
<1>2. ReviewInv'
  <2>1. Len(<<>>) = 0
    OBVIOUS
  <2> QED
    BY <1>0, <1>1, <2>1 DEF OnlyReview, ReviewInv, CorrectionOrder, AmendmentIsSafe
<1> QED
  BY <1>0, <1>1, <1>2, ReviewStep DEF RefsInv

LEMMA ReviewIsInductive ==
  ASSUME Inductive, Review PROVE Inductive' /\ UNCHANGED history
<1> USE DEF history
<1>0. now \in Later
  BY DEF Inductive, TypeOK, Later
<1>1. ASSUME NEW ref \in Ref, ReviewExpires(ref) PROVE Inductive' /\ UNCHANGED history
  BY <1>0, <1>1, QuietStep DEF ReviewExpires
<1>2. ASSUME NEW ref \in Ref, PrepareReview(ref) PROVE Inductive' /\ UNCHANGED history
  <2>1. /\ review' \in PendingSemanticReview
        /\ review'.ref = review.ref /\ review'.accepted = review.accepted
        /\ review'.expires = review.expires /\ review'.attempts = review.attempts
        /\ review'.stages = review.stages /\ review'.split = review.split
    BY <1>2 DEF PrepareReview, Inductive, TypeOK, PendingSemanticReview
  <2>2. OnlyReview /\ review'.ref <= minted /\ review'.attempts <= 2
    BY <1>2, <2>1 DEF OnlyReview, PrepareReview, Inductive, TypeOK, RefsInv
  <2>3. ReviewInv'
    BY <2>1, <2>2 DEF OnlyReview, Inductive, ReviewInv, CorrectionOrder, AmendmentIsSafe
  <2> QED
    BY <1>2, <2>1, <2>2, <2>3, ReviewStep DEF PrepareReview
<1>3. ASSUME NEW ref \in Ref, NEW item \in Item, NEW at \in Later,
             SubmitOneItem(ref, item, at)
      PROVE  Inductive' /\ UNCHANGED history
  <2>1. <<item>> \in Seq(Item) /\ <<item>> # <<>> /\ Len(<<item>>) = 1
    OBVIOUS
  <2>2. IsInjective(<<item>>)
    BY DEF IsInjective
  <2> QED
    BY <1>3, <2>1, <2>2, LookupStep DEF SubmitOneItem
<1>4. ASSUME NEW ref \in Ref, NEW sel \in Ref \cup {NoRef}, SubmitEnds(ref, sel)
      PROVE  Inductive' /\ UNCHANGED history
  BY <1>0, <1>4, QuietStep DEF SubmitEnds
<1>5. ASSUME NEW ref \in Ref, NEW sel \in Ref \cup {NoRef},
             NEW stage \in Stage \cup {"none"}, SubmitInvalid(ref, sel, stage)
      PROVE  Inductive' /\ UNCHANGED history
  BY <1>5, SubmitInvalidStep DEF SubmitInvalid
<1>6. ASSUME NEW ref \in Ref, NEW sel \in Ref \cup {NoRef},
             NEW items \in Splits, NEW at \in Later, SubmitSplit(ref, sel, items, at)
      PROVE  Inductive' /\ UNCHANGED history
  BY <1>6, SubmitSplitStep DEF SubmitSplit
<1>7. ASSUME NEW ref \in Ref, SubmitSplitRefused(ref)
      PROVE  Inductive' /\ UNCHANGED history
  BY <1>7, SubmitSplitRefusedStep DEF SubmitSplitRefused
<1>8. ASSUME ReviewDiscarded PROVE Inductive' /\ UNCHANGED history
  BY <1>0, <1>8, QuietStep DEF ReviewDiscarded
<1> QED
  BY <1>1, <1>2, <1>3, <1>4, <1>5, <1>6, <1>7, <1>8 DEF Review

\* Every step keeps the invariant and is a step of the gate or leaves its state.
THEOREM NextInductive ==
  Inductive /\ [Next]_vars => Inductive' /\ [Gate!Next]_(Gate!vars)
<1> SUFFICES ASSUME Inductive, [Next]_vars
             PROVE  Inductive' /\ [Gate!Next]_(Gate!vars)
  OBVIOUS
<1> USE DEF history, pending, Gate!vars
<1>0. now \in Later
  BY DEF Inductive, TypeOK, Later
<1>1. CASE UNCHANGED vars
  BY <1>0, <1>1, QuietStep DEF vars
<1>2. CASE Tick
  <2>1. now' \in Later
    BY <1>2 DEF Tick, Inductive, TypeOK, Later
  <2> QED
    BY <1>2, <2>1, QuietStep DEF Tick
<1>3. CASE Restart
  BY <1>0, <1>3, QuietStep DEF Restart
<1>4. CASE Draft
  BY <1>4, DraftIsInductive
<1>5. CASE Select
  BY <1>5, SelectIsInductive
<1>6. CASE Confirm
  BY <1>6, ConfirmIsInductive
<1>7. CASE Review
  BY <1>7, ReviewIsInductive
<1> QED
  BY <1>1, <1>2, <1>3, <1>4, <1>5, <1>6, <1>7 DEF Next

----
(* The results.                                                           *)

\* Inductive holds of every reachable state, for any items, times and bounds.
THEOREM SpecInductive == Spec => []Inductive
<1>1. Inductive /\ [Next]_vars => Inductive'
  BY NextInductive
<1> QED
  BY InitInductive, <1>1, PTL DEF Spec

\* The records keep their types and the correction budget is never overdrawn.
THEOREM TypeCorrect == Spec => []TypeOK
<1>1. Inductive => TypeOK
  BY DEF Inductive
<1> QED
  BY SpecInductive, <1>1, PTL

\* No item is ever written twice.
THEOREM AtMostOneBundle == Spec => []OneBundlePerItem
<1>1. Inductive => OneBundlePerItem
  BY DEF Inductive, HistoryInv
<1> QED
  BY SpecInductive, <1>1, PTL

\* No bundle without the operator's none_fit.
THEOREM BundlesAreCleared == Spec => []BundleNeedsNoneFit
<1>1. Inductive => BundleNeedsNoneFit
  BY DEF Inductive, HistoryInv
<1> QED
  BY SpecInductive, <1>1, PTL

\* An item settled otherwise is never drafted.
THEOREM RejectedStaysRejected == Spec => []RejectedNeverDrafted
<1>1. Inductive => RejectedNeverDrafted
  BY DEF Inductive, HistoryInv
<1> QED
  BY SpecInductive, <1>1, PTL

\* A batch comparison stands where the recorded decisions say.
THEOREM BatchInOrder == Spec => []QueueInOrder
<1>1. Inductive => QueueInOrder
  BY DEF Inductive, ComparisonInv
<1> QED
  BY SpecInductive, <1>1, PTL

\* The selection remembers exactly the decisions that completed.
THEOREM DecisionsAreKept == Spec => []DecisionsKept
<1>1. Inductive => DecisionsKept
  BY DEF Inductive, SelectionInv
<1> QED
  BY SpecInductive, <1>1, PTL

\* A replay never answers for an open comparison.
THEOREM ReplayIsOfTheSettled == Spec => []ReplayNeverShadows
<1>1. Inductive => ReplayNeverShadows
  BY DEF Inductive, ComparisonInv
<1> QED
  BY SpecInductive, <1>1, PTL

\* A review that split a ticket finds its own selection young, untouched and
\* not under comparison when it is amended.
THEOREM AmendmentsAreSafe == Spec => []AmendmentIsSafe
<1>1. Inductive => AmendmentIsSafe
  BY DEF Inductive, ReviewInv
<1> QED
  BY SpecInductive, <1>1, PTL

\* Corrections keep their order.
THEOREM CorrectionsInOrder == Spec => []CorrectionOrder
<1>1. Inductive => CorrectionOrder
  BY DEF Inductive, ReviewInv
<1> QED
  BY SpecInductive, <1>1, PTL

\* The workflow implements the gate promised to the operator.
THEOREM WorkflowImplementsGate == Spec => GateSpec
<1>1. Init => Gate!Init
  BY DEF Init, Gate!Init
<1>2. Inductive /\ [Next]_vars => [Gate!Next]_(Gate!vars)
  BY NextInductive
<1> QED
  BY SpecInductive, <1>1, <1>2, PTL DEF Spec, GateSpec, Gate!Spec

\* The bundle a step appends is the last one.
LEMMA LastAppended ==
  ASSUME TypeOK, NEW key \in ItemKey, NEW result, RecordAuthored(key, result),
         bundles' # bundles
  PROVE  bundles'[Len(bundles')] = key
<1>1. bundles' = Append(bundles, key) /\ bundles \in Seq(ItemKey)
  BY DEF RecordAuthored, TypeOK
<1> QED
  BY <1>1, AppendProperties

LEMMA WritesAreAuthorised ==
  ASSUME Inductive, [Next]_vars, bundles' # bundles
  PROVE  Authorised(bundles'[Len(bundles')])
<1> USE DEF history
<1>1. ASSUME NEW ref \in Ref, NEW item \in Item, NEW result \in AuthorResult,
             NEW at \in Later, SelectRetries(ref, item, result, at)
      PROVE  Authorised(bundles'[Len(bundles')])
  <2>1. <<ref, item>> \in ItemKey
    BY <1>1, OfferedIsOpen DEF SelectRetries
  <2>2. bundles'[Len(bundles')] = <<ref, item>>
    BY <1>1, <2>1, LastAppended DEF SelectRetries, Inductive
  <2> QED
    BY <1>1, <2>2 DEF SelectRetries, CanSelect, Authorised
<1>2. ASSUME NEW ref \in Ref, NEW result \in AuthorResult, NEW at \in Later,
             ConfirmNoneFit(ref, result, at)
      PROVE  Authorised(bundles'[Len(bundles')])
  <2>1. InTime(ref) /\ StillOffered /\ RecordAuthored(Key(comparison), result)
    BY <1>2 DEF ConfirmNoneFit
  <2>2. bundles'[Len(bundles')] = Key(comparison)
    BY <2>1, CurrentIsOpen, LastAppended DEF Inductive
  <2>3. CASE Bound(comparison)
    <3>1. Key(comparison) = <<comparison.sel, Current(comparison)>>
      BY <2>3 DEF Key
    <3> QED
      BY <2>1, <2>2, <2>3, <3>1 DEF StillOffered, CanSelect, Authorised
  <2>4. CASE ~Bound(comparison)
    BY <2>1, <2>2, <2>4, CurrentIsOpen DEF InTime, Authorised
  <2> QED
    BY <2>3, <2>4
<1>3. CASE UNCHANGED vars \/ Tick \/ Restart \/ Draft \/ Review
  BY <1>3, DraftIsInductive, ReviewIsInductive DEF vars, Tick, Restart
<1>4. CASE Select
  BY <1>1, <1>4 DEF Select, SelectRefused, SelectStartsComparison, BatchRefused,
     BatchStartsComparison
<1>5. CASE Confirm
  BY <1>2, <1>5 DEF Confirm, ConfirmOutdatedReplay, ConfirmExpired,
     ConfirmWithoutSelection, ConfirmMisshapen, ConfirmNoneFitRaises, ConfirmOther
<1> QED
  BY <1>3, <1>4, <1>5 DEF Next

\* A bundle is written only while its selection or lone comparison is in time.
THEOREM BundlesInTime == Spec => WritesInTime
<1>1. Inductive /\ [Next]_vars =>
        [bundles' # bundles => Authorised(bundles'[Len(bundles')])]_vars
  BY WritesAreAuthorised
<1> QED
  BY SpecInductive, <1>1, PTL DEF Spec, WritesInTime
====
