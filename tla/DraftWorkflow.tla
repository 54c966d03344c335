---- MODULE DraftWorkflow ----
(**************************************************************************)
(* The Desktop draft workflow with an approved comparison provider, the   *)
(* composition the Desktop adapter is started in: DesktopDraftWorkflow,   *)
(* DesktopDraftArticleTool and the tool handlers in front of them. The    *)
(* process serves one request at a time, so a tool call is one step; what *)
(* a call spends in the semantic provider, the retrieval provider and the *)
(* author is time that passes inside the step (the times at and ready).   *)
(*                                                                        *)
(* Calls that are refused without touching any pending state are not      *)
(* actions: they are stuttering steps.                                    *)
(**************************************************************************)
EXTENDS ReuseComparison, SemanticReview, FiniteSets

CONSTANTS
  Ttl,          \* selection_ttl_seconds
  BatchInput,   \* operator_selected_item_refs values a client sends
  MaxRef,       \* bound: refs minted in a behaviour
  MaxTime       \* bound: the clock

ASSUME TtlAssumption == Ttl \in Nat \ {0}
ASSUME BatchInputAssumption == BatchInput \subseteq Seq(Item)
ASSUME BoundsAssumption == MaxRef \in Nat /\ MaxTime \in Nat

VARIABLES
  now,         \* time.monotonic()
  minted,      \* secrets.token_urlsafe: refs minted so far, never one twice
  selection,   \* DesktopDraftWorkflow._pending_selection
  comparison,  \* DesktopDraftWorkflow._pending_reuse_comparison
  review,      \* DesktopDraftWorkflow._pending_semantic_review
  replay,      \* DesktopDraftArticleTool._last_reuse_comparison_replay
  \* What the operator decided and what was written, by item key.
  cleared,     \* confirmed none_fit
  rejected,    \* confirmed reuse, update or need_more_evidence
  closed,      \* completed: drafted, or blocked for good
  bundles      \* the reviewer bundles on disk, in the order written

pending == <<selection, comparison, review, replay>>
history == <<cleared, rejected, closed, bundles>>
vars == <<now, minted, pending, history>>

Ref   == 1 .. MaxRef
Later == now .. MaxTime

\* An item is named by the ref of its selection, or of its lone comparison.
ItemKey == Ref \X Item

\* Two candidates or more are a split.
Splits == {items \in SUBSET Item : Cardinality(items) > 1}

\* _author_candidate: the closed taxonomy of candidate_result_outcome, or an
\* exception out of the author.
AuthorResult ==
  {"completed_draft", "completed_blocked", "blocked_retryable",
   "workflow_stopped", "raised"}

Init ==
  /\ now = 0
  /\ minted = 0
  /\ selection = NoSelection
  /\ comparison = NoComparison
  /\ review = NoReview
  /\ replay = NoReplay
  /\ cleared = {} /\ rejected = {} /\ closed = {} /\ bundles = <<>>

Tick ==
  /\ now < MaxTime
  /\ now' = now + 1
  /\ UNCHANGED <<minted, pending, history>>

\* The process ends between two requests and a new one is started: only what
\* was written remains.
Restart ==
  /\ selection' = NoSelection
  /\ comparison' = NoComparison
  /\ review' = NoReview
  /\ replay' = NoReplay
  /\ UNCHANGED <<now, minted, history>>

----
(* Operations shared by the handlers.                                     *)

\* start_pending_reuse_comparison: the provider answers at time at. Only usable
\* evidence leaves a pending comparison, and either answer replaces the old one.
Lookup(sel, queue, index, at) ==
  /\ now' = at
  /\ \/ /\ minted < MaxRef
        /\ minted' = minted + 1
        /\ comparison' = NewComparison(minted', sel, queue, index, at + Ttl)
     \/ /\ comparison' = NoComparison
        /\ UNCHANGED minted

\* start_pending_selection
Split(items, at) ==
  /\ minted < MaxRef
  /\ now' = at
  /\ minted' = minted + 1
  /\ selection' = NewSelection(minted', items, at + Ttl)

\* The authoring result of one item as the history sees it.
RecordAuthored(key, result) ==
  /\ closed' = IF result \in Completing THEN closed \cup {key} ELSE closed
  /\ bundles' = IF result = "completed_draft" THEN Append(bundles, key) ELSE bundles
  /\ UNCHANGED rejected

----
(* kcs_draft_article and kcs_draft_ticket. Every recognised call shape    *)
(* first clears the pending semantic review.                              *)

\* A summary or ticket that yields nothing to decide: invalid input, no
\* provider, no candidate, a semantic review packet or a search request that
\* cannot be built. (So does naming items of which no request can be built.)
DraftNothing(at) ==
  /\ now' = at
  /\ review' = NoReview
  /\ UNCHANGED <<minted, selection, comparison, replay, history>>

DraftStartsReview(at) ==
  /\ minted < MaxRef
  /\ now' = at
  /\ minted' = minted + 1
  /\ review' = NewReview(minted', at + Ttl)
  /\ UNCHANGED <<selection, comparison, replay, history>>

DraftOneItem(item, at) ==
  /\ Lookup(NoRef, <<item>>, 1, at)
  /\ review' = NoReview
  /\ UNCHANGED <<selection, replay, history>>

DraftSplit(items, at) ==
  /\ Split(items, at)
  /\ review' = NoReview
  /\ UNCHANGED <<comparison, replay, history>>

\* Mutant: every item may be drafted with resolution steps.
RetryableAnyItem(item) == TRUE

\* selected_candidate_is_retryable
Retryable(item) == item \in selection.retry

\* operator_selected_item_ref naming nothing that can be drafted now.
SelectRefused(ref, item) ==
  /\ ~CanSelect(selection, ref, item, now)
  /\ selection' = AfterLookup(selection, now)
  /\ review' = NoReview
  /\ UNCHANGED <<now, minted, comparison, replay, history>>

\* Mutant: the pending review survives a selection.
SelectKeepsReview(ref, item, at) ==
  /\ CanSelect(selection, ref, item, now)
  /\ ~Retryable(item)
  /\ Lookup(ref, <<item>>, 1, at)
  /\ UNCHANGED <<selection, review, replay, history>>

SelectStartsComparison(ref, item, at) ==
  /\ CanSelect(selection, ref, item, now)
  /\ ~Retryable(item)
  /\ Lookup(ref, <<item>>, 1, at)
  /\ review' = NoReview
  /\ UNCHANGED <<selection, replay, history>>

\* A retryable item goes to the author again with the operator's resolution
\* steps, without a second comparison.
SelectRetries(ref, item, result, at) ==
  /\ CanSelect(selection, ref, item, now)
  /\ Retryable(item)
  /\ now' = at
  /\ selection' = AfterOutcome(selection, item, result)
  /\ RecordAuthored(<<ref, item>>, result)
  /\ review' = NoReview
  /\ UNCHANGED <<minted, comparison, replay, cleared>>

\* Mutant: the retryable items are not looked at.
CanSelectAllRetryablesToo(ref, queue) ==
  /\ ValidBatch(queue)
  /\ \A i \in DOMAIN queue : CanSelect(selection, ref, queue[i], now)

\* _validated_batch_selection: the shape and the retryable items are looked at
\* before the selection's age.
CanSelectAll(ref, queue) ==
  /\ ValidBatch(queue)
  /\ \A i \in DOMAIN queue :
        ~Retryable(queue[i]) /\ CanSelect(selection, ref, queue[i], now)

BatchRefused(ref, queue) ==
  /\ ~CanSelectAll(ref, queue)
  /\ selection' = IF ValidBatch(queue) /\ ~\E i \in DOMAIN queue : Retryable(queue[i])
                  THEN AfterLookup(selection, now)
                  ELSE selection
  /\ review' = NoReview
  /\ UNCHANGED <<now, minted, comparison, replay, history>>

BatchStartsComparison(ref, queue, at) ==
  /\ CanSelectAll(ref, queue)
  /\ Lookup(ref, queue, 1, at)
  /\ review' = NoReview
  /\ UNCHANGED <<selection, replay, history>>

----
(* kcs_confirm_reuse_comparison                                           *)

\* _replayed_reuse_comparison answers, or refuses, a duplicate from memory.
Replayed(ref) == ref = replay.ref /\ now <= replay.expires

\* The replay left when it did not answer.
ReplayAfter(ref) == IF ref = replay.ref THEN NoReplay ELSE replay

\* The pending comparison a submit names, still in time.
InTime(ref) ==
  /\ ~Replayed(ref)
  /\ ref = comparison.ref
  /\ now <= comparison.expires

\* Mutant: the age of the selection is not looked at.
StillNamed ==
  Bound(comparison) =>
    /\ comparison.sel = selection.ref
    /\ Current(comparison) \in selection.items \ selection.done

\* The comparison's item is still offered by the selection it came from.
StillOffered ==
  Bound(comparison) =>
    CanSelect(selection, comparison.sel, Current(comparison), now)

\* A submit that names another ref: only an outdated replay goes.
ConfirmOutdatedReplay(ref) ==
  /\ ref = replay.ref /\ ~Replayed(ref)
  /\ ref # comparison.ref
  /\ replay' = NoReplay
  /\ UNCHANGED <<now, minted, selection, comparison, review, history>>

ConfirmExpired(ref) ==
  /\ ~Replayed(ref)
  /\ ref = comparison.ref
  /\ now > comparison.expires
  /\ comparison' = NoComparison
  /\ replay' = ReplayAfter(ref)
  /\ UNCHANGED <<now, minted, selection, review, history>>

ConfirmWithoutSelection(ref) ==
  /\ InTime(ref)
  /\ ~StillOffered
  /\ comparison' = NoComparison
  /\ selection' = AfterLookup(selection, now)
  /\ replay' = ReplayAfter(ref)
  /\ UNCHANGED <<now, minted, review, history>>

\* kcs_confirm_reuse_comparison with arguments of the wrong shape
ConfirmMisshapen ==
  /\ comparison' = NoComparison
  /\ UNCHANGED <<now, minted, selection, review, replay, history>>

\* Mutant: the ref of the comparison just started is remembered.
RememberNext ==
  replay' = [ref |-> comparison'.ref, expires |-> comparison.expires]

\* _remember_reuse_comparison
Remember == replay' = [ref |-> comparison.ref, expires |-> comparison.expires]

\* The rest of the confirm handler once the item's outcome is known: sel is the
\* selection with the outcome recorded. If the queue goes on, the next item is
\* looked up in the selection at time at. A selection that ran out meanwhile
\* raises, and so does an item no search request can be built from
\* (comparison_symptoms): nothing is remembered then.
Proceed(sel, outcome, at) ==
  LET next == comparison.queue[comparison.index + 1]
      goesOn == outcome # "workflow_stopped" /\ HasNext(comparison)
  IN
  \/ /\ ~goesOn
     /\ now' = at
     /\ comparison' = NoComparison
     /\ selection' = sel
     /\ Remember
     /\ UNCHANGED minted
  \/ /\ goesOn
     /\ CanSelect(sel, comparison.sel, next, at)
     /\ \E ready \in at .. MaxTime :
           Lookup(comparison.sel, comparison.queue, comparison.index + 1, ready)
     /\ selection' = sel
     /\ Remember
  \/ /\ goesOn
     /\ now' = at
     /\ comparison' = NoComparison
     /\ selection' = AfterLookup(sel, at)
     /\ UNCHANGED <<minted, replay>>

\* _record_comparison_selection_outcome
Recorded(outcome) ==
  IF Bound(comparison)
  THEN AfterOutcome(selection, Current(comparison), outcome)
  ELSE selection

ConfirmNoneFit(ref, result, at) ==
  /\ InTime(ref) /\ StillOffered
  /\ result # "raised"
  /\ cleared' = cleared \cup {Key(comparison)}
  /\ RecordAuthored(Key(comparison), result)
  /\ Proceed(Recorded(result), result, at)
  /\ UNCHANGED review

\* The author raised: the comparison is consumed and nothing else happened.
ConfirmNoneFitRaises(ref, at) ==
  /\ InTime(ref) /\ StillOffered
  /\ now' = at
  /\ cleared' = cleared \cup {Key(comparison)}
  /\ comparison' = NoComparison
  /\ UNCHANGED <<minted, selection, review, replay, rejected, closed, bundles>>

ConfirmOther(ref, outcome) ==
  /\ InTime(ref) /\ StillOffered
  /\ outcome # "none_fit"
  /\ rejected' = rejected \cup {Key(comparison)}
  /\ closed' = closed \cup {Key(comparison)}
  /\ Proceed(Recorded("completed_blocked"), "completed_blocked", now)
  /\ UNCHANGED <<review, cleared, bundles>>

----
(* kcs_prepare_semantic_review and kcs_submit_semantic_review             *)

ReviewFor(ref) == ref = review.ref /\ now < review.expires

ReviewExpires(ref) ==
  /\ ref = review.ref
  /\ review.expires <= now
  /\ review' = NoReview
  /\ UNCHANGED <<now, minted, selection, comparison, replay, history>>

PrepareReview(ref) ==
  /\ ReviewFor(ref)
  /\ ~review.prepared
  /\ review' = [review EXCEPT !.prepared = TRUE]
  /\ UNCHANGED <<now, minted, selection, comparison, replay, history>>

\* _active_selection_for_semantic_amendment: the age of the selection is not
\* looked at here, only its ref and that no item was decided.
Amends(sel) ==
  /\ review.accepted
  /\ selection.ref # NoRef
  /\ sel = selection.ref
  /\ selection.done = {} /\ selection.retry = {}

\* A submission that reaches the proposal: sel is the selection it amends, or
\* NoRef for the first submission of a review.
Admitted(ref, sel) ==
  /\ ReviewFor(ref)
  /\ review.prepared
  /\ IF sel = NoRef THEN ~review.accepted ELSE Amends(sel)

SubmitInvalid(ref, sel, stage) ==
  /\ Admitted(ref, sel)
  /\ review' = AfterInvalidSubmission(
                 IF sel = NoRef THEN review ELSE AmendmentStarted(review), stage)
  /\ UNCHANGED <<now, minted, selection, comparison, replay, history>>

\* No draftable issue, an ambiguous boundary, an item no search request can be
\* built from, or an amendment that no longer splits: the review ends and an
\* amended selection stays as it was.
SubmitEnds(ref, sel) ==
  /\ Admitted(ref, sel)
  /\ review' = NoReview
  /\ UNCHANGED <<now, minted, selection, comparison, replay, history>>

SubmitOneItem(ref, item, at) ==
  /\ Admitted(ref, NoRef)
  /\ Lookup(NoRef, <<item>>, 1, at)
  /\ review' = NoReview
  /\ UNCHANGED <<selection, replay, history>>

SubmitSplit(ref, sel, items, at) ==
  /\ Admitted(ref, sel)
  /\ Split(items, at)
  /\ review' = IF sel = NoRef THEN AcceptedForSelection(review, minted')
               ELSE NoReview
  /\ UNCHANGED <<comparison, replay, history>>

\* A first submission that splits, one of whose issues is called "all": the
\* review is marked accepted before start_pending_selection refuses that ref, so
\* it stays accepted without a selection of its own. (An amendment ends first.)
SubmitSplitRefused(ref) ==
  /\ Admitted(ref, NoRef)
  /\ review' = AcceptedForSelection(review, NoRef)
  /\ UNCHANGED <<now, minted, selection, comparison, replay, history>>

\* kcs_submit_semantic_review with arguments of the wrong shape, and
\* kcs_register_clean_ticket
ReviewDiscarded ==
  /\ review' = NoReview
  /\ UNCHANGED <<now, minted, selection, comparison, replay, history>>

----
Draft ==
  \E at \in Later :
    \/ DraftNothing(at)
    \/ DraftStartsReview(at)
    \/ \E item \in Item : DraftOneItem(item, at)
    \/ \E items \in Splits : DraftSplit(items, at)

Select ==
  \E ref \in Ref :
    \/ \E item \in Item :
          \/ SelectRefused(ref, item)
          \/ \E at \in Later :
                \/ SelectStartsComparison(ref, item, at)
                \/ \E result \in AuthorResult : SelectRetries(ref, item, result, at)
    \/ \E queue \in BatchInput :
          \/ BatchRefused(ref, queue)
          \/ \E at \in Later : BatchStartsComparison(ref, queue, at)

Confirm ==
  \/ \E ref \in Ref :
        \/ ConfirmOutdatedReplay(ref)
        \/ ConfirmExpired(ref)
        \/ ConfirmWithoutSelection(ref)
        \/ \E at \in Later :
              \/ \E result \in AuthorResult : ConfirmNoneFit(ref, result, at)
              \/ ConfirmNoneFitRaises(ref, at)
        \/ \E outcome \in Outcome : ConfirmOther(ref, outcome)
  \/ ConfirmMisshapen

Review ==
  \/ \E ref \in Ref :
        \/ ReviewExpires(ref)
        \/ PrepareReview(ref)
        \/ SubmitSplitRefused(ref)
        \/ \E item \in Item, at \in Later : SubmitOneItem(ref, item, at)
        \/ \E sel \in Ref \cup {NoRef} :
              \/ \E stage \in Stage \cup {"none"} : SubmitInvalid(ref, sel, stage)
              \/ SubmitEnds(ref, sel)
              \/ \E items \in Splits, at \in Later :
                    SubmitSplit(ref, sel, items, at)
  \/ ReviewDiscarded

Next == Tick \/ Restart \/ Draft \/ Select \/ Confirm \/ Review

Spec == Init /\ [][Next]_vars

----
(* Properties                                                             *)

\* Every variable has its type, and the correction count never passes two
\* (failed_submit_attempts, desktop_workflow.py).
TypeOK ==
  /\ now \in 0 .. MaxTime
  /\ minted \in 0 .. MaxRef
  /\ selection \in PendingDraftSelection
  /\ comparison \in PendingReuseComparison
  /\ comparison.ref # NoRef => comparison.index \in DOMAIN comparison.queue
  /\ review \in PendingSemanticReview
  /\ review.attempts <= 2
  /\ replay \in ReuseComparisonReplay
  /\ cleared \subseteq ItemKey
  /\ rejected \subseteq ItemKey
  /\ closed \subseteq ItemKey
  /\ bundles \in Seq(ItemKey)

\* No item is written twice: a duplicate or late confirm, a retry with operator
\* evidence and a batch that revisits an item never produce a second bundle.
OneBundlePerItem ==
  \A i, j \in DOMAIN bundles : bundles[i] = bundles[j] => i = j

\* A bundle on disk is for an item the operator confirmed none_fit, also when
\* the draft came from the retry path, which asks for no second comparison.
BundleNeedsNoneFit == \A i \in DOMAIN bundles : bundles[i] \in cleared

\* An item the operator settled as reuse, update or need_more_evidence is never
\* drafted, whatever was decided about it before or is submitted later.
RejectedNeverDrafted == \A i \in DOMAIN bundles : bundles[i] \notin rejected

\* The pending comparison stands at the right place of its batch: while its
\* selection is still the current one, earlier items of the queue are done or
\* retryable, and the current and later ones are neither.
QueueInOrder ==
  Bound(comparison) /\ comparison.sel = selection.ref =>
    \A i \in DOMAIN comparison.queue :
      IF i < comparison.index
      THEN comparison.queue[i] \in selection.done \cup selection.retry
      ELSE comparison.queue[i] \in
             selection.items \ (selection.done \cup selection.retry)

\* Completed decisions are kept, and only those: the items a live selection no
\* longer offers are exactly the ones whose outcome completed.
DecisionsKept ==
  selection.ref # NoRef =>
    /\ selection.done =
         {item \in selection.items : <<selection.ref, item>> \in closed}
    /\ selection.items # selection.done

\* A replay answers before the pending comparison is looked at, so it must never
\* carry the ref of a comparison that is still open.
ReplayNeverShadows == comparison.ref # NoRef => replay.ref # comparison.ref

\* The amendment check never looks at the age of the selection nor at a pending
\* comparison; it need not when the review split the ticket: while that review is
\* open to amendment, the only selection is its own, younger than the review,
\* untouched, and without a comparison under way.
AmendmentIsSafe ==
  review.split # NoRef /\ selection.ref # NoRef =>
    /\ review.accepted
    /\ selection.ref = review.split
    /\ review.expires <= selection.expires
    /\ selection.done = {} /\ selection.retry = {}
    /\ comparison.sel # selection.ref

\* Corrections follow one another structure first and never repeat a stage.
CorrectionOrder ==
  review.stages \in
    {<<>>, <<"structure">>, <<"grounding">>, <<"structure", "grounding">>}

----
(* The inductive invariant behind these properties, by the state each part *)
(* is about. It holds of every reachable state and is what every step needs. *)

\* A ref held anywhere was minted, an absent record is the empty one, and a
\* comparison is younger than the selection it is bound to.
RefsInv ==
  /\ selection.ref <= minted /\ comparison.ref <= minted
  /\ review.ref <= minted /\ replay.ref <= minted
  /\ comparison.ref = NoRef => comparison = NoComparison
  /\ comparison.ref # NoRef =>
       comparison.sel < comparison.ref /\ comparison.ref # selection.ref
  /\ \A key \in cleared \cup closed : key[1] <= minted

\* A selection's retryable items are open items the operator has cleared.
SelectionInv ==
  /\ selection.ref = NoRef => selection = NoSelection
  /\ selection.done \subseteq selection.items
  /\ selection.retry \subseteq selection.items \ selection.done
  /\ \A item \in selection.retry : <<selection.ref, item>> \in cleared
  /\ DecisionsKept

\* A comparison without selection is about one item nobody has decided yet; one
\* with a selection has a queue without repetitions.
ComparisonInv ==
  /\ comparison.ref # NoRef /\ ~Bound(comparison) =>
       /\ ~HasNext(comparison)
       /\ \A key \in closed : key[1] # comparison.ref
  /\ IsInjective(comparison.queue)
  /\ QueueInOrder
  /\ ReplayNeverShadows

\* The history: a bundle is of a cleared item that closed as a draft.
HistoryInv ==
  /\ rejected \subseteq closed
  /\ \A i \in DOMAIN bundles : bundles[i] \in closed
  /\ OneBundlePerItem
  /\ BundleNeedsNoneFit
  /\ RejectedNeverDrafted

\* The review: its budget, and what may be amended.
ReviewInv ==
  /\ review.attempts = Len(review.stages)
  /\ review.expires <= now + Ttl
  /\ CorrectionOrder
  /\ AmendmentIsSafe

Inductive ==
  /\ TypeOK /\ RefsInv /\ SelectionInv /\ ComparisonInv /\ HistoryInv
  /\ ReviewInv

----
\* What authorises a bundle: the selection that offers the item, or the lone
\* comparison about it, still in time.
Authorised(key) ==
  \/ /\ key[1] = selection.ref
     /\ now < selection.expires
     /\ key[2] \in selection.items \ selection.done
  \/ /\ key[1] = comparison.ref
     /\ ~Bound(comparison)
     /\ now <= comparison.expires

\* A bundle is only ever written while what authorises it is in time. The time
\* is that of the call; the author may take longer.
WritesInTime ==
  [][bundles' # bundles => Authorised(bundles'[Len(bundles')])]_vars

\* The workflow implements the promise made to the operator.
Gate == INSTANCE ReuseGate WITH ItemKey <- ItemKey
GateSpec == Gate!Spec

\* kcs-15-2b2 slice plan: the workflow retains one TTL-bound successful result
\* and an equivalent duplicate replays it without another bundle write. So a
\* confirm that wrote a bundle, and ends in the comparison's time, leaves a
\* replay of that comparison.
DraftIsReplayable ==
  [][bundles' # bundles /\ comparison' # comparison
       /\ now' < comparison.expires
     => replay'.ref = comparison.ref]_vars

\* kcs-15-2b2 slice plan: unknown, stale or mismatched selection refs cannot amend
\* the list. So the selection an amendment replaces is the one the review made.
AmendsOwnSplit == \A sel \in Ref : Amends(sel) => sel = review.split

====
