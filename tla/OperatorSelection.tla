---- MODULE OperatorSelection ----
(**************************************************************************)
(* The pending operator selection of the Desktop draft workflow           *)
(* (desktop_operator_selection.py): the record kept after a ticket split  *)
(* into several issue candidates, and the pure functions that advance it. *)
(* Texts, cards and titles are abstracted; an item is its item_ref.       *)
(**************************************************************************)
EXTENDS Integers, Sequences, SequencesExt

CONSTANTS
  Item,      \* the item_refs a split may offer
  BatchMax   \* BATCH_SELECTED_ITEM_MAX_ITEMS

ASSUME BatchMaxAssumption == BatchMax \in Nat \ {0}

\* Opaque refs are modelled by numbers; 0 stands for None.
NoRef == 0

PendingDraftSelection ==
  [ref : Nat, items : SUBSET Item, done : SUBSET Item, retry : SUBSET Item,
   expires : Nat]

NoSelection ==
  [ref |-> NoRef, items |-> {}, done |-> {}, retry |-> {}, expires |-> 0]

NewSelection(ref, items, expires) ==
  [ref |-> ref, items |-> items, done |-> {}, retry |-> {}, expires |-> expires]

\* Mutant: the candidate refs are checked, the decided ones are not.
CanSelectDecidedToo(sel, ref, item, time) ==
  sel.ref # NoRef /\ time < sel.expires /\ ref = sel.ref /\ item \in sel.items

\* selected_candidate: does naming (ref, item) at this time return a candidate?
CanSelect(sel, ref, item, time) ==
  /\ sel.ref # NoRef
  /\ time < sel.expires
  /\ ref = sel.ref
  /\ item \in sel.items \ sel.done

\* What selected_candidate leaves pending: an expired selection is dropped
\* before the ref or the item is looked at.
AfterLookup(sel, time) ==
  IF sel.expires <= time THEN NoSelection ELSE sel

AfterCompletedLingering(sel, item) ==
  [sel EXCEPT !.done = @ \cup {item}, !.retry = @ \ {item}]

\* pending_selection_after_completed_candidate
AfterCompleted(sel, item) ==
  LET done == sel.done \cup {item}
  IN  IF sel.items \subseteq done
      THEN NoSelection
      ELSE [sel EXCEPT !.done = done, !.retry = @ \ {item}]

\* pending_selection_after_retryable_blocker
AfterRetryable(sel, item) == [sel EXCEPT !.retry = @ \cup {item}]

Completing == {"completed_draft", "completed_blocked"}

\* Mutant: only a draft completes an item.
AfterOutcomeDraftsOnly(sel, item, outcome) ==
  IF outcome = "completed_draft" THEN AfterCompleted(sel, item)
  ELSE IF outcome = "blocked_retryable" THEN AfterRetryable(sel, item)
  ELSE sel

\* _record_selected_candidate_outcome
AfterOutcome(sel, item, outcome) ==
  IF outcome \in Completing THEN AfterCompleted(sel, item)
  ELSE IF outcome = "blocked_retryable" THEN AfterRetryable(sel, item)
  ELSE sel

\* valid_batch_item_refs
ValidBatch(queue) ==
  /\ queue # <<>>
  /\ Len(queue) <= BatchMax
  /\ IsInjective(queue)
====
