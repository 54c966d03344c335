---- MODULE DraftResults ----
(**************************************************************************)
(* What the draft tools answer (desktop_workflow_results.py,              *)
(* desktop_reuse_comparison.py, desktop_draft_batch.py,                   *)
(* desktop_draft_output.py) and what the run accounting concludes from it *)
(* (draft_run_accounting.py). The two share nothing but strings: a result *)
(* is abstracted to the fields the accounting looks at and to the items   *)
(* it leaves to the client; its cards, counts and texts are left out, and *)
(* a debug code nothing depends on is "other".                            *)
(**************************************************************************)

\* left is what remaining_selection_ref leaves to be named by the next call: items
\* to select, items to retry only, or nothing.
Result(kind, code, ok) ==
  [kind |-> kind, code |-> code, next |-> "none", ok |-> ok, draft |-> FALSE,
   batch |-> "none", left |-> "none"]

\* The result with its next_required_action.
Asking(result, action) == [result EXCEPT !.next = action]

----
(* Results of authoring one item.                                         *)

\* draft_author_failure_result
Refused(code) == Result("authoring", code, FALSE)

\* author_failure_result: two failures tell the operator what is missing.
NoCandidates ==
  Asking(Refused("other"), "register_complete_clean_ticket_with_final_evidence")
StepsIncomplete ==
  Asking(Refused("steps_incomplete"), "add_operator_confirmed_resolution_detail")

\* ticket_author_failure_result
TicketFailures ==
  {Refused("other"), Asking(Refused("other"), "check_clean_ticket_store_and_ref"),
   Asking(Refused("other"), "rerun_clean_ticket_preparation")}

\* compact_draft_result: a draft kept in spite of quality debt is not ok.
Drafts == {[Result("authoring", "none", ok) EXCEPT !.draft = TRUE] : ok \in BOOLEAN}

\* quality_blocked_result
QualityBlocked == Asking(Refused("candidate_blocked"), "restart_with_ticket_ref")

\* finalize_author_result_with_bundle: a draft, a draft that is not ready, has no
\* HTML or cannot be written, or one whose HTML is not good enough.
Finalized == Drafts \cup {Refused("none"), Refused("other"), QualityBlocked}

\* The author's stages may refuse before, in the closed codes of the batch
\* taxonomy or in others.
Authored == Finalized \cup {StepsIncomplete, Refused("candidate_blocked")}

\* candidate_result_outcome
Outcome(result) ==
  IF result.draft THEN "completed_draft"
  ELSE IF result = StepsIncomplete THEN "blocked_retryable"
  ELSE IF result.code = "candidate_blocked" THEN "completed_blocked"
  ELSE "workflow_stopped"

----
(* Results that ask for the next call.                                    *)

\* remaining_operator_choice_status: the ref, the tool and the items are attached
\* if any item is left, but only a selectable one is asked for; with nothing but
\* retryable ones left the result keeps its own next action.
Remaining(result) ==
  {result,
   [Asking(result, "operator_select_remaining_item") EXCEPT !.left = "selectable"],
   [result EXCEPT !.left = "retryable"]}

\* reuse_comparison_required_result and reuse_comparison_blocked_result
Required ==
  Asking(Result("reuse_comparison_required", "none", TRUE),
         "operator_confirm_reuse_comparison")
Blocked ==
  Asking(Result("reuse_comparison_blocked", "other", FALSE),
         "restart_reuse_comparison_after_provider_ready")
Looked == {Required, Blocked}

\* split_required_result, and selection_error_result, which offers the items of
\* the pending selection again
SplitRequired == Asking(Refused("other"), "operator_select_single_item")

\* semantic_review_required_result
ReviewRequired == Asking(Refused("other"), "prepare_semantic_review")

\* _semantic_review_or_no_candidates_result, and a provider that is missing or
\* whose output is invalid
NothingToDraft ==
  {ReviewRequired, NoCandidates, Refused("other"),
   Asking(Refused("other"), "repair_clean_ticket_metadata"),
   Asking(Refused("other"), "configure_semantic_extraction_provider")}

----
(* The answers of each tool, with and without a comparison provider.      *)

\* kcs_draft_ticket, and kcs_draft_article naming a ticket or a summary
DraftAnswers ==
  TicketFailures \cup NothingToDraft \cup {SplitRequired} \cup Looked \cup Authored

\* _operator_resolution_evidence_failure_result
EvidenceFailures ==
  {Asking(Refused("other"), "submit_bounded_operator_confirmed_resolution_steps"),
   Asking(Refused("other"),
          "select_retryable_candidate_before_submitting_resolution_steps")}

\* kcs_draft_article naming one item of the pending selection: no selection, one
\* that expired, another item, or the item, compared or authored. The items that
\* remain are attached unless the workflow stopped.
SelectAnswers ==
  {Asking(Refused("other"), "restart_with_approved_summary_text"), SplitRequired}
    \cup EvidenceFailures \cup Looked
    \cup {r \in Authored : Outcome(r) = "workflow_stopped"}
    \cup UNION {Remaining(r) : r \in {a \in Authored : Outcome(a) # "workflow_stopped"}}

\* batch_result, whose status alone decides ok
BatchResult(status, drafted) ==
  [Result("draft_article_batch", "other", status = "batch_completed")
     EXCEPT !.draft = drafted, !.batch = status]

\* kcs_draft_article naming several: _draft_batch_result attaches what remains
\* unless the batch stopped.
BatchAnswers ==
  Looked
    \cup {BatchResult("batch_stopped", drafted) : drafted \in BOOLEAN}
    \cup Remaining(BatchResult("batch_completed", TRUE))
    \cup UNION {Remaining(BatchResult("batch_completed_with_blockers", drafted)) :
                  drafted \in BOOLEAN}

\* The packet of prepare_semantic_review, with the ref and the tool of its
\* submission, and semantic_review_prepare_failure_result.
ReviewPacket == Result("semantic_review_packet", "none", TRUE)
PrepareAnswers ==
  {ReviewPacket, Asking(Refused("other"), "restart_with_ticket_ref")}

\* semantic_review_submit_failure_result with and without a correction,
\* semantic_review_boundary_terminal_result, or what the issues lead to
Correction == Asking(Refused("other"), "retry_corrected_semantic_submission")
SubmitAnswers ==
  {Correction, Refused("other"), SplitRequired,
   Asking(Refused("other"), "operator_review_semantic_boundary_blocker")}
    \cup Looked \cup Authored

\* reuse_comparison_terminal_result: more evidence needed is not ok.
Compared == {Result("reuse_comparison_completed", "none", ok) : ok \in BOOLEAN}

\* reuse_comparison_submit_failure_result
SubmitFailed(code, action) ==
  Asking(Result("reuse_comparison_submit_failed", code, FALSE), action)

\* kcs_confirm_reuse_comparison: a submit that is refused, the next comparison of
\* the queue, or the item's result, to which whatever remains is attached.
Resubmit == SubmitFailed("other", "resubmit_pending_reuse_comparison")
ConfirmAnswers ==
  {Resubmit, SubmitFailed("other", "restart_reuse_comparison"),
   SubmitFailed("reuse_comparison_unavailable", "restart_reuse_comparison")}
    \cup Looked
    \cup UNION {Remaining(r) : r \in Authored \cup Compared}

----
(* How the accounting reads them.                                         *)

\* A call as observe_tool_call sees it: choosing is that the arguments name items
\* of a selection, answered is result_ok. A call that raised has no result.
Call(tool, choosing, result) ==
  [tool |-> tool, choosing |-> choosing, answered |-> TRUE, result |-> result]
Raised(tool) ==
  [tool |-> tool, choosing |-> FALSE, answered |-> FALSE,
   result |-> Result("none", "none", TRUE)]

\* _RELEVANT_TOOLS and what each answers
Tools == {"draft_ticket", "draft_article", "prepare_semantic_review",
          "submit_semantic_review", "confirm_reuse_comparison"}
Calls ==
  {Call("draft_ticket", FALSE, r) : r \in DraftAnswers}
    \cup {Call("draft_article", FALSE, r) : r \in DraftAnswers}
    \cup {Call("draft_article", TRUE, r) : r \in SelectAnswers \cup BatchAnswers}
    \cup {Call("prepare_semantic_review", FALSE, r) : r \in PrepareAnswers}
    \cup {Call("submit_semantic_review", FALSE, r) : r \in SubmitAnswers}
    \cup {Call("confirm_reuse_comparison", FALSE, r) : r \in ConfirmAnswers}
    \cup {Raised(tool) : tool \in Tools}

\* _starts_reuse_comparison
Starts(call) == call.result.kind = "reuse_comparison_required"
Confirms(call) == call.tool = "confirm_reuse_comparison"

\* _stage: the stages an item index is recorded for are those of an item and
\* those of a search.
RecordsItem(call) ==
  \/ Confirms(call)
  \/ Starts(call) /\ call.tool \in {"draft_article", "submit_semantic_review"}
  \/ call.tool = "draft_article" /\ ~call.choosing /\ call.result.draft

\* Mutant: a selection of which items remain is not continued.
ContinuationsWithoutRemaining ==
  {"continue_kcs_authoring_workflow", "operator_confirm_reuse_comparison",
   "operator_select_single_item", "prepare_semantic_review",
   "resubmit_pending_reuse_comparison", "retry_corrected_semantic_submission"}

\* _CONTINUATION_ACTIONS
Continuations ==
  {"continue_kcs_authoring_workflow", "operator_confirm_reuse_comparison",
   "operator_select_remaining_item", "operator_select_single_item",
   "prepare_semantic_review", "resubmit_pending_reuse_comparison",
   "retry_corrected_semantic_submission"}

\* _is_rag_failure: the other codes of _RAG_FAILURE_CODES reach no observed call.
RagFailure(result) ==
  \/ result.code = "reuse_comparison_unavailable"
  \/ result.kind = "reuse_comparison_blocked"

\* _terminal_without_continuation
Concluded(result) ==
  IF result.kind = "draft_article_batch"
  THEN IF result.batch = "batch_completed" THEN "completed" ELSE "tool_blocked"
  ELSE IF result.draft \/ result.kind = "reuse_comparison_completed" THEN "completed"
  ELSE IF ~result.ok THEN "tool_blocked"
  ELSE "in_progress"

\* _terminal_outcome, "in_progress" for None
TerminalOutcome(call) ==
  IF ~call.answered THEN "tool_failure"
  ELSE IF RagFailure(call.result) THEN "rag_failure"
  ELSE IF call.result.next \in Continuations THEN "in_progress"
  ELSE Concluded(call.result)

Ends(call) == TerminalOutcome(call) # "in_progress"

\* The answers the client goes on from: a comparison to confirm, items to select, a
\* review to prepare or to submit, items left of a selection, or resolution steps
\* to send again.
Offers(call) ==
  \/ call.result \in {Required, SplitRequired, ReviewRequired, ReviewPacket,
                     Correction, Resubmit}
  \/ call.result.left # "none"
  \/ call.result \in EvidenceFailures

\* Those of them that leave nothing but the retry of a blocked item.
OffersRetryOnly(call) ==
  \/ call.result.left = "retryable"
  \/ call.result \in EvidenceFailures

====
