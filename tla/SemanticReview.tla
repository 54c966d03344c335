---- MODULE SemanticReview ----
(**************************************************************************)
(* The pending semantic review (desktop_semantic_review.py): the bounded  *)
(* packet offered when the provider proposed no candidate, and the        *)
(* correction budget of its submissions (desktop_workflow.py).            *)
(**************************************************************************)
EXTENDS Integers, Sequences

Stage == {"structure", "grounding"}

\* stages is used_correction_stages, attempts is failed_submit_attempts.
\* One field is history the code does not keep: split, the ref of the selection
\* the accepted submission produced.
PendingSemanticReview ==
  [ref : Nat, prepared : BOOLEAN, accepted : BOOLEAN, amending : BOOLEAN,
   stages : Seq(Stage), attempts : Nat, split : Nat,
   expires : Nat]

NewReview(ref, expires) ==
  [ref |-> ref, prepared |-> FALSE, accepted |-> FALSE, amending |-> FALSE,
   stages |-> <<>>, attempts |-> 0, split |-> 0,
   expires |-> expires]

NoReview == NewReview(0, 0)

\* Mutant: the two stages may come in either order.
StageAllowedInAnyOrder(used, stage) ==
  stage \in Stage /\ (used = <<>> \/ used \in {<<s>> : s \in Stage \ {stage}})

\* _semantic_correction_stage_allowed
StageAllowed(used, stage) ==
  /\ stage \in Stage
  /\ used = <<>> \/ (used = <<"structure">> /\ stage = "grounding")

\* The first submission naming the selection opens the amendment and its budget.
AmendmentStarted(rv) ==
  IF rv.amending
  THEN rv
  ELSE [rv EXCEPT !.attempts = 0, !.amending = TRUE, !.stages = <<>>]

\* _complete_semantic_review_submission, of a first submission
AcceptedForSelection(rv, split) ==
  [rv EXCEPT !.accepted = TRUE, !.attempts = 0, !.stages = <<>>,
             !.split = split]

\* _raise_semantic_submission_invalid: a correction is offered once per stage,
\* anything else ends the review. A stage outside Stage is an error for which
\* no correction is registered.
AfterInvalidSubmission(rv, stage) ==
  IF StageAllowed(rv.stages, stage)
  THEN [rv EXCEPT !.attempts = @ + 1, !.stages = Append(@, stage)]
  ELSE NoReview
====
