--------------------------- MODULE SemanticItems ---------------------------
(***************************************************************************)
(* What a semantic provider proposes: classified items of a ticket         *)
(* (kcs_core/semantic_extraction.py), the provider that reads them from an *)
(* approved summary (approved_summary_semantic.py), and the two ways on:   *)
(* the evidence the library exports, and the candidates the Desktop drafts *)
(* (desktop_semantic_candidates.py).                                       *)
(*                                                                         *)
(* An item says: id, its classification (relation, supportability, basis,  *)
(* status, origin, type, visibility, eol), whether it has symptoms, facts  *)
(* and open questions, its texts (cause, solution, question, answer), its  *)
(* steps with what each tells the reader (details), env, and what patterns *)
(* find in the cause ("action": it tells what to do, "uncertain") and in   *)
(* the text as a whole (names: an existing article, safe).                 *)
(***************************************************************************)
EXTENDS KcsDrafting

CONSTANTS StepsText,   \* the text of an item's steps, joined
          ItemIds      \* the ids of items; "spaced" is no safe reference

ASSUME StepsTextAssumption == StepsText \in Texts

NotOurs == {"customer_environment_specific", "generic_third_party"}
SupportProvided == "non_plesk_owned_but_support_provided_solution"

ProductRelations ==
  NotOurs \cup {SupportProvided, "plesk_owned", "plesk_shipped_or_bundled_component",
    "plesk_extension_catalog", "plesk_managed_process_or_service",
    "eol_or_unsupported_only", "unclear"}

Supportabilities == {"supported", "unsupported", "eol_only", "unclear"}
Bases == {"explicit_input_mention", "not_checked"}
EolRoles == {"affected_runtime", "source_for_migration_or_upgrade",
             "historical_context", "unclear"}
VisibilityHints == KnownVisibility \cup {"unclear"}
Statuses == {"candidate_allowed", "internal_only_candidate", "no_article",
             "blocked_need_more_evidence"}

OptionalTexts == Texts \cup {NoText}

CandidateKcsItem ==
  [id : ItemIds, relation : ProductRelations, supportability : Supportabilities,
   basis : Bases, status : Statuses, origin : {"customer_reported", "support_discovered"},
   type : ArticleTypes \cup {"none"}, visibility : VisibilityHints, eol : EolRoles,
   symptoms : BOOLEAN, facts : BOOLEAN, questions : BOOLEAN,
   cause : OptionalTexts, solution : OptionalTexts, question : OptionalTexts,
   answer : OptionalTexts, steps : Seq(StepKinds), details : Seq(STRING),
   env : {"linux", "windows", "other"}, action : BOOLEAN, uncertain : BOOLEAN,
   names : BOOLEAN, safe : BOOLEAN]

Unsupported(it) == it.supportability \in {"unsupported", "eol_only"}

\* The status an unsupported subject leaves, by its role in the item.
EolStatuses(it) ==
  IF ~ Unsupported(it) THEN Statuses
  ELSE CASE it.eol = "affected_runtime" -> {"no_article"}
         [] it.eol = "source_for_migration_or_upgrade" -> {"candidate_allowed"}
         [] it.eol = "unclear" -> {"blocked_need_more_evidence"}
         [] OTHER -> Statuses

RelationStatuses(it) ==
  CASE it.relation \in NotOurs -> {"no_article"}
    [] it.relation = SupportProvided -> {"internal_only_candidate"}
    [] OTHER -> Statuses

\* Mutant: a rule on its own is enough.
ItemInvalidByEither(it) ==
  \/ it \notin CandidateKcsItem \/ it.id = "spaced" \/ ~ it.safe
  \/ Unsupported(it) /\ it.basis # "explicit_input_mention"
  \/ it.status \notin EolStatuses(it) /\ it.status \notin RelationStatuses(it)
  \/ it.relation = SupportProvided /\ it.visibility # "internal_reviewer_only"

ItemInvalid(it) ==
  \/ it \notin CandidateKcsItem \/ it.id = "spaced" \/ ~ it.safe
  \/ Unsupported(it) /\ it.basis # "explicit_input_mention"
  \/ it.status \notin EolStatuses(it) \cap RelationStatuses(it)
  \/ it.relation = SupportProvided /\ it.visibility # "internal_reviewer_only"

ExtractionInvalid(items) == items = <<>> \/ \E i \in DOMAIN items : ItemInvalid(items[i])

-----------------------------------------------------------------------------
(* From an approved summary: one item for every section that has a title,  *)
(* a cause and steps.  symptoms fall back to the title, steps to sentences *)
(* of the resolution and then of the section.                              *)

\* Fewer than two item headings leave the text whole; otherwise what stands
\* before the first heading belongs to no section.
SummarySections(summary) ==
  IF Len(summary.headed) < 2 THEN <<summary.whole>> ELSE summary.headed

SectionSteps(s) ==
  IF s.stepLines # <<>> THEN s.stepLines
  ELSE IF s.resolution /\ s.resolutionSteps # <<>> THEN s.resolutionSteps
  ELSE s.textSteps

SectionHasItem(s) ==
  /\ ~ s.transcript          \* long, and diagnostics rather than evidence
  /\ s.title /\ s.cause \in Texts
  /\ SectionSteps(s) # <<>>

SectionItem(s) ==
  [id |-> s.id, relation |-> "plesk_owned", supportability |-> "supported",
   basis |-> "explicit_input_mention", status |-> "candidate_allowed",
   origin |-> "customer_reported", type |-> "technical_scr",
   visibility |-> "public_customer_safe", eol |-> "unclear",
   symptoms |-> TRUE, facts |-> TRUE, questions |-> FALSE,
   cause |-> s.cause, solution |-> StepsText, question |-> NoText, answer |-> NoText,
   steps |-> SectionSteps(s), details |-> s.details, env |-> s.env,
   action |-> s.action, uncertain |-> s.uncertain, names |-> s.names, safe |-> s.safe]

\* No items is no extraction, and none of them may be unsafe.
SummaryItems(summary) ==
  LET with == Matching(SummarySections(summary), SectionHasItem)
  IN [i \in DOMAIN with |-> SectionItem(with[i])]

-----------------------------------------------------------------------------
(* The evidence the library exports *)

PublishableStatus == {"candidate_allowed", "internal_only_candidate"}

\* The reasons for no article that an item's classification gives.
ItemMarks(it) == Raised({
  <<"no_customer_reported_issue", it.origin # "customer_reported">>,
  <<"support_discovered", it.origin = "support_discovered">>,
  <<"kcs_not_applicable", it.status \notin PublishableStatus>>,
  <<"no_supported_answer", it.status = "blocked_need_more_evidence">>,
  <<"customer_specific", it.relation = "customer_environment_specific">>,
  <<"third_party_only", it.relation = "generic_third_party">>,
  <<"third_party_generic", it.relation = "generic_third_party">>,
  <<"unsupported_public_article",
    it.status \in {"internal_only_candidate", "no_article"}>>})

FirstText(a, b) == IF a \in Texts THEN a ELSE b

ExportCandidate(it) ==
  [id |-> it.id, type |-> it.type, question |-> it.question, steps |-> it.steps,
   answers |-> <<>>, cause |-> FirstText(it.cause, Inherit),
   solution |-> FirstText(it.solution, FirstText(it.answer, Inherit)),
   refs |-> {"plain"}, symptoms |-> IF it.symptoms THEN "own" ELSE "none",
   facts |-> IF it.facts THEN "own" ELSE "none", summary |-> TRUE,
   questions |-> it.questions, split |-> FALSE, marks |-> ItemMarks(it),
   publicSafe |-> IF /\ it.status = "candidate_allowed"
                     /\ it.visibility = "public_customer_safe" THEN "yes" ELSE "no",
   reuseStatus |-> "unstated"]

\* The most restrictive class of the items is that of them all.
OverallVisibility(items) ==
  LET hints == {items[i].visibility : i \in DOMAIN items}
  IN IF "unsafe_private" \in hints THEN "unsafe_private"
     ELSE IF "internal_reviewer_only" \in hints THEN "internal_reviewer_only"
     ELSE IF hints \cap {"customer_context_only", "unclear"} # {}
     THEN "customer_context_only"
     ELSE "public_customer_safe"

\* What the ticket says is what its only item says, its open questions apart.
ExportEvidence(items) ==
  LET alone == Len(items) = 1
      it == items[1]
  IN [case |-> "plain", knownClass |-> TRUE, sanitizer |-> {"pass"},
      visibility |-> {OverallVisibility(items)}, visibilityField |-> "classes",
      internalApproved |-> OverallVisibility(items) = "internal_reviewer_only",
      refs |-> {"plain"}, text |-> "clean", symptoms |-> alone /\ it.symptoms,
      facts |-> alone /\ it.facts, questions |-> FALSE,
      cause |-> IF alone THEN it.cause ELSE NoText,
      solution |-> IF alone THEN FirstText(it.solution, it.answer) ELSE NoText,
      cands |-> [i \in DOMAIN items |-> ExportCandidate(items[i])], env |-> "other"]

\* Internal evidence needs a policy that allows it; what is left must be safe.
ExportRefused(items, allowInternal) ==
  \/ OverallVisibility(items) = "internal_reviewer_only" /\ ~ allowInternal
  \/ SafetyBlockers(ExportEvidence(items)) # {}

-----------------------------------------------------------------------------
(* The candidates the Desktop drafts *)

Draftable(it) == it.status \in PublishableStatus

\* A technical item without a real cause that answers a question is a how-to.
EffectiveArticleType(it) ==
  IF /\ it.type = "technical_scr"
     /\ it.cause \notin Texts \/ it.action
     /\ it.question \in Texts \/ it.answer \in Texts
  THEN "howto_qa" ELSE it.type

\* compared: an operator found that no published article fits.
DesktopCandidate(it, compared) ==
  LET howto == EffectiveArticleType(it) = "howto_qa"
  IN [type |-> EffectiveArticleType(it), id |-> it.id, env |-> it.env,
      steps |-> it.steps, answers |-> IF howto THEN it.steps ELSE <<>>,
      details |-> it.details, cause |-> IF howto THEN NoText ELSE it.cause,
      resolution |-> it.solution, answer |-> it.answer, question |-> it.question,
      questions |-> FALSE, uncertain |-> ~ howto /\ it.uncertain,
      complete |-> howto \/ (it.symptoms /\ it.facts),
      text |-> "clean", hint |-> "ok", names |-> it.names,
      reuseChecked |-> compared]

\* One item of neither type spoils the candidates of all.
DesktopCandidatesInvalid(items) ==
  \/ ExtractionInvalid(items)
  \/ \E i \in DOMAIN items :
       Draftable(items[i]) /\ EffectiveArticleType(items[i]) \notin ArticleTypes
=============================================================================
