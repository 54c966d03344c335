---------------------------- MODULE KcsAuthoring ----------------------------
(***************************************************************************)
(* The two programs that run the KCS core from end to end: the command     *)
(* line (kcs_core/cli.py) and the Desktop approved-summary pipeline        *)
(* (desktop_authoring_pipeline.py with desktop_payload.py and              *)
(* evidence_builder.py).  One behaviour is one run: Init chooses the       *)
(* input, every stage is an action, and a refusal ends the run.            *)
(*                                                                         *)
(* A Desktop item says: type, id, env ("none" when it has none), the kinds *)
(* of its steps and answers, details (what each step tells the reader),    *)
(* cause, resolution, answer, question, questions (open ones), uncertain   *)
(* (the cause is speculative), complete (title, symptoms and facts are     *)
(* there), text, hint (the title or the summary is forbidden in a handoff),*)
(* names (the text names an existing article), reuseChecked; from is the   *)
(* semantic item it was made of, if it was.  What a provider answered is a *)
(* sequence of at most one sequence of items.                              *)
(***************************************************************************)
EXTENDS SemanticItems

CONSTANTS CliInputs,    \* [command, evidence, reuse] given to the command line
          Items,        \* the items given to the Desktop pipeline
          Answers,      \* what a semantic provider may answer
          Summaries,    \* the approved summaries the Desktop may read
          NoReuse       \* a reuse search that found nothing

-----------------------------------------------------------------------------
(* What the inputs are: the packets of kcs_core/models.py and the payload   *)
(* of an item, whose values the models check when they are made.            *)

OwnTexts == OptionalTexts \cup {Inherit}
Ids == STRING \cup {NoText}

IssueCandidate ==
  [id : Ids, type : STRING \cup {NoText}, question : OptionalTexts, cause : OwnTexts,
   solution : OwnTexts, refs : SUBSET References, symptoms : {"own", "none", Inherit},
   facts : {"own", "none", Inherit}, summary : BOOLEAN, questions : BOOLEAN,
   split : BOOLEAN, marks : SUBSET STRING, publicSafe : {"yes", "no", "unstated"},
   reuseStatus : {"checked", "missing", "unstated"}, steps : Seq(StepKinds),
   answers : Seq(StepKinds)]

NormalizedTicketEvidencePacket ==
  [case : References, knownClass : BOOLEAN, sanitizer : SUBSET {"pass", "negative"},
   visibility : SUBSET STRING, visibilityField : {"classes", "visibility"},
   internalApproved : BOOLEAN, refs : SUBSET References,
   text : {"clean", "doc_address", "private"}, symptoms : BOOLEAN, facts : BOOLEAN,
   questions : BOOLEAN, cause : OptionalTexts, solution : OptionalTexts,
   cands : Seq(IssueCandidate), env : {"linux", "windows", "other"}]

ReuseMatch ==
  [cand : Ids, type : STRING, cause : OptionalTexts, question : OptionalTexts,
   solution : OptionalTexts, status : STRING, public : BOOLEAN, ref : References]

ReuseSearchResultsPacket == [searched : BOOLEAN, blockers : SUBSET STRING, matches : Seq(ReuseMatch)]

DesktopItem ==
  [type : STRING, id : Ids, env : {"linux", "windows", "other", "none"},
   steps : Seq(StepKinds), answers : Seq(StepKinds), details : Seq(STRING),
   cause : OptionalTexts, resolution : OptionalTexts, answer : OptionalTexts,
   question : OptionalTexts, questions : BOOLEAN, uncertain : BOOLEAN,
   complete : BOOLEAN, text : {"clean", "private"}, hint : {"ok", "forbidden"},
   names : BOOLEAN, reuseChecked : BOOLEAN]

ASSUME InputsAssumption ==
  /\ CliInputs \subseteq
       [command : {"run", "decide", "validate-evidence"},
        evidence : NormalizedTicketEvidencePacket, reuse : ReuseSearchResultsPacket]
  /\ Items \subseteq DesktopItem
  /\ NoReuse \in ReuseSearchResultsPacket

\* A provider may answer any items; a summary has any sections.
ASSUME AnswersAssumption ==
  /\ \A answer \in Answers :
       \/ answer = <<>>
       \/ answer = <<answer[1]>> /\ answer[1] \in Seq(Range(answer[1]))
  /\ \A summary \in Summaries : summary.headed \in Seq(Range(summary.headed))

-----------------------------------------------------------------------------

VARIABLES input, stage, evidence, reuse, decision, packet, report, ready, outcome

vars == <<input, stage, evidence, reuse, decision, packet, report, ready, outcome>>

\* The packets a run has not made yet are empty sequences.
Running == [status |-> "running", stage |-> "none", code |-> "none"]

Ends(status, at, code) ==
  outcome' = [status |-> status, stage |-> at, code |-> code] /\ stage' = "done"

Desktop == input.command = "pipeline"

Init ==
  /\ \/ input \in CliInputs /\ stage = "load"
     \/ \E item \in Items :
          /\ input = [command |-> "pipeline", item |-> item, from |-> <<>>]
          /\ stage = "input_validation"
     \/ \E command \in {"propose", "extract"}, answer \in Answers, allowed \in BOOLEAN :
          /\ input = [command |-> command, answer |-> answer, allowInternal |-> allowed]
          /\ command = "extract" => ~ allowed
          /\ stage = command
     \/ \E summary \in Summaries :
          /\ input = [command |-> "extract", answer |->
                        IF SummaryItems(summary) = <<>> THEN <<>>
                        ELSE <<SummaryItems(summary)>>]
          /\ stage = "extract"
  /\ evidence = <<>> /\ reuse = <<>> /\ decision = <<>> /\ packet = <<>>
  /\ report = <<>> /\ ready = FALSE /\ outcome = Running

-----------------------------------------------------------------------------
(* Command line *)

\* The JSON files are searched for private values before they are parsed; an
\* address that documents allow is private here too.
Load ==
  /\ stage = "load"
  /\ IF input.evidence.text # "clean"
     THEN Ends("refused", "none", "unsafe_input") /\ UNCHANGED evidence
     ELSE /\ evidence' = <<input.evidence>>
          /\ stage' = IF input.command = "validate-evidence" THEN "validate" ELSE "gate"
          /\ UNCHANGED outcome
  /\ UNCHANGED <<input, reuse, decision, packet, report, ready>>

\* validate-evidence prints what it found, unsafe input included.
Validate ==
  /\ stage = "validate"
  /\ Ends(IF "unsafe_input" \in EvidenceBlockers(evidence[1]) THEN "printed_unsafe"
          ELSE "printed", "none", "none")
  /\ UNCHANGED <<input, evidence, reuse, decision, packet, report, ready>>

Gate ==
  /\ stage = "gate"
  /\ IF "unsafe_input" \in EvidenceBlockers(evidence[1])
     THEN Ends("refused", "none", "unsafe_input") /\ UNCHANGED reuse
     ELSE reuse' = <<input.reuse>> /\ stage' = "decision" /\ UNCHANGED outcome
  /\ UNCHANGED <<input, evidence, decision, packet, report, ready>>

-----------------------------------------------------------------------------
(* Semantic items: evidence for the library, candidates for the Desktop *)

Propose ==
  /\ stage = "propose"
  /\ IF \/ input.answer = <<>> \/ ExtractionInvalid(input.answer[1])
        \/ ExportRefused(input.answer[1], input.allowInternal)
     THEN /\ Ends("refused", "none", "contract_validation_failed")
          /\ UNCHANGED <<evidence, reuse>>
     ELSE /\ evidence' = <<ExportEvidence(input.answer[1])>>
          /\ reuse' = <<NoReuse>>
          /\ stage' = "decision"
          /\ UNCHANGED outcome
  /\ UNCHANGED <<input, decision, packet, report, ready>>

\* Nothing to draft turns into a semantic review of the ticket.
ExtractNothing ==
  /\ stage = "extract"
  /\ IF input.answer = <<>> THEN Ends("review", stage, "no_candidates")
     ELSE IF DesktopCandidatesInvalid(input.answer[1])
     THEN Ends("failed", stage, "semantic_extraction_output_invalid")
     ELSE /\ Matching(input.answer[1], Draftable) = <<>>
          /\ Ends("review", stage, "no_candidates")
  /\ UNCHANGED <<input, evidence, reuse, decision, packet, report, ready>>

\* The only candidate, or the one the operator selects of several; a
\* comparison with published articles may have confirmed that none fits.
Extract ==
  /\ stage = "extract"
  /\ input.answer # <<>> /\ ~ DesktopCandidatesInvalid(input.answer[1])
  /\ \E it \in Range(Matching(input.answer[1], Draftable)), compared \in BOOLEAN :
       input' = [command |-> "pipeline", from |-> <<it>>,
                 item |-> DesktopCandidate(it, compared)]
  /\ stage' = "input_validation"
  /\ UNCHANGED <<evidence, reuse, decision, packet, report, ready, outcome>>

-----------------------------------------------------------------------------
(* Desktop: the item becomes evidence *)

Count(details, kinds) == Len(Matching(details, LAMBDA d : d \in kinds))

Executable(details) ==
  /\ Count(details, {"executable"}) >= 1
  /\ Count(details, {"executable", "informational"}) >=
       IF Len(details) <= 2 THEN Len(details) ELSE (Len(details) + 1) \div 2

NamesArticle(item) == item.names /\ ~ item.reuseChecked

PayloadErrors(item) ==
  LET technical == item.type = "technical_scr"
  IN << <<"item_invalid", item.text # "clean">>,
        <<"article_type_invalid", item.type \notin ArticleTypes>>,
        <<"environment_required", item.env = "none">>,
        <<"resolution_steps_required", technical /\ item.steps = <<>> >>,
        <<"supported_cause_uncertain", technical /\ item.uncertain>>,
        <<"resolution_step_destructive",
          technical /\ Count(item.details, {"destructive"}) > 0>>,
        <<"resolution_steps_incomplete",
          technical /\ ~ NamesArticle(item) /\ ~ Executable(item.details)>>,
        <<"content_invalid", ~ item.complete>> >>

\* The steps stand in for a resolution nobody wrote.
Resolution(item) ==
  IF item.resolution \in Texts THEN item.resolution
  ELSE IF item.answer \in Texts \/ item.steps = <<>> THEN NoText ELSE StepsText

First(a, b) == IF a \in Texts THEN a ELSE b

ItemCandidate(item) ==
  [id |-> IF item.id = NoText THEN "item-001" ELSE item.id,
   type |-> item.type, question |-> item.question, steps |-> item.steps,
   answers |-> item.answers,
   cause |-> First(item.cause, Inherit),
   solution |-> IF item.type = "technical_scr"
                THEN First(Resolution(item), First(item.answer, Inherit))
                ELSE First(item.answer, Inherit),
   refs |-> {"plain"}, symptoms |-> "own", facts |-> "own", summary |-> TRUE,
   questions |-> item.questions, split |-> FALSE, marks |-> {},
   publicSafe |-> "yes", reuseStatus |-> "unstated"]

ItemEvidence(item) ==
  [case |-> "plain", knownClass |-> TRUE, sanitizer |-> {"pass"},
   visibility |-> {"public_customer_safe"}, visibilityField |-> "classes",
   internalApproved |-> FALSE, refs |-> {"plain"}, text |-> item.text,
   symptoms |-> TRUE, facts |-> TRUE, questions |-> item.questions,
   cause |-> item.cause, solution |-> First(Resolution(item), item.answer),
   cands |-> <<ItemCandidate(item)>>, env |-> item.env]

\* The article an item names is described by what the item itself says.
NamedMatch(item) ==
  [cand |-> item.id, type |-> item.type, cause |-> item.cause, question |-> NoText,
   solution |-> First(item.resolution, item.answer), status |-> "partial",
   public |-> TRUE, ref |-> "plain"]

\* The search counts as done whatever the caller said of it.
ItemReuse(item) ==
  [searched |-> TRUE, blockers |-> {},
   matches |-> IF NamesArticle(item) THEN <<NamedMatch(item)>> ELSE <<>>]

CheckPayload ==
  /\ stage = "input_validation"
  /\ LET error == FirstError(PayloadErrors(input.item))
     IN IF error # <<>> THEN Ends("failed", stage, error[1][1])
        ELSE stage' = "evidence_builder" /\ UNCHANGED outcome
  /\ UNCHANGED <<input, evidence, reuse, decision, packet, report, ready>>

\* An evidence builder that meets unsafe evidence reports the safety stage.
BuildEvidence ==
  /\ stage = "evidence_builder"
  /\ IF ItemCandidate(input.item).id = "spaced"
     THEN Ends("failed", stage, "evidence_build_failed") /\ UNCHANGED evidence
     ELSE IF SafetyBlockers(ItemEvidence(input.item)) # {}
     THEN Ends("failed", "input_safety", "safety_blocked") /\ UNCHANGED evidence
     ELSE /\ evidence' = <<ItemEvidence(input.item)>>
          /\ stage' = "evidence_validation"
          /\ UNCHANGED outcome
  /\ UNCHANGED <<input, reuse, decision, packet, report, ready>>

ValidateEvidence ==
  /\ stage = "evidence_validation"
  /\ IF SafetyBlockers(evidence[1]) # {}
     THEN Ends("failed", "input_safety", "safety_blocked")
     ELSE IF EvidenceBlockers(evidence[1]) # {}
     THEN Ends("failed", stage, "evidence_validation_blocked")
     ELSE stage' = "decision" /\ UNCHANGED outcome
  /\ reuse' = IF stage' = "decision" THEN <<ItemReuse(input.item)>> ELSE reuse
  /\ UNCHANGED <<input, evidence, decision, packet, report, ready>>

-----------------------------------------------------------------------------
(* The stages both programs have *)

Decide ==
  /\ stage = "decision"
  /\ LET d == DecideKcsAction(evidence[1], reuse[1])
     IN /\ decision' = <<d>>
        /\ IF Desktop /\ d.status # "decision_ready"
           THEN Ends("failed", stage, "decision_blocked")
           ELSE IF input.command = "decide" THEN Ends("printed", "none", "none")
           ELSE stage' = "renderer" /\ UNCHANGED outcome
  /\ UNCHANGED <<input, evidence, reuse, packet, report, ready>>

RendererCode(error) ==
  CASE error \in {"unsafe value", "unsafe code"} -> "renderer_safety_failed"
    [] error = "bound" -> "renderer_bounds_failed"
    [] error = "visibility" -> "renderer_visibility_blocked"
    [] error = "candidate mismatch" -> "renderer_candidate_mismatch"
    [] OTHER -> "renderer_failed"

\* What an exception ends the run with: the command line says only that.
Fails(code) ==
  IF Desktop THEN Ends("failed", stage, code)
  ELSE Ends("refused", "none", "contract_validation_failed")

Render ==
  /\ stage = "renderer"
  /\ LET error == RenderError(evidence[1], decision[1])
     IN IF error # "none" THEN Fails(RendererCode(error)) /\ UNCHANGED packet
        ELSE /\ packet' = <<RenderReviewerPacket(evidence[1], decision[1])>>
             /\ stage' = "readiness"
             /\ UNCHANGED outcome
  /\ UNCHANGED <<input, evidence, reuse, decision, report, ready>>

Report ==
  /\ stage = "readiness"
  /\ IF ReportRefused(evidence[1], decision[1], packet)
     THEN Fails("readiness_failed") /\ UNCHANGED report
     ELSE LET r == ValidationReport(evidence[1], decision[1], packet)
          IN /\ report' = <<r>>
             /\ IF ~ Desktop THEN Ends("printed", "none", "none")
                ELSE IF ~ r.ready THEN Ends("failed", stage, "readiness_blocked")
                ELSE stage' = "draft_request_ready" /\ UNCHANGED outcome
  /\ UNCHANGED <<input, evidence, reuse, decision, packet, ready>>

\* The exception of the handoff packet is the one no stage catches.
Handoff ==
  /\ stage = "draft_request_ready"
  /\ IF HandoffRefused(decision[1], report[1], input.item.hint)
     THEN Ends("failed", "none", "validation_failed") /\ UNCHANGED ready
     ELSE /\ ready' = DraftEligible(HandoffRequest(decision[1], report[1], 1))
          /\ Ends("ok", "none", "none")
  /\ UNCHANGED <<input, evidence, reuse, decision, packet, report>>

Finished == stage = "done" /\ UNCHANGED vars

Next ==
  \/ Load \/ Validate \/ Gate
  \/ Propose \/ ExtractNothing \/ Extract
  \/ CheckPayload \/ BuildEvidence \/ ValidateEvidence
  \/ Decide \/ Render \/ Report \/ Handoff
  \/ Finished

Spec == Init /\ [][Next]_vars

-----------------------------------------------------------------------------
(* Properties *)

Rendered == packet # <<>> /\ packet[1].article # <<>>

\* An article is only ever rendered from evidence nothing blocks, of public
\* visibility only, for a candidate whose solution may be published and that
\* nothing excludes, after a reuse search that ran without a blocker: five
\* gates in four files, any of which an exception or a split can bypass.
ArticleIsGrounded ==
  Rendered =>
    /\ EvidenceBlockers(evidence[1]) = {}
    /\ evidence[1].visibility = {"public_customer_safe"}
    /\ reuse[1].searched /\ reuse[1].blockers = {}
    /\ \E i \in DOMAIN evidence[1].cands :
         LET c == evidence[1].cands[i]
         IN /\ c.id = packet[1].article[1].cand
            /\ c.publicSafe = "yes"
            /\ NoArticleBlocker(c) = <<>>

\* A report made right after its packet never finds the packet wrong: the
\* readiness checks and the renderer agree on every decision.
RunPacketConsistent ==
  report # <<>> =>
    report[1].next \notin {"fix_reviewer_packet", "render_reviewer_packet"}

\* The card of a split item promises what a run of that candidate alone would
\* decide, whenever either is an article.
SplitAgreesWithAlone ==
  decision # <<>> =>
    \A i \in DOMAIN decision[1].items :
      LET c == evidence[1].cands[i]
          card == decision[1].items[i]
          alone == DecideKcsAction(CandidateEvidence(evidence[1], c), reuse[1])
          same == /\ card.action = alone.action
                  /\ card.type = alone.type
                  /\ card.match = alone.match
      IN /\ card.action \in ArticleActions => same
         /\ /\ alone.action \in ArticleActions
            /\ card.reuseStatus = "checked"
            /\ ~ evidence[1].questions
            => same

\* What the renderer may put before the steps.
EntryPoints == {<<>>, <<"ssh">>, <<"rdp">>, <<"login">>, <<"login", "ssh">>, <<"login", "rdp">>}

\* The list items of an article hold the steps of its candidate, all of them
\* and in order, after entry points the renderer put first and the steps do not
\* have: one at most, unless a how-to without answers shows its resolution.  A
\* list item is one step and the support blocks after it; only the first may
\* start with a block (_answer_steps, _resolution_steps, _merge_resolution_support_blocks).
StepsKept ==
  Rendered =>
    LET article == packet[1].article[1]
        c == SelectedCandidate(evidence[1], decision[1])[1]
        own == IF article.type = "technical_scr" THEN c.steps
               ELSE IF c.answers = <<>> /\ c.solution \notin Texts THEN c.steps
               ELSE c.answers
    IN /\ own # <<>> =>
            \E entry \in EntryPoints :
              /\ FlattenSeq(article.items) = entry \o own
              /\ Range(entry) \cap Range(own) = {}
              /\ Len(entry) = 2 => article.type = "howto_qa" /\ c.answers = <<>>
       /\ \A i \in DOMAIN article.items :
            /\ article.items[i][1] = "block" => i = 1
            /\ \A j \in 2 .. Len(article.items[i]) : article.items[i][j] = "block"

\* A decision names an existing article only when it is one of the search's,
\* for this candidate, of its type and with its answer; and it never prefers
\* an article known to be incorrect to a usable one.
BestMatchChosen ==
  decision # <<>> /\ decision[1].match # <<>> =>
    LET m == decision[1].match[1]
        c == evidence[1].cands[1]
        usable == {n \in Range(reuse[1].matches) :
                     /\ n.cand \in {NoText, c.id}
                     /\ n.type = decision[1].type
                     /\ IdentityMatches(evidence[1], c, n.type, n)}
    IN /\ m \in usable
       /\ m.solution = OwnText(c.solution, evidence[1].solution)
       /\ m.status = "incorrect" =>
            \A n \in usable : n.status \notin {"complete", "partial", "outdated"}

\* An item whose class allows no article never becomes one, whichever of the
\* two ways it takes: a generic third-party or customer-specific issue, an
\* end-of-life runtime, one that needs more evidence.  The library publishes
\* nothing that was proposed for internal eyes; the Desktop's candidates do
\* not keep that.
NothingExcludedIsPublished ==
  Rendered =>
    LET library == input.command = "propose"
        proposed == IF library THEN input.answer[1]
                    ELSE IF Desktop THEN input.from ELSE <<>>
    IN \A i \in DOMAIN proposed :
         LET it == proposed[i]
         IN /\ it.status \in PublishableStatus
            /\ it.relation \notin NotOurs
            /\ Unsupported(it) => /\ it.basis = "explicit_input_mention"
                                  /\ it.eol \notin {"affected_runtime", "unclear"}
            /\ library => /\ it.status = "candidate_allowed"
                          /\ it.visibility = "public_customer_safe"
                          /\ it.relation # SupportProvided
=============================================================================
