-------------------------- MODULE SemanticProposal --------------------------
(***************************************************************************)
(* The validation of what the model submits for a review                   *)
(* (desktop_semantic_review.py, desktop_semantic_review_submission.py,     *)
(* semantic_extraction.py, desktop_semantic_candidate_contract.py).        *)
(*                                                                         *)
(* An observation is [text, refs]; one without refs stands for every       *)
(* malformed one.  The summary of an issue is model-written and quotes     *)
(* nothing; cites are its refs, and none means a bare string.  A coverage  *)
(* record is [ref, reason, refs, of], of being 0 when it names no          *)
(* original.  A proposal is [form, case, refs, issues, coverage]: form is  *)
(* what is wrong with the payload as a whole, case whether it names this   *)
(* review.                                                                 *)
(***************************************************************************)
EXTENDS SemanticExcerpts

CONSTANTS MaxCandidates,     \* SEMANTIC_REVIEW_MAX_CANDIDATES
          MaxObservations    \* SEMANTIC_ISSUE_PROPOSAL_MAX_OBSERVATIONS_PER_FIELD

ListFields == {"symptoms", "errors", "cause", "resolution", "verification", "answer",
               "context"}

Reasons == {"internal_workflow_note", "ticket_metadata", "duplicate_excerpt",
            "formatting_artifact"}

\* question is a sequence of at most one observation.
Observations(issue) ==
  (UNION {Range(issue[field]) : field \in ListFields}) \cup Range(issue.question)

ObservedRefs(issue) == UNION {o.refs : o \in Observations(issue)}

\* A bare summary takes the refs of the observations.
Normalized(issue) ==
  [issue EXCEPT !.cites = IF @ = {} THEN ObservedRefs(issue) ELSE @]

IssueRefs(issue) == issue.cites \cup ObservedRefs(issue)

Malformed(issue) ==
  \/ issue.cites = {}
  \/ \E o \in Observations(issue) : o.refs = {}
  \/ \E field \in ListFields : Len(issue[field]) > MaxObservations

CoverageMalformed(record) ==
  \/ record.refs = {}
  \/ IF record.reason = "duplicate_excerpt" THEN record.of \in {0} \cup record.refs
     ELSE record.of # 0

SharedRefs(items) ==
  Cardinality({items[i].ref : i \in DOMAIN items}) < Len(items)

AllRefs(packet) == DOMAIN packet
Covered(p) == UNION ({IssueRefs(p.issues[i]) : i \in DOMAIN p.issues}
                       \cup {p.coverage[i].refs : i \in DOMAIN p.coverage})

-----------------------------------------------------------------------------
(* Grounding *)

Quotes(text, part) ==
  \E n \in 0 .. Len(text) - Len(part) : SubSeq(text, n + 1, n + Len(part)) = part

\* The excerpts an observation cites that hold its text.
Grounds(packet, o) ==
  {r \in o.refs \cap DOMAIN packet : Quotes(packet[r].text, o.text)}

NotExtractive(packet, issue) == \E o \in Observations(issue) : Grounds(packet, o) = {}

\* Mutant: the speakers of all the excerpts cited count.
EntryOfSupportCited(packet, issue) ==
  \E o \in Range(issue.symptoms) \cup Range(issue.question) :
    {packet[r].by : r \in o.refs \cap DOMAIN packet} = {"support"}

\* A symptom or question that only support has said.
EntryOfSupport(packet, issue) ==
  \E o \in Range(issue.symptoms) \cup Range(issue.question) :
    {packet[r].by : r \in Grounds(packet, o)} = {"support"}

-----------------------------------------------------------------------------
(* semantic_issue_proposal_from_submission: the first error *)

\* The issues of p are normalized.
SubmissionErrors(packet, p) ==
  LET SomeIssue(Bad(_)) == \E i \in DOMAIN p.issues : Bad(p.issues[i])
      SomeRecord(Bad(_)) == \E i \in DOMAIN p.coverage : Bad(p.coverage[i])
      NotReason(record) == record.reason \notin Reasons
      Foreign(issue) == ~ IssueRefs(issue) \subseteq AllRefs(packet)
      ForeignRecord(record) ==
        ~ record.refs \cup ({record.of} \ {0}) \subseteq AllRefs(packet)
      Loose(issue) == NotExtractive(packet, issue)
      BySupport(issue) == EntryOfSupport(packet, issue)
  IN << <<"semantic_issue_submission_invalid", p.form = "large">>,
        <<"semantic_review_forbidden_field", p.form = "forbidden">>,
        <<"semantic_issue_case_ref_mismatch", ~ p.case>>,
        <<"semantic_issue_top_level_source_refs_mismatch", p.refs # AllRefs(packet)>>,
        <<"semantic_issue_candidate_limit_exceeded", Len(p.issues) > MaxCandidates>>,
        <<"semantic_observation_shape_invalid", SomeIssue(Malformed)>>,
        <<"semantic_issue_proposal_shape_invalid", p.form = "keys">>,
        <<"semantic_coverage_reason_invalid", SomeRecord(NotReason)>>,
        <<"semantic_coverage_shape_invalid", SomeRecord(CoverageMalformed)>>,
        <<"semantic_issue_proposal_shape_invalid", SharedRefs(p.issues)>>,
        <<"semantic_coverage_shape_invalid", SharedRefs(p.coverage)>>,
        <<"semantic_issue_proposal_shape_invalid", SomeIssue(Foreign)>>,
        <<"semantic_coverage_shape_invalid", SomeRecord(ForeignRecord)>>,
        <<"semantic_issue_coverage_incomplete", Covered(p) # AllRefs(packet)>>,
        <<"semantic_observation_text_not_extractive", SomeIssue(Loose)>>,
        <<"semantic_issue_entry_speaker_incompatible", SomeIssue(BySupport)>> >>

NormalizedProposal(p) ==
  [p EXCEPT !.issues = [i \in DOMAIN @ |-> Normalized(@[i])]]

SubmissionError(packet, p) ==
  LET table == SubmissionErrors(packet, p)
      raised == {n \in DOMAIN table : table[n][2]}
  IN IF raised = {} THEN "none" ELSE table[Min(raised)][1]

\* semantic_submission_correction_stage
CorrectionStage(code) ==
  CASE code \in {"semantic_issue_entry_speaker_incompatible",
                 "semantic_observation_text_not_extractive"} -> "grounding"
    [] code \in {"semantic_observation_shape_invalid", "semantic_issue_case_ref_mismatch",
                 "semantic_issue_candidate_limit_exceeded",
                 "semantic_issue_coverage_incomplete", "semantic_coverage_reason_invalid",
                 "semantic_issue_top_level_source_refs_mismatch"} -> "structure"
    [] OTHER -> "none"
=============================================================================
