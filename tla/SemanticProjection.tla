------------------------- MODULE SemanticProjection -------------------------
(***************************************************************************)
(* The projection of a valid proposal onto issue cards and authoring       *)
(* candidates (desktop_semantic_candidates.py).                            *)
(*                                                                         *)
(* At run time the provenance of an excerpt is never trusted and its       *)
(* visibility is internal_reviewer_only, so the two blockers about them    *)
(* and the customer_reported origin cannot occur                           *)
(* (semantic_review_excerpt_role_index).                                   *)
(***************************************************************************)
EXTENDS SemanticProposal

CONSTANTS Commands,    \* the words that make a step executable
          Gap          \* the blank line between joined texts

IssueRoles == {"customer_question", "reported_symptom", "supported_cause",
               "supported_resolution"}

Roles(packet, refs) == {packet[r].role : r \in refs}

\* "none" for an issue that has neither shape.
ArticleType(issue) ==
  IF issue.question # <<>> \/ issue.answer # <<>>
  THEN IF issue.errors # <<>> THEN "technical_scr" ELSE "howto_qa"
  ELSE IF issue.symptoms \o issue.cause \o issue.errors # <<>> THEN "technical_scr"
  ELSE "none"

Incomplete(issue) ==
  /\ ArticleType(issue) = "technical_scr"
  /\ \/ issue.symptoms \o issue.errors = <<>>
     \/ issue.cause = <<>> \/ issue.resolution = <<>>

IssueBlocker(packet, issue) ==
  IF Roles(packet, IssueRefs(issue)) \cap (IssueRoles \cup {"unclassified_evidence"}) = {}
  THEN "source_role_missing"
  ELSE IF ArticleType(issue) = "none" \/ Incomplete(issue) THEN "evidence_shape_invalid"
  ELSE "none"

\* A duplicate has the text of an excerpt that is covered already.
Accepts(packet, record, covered) ==
  LET roles == Roles(packet, record.refs)
  IN /\ roles \cap IssueRoles = {} /\ Cardinality(roles) = 1
     /\ IF record.reason = "duplicate_excerpt"
        THEN /\ record.of \in covered
             /\ \A r \in record.refs : packet[r].text = packet[record.of].text
        ELSE roles = {record.reason}

\* Mutant: the original may be set aside by a record that is still to come.
AcceptedCoverageOfAll(packet, p) ==
  LET issues == UNION {IssueRefs(p.issues[i]) : i \in DOMAIN p.issues}
      all == issues \cup UNION {p.coverage[i].refs : i \in DOMAIN p.coverage}
      Add(accepted, record) == IF Accepts(packet, record, all)
                               THEN accepted \cup record.refs ELSE accepted
  IN FoldLeft(Add, {}, p.coverage)

\* The records are taken in their order.
AcceptedCoverage(packet, p) ==
  LET issues == UNION {IssueRefs(p.issues[i]) : i \in DOMAIN p.issues}
      Add(accepted, record) == IF Accepts(packet, record, issues \cup accepted)
                               THEN accepted \cup record.refs ELSE accepted
  IN FoldLeft(Add, {}, p.coverage)

Projected(packet, p) ==
  LET Blocker(i) == IssueBlocker(packet, p.issues[i])
      setAside == AcceptedCoverage(packet, p)
  IN [issues |-> Matching(p.issues, LAMBDA issue : IssueBlocker(packet, issue) = "none"),
      blocked |-> {Blocker(i) : i \in DOMAIN p.issues} \ {"none"},
      setAside |-> setAside,
      unassigned |-> DOMAIN packet \ (setAside \cup
                       UNION {IssueRefs(p.issues[i]) : i \in DOMAIN p.issues})]

\* One blocked issue ends the review unless another is left and all that is
\* missing is evidence.
RequiresTerminalReview(projected) ==
  /\ projected.blocked # {}
  /\ projected.issues = <<>> \/ ~ projected.blocked \subseteq {"evidence_shape_invalid"}

-----------------------------------------------------------------------------
(* The candidate of an issue *)

TextsOf(observations) == [i \in DOMAIN observations |-> observations[i].text]

UniqueTexts(observations) ==
  LET Add(texts, o) == IF o.text \in Range(texts) THEN texts ELSE Append(texts, o.text)
  IN FoldLeft(Add, <<>>, observations)

Joined(texts, gap) ==
  FoldLeft(LAMBDA all, text : IF all = <<>> THEN text ELSE all \o gap \o text, <<>>, texts)

HasCommand(text) == Range(text) \cap Commands # {}

ResolutionSteps(evidence) ==
  LET detailed == Matching(evidence, HasCommand)
  IN IF detailed = <<>> THEN evidence ELSE detailed

\* The texts of the fields confirmed_helpful_public_article reads.  The parts
\* of a cause or an answer are joined by a space, those of a resolution by a
\* blank line.
Candidate(issue) ==
  LET evidence == UniqueTexts(issue.resolution \o issue.verification)
      symptoms == UniqueTexts(issue.symptoms \o issue.errors)
      facts == UniqueTexts(issue.context \o issue.cause \o issue.answer)
      answer == IF issue.answer # <<>> THEN TextsOf(issue.answer)
                ELSE IF ArticleType(issue) = "howto_qa" THEN evidence ELSE <<>>
      question == TextsOf(issue.question)
  IN [ref |-> issue.ref, type |-> ArticleType(issue), summary |-> issue.summary,
      symptoms |-> symptoms, question |-> question,
      facts |-> IF facts # <<>> THEN facts ELSE IF symptoms # <<>> THEN symptoms ELSE question,
      cause |-> Joined(TextsOf(issue.cause), <<>>),
      steps |-> IF evidence # <<>> THEN ResolutionSteps(evidence) ELSE answer,
      resolution |-> Joined(evidence, <<Gap>>),
      answer |-> Joined(answer, <<>>)]
=============================================================================
