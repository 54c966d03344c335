---------------------------- MODULE TicketReview ----------------------------
(***************************************************************************)
(* From an approved ticket to a comparison: the packet, the submissions    *)
(* and their corrections (desktop_workflow.py), the candidates of the      *)
(* accepted one and, one at a time, the public articles shown for them.    *)
(* DraftWorkflow models the order of the tools around this path; here are  *)
(* the contents that travel along it.                                      *)
(***************************************************************************)
EXTENDS PublicLookup, SemanticReview

CONSTANTS Tickets,           \* the approved texts
          Proposals(_),      \* what a model may submit for a packet
          Readiness, ExactAnswers, SearchAnswers,
          Outcomes           \* REUSE_COMPARISON_OUTCOMES

Speakers == {"customer", "support", "unknown"}

\* The paragraphs of a ticket all hold something.
ASSUME TicketsAssumption ==
  \A t \in Tickets :
    /\ t \in Seq(Range(t))
    /\ \A n \in DOMAIN t : t[n].says \in Seq(Sentences) \ {<<>>} /\ t[n].by \in Speakers

\* Neither a blank line nor the line that opens a turn is an address or an
\* outcome.
ASSUME WordsAssumption ==
  ({Gap} \cup Speakers) \cap ((DOMAIN Names) \cup Confirming) = {}

\* The issues and the coverage records of a payload are lists, and so are the
\* observations of an issue; their texts and its summary are made of words.
ASSUME ProposalsAssumption ==
  LET Observed(list) == /\ list \in Seq(Range(list))
                        /\ \A o \in Range(list) : o.text \in Seq(Words \cup {Ellipsis})
  IN \A t \in Tickets : \A p \in Proposals(SelectedExcerpts(t)) :
       /\ DOMAIN p = {"form", "case", "refs", "issues", "coverage"}
       /\ p.issues \in Seq(Range(p.issues)) /\ p.coverage \in Seq(Range(p.coverage))
       /\ \A i \in DOMAIN p.issues :
            /\ ListFields \cup {"question", "summary"} \subseteq DOMAIN p.issues[i]
            /\ p.issues[i].summary \in Seq(Words \cup {Ellipsis})
            /\ \A field \in ListFields \cup {"question"} : Observed(p.issues[i][field])

\* A service that answers answers with a list.
ASSUME ServiceAssumption ==
  LET Listed(answer) ==
        answer = "lost" \/ answer = "malformed" \/ answer \in Seq(Range(answer))
  IN /\ \A answer \in ExactAnswers : Listed(answer)
     /\ \A answer \in SearchAnswers : Listed(answer)

VARIABLES ticket,
          packet,      \* the excerpts offered
          review,      \* where the review is
          stages,      \* used_correction_stages
          accepted,    \* the proposal accepted, its issues normalized
          projected,   \* what was made of it
          compared,    \* the issue the last comparison is for, 0 for none
          evidence,    \* of that comparison
          answered     \* the issues whose comparison has an outcome

vars == <<ticket, packet, review, stages, accepted, projected, compared, evidence, answered>>

NoProposal == [issues |-> <<>>, coverage |-> <<>>]
NoProjection == [issues |-> <<>>, blocked |-> {}, setAside |-> {}, unassigned |-> {}]
NoEvidence == Failure("none", NoArticle)

\* The line that opens a turn; what precedes the first one has none.
Header(t, n) ==
  IF t[n].by = "unknown" /\ (n = 1 \/ ~ IsTranscript(t)) THEN <<>> ELSE <<t[n].by>>

\* The text that was approved: a blank line between paragraphs.
Approved(t) ==
  FlattenSeq([n \in DOMAIN t |->
    (IF n > 1 THEN <<Gap>> ELSE <<>>) \o Header(t, n) \o Text(t[n].says)])

Init ==
  /\ ticket \in Tickets /\ packet = <<>> /\ review = "none" /\ stages = <<>>
  /\ accepted = NoProposal /\ projected = NoProjection
  /\ compared = 0 /\ evidence = NoEvidence /\ answered = {}

-----------------------------------------------------------------------------
\* new_pending_semantic_review
Begin ==
  /\ review = "none"
  /\ packet' = SelectedExcerpts(ticket)
  /\ review' = IF packet' = <<>> THEN "unavailable" ELSE "pending"
  /\ UNCHANGED <<ticket, stages, accepted, projected, compared, evidence, answered>>

\* A refused submission leaves a correction or ends the review.
Refused(error) ==
  LET stage == CorrectionStage(error)
  IN /\ IF StageAllowed(stages, stage)
        THEN stages' = Append(stages, stage) /\ UNCHANGED review
        ELSE review' = "ended" /\ UNCHANGED stages
     /\ UNCHANGED <<accepted, projected>>

\* The issues that are left make up the candidates; there may be none.
Taken(p) ==
  LET made == Projected(packet, p)
  IN /\ UNCHANGED stages
     /\ IF RequiresTerminalReview(made)
        THEN review' = "ended" /\ UNCHANGED <<accepted, projected>>
        ELSE review' = "accepted" /\ accepted' = p /\ projected' = made

\* _semantic_submission_candidates, and what becomes of its error
Submit ==
  /\ review = "pending"
  /\ \E p \in {NormalizedProposal(q) : q \in Proposals(packet)} :
       LET error == SubmissionError(packet, p)
       IN IF error = "none" THEN Taken(p) ELSE Refused(error)
  /\ UNCHANGED <<ticket, packet, compared, evidence, answered>>

\* Whatever the service answers.
Answers ==
  {Lookup(named, readiness, exact, search) :
     named \in Reusable \cup {NoArticle}, readiness \in Readiness,
     exact \in ExactAnswers, search \in SearchAnswers}

\* The draft tool reaches an issue that was selected: the service is asked.
Compare(n) ==
  /\ review = "accepted" /\ n \in DOMAIN projected.issues \ answered
  /\ compared = 0 \/ evidence.status # "comparison_evidence_ready"
  /\ compared' = n
  /\ \E named \in {ConfirmedArticle(Candidate(projected.issues[n]), Approved(ticket))} :
        evidence' \in {answer \in Answers : answer.named = named}
  /\ UNCHANGED <<ticket, packet, review, stages, accepted, projected, answered>>

\* validate_reuse_comparison_submit: an invalid answer leaves the comparison.
Answer(outcome, shown) ==
  /\ compared # 0 /\ evidence.status = "comparison_evidence_ready"
  /\ ValidAnswer(evidence, outcome, shown)
  /\ answered' = answered \cup {compared}
  /\ compared' = 0 /\ evidence' = NoEvidence
  /\ UNCHANGED <<ticket, packet, review, stages, accepted, projected>>

Next ==
  \/ Begin
  \/ Submit
  \/ \E n \in DOMAIN projected.issues : Compare(n)
  \/ \E outcome \in Outcomes, shown \in 0 .. MaxShown : Answer(outcome, shown)

Spec == Init /\ [][Next]_vars

-----------------------------------------------------------------------------

\* The packet of a transcript holds every word the customer and support wrote,
\* in order and under its speaker: nothing is lost at a cut
\* (_speaker_turn_excerpts, _bounded_turn_excerpts).
EligibleTurnsComplete ==
  LET Said(turns, Of(_)) ==
        FlattenSeq([n \in DOMAIN turns |->
          [w \in DOMAIN Of(turns[n]) |-> <<turns[n].by, Of(turns[n])[w]>>]])
      TurnText(turn) == Text(turn.says)
      ExcerptText(x) == x.text
  IN IsTranscript(ticket) /\ packet # <<>> =>
       Said(packet, ExcerptText) = Said(Eligible(ticket), TurnText)

\* When a sentence under a label is left out of a labelled ticket's packet, each
\* excerpt of the packet is one under a label or names the public article of a
\* resolution (_unlabeled_ranked_excerpts and the cut to twelve).
LabelledNotDisplaced ==
  LET Labels(s) == {InheritedRole(ticket, ticket[i]) :
                      i \in {j \in DOMAIN ticket : s \in Range(ticket[j].says)}}
      Under(s) == Labels(s) \ {"none"} # {}
      all == UNION {Range(ticket[i].says) : i \in DOMAIN ticket}
      shown == {s \in all : \E n \in DOMAIN packet : packet[n].text = Cleaned(s)}
  IN ~ IsTranscript(ticket) /\ packet # <<>> /\ {s \in all \ shown : Under(s)} # {} =>
       \A n \in DOMAIN packet : \E s \in all :
         packet[n].text = Cleaned(s) /\ (Under(s) \/ About[s].url)

\* What opens an accepted issue, its symptoms and its question, was not said by
\* support alone (_reject_incompatible_issue_entry_speakers).
EntryNotSupportOnly ==
  \A i \in DOMAIN projected.issues :
    LET issue == projected.issues[i]
    IN \A o \in Range(issue.symptoms) \cup Range(issue.question) :
         \E r \in DOMAIN packet : packet[r].by # "support" /\ Quotes(packet[r].text, o.text)

\* An excerpt set aside as a duplicate has the text of one an issue uses: two
\* duplicates cannot set each other aside (_accepted_coverage_refs).
SetAsideIsDuplicate ==
  LET cited == UNION {IssueRefs(accepted.issues[i]) : i \in DOMAIN accepted.issues}
  IN \A r \in projected.setAside :
       packet[r].role = "unclassified_evidence" =>
         \E q \in cited : packet[q].text = packet[r].text

\* The operator is shown each article once, and only what can be reused or
\* updated (reuse_comparison.py).
DisplayedOnceEach ==
  LET shown == evidence.articles
  IN /\ {shown[n].article : n \in DOMAIN shown} \subseteq Reusable
     /\ Cardinality({shown[n].article : n \in DOMAIN shown}) = Len(shown)

\* An article has priority only if one turn of the ticket names it and says at
\* once that it helped; two turns quoted in one cause or answer do not
\* (confirmed_helpful_public_article).
NamedIsOnTicket ==
  LET Says(words) == \E n \in DOMAIN words :
                       Helps(words, n) /\ Names[words[n]] = evidence.named
  IN evidence.named # NoArticle /\ IsTranscript(ticket) =>
       \E n \in DOMAIN ticket : Says(Text(ticket[n].says))

\* A resolution that says an article helped puts that article first
\* (kcs-15-2b2-operator-confirmed-comparison-workflow.md).
NamedArticleFirst ==
  LET evidences == projected.issues[compared].resolution
      named == UNION {Range(Confirmed(evidences[n].text)) : n \in DOMAIN evidences}
  IN compared # 0 /\ evidence.status = "comparison_evidence_ready" /\ named # {} =>
       evidence.articles[1].article \in named
=============================================================================
